------------------------------ MODULE MCFiring ------------------------------
(* Firing for TLC: two bindings of each of two workspaces, so that two ticks  *)
(* may take the workspaces' locks crosswise.                                  *)
EXTENDS Firing

CONSTANTS b1, b2, b3, b4, s1, s2

Homes == [b \in Bindings |-> IF b \in {b1, b4} THEN s1 ELSE s2]

Armed == {b \in Bindings : binding[b].enabled}

\* Four schedules are due at once and nobody edits.
Crowded == Armed = Bindings /\ edits = MaxEdits /\ ticksLost = MaxCrashesOfTicks

\* Two schedules, one or both of them on, requests of the editor, and ticks that are lost.
Edited == /\ Armed \in {{b1, b3}, {b3}}
          /\ \A b \in Bindings \ Armed : binding[b].deleted <=> b # b1
          /\ edits = 0 /\ ticksLost = 0

MCFiringInit == FiringInit /\ (Crowded \/ Edited)

MCFiringSpec ==
  /\ MCFiringInit
  /\ [][FiringNext]_firingVars
  /\ FiringFairness
=============================================================================
