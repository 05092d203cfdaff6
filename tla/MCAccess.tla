------------------------------- MODULE MCAccess -------------------------------
(* Tenancy and Accounts for TLC. The two share no variable, so a behaviour runs *)
(* the one or the other.                                                        *)
EXTENDS Tenancy, Accounts, TLC

CONSTANTS w1, w2, o1, o2

VARIABLE part

\* Each workspace is provisioned with an organisation of its own, or joins another.
Homes == [w \in Workspaces |-> IF w = w1 THEN o1 ELSE o2]

\* An administrator takes away the right to administer members.
Overrides == {NoOverrides, [members |-> {"view"}]}

Symmetric == Permutations(Users \ Admins) \cup Permutations(Requests)

AccessInit ==
  /\ Init /\ AccountsInit
  /\ \/ part = "tenancy"
     \/ part = "account" /\ ~overlap

AccessNext ==
  /\ UNCHANGED part
  /\ \/ part = "tenancy" /\ Next /\ UNCHANGED accountVars
     \/ part = "account" /\ AccountsNext /\ UNCHANGED vars

AccessSpec == AccessInit /\ [][AccessNext]_<<vars, accountVars, part>>
=============================================================================
