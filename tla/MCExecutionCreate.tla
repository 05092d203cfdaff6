------------------------- MODULE MCExecutionCreate -------------------------
(* Instances of ExecutionCreate for TLC. *)
EXTENDS ExecutionCreate

CONSTANTS f1, f2, s1

\* Two workflows of one workspace, which share its lock and its ceiling.
OneSpace == [w \in Workflows |-> s1]
=============================================================================
