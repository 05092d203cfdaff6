-------------------------- MODULE MCWorkflowStore --------------------------
(* Instances of WorkflowStore for TLC. *)
EXTENDS WorkflowStore

CONSTANTS plan, hook, blank

\* A graph with a schedule, one with a webhook and one that is still empty.
Triggers == [g \in Graphs |-> CASE g = plan -> "SCHEDULE"
                                [] g = hook -> "WEBHOOK"
                                [] OTHER -> NoTrigger]
=============================================================================
