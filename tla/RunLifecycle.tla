---------------------------- MODULE RunLifecycle ----------------------------
(***************************************************************************)
(* What the product promises about the status of a run: the state machine  *)
(* of ExecutionStatus (models/enums.py, SRS 16.1) for runs nobody cancels, *)
(* with the rule that a workflow has one run at a time (SRS 30.3).  One    *)
(* variable, no processes: RunSaga is shown to implement it while work is  *)
(* prompt, one worker runs and no request cancels.                         *)
(***************************************************************************)
CONSTANTS
  Executions,   \* execution ids that may be created
  WorkflowOf    \* the workflow of each execution

VARIABLE status   \* what every screen of the product shows

Unfinished == {"QUEUED", "DISPATCHING", "RUNNING"}
Ends == {"SUCCEEDED", "FAILED", "TIMED_OUT", "CANCELLED", "ENGINE_INTERRUPTED"}

Init == status = [e \in Executions |-> "ABSENT"]

Becomes(e, new) == status' = [status EXCEPT ![e] = new]

Enqueue(e) ==
  /\ status[e] = "ABSENT"
  /\ \A f \in Executions : WorkflowOf[f] = WorkflowOf[e] => status[f] \notin Unfinished
  /\ Becomes(e, "QUEUED")

\* A worker takes any number of queued runs at once.
TakeUp(S) ==
  /\ \A e \in S : status[e] = "QUEUED"
  /\ status' = [e \in Executions |-> IF e \in S THEN "DISPATCHING" ELSE status[e]]

PutBack(e) == status[e] = "DISPATCHING" /\ Becomes(e, "QUEUED")

GiveUp(e) == status[e] = "DISPATCHING" /\ Becomes(e, "FAILED_TO_START")

Start(e) == status[e] = "DISPATCHING" /\ Becomes(e, "RUNNING")

End(e) == status[e] = "RUNNING" /\ \E new \in Ends : Becomes(e, new)

Next ==
  \/ \E S \in SUBSET Executions : TakeUp(S)
  \/ \E e \in Executions : Enqueue(e) \/ PutBack(e) \/ GiveUp(e) \/ Start(e) \/ End(e)

Spec == Init /\ [][Next]_status

\* A workflow has at most one run that has not ended (SRS 30.3).
OneRunAtATime ==
  \A e, f \in Executions :
    WorkflowOf[e] = WorkflowOf[f] /\ status[e] \in Unfinished /\ status[f] \in Unfinished
      => e = f
=============================================================================
