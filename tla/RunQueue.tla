------------------------------ MODULE RunQueue ------------------------------
(***************************************************************************)
(* What executions.create promises a caller, as if every request were      *)
(* handled at one instant: a key names one run for ever, a refusal means   *)
(* that no such run exists, and a workflow has at most MaxPerWorkflow runs *)
(* going on.  ExecutionCreate is shown to implement it.                    *)
(***************************************************************************)
EXTENDS Integers, FiniteSets

CONSTANTS
  Requests,       \* requests to run a workflow; a run is named by the one that made it
  Workflows,
  Keys,           \* values of the Idempotency-Key header
  None,           \* no key, no question asked yet
  MaxPerWorkflow  \* settings.max_concurrent_executions_per_workflow

VARIABLES
  ask,    \* what each request asks for
  run,    \* the runs every caller can see
  reply   \* what each request was answered

queue == <<ask, run, reply>>

Question == [workflow : Workflows, key : Keys \cup {None}]
NoReply == [kind |-> "none", run |-> None]
Reply(kind, d) == [kind |-> kind, run |-> d]

Init ==
  /\ ask = [c \in Requests |-> None]
  /\ run = [c \in Requests |-> "none"]
  /\ reply = [c \in Requests |-> NoReply]

\* The run the key of request c names already, and the runs it would overlap.
Named(c) == {d \in Requests : run[d] # "none" /\ ask[d] = ask[c] /\ ask[c].key # None}
Overlapping(c) ==
  {d \in Requests : run[d] = "active" /\ ask[d].workflow = ask[c].workflow}

Waiting(c) == ask[c] # None /\ reply[c] = NoReply

Ask(c) ==
  /\ ask[c] = None
  /\ \E q \in Question : ask' = [ask EXCEPT ![c] = q]
  /\ UNCHANGED <<run, reply>>

Create(c) ==
  /\ Waiting(c)
  /\ Named(c) = {}
  /\ run[c] = "none"
  /\ Cardinality(Overlapping(c)) < MaxPerWorkflow
  /\ run' = [run EXCEPT ![c] = "active"]
  /\ reply' = [reply EXCEPT ![c] = Reply("run", c)]
  /\ UNCHANGED ask

Replay(c) ==
  /\ Waiting(c)
  /\ \E d \in Named(c) : reply' = [reply EXCEPT ![c] = Reply("run", d)]
  /\ UNCHANGED <<ask, run>>

Refuse(c) ==
  /\ Waiting(c)
  /\ Named(c) = {}
  /\ reply' = [reply EXCEPT ![c] = Reply("refused", None)]
  /\ UNCHANGED <<ask, run>>

Fail(c) ==
  /\ Waiting(c)
  /\ reply' = [reply EXCEPT ![c] = Reply("failed", None)]
  /\ UNCHANGED <<ask, run>>

End(d) ==
  /\ run[d] = "active"
  /\ run' = [run EXCEPT ![d] = "ended"]
  /\ UNCHANGED <<ask, reply>>

Next == \E c \in Requests : Ask(c) \/ Create(c) \/ Replay(c) \/ Refuse(c) \/ Fail(c) \/ End(c)

Spec == Init /\ [][Next]_queue

\* Same key, same answer (SRS 27.4): two requests that were both given a run for
\* one key of one workflow were given the same run.
SameKeySameAnswer ==
  \A c, d \in Requests :
    /\ reply[c].kind = "run" /\ reply[d].kind = "run"
    /\ ask[c] = ask[d] /\ ask[c].key # None
    => reply[c].run = reply[d].run
=============================================================================
