--------------------------- MODULE ExecutionCreate ---------------------------
(***************************************************************************)
(* executions.create (backend/app/services/executions.py) under concurrent *)
(* requests, one action per statement it sends: the idempotency lookup,    *)
(* the workspace's advisory lock, the two counts, the second lookup, the   *)
(* insert under the unique index, the commit.  The database runs READ      *)
(* COMMITTED: a statement sees what is committed when it starts.           *)
(***************************************************************************)
EXTENDS Integers, FiniteSets

CONSTANTS
  Requests,        \* HTTP requests and webhook calls; a retry is another request
  Workflows,
  Workspaces,
  WorkspaceOf,     \* the workspace of each workflow
  Keys,            \* values of the Idempotency-Key header
  None,            \* no key, no lock holder, no question
  MaxPerWorkflow,  \* settings.max_concurrent_executions_per_workflow
  DefaultCeiling,  \* settings.max_concurrent_executions_per_workspace
  Quotas           \* values an operator gives a workspace's ceiling, None to unset it

ASSUME WorkspaceOfAssumption == WorkspaceOf \in [Workflows -> Workspaces]
ASSUME NoneAssumption ==
  /\ None \notin Keys
  /\ None \notin Requests
  /\ None \notin [workflow : Workflows, key : Keys \cup {None}]
ASSUME LimitsAssumption ==
  /\ MaxPerWorkflow \in Nat \ {0}
  /\ DefaultCeiling \in Nat
  /\ Quotas \subseteq Nat \cup {None}

VARIABLES
  ask,     \* what each request asks for
  pc,      \* how far its transaction is
  ceiling, \* the workspace ceiling it read
  run,     \* the execution row a request inserted; pending until it commits
  lock,    \* per workspace: the transaction that holds the advisory lock
  quota,   \* per workspace: max_concurrent_executions
  reply    \* what a request answers, sent when its transaction ends

vars == <<ask, pc, ceiling, run, lock, quota, reply>>

Question == [workflow : Workflows, key : Keys \cup {None}]
Reply(kind, d) == [kind |-> kind, run |-> d]
NoReply == Reply("none", None)

Phases == {"new", "waiting", "locked", "refused", "admitted", "conflict",
           "inserted", "answered", "ended"}

Init ==
  /\ ask = [c \in Requests |-> None]
  /\ pc = [c \in Requests |-> "new"]
  /\ ceiling = [c \in Requests |-> 0]
  /\ run = [c \in Requests |-> "none"]
  /\ lock = [s \in Workspaces |-> None]
  /\ quota \in [Workspaces -> Quotas]
  /\ reply = [c \in Requests |-> NoReply]

----------------------------------------------------------------------------
Space(c) == WorkspaceOf[ask[c].workflow]

Committed(d) == run[d] \in {"active", "ended"}

\* _by_idempotency_key for a question; and what the unique index compares.
Named(q) == {d \in Requests : Committed(d) /\ ask[d] = q /\ q.key # None}

\* Active rows the transaction of c sees; it has none of its own yet.
Running(c) == {d \in Requests : run[d] = "active" /\ ask[d].workflow = ask[c].workflow}
RunningInSpace(c) == {d \in Requests : run[d] = "active" /\ Space(d) = Space(c)}

Answer(c, r) ==
  /\ reply' = [reply EXCEPT ![c] = r]
  /\ pc' = [pc EXCEPT ![c] = "answered"]

Goto(c, phase) == pc' = [pc EXCEPT ![c] = phase]

\* A fault to detect: a quota nobody set is taken as it is.
CeilingUndefaulted(configured) == configured

\* workspace_ceiling, for the workspace's max_concurrent_executions
Ceiling(configured) ==
  IF configured # None /\ configured > 0 THEN configured ELSE DefaultCeiling

\* The request arrives and looks its key up.  The workspace was loaded with the
\* caller's context, so its ceiling may be read from that copy.
Begin(c) ==
  /\ pc[c] = "new"
  /\ \E q \in Question :
       /\ ask' = [ask EXCEPT ![c] = q]
       /\ ceiling' = [ceiling EXCEPT ![c] = Ceiling(quota[WorkspaceOf[q.workflow]])]
       /\ \/ Named(q) = {} /\ Goto(c, "waiting") /\ UNCHANGED reply
          \/ \E d \in Named(q) : Answer(c, Reply("run", d))
  /\ UNCHANGED <<run, lock, quota>>

\* A fault to detect: nobody waits.
LockSkipped(c) ==
  /\ pc[c] = "waiting"
  /\ Goto(c, "locked")
  /\ UNCHANGED <<ask, ceiling, run, lock, quota, reply>>

\* pg_advisory_xact_lock
Lock(c) ==
  /\ pc[c] = "waiting"
  /\ lock[Space(c)] = None
  /\ lock' = [lock EXCEPT ![Space(c)] = c]
  /\ Goto(c, "locked")
  /\ UNCHANGED <<ask, ceiling, run, quota, reply>>

\* _check_concurrency.  Its statements are one step: no row is added while the
\* lock is held, so the counts can only fall between them.
Check(c) ==
  /\ pc[c] = "locked"
  /\ \E limit \in {ceiling[c], Ceiling(quota[Space(c)])} :
       /\ ceiling' = [ceiling EXCEPT ![c] = limit]
       /\ \/ /\ Cardinality(Running(c)) < MaxPerWorkflow
             /\ Cardinality(RunningInSpace(c)) < limit
             /\ Goto(c, "admitted")
          \/ /\ \/ Cardinality(Running(c)) >= MaxPerWorkflow
                \/ Cardinality(RunningInSpace(c)) >= limit
             /\ Goto(c, "refused")
  /\ UNCHANGED <<ask, run, lock, quota, reply>>

\* A fault to detect: the refusal is raised at once.
SecondLookupSkipped(c) ==
  /\ pc[c] = "refused"
  /\ Answer(c, Reply("refused", None))
  /\ UNCHANGED <<ask, ceiling, run, lock, quota>>

\* A replay must never be refused for concurrency: the key is looked up again.
SecondLookup(c) ==
  /\ pc[c] = "refused"
  /\ \/ Named(ask[c]) = {} /\ Answer(c, Reply("refused", None))
     \/ \E d \in Named(ask[c]) : Answer(c, Reply("run", d))
  /\ UNCHANGED <<ask, ceiling, run, lock, quota>>

\* A fault to detect: no unique index on (workspace, workflow, key).
InsertUnindexed(c) ==
  /\ pc[c] = "admitted"
  /\ run' = [run EXCEPT ![c] = "pending"]
  /\ Goto(c, "inserted")
  /\ UNCHANGED <<ask, ceiling, lock, quota, reply>>

\* The insert, in a savepoint.  It would wait for another transaction's row with
\* the same key, and fails when such a row is committed.
Insert(c) ==
  /\ pc[c] = "admitted"
  /\ ~ \E d \in Requests : run[d] = "pending" /\ ask[d] = ask[c] /\ ask[c].key # None
  /\ \/ /\ Named(ask[c]) = {}
        /\ run' = [run EXCEPT ![c] = "pending"]
        /\ Goto(c, "inserted")
     \/ /\ Named(ask[c]) # {}
        /\ Goto(c, "conflict")
        /\ UNCHANGED run
  /\ UNCHANGED <<ask, ceiling, lock, quota, reply>>

\* IntegrityError: the row that is in the way is the answer.
ReadWinner(c) ==
  /\ pc[c] = "conflict"
  /\ \E d \in Named(ask[c]) : Answer(c, Reply("run", d))
  /\ UNCHANGED <<ask, ceiling, run, lock, quota>>

\* A fault to detect: the lock belongs to the connection, which goes back to the
\* pool still holding it when a transaction fails.
ReleaseKept(c) ==
  lock' = IF reply'[c].kind = "failed" THEN lock
          ELSE [s \in Workspaces |-> IF lock[s] = c THEN None ELSE lock[s]]

\* The lock is the transaction's and goes with it, however it ends.
Release(c) == lock' = [s \in Workspaces |-> IF lock[s] = c THEN None ELSE lock[s]]

\* The transaction commits and the response is sent.
Commit(c) ==
  /\ pc[c] \in {"inserted", "answered"}
  /\ IF pc[c] = "inserted"
     THEN /\ run' = [run EXCEPT ![c] = "active"]
          /\ reply' = [reply EXCEPT ![c] = Reply("run", c)]
     ELSE UNCHANGED <<run, reply>>
  /\ Goto(c, "ended")
  /\ Release(c)
  /\ UNCHANGED <<ask, ceiling, quota>>

\* The workflow is not published or not valid, or the process dies: rolled back.
Fail(c) ==
  /\ pc[c] \notin {"new", "ended"}
  /\ run' = [run EXCEPT ![c] = "none"]
  /\ reply' = [reply EXCEPT ![c] = Reply("failed", None)]
  /\ Goto(c, "ended")
  /\ Release(c)
  /\ UNCHANGED <<ask, ceiling, quota>>

\* A worker records the end of a run (RunSaga).
EndRun(d) ==
  /\ run[d] = "active"
  /\ run' = [run EXCEPT ![d] = "ended"]
  /\ UNCHANGED <<ask, pc, ceiling, lock, quota, reply>>

\* python -m app.provision quota
SetQuota(s) ==
  /\ \E n \in Quotas : quota' = [quota EXCEPT ![s] = n]
  /\ UNCHANGED <<ask, pc, ceiling, run, lock, reply>>

----------------------------------------------------------------------------
Proceed(c) ==
  \/ Check(c)
  \/ SecondLookup(c)
  \/ Insert(c)
  \/ ReadWinner(c)
  \/ Commit(c)

Next ==
  \/ \E c \in Requests : Begin(c) \/ Lock(c) \/ Proceed(c) \/ Fail(c) \/ EndRun(c)
  \/ \E s \in Workspaces : SetQuota(s)

Spec == Init /\ [][Next]_vars

\* PostgreSQL grants an advisory lock in the order it was asked for, so no one
\* waits for it for ever; a handler that is not waiting goes on.
Fairness ==
  \A c \in Requests : WF_vars(Proceed(c)) /\ SF_vars(Lock(c))

FairSpec == Spec /\ Fairness

----------------------------------------------------------------------------
(* Properties *)

\* Types of all state; a ceiling is a number even where no quota is set.
TypeOK ==
  /\ ask \in [Requests -> Question \cup {None}]
  /\ pc \in [Requests -> Phases]
  /\ ceiling \in [Requests -> Nat]
  /\ run \in [Requests -> {"none", "pending", "active", "ended"}]
  /\ lock \in [Workspaces -> Requests \cup {None}]
  /\ quota \in [Workspaces -> Quotas]
  /\ reply \in [Requests -> [kind : {"none", "run", "refused", "failed"},
                             run : Requests \cup {None}]]

\* "The quota was a number the product displayed rather than one it kept": from
\* the count to the commit nobody slips in, so that a run let in is within both
\* limits, the ones it was checked against, at every moment until it is visible.
CeilingsKept ==
  \A c \in Requests : pc[c] \in {"admitted", "inserted"} =>
    /\ Cardinality(Running(c)) < MaxPerWorkflow
    /\ Cardinality(RunningInSpace(c)) < ceiling[c]

\* A replay is never refused for concurrency: while a refusal stands and until it
\* is sent, no run of that key is there that the caller should have been given.
ReplayNeverRefused ==
  \A c \in Requests :
    pc[c] = "answered" /\ reply[c].kind = "refused" => Named(ask[c]) = {}

\* The promise to callers, over what they can see: committed rows and replies
\* that were sent.
Queue == INSTANCE RunQueue WITH
  run <- [c \in Requests |-> IF Committed(c) THEN run[c] ELSE "none"],
  reply <- [c \in Requests |-> IF pc[c] = "ended" THEN reply[c] ELSE NoReply]

\* Each request behaves as if it had been handled at one instant, whatever other
\* requests, ends of runs, quota changes and rollbacks happen in between.
ImplementsRunQueue == Queue!Spec

\* Every request is answered: nobody waits for the lock for ever, however the
\* transactions before it ended.
EveryRequestAnswered ==
  \A c \in Requests : pc[c] # "new" ~> pc[c] = "ended"
==============================================================================
