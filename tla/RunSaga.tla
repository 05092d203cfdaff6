------------------------------ MODULE RunSaga ------------------------------
(***************************************************************************)
(* The run of a workflow as a distributed saga: the `executions` rows in   *)
(* the product database, the worker processes that dispatch and reconcile  *)
(* them, the API requests that cancel them, and the engine that runs them  *)
(* in memory.  Written from                                                *)
(*   backend/app/services/executions.py  (claim, dispatch, poll, ingest,   *)
(*                                        mark_interrupted, cancel)        *)
(*   backend/app/worker.py               (dispatch and reconcile loops)    *)
(*   workflow-engine/src/runtime/execution-manager.ts                      *)
(*                                                                         *)
(* Every action is one database transaction, one engine request handler,   *)
(* or one message lost.  Between two actions of a loop its in-memory ORM   *)
(* copies grow stale, which is where the interesting behaviours come from: *)
(* no writer of a row checks its status again before overwriting it.       *)
(***************************************************************************)
EXTENDS Integers, FiniteSets

CONSTANTS
  Executions,     \* execution ids that may be created
  Workflows,      \* workflows they belong to
  WorkflowOf,     \* the workflow of each execution
  Workers,        \* worker processes; worker.py says more than one is safe
  Requests,       \* API requests that may be busy cancelling a run
  Refs,           \* engine refs that may be handed out
  None,           \* SQL NULL, an absent map entry
  BatchSize,      \* settings.worker_batch_size
  EngineMax,      \* config.maxConcurrentExecutions of the engine
  MaxCrashes,     \* bound: process crashes and abandoned loop turns
  Prompt,         \* no stretch of work outlasts the stale window (see Silence)
  ResultsExpire,  \* a stored result may outlive its TTL before it is read
  StartMayThrow   \* the engine library may throw while a run is being started

ASSUME WorkflowOfAssumption == WorkflowOf \in [Executions -> Workflows]
ASSUME NoneAssumption == None \notin Executions /\ None \notin Refs
ASSUME BoundsAssumption ==
  /\ BatchSize \in Nat \ {0}
  /\ EngineMax \in Nat \ {0}
  /\ MaxCrashes \in Nat
ASSUME SwitchAssumption ==
  /\ Prompt \in BOOLEAN
  /\ ResultsExpire \in BOOLEAN
  /\ StartMayThrow \in BOOLEAN

VARIABLES
  row,      \* the committed `executions` rows
  batch,    \* per worker: rows claimed by this turn of the dispatch loop
  call,     \* per worker: the engine call of the row being dispatched
  copy,     \* per worker: rows loaded by this turn of the reconcile loop
  heard,    \* per worker: the engine's answer to the poll in progress
  cancel,   \* per API request: the row it loaded and is cancelling
  run,      \* engine: the maps `active` and `results`, and what became of a ref
  idem,     \* engine: the idempotency map, execution id -> ref
  late,     \* dispatch requests whose caller gave up before the engine saw them
  crashes   \* bound: crashes and abandoned turns so far

workerVars == <<batch, call, copy, heard>>
engineVars == <<run, idem, late>>
vars == <<row, batch, call, copy, heard, cancel, run, idem, late, crashes>>

----------------------------------------------------------------------------
(* Statuses and records *)

InFlight == {"DISPATCHING", "RUNNING", "CANCEL_REQUESTED"}
Active == {"QUEUED"} \cup InFlight
Outcomes == {"SUCCEEDED", "FAILED", "TIMED_OUT", "CANCELLED"}
Terminal == Outcomes \cup {"FAILED_TO_START", "ENGINE_INTERRUPTED"}
Statuses == {"ABSENT"} \cup Active \cup Terminal

\* old: last_seen_at (or queued_at) lies further back than the stale window.
Row == [status : Statuses, ref : Refs \cup {None}, old : BOOLEAN]
Absent == [status |-> "ABSENT", ref |-> None, old |-> FALSE]

\* A dispatch call: pending until the engine's handler ran.
CallStates == {"idle", "pending", "started", "refused", "unavailable"}
Call == [state : CallStates, exec : Executions \cup {None}, ref : Refs \cup {None}]
NoCall == [state |-> "idle", exec |-> None, ref |-> None]

\* The answer to a poll: an outcome, RUNNING, UNKNOWN (404) or UNAVAILABLE.
Words == Outcomes \cup {"NONE", "RUNNING", "UNKNOWN", "UNAVAILABLE"}
Answer == [exec : Executions \cup {None}, word : Words]
NoAnswer == [exec |-> None, word |-> "NONE"]

\* word: the engine's answer, when a request holds it without the row's lock.
Cancelling == [exec : Executions \cup {None}, seen : Row, word : Words]
NoCancel == [exec |-> None, seen |-> Absent, word |-> "NONE"]

\* active and stuck are the map `active` (a stuck run has no promise and no
\* timer), stored is the map `results`, lost is in neither map any more; a lost
\* run keeps its outcome here so that properties can refer to it.
Phases == {"unused", "active", "stuck", "stored", "lost"}
Run == [phase : Phases, exec : Executions \cup {None}, cancelled : BOOLEAN,
        outcome : Outcomes \cup {"NONE"}]
Unused == [phase |-> "unused", exec |-> None, cancelled |-> FALSE, outcome |-> "NONE"]

Init ==
  /\ row = [e \in Executions |-> Absent]
  /\ batch = [w \in Workers |-> {}]
  /\ call = [w \in Workers |-> NoCall]
  /\ copy = [w \in Workers |-> [e \in Executions |-> Absent]]
  /\ heard = [w \in Workers |-> NoAnswer]
  /\ cancel = [c \in Requests |-> NoCancel]
  /\ run = [r \in Refs |-> Unused]
  /\ idem = [e \in Executions |-> None]
  /\ late = {}
  /\ crashes = 0

----------------------------------------------------------------------------
(* Creation: the transaction of executions.create, atomic because of the   *)
(* workspace's advisory lock; module ExecutionCreate opens it up.          *)

\* A fault to detect: _check_concurrency left out.
CreateUnchecked(e) ==
  /\ row[e].status = "ABSENT"
  /\ row' = [row EXCEPT ![e].status = "QUEUED"]
  /\ UNCHANGED <<workerVars, engineVars, cancel, crashes>>

Create(e) ==
  /\ row[e].status = "ABSENT"
  /\ \A f \in Executions :
       WorkflowOf[f] = WorkflowOf[e] => row[f].status \notin Active
  /\ row' = [row EXCEPT ![e].status = "QUEUED"]
  /\ UNCHANGED <<workerVars, engineVars, cancel, crashes>>

----------------------------------------------------------------------------
(* The engine *)

Live(r) == run[r].phase \in {"active", "stuck"}

\* Two faults to detect: a status outside the contract is passed on, and a run
\* the engine lost is reported as one that failed.
StatusOfUnparsed(r) ==
  IF run[r].phase = "stored" THEN run[r].outcome ELSE IF Live(r) THEN "RUNNING" ELSE "LOST"

StatusOfForgetful(r) ==
  IF run[r].phase = "stored" THEN run[r].outcome ELSE IF Live(r) THEN "RUNNING" ELSE "FAILED"

\* statusOf(ref), as the product's adapter reads the response
StatusOf(r) ==
  IF run[r].phase = "stored" THEN run[r].outcome
  ELSE IF Live(r) THEN "RUNNING"
  ELSE "UNKNOWN"

\* sweep(): results past their TTL leave, then keys whose ref is nowhere.
Expired(gone) ==
  [r \in Refs |-> IF r \in gone THEN [run[r] EXCEPT !.phase = "lost"] ELSE run[r]]

KeysAfter(gone) ==
  [e \in Executions |->
     IF \E r \in Refs \ gone : r = idem[e] /\ (Live(r) \/ run[r].phase = "stored")
     THEN idem[e] ELSE None]

Sweepable ==
  IF ResultsExpire THEN SUBSET {r \in Refs : run[r].phase = "stored"} ELSE {{}}

NewRun(e, phase) ==
  [phase |-> phase, exec |-> e, cancelled |-> FALSE, outcome |-> "NONE"]

\* A fault to detect: the key is not looked up.
LookupSkipped(e, keys) == None

\* The idempotency lookup of startExecution
Lookup(e, keys) == keys[e]

\* startExecution(request) and the route around it: state and ref are the reply.
StartExecution(e, state, ref) ==
  \E gone \in Sweepable :
    LET keys == KeysAfter(gone)
        full == Cardinality({r \in Refs : Live(r)}) >= EngineMax
    IN
    \/ /\ Lookup(e, keys) # None
       /\ state = "started" /\ ref = Lookup(e, keys)
       /\ run' = Expired(gone) /\ idem' = keys
    \/ /\ Lookup(e, keys) = None /\ full
       /\ state = "unavailable" /\ ref = None
       /\ run' = Expired(gone) /\ idem' = keys
    \/ /\ Lookup(e, keys) = None /\ ~full   \* does not compile: 422
       /\ state = "refused" /\ ref = None
       /\ run' = Expired(gone) /\ idem' = keys
    \/ /\ Lookup(e, keys) = None /\ ~full
       /\ \E r \in Refs :
            /\ run[r].phase = "unused"
            /\ run' = [Expired(gone) EXCEPT ![r] = NewRun(e, "active")]
            /\ idem' = [keys EXCEPT ![e] = r]
            /\ state = "started" /\ ref = r
    \/ /\ StartMayThrow   \* after the maps were written, before the timer is: 500
       /\ Lookup(e, keys) = None /\ ~full
       /\ \E r \in Refs :
            /\ run[r].phase = "unused"
            /\ run' = [Expired(gone) EXCEPT ![r] = NewRun(e, "stuck")]
            /\ idem' = [keys EXCEPT ![e] = r]
       /\ state = "unavailable" /\ ref = None

\* The engine handles the dispatch call worker w is waiting on.
Accept(w) ==
  /\ call[w].state = "pending"
  /\ \E state \in {"started", "refused", "unavailable"}, ref \in Refs \cup {None} :
       /\ StartExecution(call[w].exec, state, ref)
       /\ call' = [call EXCEPT ![w].state = state, ![w].ref = ref]
  /\ UNCHANGED <<row, batch, copy, heard, cancel, late, crashes>>

\* The engine handles a request nobody waits for any more.
AcceptLate(e) ==
  /\ e \in late
  /\ \E state \in {"started", "refused", "unavailable"}, ref \in Refs \cup {None} :
       StartExecution(e, state, ref)
  /\ late' = late \ {e}
  /\ UNCHANGED <<row, workerVars, cancel, crashes>>

\* finish / failRun: a requested cancel outranks a timeout, which outranks the rest.
Finish(r) ==
  /\ run[r].phase = "active"
  /\ \E o \in IF run[r].cancelled THEN {"CANCELLED"} ELSE Outcomes \ {"CANCELLED"} :
       run' = [run EXCEPT ![r].phase = "stored", ![r].outcome = o]
  /\ UNCHANGED <<row, workerVars, cancel, idem, late, crashes>>

\* Everything the engine knows is in memory.  Open connections break.
EngineCrash ==
  /\ crashes < MaxCrashes
  /\ crashes' = crashes + 1
  /\ run' = [r \in Refs |-> IF run[r].phase = "unused" THEN run[r]
                            ELSE [run[r] EXCEPT !.phase = "lost"]]
  /\ idem' = [e \in Executions |-> None]
  /\ late' = {}
  /\ call' = [w \in Workers |-> IF call[w].state = "pending"
                                THEN [call[w] EXCEPT !.state = "unavailable"]
                                ELSE call[w]]
  /\ UNCHANGED <<row, batch, copy, heard, cancel>>

----------------------------------------------------------------------------
(* The dispatch loop of a worker *)

Queued == {e \in Executions : row[e].status = "QUEUED"}

\* claim_queued and the statuses set under its row locks: one transaction.
Claim(w) ==
  /\ batch[w] = {}
  /\ \E S \in SUBSET Queued :
       /\ S # {}
       /\ S = Queued \/ Cardinality(S) = BatchSize
       /\ Cardinality(S) <= BatchSize
       /\ batch' = [batch EXCEPT ![w] = S]
       /\ row' = [e \in Executions |->
                    IF e \in S THEN [row[e] EXCEPT !.status = "DISPATCHING"] ELSE row[e]]
  /\ UNCHANGED <<call, copy, heard, cancel, engineVars, crashes>>

\* dispatch, up to the engine call: only last_seen_at is written, because the
\* status assigned is the one the in-memory copy already has.
Post(w, e) ==
  /\ e \in batch[w]
  /\ call[w].state = "idle"
  /\ row' = [row EXCEPT ![e].old = FALSE]
  /\ call' = [call EXCEPT ![w] = [state |-> "pending", exec |-> e, ref |-> None]]
  /\ UNCHANGED <<batch, copy, heard, cancel, engineVars, crashes>>

\* The row is done with for this turn of the loop.
Release(w) ==
  /\ batch' = [batch EXCEPT ![w] = @ \ {call[w].exec}]
  /\ call' = [call EXCEPT ![w] = NoCall]

\* A request the caller gave up on may still reach the engine, or never.
Abandon(w) ==
  late' \in IF call[w].state = "pending" THEN {late, late \cup {call[w].exec}} ELSE {late}

\* dispatch: the engine accepted.
DispatchStarted(w) ==
  /\ call[w].state = "started"
  /\ row' = [row EXCEPT ![call[w].exec] =
               [status |-> "RUNNING", ref |-> call[w].ref, old |-> FALSE]]
  /\ Release(w)
  /\ UNCHANGED <<copy, heard, cancel, engineVars, crashes>>

\* dispatch: EngineUnavailableError.  A busy engine, a broken connection, or a
\* timeout, in which case the engine may have handled the call or still will.
DispatchDeferred(w) ==
  /\ call[w].state # "idle"
  /\ row' = [row EXCEPT ![call[w].exec].status = "QUEUED"]
  /\ Release(w)
  /\ Abandon(w)
  /\ UNCHANGED <<copy, heard, cancel, run, idem, crashes>>

\* dispatch: any other AppError.
DispatchRefused(w) ==
  /\ call[w].state = "refused"
  /\ row' = [row EXCEPT ![call[w].exec].status = "FAILED_TO_START"]
  /\ Release(w)
  /\ UNCHANGED <<copy, heard, cancel, engineVars, crashes>>

\* Any other exception: rolled back, and because the rollback expires the
\* batch's objects the handler's own log line raises, which leaves the for loop.
DispatchAborts(w) ==
  /\ batch[w] # {}
  /\ crashes < MaxCrashes
  /\ crashes' = crashes + 1
  /\ batch' = [batch EXCEPT ![w] = {}]
  /\ call' = [call EXCEPT ![w] = NoCall]
  /\ Abandon(w)
  /\ UNCHANGED <<row, copy, heard, cancel, run, idem>>

----------------------------------------------------------------------------
(* The reconcile loop of a worker *)

\* active_executions: one query at the start of a turn; the copies it returns
\* are what the rest of the turn works on.
PassBegin(w) ==
  /\ copy[w] = [e \in Executions |-> Absent]
  /\ \E e \in Executions : row[e].status \in InFlight
  /\ copy' = [copy EXCEPT ![w] =
                [e \in Executions |-> IF row[e].status \in InFlight THEN row[e] ELSE Absent]]
  /\ UNCHANGED <<row, batch, call, heard, cancel, engineVars, crashes>>

\* poll: the question and the engine's answer, or silence.
Poll(w, e) ==
  /\ heard[w] = NoAnswer
  /\ copy[w][e].ref # None
  /\ \E word \in {StatusOf(copy[w][e].ref), "UNAVAILABLE"} :
       heard' = [heard EXCEPT ![w] = [exec |-> e, word |-> word]]
  /\ UNCHANGED <<row, batch, call, copy, cancel, engineVars, crashes>>

\* A fault to detect: silence never lasts long enough.
ElapsedNever(seen) == {FALSE}

\* Whether the stale window has passed since the copy's reference time.  Unless
\* work is Prompt, any amount of time may have passed by now.
Elapsed(seen) == IF Prompt THEN {seen.old} ELSE BOOLEAN

\* Faults to detect: stale rows are put back into the queue, those without an
\* engine run or all of them, and the two verdicts swapped.
StaleStatusRetry(ref) == IF ref = None THEN "QUEUED" ELSE "ENGINE_INTERRUPTED"
StaleStatusRetryAll(ref) == "QUEUED"
StaleStatusSwapped(ref) == IF ref # None THEN "FAILED_TO_START" ELSE "ENGINE_INTERRUPTED"

\* _interrupt_if_stale on a row with this engine ref
StaleStatus(ref) == IF ref = None THEN "FAILED_TO_START" ELSE "ENGINE_INTERRUPTED"

Forget(w, e) == copy' = [copy EXCEPT ![w][e] = Absent]

\* ingest of a status the engine reported, on a row loaded with status `loaded`.
Ingest(current, loaded, word) ==
  [current EXCEPT
     !.old = FALSE,
     !.status = IF word # "RUNNING" THEN word
                ELSE IF loaded = "DISPATCHING" THEN "RUNNING" ELSE @]

\* The rest of the turn for a polled row: poll's ingest or mark_interrupted,
\* then _interrupt_if_stale on the same copy, then the commit.
PollIngest(w) ==
  LET e == heard[w].exec
      seen == copy[w][e]
  IN
  /\ heard[w] # NoAnswer
  /\ \/ /\ heard[w].word \in Outcomes \cup {"RUNNING"}
        /\ row' = [row EXCEPT ![e] = Ingest(@, seen.status, heard[w].word)]
     \/ /\ heard[w].word = "UNKNOWN"
        /\ row' = [row EXCEPT ![e].status = "ENGINE_INTERRUPTED"]
     \/ /\ heard[w].word = "UNAVAILABLE"
        /\ \E stale \in Elapsed(seen) :
             row' = IF stale THEN [row EXCEPT ![e].status = StaleStatus(seen.ref)] ELSE row
  /\ heard' = [heard EXCEPT ![w] = NoAnswer]
  /\ Forget(w, e)
  /\ UNCHANGED <<batch, call, cancel, engineVars, crashes>>

\* A copy without engine ref is not polled, only checked for staleness.
CheckUnpolled(w, e) ==
  /\ copy[w][e].status # "ABSENT"
  /\ copy[w][e].ref = None
  /\ heard[w] = NoAnswer
  /\ \E stale \in Elapsed(copy[w][e]) :
       row' = IF stale THEN [row EXCEPT ![e].status = StaleStatus(None)] ELSE row
  /\ Forget(w, e)
  /\ UNCHANGED <<batch, call, heard, cancel, engineVars, crashes>>

\* An exception in the turn: the rest of it is abandoned, as in DispatchAborts.
PassAborts(w) ==
  /\ copy[w] # [e \in Executions |-> Absent]
  /\ crashes < MaxCrashes
  /\ crashes' = crashes + 1
  /\ copy' = [copy EXCEPT ![w] = [e \in Executions |-> Absent]]
  /\ heard' = [heard EXCEPT ![w] = NoAnswer]
  /\ UNCHANGED <<row, batch, call, cancel, engineVars>>

\* The worker process dies and is started again with nothing in memory.
WorkerCrash(w) ==
  /\ batch[w] # {} \/ copy[w] # [e \in Executions |-> Absent]
  /\ crashes < MaxCrashes
  /\ crashes' = crashes + 1
  /\ batch' = [batch EXCEPT ![w] = {}]
  /\ call' = [call EXCEPT ![w] = NoCall]
  /\ copy' = [copy EXCEPT ![w] = [e \in Executions |-> Absent]]
  /\ heard' = [heard EXCEPT ![w] = NoAnswer]
  /\ Abandon(w)
  /\ UNCHANGED <<row, cancel, run, idem>>

\* Time: the engine has not confirmed the row for the whole stale window.  Work
\* being Prompt means that the window outlasts any wait in the queue, any batch
\* of dispatch calls and (see Elapsed) any turn of the reconcile loop.
Silence(e) ==
  /\ Prompt
  /\ row[e].status \in InFlight
  /\ ~row[e].old
  /\ \A w \in Workers : e \notin batch[w]
  /\ row' = [row EXCEPT ![e].old = TRUE]
  /\ UNCHANGED <<workerVars, cancel, engineVars, crashes>>

----------------------------------------------------------------------------
(* Cancelling.  The request loads the row, then in one transaction marks    *)
(* it, asks the engine while it holds the row's lock, and commits.          *)

CancelBegin(c, e) ==
  /\ cancel[c] = NoCancel
  /\ row[e].status \in Active
  /\ cancel' = [cancel EXCEPT ![c] = [exec |-> e, seen |-> row[e], word |-> "NONE"]]
  /\ UNCHANGED <<row, workerVars, engineVars, crashes>>

\* A flush writes a column only when it differs from the value loaded.
Flushed(current, loaded, new) == IF new = loaded THEN current ELSE new

Marked(c) ==
  [row EXCEPT ![cancel[c].exec].status =
     Flushed(@, cancel[c].seen.status, "CANCEL_REQUESTED")]

Respond(c) == cancel' = [cancel EXCEPT ![c] = NoCancel]

\* A fault to detect: the second assignment of the branch is left out.
CancelUndispatchedMarks(c) ==
  /\ cancel[c] # NoCancel
  /\ cancel[c].seen.ref = None
  /\ row' = [row EXCEPT ![cancel[c].exec].status = "CANCEL_REQUESTED"]
  /\ Respond(c)
  /\ UNCHANGED <<workerVars, engineVars, crashes>>

\* No engine ref in the loaded row: cancelled on the spot.
CancelUndispatched(c) ==
  /\ cancel[c] # NoCancel
  /\ cancel[c].seen.ref = None
  /\ row' = [row EXCEPT ![cancel[c].exec].status = "CANCELLED"]
  /\ Respond(c)
  /\ UNCHANGED <<workerVars, engineVars, crashes>>

\* cancelExecution(ref)
SetCancelled(r) ==
  run' = IF Live(r) THEN [run EXCEPT ![r].cancelled = TRUE] ELSE run

\* The engine answers; a ref it does not know raises and rolls back.
CancelAnswered(c) ==
  LET e == cancel[c].exec
      ref == cancel[c].seen.ref
      word == StatusOf(ref)
  IN
  /\ cancel[c] # NoCancel
  /\ ref # None
  /\ cancel[c].seen.status = "CANCEL_REQUESTED" => word = "UNKNOWN"
  /\ SetCancelled(ref)
  /\ row' = IF word = "UNKNOWN" THEN row
            ELSE [Marked(c) EXCEPT ![e] = Ingest(@, "CANCEL_REQUESTED", word)]
  /\ Respond(c)
  /\ UNCHANGED <<workerVars, idem, late, crashes>>

\* A copy that was marked already gets no UPDATE, so no lock is held while the engine is
\* asked, and its answer is written later, on whatever the row is by then.
CancelHears(c) ==
  LET ref == cancel[c].seen.ref
  IN
  /\ cancel[c] # NoCancel /\ cancel[c].word = "NONE"
  /\ ref # None /\ cancel[c].seen.status = "CANCEL_REQUESTED"
  /\ StatusOf(ref) # "UNKNOWN"
  /\ SetCancelled(ref)
  /\ cancel' = [cancel EXCEPT ![c].word = StatusOf(ref)]
  /\ UNCHANGED <<row, workerVars, idem, late, crashes>>

CancelRecords(c) ==
  /\ cancel[c].word # "NONE"
  /\ row' = [row EXCEPT ![cancel[c].exec] = Ingest(@, "CANCEL_REQUESTED", cancel[c].word)]
  /\ Respond(c)
  /\ UNCHANGED <<workerVars, engineVars, crashes>>

\* EngineUnavailableError: recorded and left to the reconciler.  The call may
\* have reached the engine all the same.
CancelDeferred(c) ==
  /\ cancel[c] # NoCancel /\ cancel[c].word = "NONE"
  /\ cancel[c].seen.ref # None
  /\ SetCancelled(cancel[c].seen.ref) \/ UNCHANGED run
  /\ row' = Marked(c)
  /\ Respond(c)
  /\ UNCHANGED <<workerVars, idem, late, crashes>>

\* The API process dies before it commits, after or before it asked the engine.
CancelDies(c) ==
  /\ cancel[c] # NoCancel
  /\ cancel[c].seen.ref # None
  /\ crashes < MaxCrashes
  /\ crashes' = crashes + 1
  /\ SetCancelled(cancel[c].seen.ref) \/ UNCHANGED run
  /\ Respond(c)
  /\ UNCHANGED <<row, workerVars, idem, late>>

----------------------------------------------------------------------------
Dispatcher(w) ==
  \/ Claim(w)
  \/ \E e \in Executions : Post(w, e)
  \/ DispatchStarted(w)
  \/ DispatchDeferred(w)
  \/ DispatchRefused(w)

Reconciler(w) ==
  \/ PassBegin(w)
  \/ \E e \in Executions : Poll(w, e) \/ CheckUnpolled(w, e)
  \/ PollIngest(w)

CancelRequest(c) ==
  \/ \E e \in Executions : CancelBegin(c, e)
  \/ CancelUndispatched(c)
  \/ CancelAnswered(c)
  \/ CancelHears(c) \/ CancelRecords(c)
  \/ CancelDeferred(c)

Faults ==
  \/ EngineCrash
  \/ \E w \in Workers : DispatchAborts(w) \/ PassAborts(w) \/ WorkerCrash(w)
  \/ \E c \in Requests : CancelDies(c)

Next ==
  \/ \E e \in Executions : Create(e) \/ AcceptLate(e) \/ Silence(e)
  \/ \E w \in Workers : Dispatcher(w) \/ Reconciler(w) \/ Accept(w)
  \/ \E r \in Refs : Finish(r)
  \/ \E c \in Requests : CancelRequest(c)
  \/ Faults

Spec == Init /\ [][Next]_vars

(***************************************************************************)
(* Fairness.  The loops of a worker run for ever and every engine run ends *)
(* (a timer cancels it); a request is answered; time passes.  That an      *)
(* engine keeps being unreachable is the one thing assumed away: a dispatch *)
(* attempted again and again is eventually handled and its answer received. *)
(***************************************************************************)
Fairness ==
  /\ \A w \in Workers : WF_vars(Dispatcher(w)) /\ WF_vars(Reconciler(w))
  /\ \A w \in Workers : SF_vars(Accept(w)) /\ SF_vars(DispatchStarted(w) \/ DispatchRefused(w))
  /\ \A r \in Refs : WF_vars(Finish(r))
  /\ \A e \in Executions : SF_vars(Silence(e))

FairSpec == Spec /\ Fairness

----------------------------------------------------------------------------
(* What the saga keeps *)

\* Types of all state, rows, loop-local copies and engine maps alike.
TypeOK ==
  /\ row \in [Executions -> Row]
  /\ batch \in [Workers -> SUBSET Executions]
  /\ call \in [Workers -> Call]
  /\ copy \in [Workers -> [Executions -> Row]]
  /\ heard \in [Workers -> Answer]
  /\ cancel \in [Requests -> Cancelling]
  /\ run \in [Refs -> Run]
  /\ idem \in [Executions -> Refs \cup {None}]
  /\ late \in SUBSET Executions
  /\ crashes \in 0..MaxCrashes

\* ADR-011: two workers never hold the same execution, and a row that can be
\* claimed is held by none, however the dispatchers, the reconcilers' stale
\* copies and the cancel requests overwrite each other's statuses.
ExclusiveDispatch ==
  /\ \A v, w \in Workers : v # w => batch[v] \cap batch[w] = {}
  /\ \A w \in Workers : batch[w] \cap Queued = {}

\* The engine never runs two copies of one execution side by side, whatever is
\* retried, lost or handled late (execution-manager.ts, idempotency).
OneLiveRunPerExecution ==
  \A q, r \in Refs : Live(q) /\ Live(r) /\ run[q].exec = run[r].exec => q = r

\* History is true: a row that says how its run ended points to a run of this
\* very execution, and that run did end so (ADR-002, the product's rows are the
\* record).  CANCELLED is left out, the product may say it on its own.
TruthfulHistory ==
  \A e \in Executions :
    row[e].status \in {"SUCCEEDED", "FAILED", "TIMED_OUT"} =>
      \E r \in Refs : /\ row[e].ref = r
                      /\ run[r].exec = e
                      /\ run[r].outcome = row[e].status

\* A row that waits for the engine to say something carries the ref to ask for,
\* and a row that may be dispatched again carries none: no status is stored that
\* the reconciler could not resolve.
RowCanBeResolved ==
  \A e \in Executions :
    /\ row[e].status \in {"RUNNING", "CANCEL_REQUESTED"} => row[e].ref # None
    /\ row[e].status \in {"ABSENT", "QUEUED", "DISPATCHING"} => row[e].ref = None

\* Once a row names its engine run it names that run for ever: nothing that is
\* recorded later can be the result of another run.
RefIsForever ==
  [][\A e \in Executions : row[e].ref # None => row'[e].ref = row[e].ref]_vars

\* Every execution comes to rest in a terminal status and stays in one: no row
\* is left RUNNING, DISPATCHING or CANCEL_REQUESTED for ever (ADR-010), and
\* the writers that overwrite each other stop doing so.
EveryRunSettles ==
  \A e \in Executions : <>[](row[e].status \notin Active)

\* The state machine the product promises, over the status column.
Lifecycle == INSTANCE RunLifecycle WITH status <- [e \in Executions |-> row[e].status]

\* While work is prompt, one worker runs and nothing is cancelled, the saga
\* implements that state machine: statuses only ever advance, terminal ones are
\* final, and crashes and lost answers on the way do not show.
ImplementsLifecycle == Lifecycle!Spec

\* Two active runs of one workflow never exist (SRS 30.3): once created alone a
\* run does not become active again after the next one was let in.
OneActiveRunPerWorkflow ==
  \A e, f \in Executions :
    /\ WorkflowOf[e] = WorkflowOf[f]
    /\ row[e].status \in Active
    /\ row[f].status \in Active
    => e = f
=============================================================================
