--------------------------- MODULE RunSagaProofs ---------------------------
(***************************************************************************)
(* Proofs about RunSaga, for any number of executions, workers, cancel     *)
(* requests and engine refs, any batch size, and every setting of the      *)
(* switches.  None of the safety properties is inductive: each rests on    *)
(* what the stale copies, the calls in flight and the engine's two maps    *)
(* know of each other, which IInv states.                                  *)
(***************************************************************************)
EXTENDS RunSaga, TLAPS

----------------------------------------------------------------------------
(* The inductive invariant *)

\* The engine's maps: only a started run has an execution, only a run that has
\* ended has an outcome, and a stored one always does.
RunShape ==
  \A r \in Refs :
    /\ run[r].phase = "unused" <=> run[r].exec = None
    /\ run[r].phase = "unused" \/ Live(r) => run[r].outcome = "NONE"
    /\ run[r].phase = "stored" => run[r].outcome # "NONE"

\* The idempotency map knows every live run, and knows it by its execution.
KeysKnowRuns ==
  /\ \A r \in Refs : Live(r) => idem[run[r].exec] = r
  /\ \A e \in Executions : idem[e] # None => run[idem[e]].exec = e

\* A call in flight is about a row of the worker's batch, and carries a ref of
\* that execution exactly when the engine started it.
CallShape ==
  \A w \in Workers :
    /\ call[w].state = "idle" => call[w] = NoCall
    /\ call[w].state # "idle" => call[w].exec \in batch[w]
    /\ call[w].state = "started" <=> call[w].ref # None
    /\ call[w].ref # None => run[call[w].ref].exec = call[w].exec

\* What a worker holds for dispatch has no engine run yet and cannot be claimed.
HeldRows ==
  /\ \A v, w \in Workers : v # w => batch[v] \cap batch[w] = {}
  /\ \A w \in Workers : \A e \in batch[w] :
       row[e].ref = None /\ row[e].status \notin {"ABSENT", "QUEUED"}

\* A copy that has a ref has the ref the row has now, however old it is.
CopiesAgree ==
  /\ \A w \in Workers, e \in Executions :
       copy[w][e].ref # None => copy[w][e].ref = row[e].ref
  /\ \A c \in Requests :
       /\ cancel[c] # NoCancel => cancel[c].exec \in Executions
       /\ cancel[c] # NoCancel /\ cancel[c].seen.ref # None =>
            cancel[c].seen.ref = row[cancel[c].exec].ref

\* An answer is about a copy with a ref; an outcome heard is that run's own.
HeardIsTrue ==
  \A w \in Workers : heard[w] # NoAnswer =>
    /\ heard[w].exec \in Executions
    /\ copy[w][heard[w].exec].ref # None
    /\ heard[w].word \in Outcomes =>
         run[copy[w][heard[w].exec].ref].outcome = heard[w].word

\* An answer that a cancel request holds is about the run its copy names.
CancelsAreTrue ==
  \A c \in Requests :
    /\ cancel[c].word \in Outcomes \cup {"RUNNING", "NONE"}
    /\ cancel[c].word # "NONE" => cancel[c] # NoCancel /\ cancel[c].seen.ref # None
    /\ cancel[c].word \in Outcomes => run[cancel[c].seen.ref].outcome = cancel[c].word

\* A row's ref is a run of that execution.
RefsAreOwn == \A e \in Executions : row[e].ref # None => run[row[e].ref].exec = e

\* A row's outcome is that of the run it points to.
RowsAreTrue ==
  \A e \in Executions :
    row[e].status \in {"SUCCEEDED", "FAILED", "TIMED_OUT"} =>
      row[e].ref # None /\ run[row[e].ref].outcome = row[e].status

EngineInv == RunShape /\ KeysKnowRuns

ProductInv ==
  /\ CallShape
  /\ HeldRows
  /\ RowCanBeResolved
  /\ CopiesAgree
  /\ HeardIsTrue
  /\ CancelsAreTrue
  /\ RefsAreOwn
  /\ RowsAreTrue

IInv == TypeOK /\ EngineInv /\ ProductInv

----------------------------------------------------------------------------
(* The engine alone *)

\* What any step may do to a run that was started: its execution and, once it
\* has one, its outcome stay.
RunsKeep ==
  \A r \in Refs :
    /\ run[r].exec # None => run'[r].exec = run[r].exec
    /\ run[r].outcome # "NONE" => run'[r].outcome = run[r].outcome

EngineTypes ==
  /\ run \in [Refs -> Run]
  /\ idem \in [Executions -> Refs \cup {None}]

\* The sweep forgets results and keys, never a live run or its key.
LEMMA SweepKeeps ==
  ASSUME EngineTypes, EngineInv, NEW gone \in Sweepable
  PROVE  /\ Expired(gone) \in [Refs -> Run]
         /\ KeysAfter(gone) \in [Executions -> Refs \cup {None}]
         /\ \A r \in Refs :
              /\ Expired(gone)[r].exec = run[r].exec
              /\ Expired(gone)[r].outcome = run[r].outcome
              /\ Expired(gone)[r].phase = IF r \in gone THEN "lost" ELSE run[r].phase
              /\ Live(r) => r \notin gone
              /\ Live(r) => KeysAfter(gone)[run[r].exec] = r
         /\ \A e \in Executions : KeysAfter(gone)[e] # None =>
              KeysAfter(gone)[e] = idem[e]
<1>1. gone \in SUBSET {r \in Refs : run[r].phase = "stored"}
  BY DEF Sweepable
<1>2. \A r \in Refs : run[r] \in Run
  BY DEF EngineTypes
<1>3. Expired(gone) \in [Refs -> Run]
  <2>1. ASSUME NEW r \in Refs
        PROVE  (IF r \in gone THEN [run[r] EXCEPT !.phase = "lost"] ELSE run[r]) \in Run
    BY <1>2 DEF Run, Phases
  <2> QED
    BY <2>1 DEF Expired
<1>4. KeysAfter(gone) \in [Executions -> Refs \cup {None}]
  BY DEF KeysAfter, EngineTypes
<1>5. ASSUME NEW r \in Refs
      PROVE  /\ Expired(gone)[r].exec = run[r].exec
             /\ Expired(gone)[r].outcome = run[r].outcome
             /\ Expired(gone)[r].phase = IF r \in gone THEN "lost" ELSE run[r].phase
             /\ Live(r) => r \notin gone
  BY <1>1, <1>2 DEF Expired, Run, Live
<1>6. ASSUME NEW r \in Refs, Live(r)
      PROVE  KeysAfter(gone)[run[r].exec] = r
  <2>1. run[r].exec \in Executions
    BY <1>2, <1>6 DEF Live, EngineInv, RunShape, Run
  <2>2. idem[run[r].exec] = r
    BY <1>6 DEF EngineInv, KeysKnowRuns
  <2> QED
    BY <1>1, <1>5, <1>6, <2>1, <2>2 DEF KeysAfter
<1> QED
  BY <1>3, <1>4, <1>5, <1>6 DEF KeysAfter

\* A new entry in both maps, for an execution that has no live run.
LEMMA StartNewKeeps ==
  ASSUME EngineTypes, EngineInv, NEW gone \in Sweepable,
         NEW e \in Executions, NEW r \in Refs, NEW phase \in {"active", "stuck"},
         KeysAfter(gone)[e] = None,
         run[r].phase = "unused",
         run' = [Expired(gone) EXCEPT ![r] = NewRun(e, phase)],
         idem' = [KeysAfter(gone) EXCEPT ![e] = r]
  PROVE  /\ EngineTypes'
         /\ EngineInv'
         /\ RunsKeep
         /\ run'[r].exec = e
<1>1. run' \in [Refs -> Run] /\ idem' \in [Executions -> Refs \cup {None}]
  <2>1. NewRun(e, phase) \in Run
    BY DEF NewRun, Run, Phases
  <2> QED
    BY <2>1, SweepKeeps
<1>2. /\ run'[r] = NewRun(e, phase)
      /\ \A q \in Refs \ {r} : run'[q] = Expired(gone)[q]
      /\ idem'[e] = r
      /\ \A f \in Executions \ {e} : idem'[f] = KeysAfter(gone)[f]
  BY SweepKeeps
<1>3. run[r].exec = None /\ run[r].outcome = "NONE"
  BY DEF EngineInv, RunShape
<1>4. RunShape'
  <2>1. ASSUME NEW q \in Refs \ {r}
        PROVE  /\ run'[q].phase = "unused" <=> run'[q].exec = None
               /\ run'[q].phase = "unused" \/ run'[q].phase \in {"active", "stuck"} =>
                    run'[q].outcome = "NONE"
               /\ run'[q].phase = "stored" => run'[q].outcome # "NONE"
    <3>1. gone \in SUBSET {x \in Refs : run[x].phase = "stored"}
      BY DEF Sweepable
    <3> QED
      BY <1>2, <3>1, SweepKeeps DEF EngineInv, RunShape, Live
  <2>2. e # None
    BY NoneAssumption
  <2> QED
    BY <1>2, <2>1, <2>2 DEF RunShape, Live, NewRun
<1>5. KeysKnowRuns'
  <2>1. ASSUME NEW q \in Refs, Live(q)'
        PROVE  idem'[run'[q].exec] = q
    <3>1. CASE q = r
      BY <1>2, <3>1 DEF NewRun
    <3>2. CASE q # r
      <4>1. Live(q) /\ run'[q].exec = run[q].exec /\ KeysAfter(gone)[run[q].exec] = q
        BY <1>2, <2>1, <3>2, SweepKeeps DEF Live
      <4>2. run[q].exec \in Executions /\ run[q].exec # e
        BY <4>1, NoneAssumption DEF EngineTypes, EngineInv, RunShape, Run, Live
      <4> QED
        BY <1>2, <4>1, <4>2
    <3> QED
      BY <3>1, <3>2
  <2>2. ASSUME NEW f \in Executions, idem'[f] # None
        PROVE  run'[idem'[f]].exec = f
    <3>1. CASE f = e
      BY <1>2, <3>1 DEF NewRun
    <3>2. CASE f # e
      <4>1. idem[f] = idem'[f] /\ idem[f] \in Refs /\ run[idem[f]].exec = f
        BY <1>2, <2>2, <3>2, SweepKeeps DEF EngineTypes, EngineInv, KeysKnowRuns
      <4>2. idem[f] # r
        BY <1>3, <4>1, NoneAssumption
      <4> QED
        BY <1>2, <4>1, <4>2, SweepKeeps
    <3> QED
      BY <3>1, <3>2
  <2> QED
    BY <2>1, <2>2 DEF KeysKnowRuns
<1>6. RunsKeep
  BY <1>2, <1>3, SweepKeeps DEF RunsKeep
<1> QED
  BY <1>1, <1>2, <1>4, <1>5, <1>6 DEF EngineTypes, EngineInv, NewRun

\* The sweep without a new entry.
LEMMA SweepOnlyKeeps ==
  ASSUME EngineTypes, EngineInv, NEW gone \in Sweepable,
         run' = Expired(gone), idem' = KeysAfter(gone)
  PROVE  EngineTypes' /\ EngineInv' /\ RunsKeep
<1>1. gone \in SUBSET {x \in Refs : run[x].phase = "stored"}
  BY DEF Sweepable
<1>2. EngineTypes' /\ RunsKeep
  BY SweepKeeps DEF EngineTypes, RunsKeep
<1>3. RunShape'
  BY <1>1, SweepKeeps DEF EngineInv, RunShape, Live
<1>4. KeysKnowRuns'
  <2>1. ASSUME NEW q \in Refs, Live(q)'
        PROVE  idem'[run'[q].exec] = q
    BY <2>1, SweepKeeps DEF Live
  <2>2. ASSUME NEW f \in Executions, idem'[f] # None
        PROVE  run'[idem'[f]].exec = f
    <3>1. idem[f] = idem'[f] /\ idem[f] \in Refs /\ run[idem[f]].exec = f
      BY <2>2, SweepKeeps DEF EngineTypes, EngineInv, KeysKnowRuns
    <3> QED
      BY <3>1, SweepKeeps
  <2> QED
    BY <2>1, <2>2 DEF KeysKnowRuns
<1> QED
  BY <1>2, <1>3, <1>4 DEF EngineInv

\* startExecution: the reply carries a ref exactly when the run was started, and
\* it is a run of the execution that was asked for.
LEMMA StartExecutionKeeps ==
  ASSUME EngineTypes, EngineInv, NEW e \in Executions, NEW state, NEW ref,
         StartExecution(e, state, ref)
  PROVE  /\ EngineTypes'
         /\ EngineInv'
         /\ RunsKeep
         /\ state \in {"started", "refused", "unavailable"}
         /\ ref \in Refs \cup {None}
         /\ state = "started" <=> ref # None
         /\ ref # None => run'[ref].exec = e
<1>1. PICK gone \in Sweepable :
        LET keys == KeysAfter(gone) IN
        \/ /\ keys[e] # None
           /\ state = "started" /\ ref = keys[e]
           /\ run' = Expired(gone) /\ idem' = keys
        \/ /\ keys[e] = None
           /\ state \in {"unavailable", "refused"} /\ ref = None
           /\ run' = Expired(gone) /\ idem' = keys
        \/ /\ keys[e] = None
           /\ \E r \in Refs :
                /\ run[r].phase = "unused"
                /\ run' = [Expired(gone) EXCEPT ![r] = NewRun(e, "active")]
                /\ idem' = [keys EXCEPT ![e] = r]
                /\ state = "started" /\ ref = r
        \/ /\ keys[e] = None
           /\ \E r \in Refs :
                /\ run[r].phase = "unused"
                /\ run' = [Expired(gone) EXCEPT ![r] = NewRun(e, "stuck")]
                /\ idem' = [keys EXCEPT ![e] = r]
           /\ state = "unavailable" /\ ref = None
  BY DEF StartExecution, Lookup
<1> DEFINE keys == KeysAfter(gone)
<1>2. CASE /\ keys[e] # None
           /\ state = "started" /\ ref = keys[e]
           /\ run' = Expired(gone) /\ idem' = keys
  <2>1. EngineTypes' /\ EngineInv' /\ RunsKeep
    BY <1>2, SweepOnlyKeeps
  <2>2. ref \in Refs /\ idem'[e] = ref
    BY <1>2, SweepKeeps
  <2> QED
    BY <1>2, <2>1, <2>2, NoneAssumption DEF EngineInv, KeysKnowRuns
<1>3. CASE /\ keys[e] = None
           /\ state \in {"unavailable", "refused"} /\ ref = None
           /\ run' = Expired(gone) /\ idem' = keys
  BY <1>3, SweepOnlyKeeps
<1>4. ASSUME NEW r \in Refs, NEW phase \in {"active", "stuck"},
             KeysAfter(gone)[e] = None,
             run[r].phase = "unused",
             run' = [Expired(gone) EXCEPT ![r] = NewRun(e, phase)],
             idem' = [KeysAfter(gone) EXCEPT ![e] = r],
             \/ state = "started" /\ ref = r
             \/ state = "unavailable" /\ ref = None
      PROVE  /\ EngineTypes' /\ EngineInv' /\ RunsKeep
             /\ state \in {"started", "refused", "unavailable"}
             /\ ref \in Refs \cup {None}
             /\ state = "started" <=> ref # None
             /\ ref # None => run'[ref].exec = e
  <2>1. EngineTypes' /\ EngineInv' /\ RunsKeep /\ run'[r].exec = e
    BY <1>4, StartNewKeeps
  <2> QED
    BY <1>4, <2>1, NoneAssumption
<1> QED
  BY <1>1, <1>2, <1>3, <1>4

LEMMA EngineQuiet ==
  ASSUME EngineInv, UNCHANGED <<run, idem>>
  PROVE  EngineInv' /\ RunsKeep
BY DEF EngineInv, RunShape, KeysKnowRuns, Live, RunsKeep

LEMMA SetCancelledKeeps ==
  ASSUME EngineTypes, EngineInv, NEW r \in Refs, SetCancelled(r), UNCHANGED idem
  PROVE  EngineTypes' /\ EngineInv' /\ RunsKeep
<1>1. /\ run' \in [Refs -> Run]
      /\ \A q \in Refs : /\ run'[q].phase = run[q].phase
                         /\ run'[q].exec = run[q].exec
                         /\ run'[q].outcome = run[q].outcome
  BY DEF SetCancelled, EngineTypes, Run
<1> QED
  BY <1>1 DEF EngineTypes, EngineInv, RunShape, KeysKnowRuns, Live, RunsKeep

LEMMA FinishKeeps ==
  ASSUME TypeOK, EngineInv, NEW r \in Refs, Finish(r)
  PROVE  EngineTypes' /\ EngineInv' /\ RunsKeep
<1>1. PICK o \in Outcomes : run' = [run EXCEPT ![r].phase = "stored", ![r].outcome = o]
  BY DEF Finish, Outcomes
<1>2. run \in [Refs -> Run] /\ idem' = idem /\ idem \in [Executions -> Refs \cup {None}]
  BY DEF Finish, TypeOK
<1>3. /\ run' \in [Refs -> Run]
      /\ run'[r].phase = "stored" /\ run'[r].outcome = o /\ run'[r].exec = run[r].exec
      /\ \A q \in Refs \ {r} : run'[q] = run[q]
  BY <1>1, <1>2 DEF Run, Phases
<1>4. run[r].phase = "active"
  BY DEF Finish
<1>5. RunShape'
  BY <1>3, <1>4 DEF EngineInv, RunShape, Live, Outcomes
<1>6. KeysKnowRuns'
  BY <1>2, <1>3 DEF EngineInv, KeysKnowRuns, Live
<1>7. RunsKeep
  BY <1>3, <1>4 DEF RunsKeep, EngineInv, RunShape, Live
<1> QED
  BY <1>2, <1>3, <1>5, <1>6, <1>7 DEF EngineTypes, EngineInv

LEMMA EngineCrashKeeps ==
  ASSUME TypeOK, EngineInv, EngineCrash
  PROVE  EngineTypes' /\ EngineInv' /\ RunsKeep
<1>1. /\ run \in [Refs -> Run]
      /\ run' = [r \in Refs |-> IF run[r].phase = "unused" THEN run[r]
                                ELSE [run[r] EXCEPT !.phase = "lost"]]
      /\ idem' = [e \in Executions |-> None]
  BY DEF TypeOK, EngineCrash
<1>2. ASSUME NEW r \in Refs
      PROVE  /\ run'[r] \in Run
             /\ run'[r].exec = run[r].exec
             /\ run'[r].outcome = run[r].outcome
             /\ run'[r].phase = IF run[r].phase = "unused" THEN "unused" ELSE "lost"
  BY <1>1 DEF Run, Phases
<1>3. run' \in [Refs -> Run]
  BY <1>1, <1>2
<1>4. RunShape'
  BY <1>2 DEF EngineInv, RunShape, Live
<1>5. KeysKnowRuns'
  BY <1>1, <1>2 DEF KeysKnowRuns, Live
<1> QED
  BY <1>1, <1>2, <1>3, <1>4, <1>5 DEF EngineTypes, EngineInv, RunsKeep

----------------------------------------------------------------------------
(* The product's side: most steps only overwrite statuses and forget copies *)

\* What a step that leaves every ref alone may write: a verdict of the product's
\* own, or a word of the engine where there is a ref to back it.
Overwrites ==
  \A e \in Executions :
    /\ row'[e].ref = row[e].ref
    /\ \/ row'[e].status = row[e].status
       \/ row'[e].status \in {"FAILED_TO_START", "ENGINE_INTERRUPTED", "CANCELLED"}
       \/ row'[e].status \in {"RUNNING", "CANCEL_REQUESTED"} /\ row[e].ref # None
       \/ /\ row'[e].status \in Outcomes
          /\ row[e].ref # None
          /\ run[row[e].ref].outcome = row'[e].status

\* A step that takes no new row and no new answer into anybody's memory.
Forgets ==
  /\ \A w \in Workers :
       /\ batch'[w] \subseteq batch[w]
       /\ \A e \in Executions : copy'[w][e] = copy[w][e] \/ copy'[w][e] = Absent
       /\ heard'[w] = NoAnswer \/ (heard'[w] = heard[w] /\ copy'[w] = copy[w])
  /\ \A c \in Requests : cancel'[c] = cancel[c] \/ cancel'[c] = NoCancel

\* A call is left alone or over, and only the latter takes rows off the batch.
CallsEnd ==
  \A w \in Workers : call'[w] = NoCall \/ (call'[w] = call[w] /\ batch'[w] = batch[w])

LEMMA CallsEndKeeps ==
  ASSUME TypeOK, CallShape, RunsKeep, CallsEnd
  PROVE  CallShape'
<1>1. \A w \in Workers : call[w].exec \in Executions \cup {None} /\ call[w].ref \in Refs \cup {None}
  BY DEF TypeOK, Call
<1>2. \A w \in Workers : call[w].ref # None => call[w].exec \in Executions
  BY DEF TypeOK, CallShape, NoCall
<1> QED
  BY <1>1, <1>2, NoneAssumption DEF CallShape, RunsKeep, CallsEnd, NoCall

LEMMA CancelsKeep ==
  ASSUME TypeOK, CancelsAreTrue, RunsKeep,
         \A c \in Requests : cancel'[c] = cancel[c] \/ cancel'[c] = NoCancel
  PROVE  CancelsAreTrue'
<1> SUFFICES ASSUME NEW c \in Requests
             PROVE  /\ cancel'[c].word \in Outcomes \cup {"RUNNING", "NONE"}
                    /\ cancel'[c].word # "NONE" => cancel'[c] # NoCancel /\ cancel'[c].seen.ref # None
                    /\ cancel'[c].word \in Outcomes => run'[cancel'[c].seen.ref].outcome = cancel'[c].word
  BY DEF CancelsAreTrue
<1>1. CASE cancel'[c] = NoCancel
  BY <1>1 DEF NoCancel, Outcomes
<1>2. CASE cancel'[c] = cancel[c]
  <2>1. cancel[c].seen.ref \in Refs \cup {None}
    BY DEF TypeOK, Cancelling, Row
  <2> QED
    BY <1>2, <2>1 DEF CancelsAreTrue, RunsKeep, Outcomes
<1> QED
  BY <1>1, <1>2

LEMMA OverwriteKeeps ==
  ASSUME TypeOK, ProductInv, RunsKeep, Overwrites, Forgets, CallShape'
  PROVE  ProductInv'
<1>2. HeldRows'
  <2>1. \A w \in Workers : batch'[w] \subseteq batch[w] /\ batch[w] \subseteq Executions
    BY DEF Forgets, TypeOK
  <2>2. ASSUME NEW e \in Executions, row[e].ref = None, row[e].status \notin {"ABSENT", "QUEUED"}
        PROVE  row'[e].ref = None /\ row'[e].status \notin {"ABSENT", "QUEUED"}
    BY <2>2 DEF Overwrites
  <2> QED
    BY <2>1, <2>2 DEF ProductInv, HeldRows
<1>3. RowCanBeResolved'
  BY DEF ProductInv, RowCanBeResolved, Overwrites, Outcomes
<1>4. CopiesAgree'
  <2>1. ASSUME NEW w \in Workers, NEW e \in Executions, copy'[w][e].ref # None
        PROVE  copy'[w][e].ref = row'[e].ref
    BY <2>1 DEF ProductInv, CopiesAgree, Overwrites, Forgets, Absent
  <2>2. ASSUME NEW c \in Requests, cancel'[c] # NoCancel
        PROVE  /\ cancel'[c].exec \in Executions
               /\ cancel'[c].seen.ref # None =>
                    cancel'[c].seen.ref = row'[cancel'[c].exec].ref
    <3>1. cancel'[c] = cancel[c]
      BY <2>2 DEF Forgets
    <3>2. cancel[c] # NoCancel
      BY <2>2, <3>1
    <3>3. /\ cancel[c].exec \in Executions
          /\ cancel[c].seen.ref # None => cancel[c].seen.ref = row[cancel[c].exec].ref
      BY <3>2 DEF ProductInv, CopiesAgree
    <3> QED
      BY <3>1, <3>3 DEF Overwrites
  <2> QED
    BY <2>1, <2>2 DEF CopiesAgree
<1>5. \A w \in Workers, e \in Executions : copy[w][e].ref \in Refs \cup {None}
  BY DEF TypeOK, Row
<1>6. HeardIsTrue'
  <2> SUFFICES ASSUME NEW w \in Workers, heard'[w] # NoAnswer
               PROVE  /\ heard'[w].exec \in Executions
                      /\ copy'[w][heard'[w].exec].ref # None
                      /\ heard'[w].word \in Outcomes =>
                           run'[copy'[w][heard'[w].exec].ref].outcome = heard'[w].word
    BY DEF HeardIsTrue
  <2>1. heard'[w] = heard[w] /\ copy'[w] = copy[w]
    BY DEF Forgets
  <2>2. /\ heard[w].exec \in Executions
        /\ copy[w][heard[w].exec].ref # None
        /\ heard[w].word \in Outcomes =>
             run[copy[w][heard[w].exec].ref].outcome = heard[w].word
    BY <2>1 DEF ProductInv, HeardIsTrue
  <2>3. copy[w][heard[w].exec].ref \in Refs
    BY <1>5, <2>2
  <2> QED
    BY <2>1, <2>2, <2>3 DEF RunsKeep, Outcomes
<1>7. \A e \in Executions : row[e].ref \in Refs \cup {None}
  BY DEF TypeOK, Row
<1>8. RefsAreOwn'
  BY <1>7, NoneAssumption DEF ProductInv, RefsAreOwn, Overwrites, RunsKeep
<1>9. RowsAreTrue'
  BY <1>7 DEF ProductInv, RowsAreTrue, Overwrites, RunsKeep, Outcomes
<1>10. CancelsAreTrue'
  BY CancelsKeep DEF ProductInv, Forgets
<1> QED
  BY <1>2, <1>3, <1>4, <1>6, <1>8, <1>9, <1>10 DEF ProductInv

\* A step of the engine's that no caller sees the answer of.
LEMMA EngineStepKeeps ==
  ASSUME TypeOK, ProductInv, RunsKeep, UNCHANGED <<row, workerVars, cancel>>
  PROVE  ProductInv'
<1>1. Overwrites /\ Forgets /\ CallsEnd
  BY DEF Overwrites, Forgets, CallsEnd, workerVars
<1> QED
  BY <1>1, OverwriteKeeps, CallsEndKeeps DEF ProductInv

\* One row gets a status without a look at the one it has.
LEMMA StatusWritten ==
  ASSUME TypeOK, NEW e \in Executions, NEW s,
         row' = [row EXCEPT ![e].status = s],
         \/ s \in {"FAILED_TO_START", "ENGINE_INTERRUPTED", "CANCELLED"}
         \/ s \in {"RUNNING", "CANCEL_REQUESTED"} /\ row[e].ref # None
  PROVE  row' \in [Executions -> Row] /\ Overwrites
<1>1. row \in [Executions -> Row] /\ s \in Statuses
  BY DEF TypeOK, Statuses, Active, InFlight, Terminal, Outcomes
<1>2. ASSUME NEW f \in Executions
      PROVE  /\ row'[f] = IF f = e THEN [row[f] EXCEPT !.status = s] ELSE row[f]
             /\ row'[f] \in Row
  BY <1>1 DEF Row
<1>3. row' \in [Executions -> Row]
  BY <1>1, <1>2
<1> QED
  BY <1>2, <1>3 DEF Overwrites, Row

\* One row is given what the engine said of its own run.
LEMMA Ingested ==
  ASSUME TypeOK, ProductInv, NEW e \in Executions, NEW loaded, NEW word,
         row' = [row EXCEPT ![e] = Ingest(@, loaded, word)],
         row[e].ref # None,
         \/ word = "RUNNING"
         \/ word \in Outcomes /\ run[row[e].ref].outcome = word
  PROVE  row' \in [Executions -> Row] /\ Overwrites
<1>1. row \in [Executions -> Row] /\ word \in Statuses
  BY DEF TypeOK, Statuses, Active, InFlight, Terminal, Outcomes
<1>2. /\ Ingest(row[e], loaded, word) \in Row
      /\ Ingest(row[e], loaded, word).ref = row[e].ref
      /\ \/ Ingest(row[e], loaded, word).status = row[e].status
         \/ Ingest(row[e], loaded, word).status = word
  BY <1>1 DEF Ingest, Row, Statuses, Active, InFlight
<1>3. /\ row' \in [Executions -> Row]
      /\ row'[e] = Ingest(row[e], loaded, word)
      /\ \A f \in Executions \ {e} : row'[f] = row[f]
  BY <1>1, <1>2
<1> QED
  BY <1>2, <1>3 DEF Overwrites, Outcomes

----------------------------------------------------------------------------
(* The steps, one by one *)

LEMMA InitEstablishes == Init => IInv
<1> SUFFICES ASSUME Init PROVE IInv
  OBVIOUS
<1>1. TypeOK
  BY BoundsAssumption DEF Init, TypeOK, Row, Absent, Statuses, Active, InFlight, Terminal,
     Outcomes, Call, CallStates, NoCall, Answer, Words, NoAnswer, Cancelling, NoCancel,
     Run, Phases, Unused
<1>2. EngineInv
  BY DEF Init, EngineInv, RunShape, KeysKnowRuns, Live, Unused
<1>3. ProductInv
  BY DEF Init, ProductInv, CallShape, HeldRows, RowCanBeResolved, CopiesAgree, HeardIsTrue,
     CancelsAreTrue, RefsAreOwn, RowsAreTrue, NoCall, NoCancel, Absent, NoAnswer, Outcomes
<1> QED
  BY <1>1, <1>2, <1>3 DEF IInv

LEMMA CreateKeeps ==
  ASSUME IInv, NEW e \in Executions, Create(e)
  PROVE  IInv'
<1>1. TypeOK /\ ProductInv /\ EngineInv
  BY DEF IInv
<1>2. row \in [Executions -> Row] /\ row' = [row EXCEPT ![e].status = "QUEUED"]
  BY <1>1 DEF Create, TypeOK
<1>3. /\ row' \in [Executions -> Row]
      /\ \A f \in Executions :
           /\ row'[f].ref = row[f].ref
           /\ row'[f].status = IF f = e THEN "QUEUED" ELSE row[f].status
  BY <1>2 DEF Row, Statuses, Active
<1>4. row[e].status = "ABSENT" /\ row[e].ref = None
  BY <1>1 DEF Create, ProductInv, RowCanBeResolved
<1>5. UNCHANGED <<batch, call, copy, heard, cancel, run, idem, late, crashes>>
  BY DEF Create, workerVars, engineVars
<1>6. TypeOK'
  BY <1>1, <1>3, <1>5 DEF TypeOK
<1>7. EngineInv' /\ RunsKeep
  BY <1>1, <1>5, EngineQuiet
<1>8. CallShape' /\ CopiesAgree' /\ HeardIsTrue' /\ RefsAreOwn'
  BY <1>1, <1>3, <1>5 DEF ProductInv, CallShape, CopiesAgree, HeardIsTrue, RefsAreOwn
<1>9. HeldRows'
  <2>1. \A v \in Workers : e \notin batch[v]
    BY <1>1, <1>4 DEF ProductInv, HeldRows
  <2>2. \A v \in Workers : batch[v] \subseteq Executions
    BY <1>1 DEF TypeOK
  <2> QED
    BY <1>1, <1>3, <1>5, <2>1, <2>2 DEF ProductInv, HeldRows
<1>10. RowCanBeResolved'
  BY <1>1, <1>3, <1>4 DEF ProductInv, RowCanBeResolved
<1>11. RowsAreTrue'
  BY <1>1, <1>3, <1>5 DEF ProductInv, RowsAreTrue
<1>12. CancelsAreTrue'
  BY <1>1, <1>5 DEF ProductInv, CancelsAreTrue
<1> QED
  BY <1>6, <1>7, <1>8, <1>9, <1>10, <1>11, <1>12 DEF IInv, ProductInv

LEMMA AcceptKeeps ==
  ASSUME IInv, NEW w \in Workers, Accept(w)
  PROVE  IInv'
<1>1. TypeOK /\ EngineTypes /\ EngineInv /\ ProductInv
  BY DEF IInv, TypeOK, EngineTypes
<1>2. PICK state, ref :
        /\ StartExecution(call[w].exec, state, ref)
        /\ call' = [call EXCEPT ![w].state = state, ![w].ref = ref]
  BY DEF Accept
<1>3. /\ call[w].state = "pending" /\ call[w].exec \in batch[w] /\ call[w].exec \in Executions
      /\ call \in [Workers -> Call]
  BY <1>1 DEF Accept, ProductInv, CallShape, TypeOK
<1>4. /\ EngineTypes' /\ EngineInv' /\ RunsKeep
      /\ state \in {"started", "refused", "unavailable"}
      /\ ref \in Refs \cup {None}
      /\ state = "started" <=> ref # None
      /\ ref # None => run'[ref].exec = call[w].exec
  BY <1>1, <1>2, <1>3, StartExecutionKeeps
<1>5. UNCHANGED <<row, batch, copy, heard, cancel, late, crashes>>
  BY DEF Accept
<1>6. /\ call' \in [Workers -> Call]
      /\ call'[w].state = state /\ call'[w].ref = ref /\ call'[w].exec = call[w].exec
      /\ \A v \in Workers \ {w} : call'[v] = call[v]
  BY <1>2, <1>3, <1>4 DEF Call, CallStates
<1>7. TypeOK'
  BY <1>1, <1>4, <1>5, <1>6 DEF TypeOK, EngineTypes
<1>8. CallShape'
  <2>1. ASSUME NEW v \in Workers \ {w}
        PROVE  /\ call'[v].state = "idle" => call'[v] = NoCall
               /\ call'[v].state # "idle" => call'[v].exec \in batch'[v]
               /\ call'[v].state = "started" <=> call'[v].ref # None
               /\ call'[v].ref # None => run'[call'[v].ref].exec = call'[v].exec
    <3>1. call'[v] = call[v] /\ batch'[v] = batch[v]
      BY <1>5, <1>6
    <3>2. call[v] \in Call
      BY <1>3
    <3>3. call[v].ref # None => call[v].exec \in Executions /\ call[v].ref \in Refs
      BY <1>1, <3>2, NoneAssumption DEF ProductInv, CallShape, TypeOK, NoCall, Call
    <3> QED
      BY <1>1, <1>4, <3>1, <3>3, NoneAssumption DEF ProductInv, CallShape, RunsKeep
  <2> QED
    BY <1>3, <1>4, <1>5, <1>6, <2>1 DEF CallShape
<1>9. Overwrites /\ Forgets
  BY <1>5 DEF Overwrites, Forgets
<1> QED
  BY <1>1, <1>4, <1>7, <1>8, <1>9, OverwriteKeeps DEF IInv

LEMMA AcceptLateKeeps ==
  ASSUME IInv, NEW e \in Executions, AcceptLate(e)
  PROVE  IInv'
<1>1. TypeOK /\ EngineTypes /\ EngineInv /\ ProductInv
  BY DEF IInv, TypeOK, EngineTypes
<1>2. EngineTypes' /\ EngineInv' /\ RunsKeep
  BY <1>1, StartExecutionKeeps DEF AcceptLate
<1>3. ProductInv'
  BY <1>1, <1>2, EngineStepKeeps DEF AcceptLate
<1> QED
  BY <1>1, <1>2, <1>3 DEF IInv, TypeOK, EngineTypes, AcceptLate, workerVars

LEMMA FinishStepKeeps ==
  ASSUME IInv, NEW r \in Refs, Finish(r)
  PROVE  IInv'
<1>1. TypeOK /\ EngineInv /\ ProductInv
  BY DEF IInv
<1>2. EngineTypes' /\ EngineInv' /\ RunsKeep
  BY <1>1, FinishKeeps
<1>3. ProductInv'
  BY <1>1, <1>2, EngineStepKeeps DEF Finish
<1> QED
  BY <1>1, <1>2, <1>3 DEF IInv, TypeOK, EngineTypes, Finish, workerVars

LEMMA EngineCrashStepKeeps ==
  ASSUME IInv, EngineCrash
  PROVE  IInv'
<1>1. TypeOK /\ EngineInv /\ ProductInv
  BY DEF IInv
<1>2. EngineTypes' /\ EngineInv' /\ RunsKeep
  BY <1>1, EngineCrashKeeps
<1>3. UNCHANGED <<row, batch, copy, heard, cancel>>
  BY DEF EngineCrash
<1>4. ASSUME NEW w \in Workers
      PROVE  /\ call'[w] \in Call
             /\ call'[w].exec = call[w].exec /\ call'[w].ref = call[w].ref
             /\ \/ call'[w] = call[w]
                \/ call[w].state = "pending" /\ call'[w].state = "unavailable"
  BY <1>1 DEF EngineCrash, TypeOK, Call, CallStates
<1>5. call' \in [Workers -> Call]
  BY <1>4 DEF EngineCrash
<1>6. late' \in SUBSET Executions /\ crashes' \in 0..MaxCrashes
  BY <1>1, BoundsAssumption DEF EngineCrash, TypeOK
<1>7. CallShape'
  <2>1. ASSUME NEW w \in Workers, call[w].ref # None
        PROVE  run'[call[w].ref].exec = call[w].exec
    <3>1. call[w].exec \in Executions /\ call[w].ref \in Refs
      BY <1>1, <2>1 DEF ProductInv, CallShape, TypeOK, NoCall, Call
    <3> QED
      BY <1>1, <1>2, <2>1, <3>1, NoneAssumption DEF ProductInv, CallShape, RunsKeep
  <2> QED
    BY <1>1, <1>3, <1>4, <2>1 DEF ProductInv, CallShape, NoCall
<1>8. Overwrites /\ Forgets
  BY <1>3 DEF Overwrites, Forgets
<1> QED
  BY <1>1, <1>2, <1>3, <1>5, <1>6, <1>7, <1>8, OverwriteKeeps DEF IInv, TypeOK, EngineTypes

LEMMA ClaimKeeps ==
  ASSUME IInv, NEW w \in Workers, Claim(w)
  PROVE  IInv'
<1>1. TypeOK /\ ProductInv /\ EngineInv
  BY DEF IInv
<1>2. PICK S \in SUBSET Queued :
        /\ batch' = [batch EXCEPT ![w] = S]
        /\ row' = [e \in Executions |->
                     IF e \in S THEN [row[e] EXCEPT !.status = "DISPATCHING"] ELSE row[e]]
  BY DEF Claim
<1>3. /\ row \in [Executions -> Row] /\ S \subseteq Executions
      /\ batch \in [Workers -> SUBSET Executions] /\ batch[w] = {}
  BY <1>1 DEF TypeOK, Queued, Claim
<1>4. ASSUME NEW e \in Executions
      PROVE  /\ row'[e] \in Row
             /\ row'[e].ref = row[e].ref
             /\ row'[e].status = IF e \in S THEN "DISPATCHING" ELSE row[e].status
  BY <1>2, <1>3 DEF Row, Statuses, Active, InFlight
<1>5. row' \in [Executions -> Row] /\ batch' \in [Workers -> SUBSET Executions]
  BY <1>2, <1>3, <1>4
<1>6. \A e \in S : row[e].status = "QUEUED" /\ row[e].ref = None
  BY <1>1, <1>2 DEF Queued, ProductInv, RowCanBeResolved
<1>7. \A v \in Workers : batch[v] \cap S = {} /\ batch'[v] = IF v = w THEN S ELSE batch[v]
  BY <1>1, <1>2, <1>3, <1>6 DEF ProductInv, HeldRows
<1>8. UNCHANGED <<call, copy, heard, cancel, run, idem, late, crashes>>
  BY DEF Claim, engineVars
<1>9. TypeOK'
  BY <1>1, <1>5, <1>8 DEF TypeOK
<1>10. EngineInv'
  BY <1>1, <1>8, EngineQuiet
<1>11. CallShape'
  BY <1>1, <1>3, <1>7, <1>8 DEF ProductInv, CallShape
<1>12. HeldRows'
  <2>1. ASSUME NEW v \in Workers, NEW u \in Workers, u # v
        PROVE  batch'[u] \cap batch'[v] = {}
    BY <1>1, <1>7, <2>1 DEF ProductInv, HeldRows
  <2>2. ASSUME NEW v \in Workers, NEW e \in batch'[v]
        PROVE  row'[e].ref = None /\ row'[e].status \notin {"ABSENT", "QUEUED"}
    <3>1. e \in Executions
      BY <1>5
    <3> QED
      BY <1>1, <1>4, <1>6, <1>7, <3>1 DEF ProductInv, HeldRows
  <2> QED
    BY <2>1, <2>2 DEF HeldRows
<1>13. RowCanBeResolved'
  BY <1>1, <1>4, <1>6 DEF ProductInv, RowCanBeResolved
<1>14. CopiesAgree' /\ HeardIsTrue' /\ RefsAreOwn'
  BY <1>1, <1>4, <1>8 DEF ProductInv, CopiesAgree, HeardIsTrue, RefsAreOwn
<1>15. RowsAreTrue'
  BY <1>1, <1>4, <1>8 DEF ProductInv, RowsAreTrue
<1>16. CancelsAreTrue'
  BY <1>1, <1>8 DEF ProductInv, CancelsAreTrue
<1> QED
  BY <1>9, <1>10, <1>11, <1>12, <1>13, <1>14, <1>15, <1>16 DEF IInv, ProductInv

LEMMA PostKeeps ==
  ASSUME IInv, NEW w \in Workers, NEW e \in Executions, Post(w, e)
  PROVE  IInv'
<1>1. TypeOK /\ ProductInv /\ EngineInv
  BY DEF IInv
<1>2. /\ row' = [row EXCEPT ![e].old = FALSE]
      /\ call' = [call EXCEPT ![w] = [state |-> "pending", exec |-> e, ref |-> None]]
      /\ e \in batch[w]
      /\ UNCHANGED <<batch, copy, heard, cancel, run, idem, late, crashes>>
  BY DEF Post, engineVars
<1>3. row \in [Executions -> Row] /\ call \in [Workers -> Call]
  BY <1>1 DEF TypeOK
<1>4. /\ row' \in [Executions -> Row]
      /\ \A f \in Executions : row'[f].ref = row[f].ref /\ row'[f].status = row[f].status
  BY <1>2, <1>3 DEF Row
<1>5. call' \in [Workers -> Call]
  BY <1>2, <1>3 DEF Call, CallStates
<1>6. TypeOK'
  BY <1>1, <1>2, <1>4, <1>5 DEF TypeOK
<1>7. EngineInv' /\ RunsKeep
  BY <1>1, <1>2, EngineQuiet
<1>8. CallShape'
  BY <1>1, <1>2, <1>3 DEF ProductInv, CallShape
<1>9. Overwrites /\ Forgets
  BY <1>2, <1>4 DEF Overwrites, Forgets
<1> QED
  BY <1>1, <1>6, <1>7, <1>8, <1>9, OverwriteKeeps DEF IInv

\* What Release leaves of the worker's memory.
LEMMA Released ==
  ASSUME TypeOK, CallShape, NEW w \in Workers, Release(w), UNCHANGED <<copy, heard, cancel>>
  PROVE  /\ batch' \in [Workers -> SUBSET Executions]
         /\ call' \in [Workers -> Call]
         /\ Forgets
         /\ CallsEnd
         /\ call[w].exec \notin batch'[w]
         /\ \A v \in Workers \ {w} : batch'[v] = batch[v]
<1>1. batch \in [Workers -> SUBSET Executions] /\ call \in [Workers -> Call]
  BY DEF TypeOK
<1>2. /\ batch' = [batch EXCEPT ![w] = batch[w] \ {call[w].exec}]
      /\ call' = [call EXCEPT ![w] = NoCall]
  BY DEF Release
<1>3. NoCall \in Call
  BY DEF NoCall, Call, CallStates
<1> QED
  BY <1>1, <1>2, <1>3 DEF Forgets, CallsEnd

LEMMA DispatchStartedKeeps ==
  ASSUME IInv, NEW w \in Workers, DispatchStarted(w)
  PROVE  IInv' /\ \A f \in Executions : row[f].ref # None => row'[f].ref = row[f].ref
<1> DEFINE e == call[w].exec
           ref == call[w].ref
<1>1. TypeOK /\ ProductInv /\ EngineInv /\ CallShape
  BY DEF IInv, ProductInv
<1>2. /\ row' = [row EXCEPT ![e] = [status |-> "RUNNING", ref |-> ref, old |-> FALSE]]
      /\ Release(w)
      /\ UNCHANGED <<copy, heard, cancel, run, idem, late, crashes>>
  BY DEF DispatchStarted, engineVars
<1>3. /\ call[w].state = "started" /\ e \in batch[w] /\ e \in Executions
      /\ ref # None /\ ref \in Refs /\ run[ref].exec = e
  BY <1>1 DEF DispatchStarted, CallShape, TypeOK, Call
<1>4. row[e].ref = None
  BY <1>1, <1>3 DEF ProductInv, HeldRows
<1>5. /\ row' \in [Executions -> Row]
      /\ row'[e].ref = ref /\ row'[e].status = "RUNNING"
      /\ \A f \in Executions \ {e} : row'[f] = row[f]
  BY <1>1, <1>2, <1>3 DEF TypeOK, Row, Statuses, Active, InFlight
<1>6. /\ batch' \in [Workers -> SUBSET Executions]
      /\ call' \in [Workers -> Call]
      /\ Forgets /\ CallsEnd
      /\ e \notin batch'[w]
      /\ \A v \in Workers \ {w} : batch'[v] = batch[v]
  BY <1>1, <1>2, Released
<1>7. TypeOK'
  BY <1>1, <1>2, <1>5, <1>6 DEF TypeOK
<1>8. EngineInv' /\ RunsKeep
  BY <1>1, <1>2, EngineQuiet
<1>9. CallShape'
  BY <1>1, <1>6, <1>8, CallsEndKeeps
<1>10. HeldRows'
  <2>1. \A v \in Workers : e \notin batch'[v]
    BY <1>1, <1>3, <1>6 DEF ProductInv, HeldRows
  <2>2. \A v \in Workers : batch'[v] \subseteq batch[v] /\ batch'[v] \subseteq Executions
    BY <1>6 DEF Forgets
  <2> QED
    BY <1>1, <1>5, <2>1, <2>2 DEF ProductInv, HeldRows
<1>11. RowCanBeResolved'
  BY <1>1, <1>3, <1>5 DEF ProductInv, RowCanBeResolved
<1>12. CopiesAgree'
  BY <1>1, <1>2, <1>4, <1>5 DEF ProductInv, CopiesAgree
<1>13. HeardIsTrue'
  BY <1>1, <1>2 DEF ProductInv, HeardIsTrue
<1>14. RefsAreOwn' /\ RowsAreTrue'
  BY <1>1, <1>2, <1>3, <1>5 DEF ProductInv, RefsAreOwn, RowsAreTrue
<1>15. \A f \in Executions : row[f].ref # None => row'[f].ref = row[f].ref
  BY <1>4, <1>5
<1>16. CancelsAreTrue'
  BY <1>1, <1>2 DEF ProductInv, CancelsAreTrue
<1> QED
  BY <1>7, <1>8, <1>9, <1>10, <1>11, <1>12, <1>13, <1>14, <1>15, <1>16 DEF IInv, ProductInv

LEMMA DispatchDeferredKeeps ==
  ASSUME IInv, NEW w \in Workers, DispatchDeferred(w)
  PROVE  IInv' /\ \A f \in Executions : row'[f].ref = row[f].ref
<1> DEFINE e == call[w].exec
<1>1. TypeOK /\ ProductInv /\ EngineInv /\ CallShape
  BY DEF IInv, ProductInv
<1>2. /\ row' = [row EXCEPT ![e].status = "QUEUED"]
      /\ Release(w)
      /\ UNCHANGED <<copy, heard, cancel, run, idem, crashes>>
  BY DEF DispatchDeferred
<1>3. e \in batch[w] /\ e \in Executions
  BY <1>1 DEF DispatchDeferred, CallShape, TypeOK
<1>4. row[e].ref = None /\ row[e].status \notin {"ABSENT", "QUEUED"}
  BY <1>1, <1>3 DEF ProductInv, HeldRows
<1>5. /\ row' \in [Executions -> Row]
      /\ \A f \in Executions :
           /\ row'[f].ref = row[f].ref
           /\ row'[f].status = IF f = e THEN "QUEUED" ELSE row[f].status
  <2>1. row \in [Executions -> Row] /\ row' = [row EXCEPT ![e].status = "QUEUED"]
    BY <1>1, <1>2 DEF TypeOK
  <2>2. "QUEUED" \in Statuses
    BY DEF Statuses, Active
  <2> HIDE DEF e
  <2>3. /\ [row[e] EXCEPT !.status = "QUEUED"] \in Row
        /\ [row[e] EXCEPT !.status = "QUEUED"].ref = row[e].ref
        /\ [row[e] EXCEPT !.status = "QUEUED"].status = "QUEUED"
    BY <1>3, <2>1, <2>2 DEF Row
  <2>4. row' = [row EXCEPT ![e] = [row[e] EXCEPT !.status = "QUEUED"]]
    BY <1>3, <2>1
  <2> QED
    BY <1>3, <2>1, <2>3, <2>4
<1>6. /\ batch' \in [Workers -> SUBSET Executions]
      /\ call' \in [Workers -> Call]
      /\ Forgets /\ CallsEnd
      /\ e \notin batch'[w]
      /\ \A v \in Workers \ {w} : batch'[v] = batch[v]
  BY <1>1, <1>2, Released
<1>7. late' \in SUBSET Executions
  BY <1>1, <1>3 DEF DispatchDeferred, Abandon, TypeOK
<1>8. TypeOK'
  BY <1>1, <1>2, <1>5, <1>6, <1>7 DEF TypeOK
<1>9. EngineInv' /\ RunsKeep
  BY <1>1, <1>2, EngineQuiet
<1>10. CallShape'
  BY <1>1, <1>6, <1>9, CallsEndKeeps
<1>11. HeldRows'
  <2>1. \A v \in Workers : e \notin batch'[v]
    BY <1>1, <1>3, <1>6 DEF ProductInv, HeldRows
  <2>2. \A v \in Workers : batch'[v] \subseteq batch[v] /\ batch'[v] \subseteq Executions
    BY <1>6 DEF Forgets
  <2> QED
    BY <1>1, <1>5, <2>1, <2>2 DEF ProductInv, HeldRows
<1>12. RowCanBeResolved'
  BY <1>1, <1>4, <1>5 DEF ProductInv, RowCanBeResolved
<1>13. CopiesAgree' /\ HeardIsTrue' /\ RefsAreOwn'
  <2>1. UNCHANGED <<copy, heard, cancel, run>>
    BY <1>2
  <2>2. \A f \in Executions : row'[f].ref = row[f].ref
    BY <1>5
  <2>3. CopiesAgree'
    BY <1>1, <2>1, <2>2 DEF ProductInv, CopiesAgree
  <2>4. HeardIsTrue' /\ RefsAreOwn'
    BY <1>1, <2>1, <2>2 DEF ProductInv, HeardIsTrue, RefsAreOwn
  <2> QED
    BY <2>3, <2>4
<1>14. RowsAreTrue'
  BY <1>1, <1>2, <1>5 DEF ProductInv, RowsAreTrue
<1>15. CancelsAreTrue'
  BY <1>1, <1>2 DEF ProductInv, CancelsAreTrue
<1> QED
  BY <1>5, <1>8, <1>9, <1>10, <1>11, <1>12, <1>13, <1>14, <1>15 DEF IInv, ProductInv

\* The steps that leave the engine alone, overwrite and forget.
LEMMA QuietStepKeeps ==
  ASSUME IInv, TypeOK', Overwrites, Forgets, CallsEnd, UNCHANGED <<run, idem>>
  PROVE  IInv'
<1>1. EngineInv' /\ RunsKeep
  BY EngineQuiet DEF IInv
<1>2. CallShape'
  BY <1>1, CallsEndKeeps DEF IInv, ProductInv
<1> QED
  BY <1>1, <1>2, OverwriteKeeps DEF IInv

LEMMA DispatchRefusedKeeps ==
  ASSUME IInv, NEW w \in Workers, DispatchRefused(w)
  PROVE  IInv' /\ Overwrites
<1>1. TypeOK /\ CallShape
  BY DEF IInv, ProductInv
<1>2. call[w].exec \in Executions
  BY <1>1 DEF DispatchRefused, CallShape, TypeOK
<1>3. row' \in [Executions -> Row] /\ Overwrites
  BY <1>1, <1>2, StatusWritten DEF DispatchRefused
<1>4. /\ batch' \in [Workers -> SUBSET Executions]
      /\ call' \in [Workers -> Call]
      /\ Forgets /\ CallsEnd
  BY <1>1, Released DEF DispatchRefused
<1>5. TypeOK' /\ UNCHANGED <<run, idem>>
  BY <1>1, <1>3, <1>4 DEF TypeOK, DispatchRefused, engineVars
<1> QED
  BY <1>3, <1>4, <1>5, QuietStepKeeps

LEMMA DispatchAbortsKeeps ==
  ASSUME IInv, NEW w \in Workers, DispatchAborts(w)
  PROVE  IInv'
<1>1. TypeOK /\ CallShape
  BY DEF IInv, ProductInv
<1>2. /\ batch' = [batch EXCEPT ![w] = {}]
      /\ call' = [call EXCEPT ![w] = NoCall]
      /\ crashes < MaxCrashes /\ crashes' = crashes + 1
      /\ UNCHANGED <<row, copy, heard, cancel, run, idem>>
  BY DEF DispatchAborts
<1>3. late' \in SUBSET Executions
  BY <1>1 DEF DispatchAborts, Abandon, TypeOK, CallShape
<1>4. NoCall \in Call
  BY DEF NoCall, Call, CallStates
<1>5. TypeOK'
  BY <1>1, <1>2, <1>3, <1>4, BoundsAssumption DEF TypeOK
<1>6. Overwrites
  BY <1>2 DEF Overwrites
<1>7. Forgets /\ CallsEnd
  BY <1>1, <1>2 DEF Forgets, CallsEnd, TypeOK
<1> QED
  BY <1>2, <1>5, <1>6, <1>7, QuietStepKeeps

LEMMA PassBeginKeeps ==
  ASSUME IInv, NEW w \in Workers, PassBegin(w)
  PROVE  IInv'
<1> DEFINE fresh == [e \in Executions |-> IF row[e].status \in InFlight THEN row[e] ELSE Absent]
<1>1. TypeOK /\ ProductInv /\ EngineInv
  BY DEF IInv
<1>2. /\ copy' = [copy EXCEPT ![w] = fresh]
      /\ copy[w] = [e \in Executions |-> Absent]
      /\ UNCHANGED <<row, batch, call, heard, cancel, run, idem, late, crashes>>
  BY DEF PassBegin, engineVars
<1>3. Absent \in Row /\ Absent.ref = None
  BY DEF Absent, Row, Statuses
<1>4. fresh \in [Executions -> Row] /\ copy \in [Workers -> [Executions -> Row]]
  BY <1>1, <1>3 DEF TypeOK
<1>5. TypeOK'
  BY <1>1, <1>2, <1>4 DEF TypeOK
<1>6. EngineInv'
  BY <1>1, <1>2, EngineQuiet
<1>7. CallShape' /\ HeldRows' /\ RowCanBeResolved' /\ RefsAreOwn' /\ RowsAreTrue'
  BY <1>1, <1>2 DEF ProductInv, CallShape, HeldRows, RowCanBeResolved, RefsAreOwn, RowsAreTrue
<1>8. CopiesAgree'
  BY <1>1, <1>2, <1>3, <1>4 DEF ProductInv, CopiesAgree
<1>9. heard[w] = NoAnswer
  BY <1>1, <1>2, <1>3 DEF ProductInv, HeardIsTrue
<1>10. HeardIsTrue'
  BY <1>1, <1>2, <1>4, <1>9 DEF ProductInv, HeardIsTrue
<1>11. CancelsAreTrue'
  BY <1>1, <1>2 DEF ProductInv, CancelsAreTrue
<1> QED
  BY <1>5, <1>6, <1>7, <1>8, <1>10, <1>11 DEF IInv, ProductInv

\* What the engine says of a run: an outcome only when that is how it ended.
LEMMA StatusOfIsTrue ==
  ASSUME TypeOK, EngineInv, NEW r \in Refs
  PROVE  /\ StatusOf(r) \in Outcomes \cup {"RUNNING", "UNKNOWN"}
         /\ StatusOf(r) \in Outcomes => run[r].outcome = StatusOf(r)
<1>1. run[r] \in Run
  BY DEF TypeOK
<1> QED
  BY <1>1 DEF StatusOf, EngineInv, RunShape, Run, Outcomes

LEMMA PollKeeps ==
  ASSUME IInv, NEW w \in Workers, NEW e \in Executions, Poll(w, e)
  PROVE  IInv'
<1>1. TypeOK /\ ProductInv /\ EngineInv
  BY DEF IInv
<1>2. PICK word \in {StatusOf(copy[w][e].ref), "UNAVAILABLE"} :
        heard' = [heard EXCEPT ![w] = [exec |-> e, word |-> word]]
  BY DEF Poll
<1>3. copy[w][e].ref # None /\ copy[w][e].ref \in Refs
  BY <1>1 DEF Poll, TypeOK, Row
<1>4. /\ word \in Words
      /\ word \in Outcomes => run[copy[w][e].ref].outcome = word
  BY <1>1, <1>2, <1>3, StatusOfIsTrue DEF Words, Outcomes
<1>5. UNCHANGED <<row, batch, call, copy, cancel, run, idem, late, crashes>>
  BY DEF Poll, engineVars
<1>6. heard \in [Workers -> Answer] /\ heard' \in [Workers -> Answer]
  BY <1>1, <1>2, <1>4 DEF TypeOK, Answer
<1>7. TypeOK'
  BY <1>1, <1>5, <1>6 DEF TypeOK
<1>8. EngineInv'
  BY <1>1, <1>5, EngineQuiet
<1>9. CallShape' /\ HeldRows' /\ RowCanBeResolved' /\ CopiesAgree' /\ RefsAreOwn' /\ RowsAreTrue'
  BY <1>1, <1>5 DEF ProductInv, CallShape, HeldRows, RowCanBeResolved, CopiesAgree,
     RefsAreOwn, RowsAreTrue
<1>10. HeardIsTrue'
  BY <1>1, <1>2, <1>3, <1>4, <1>5, <1>6 DEF ProductInv, HeardIsTrue
<1>11. CancelsAreTrue'
  BY <1>1, <1>5 DEF ProductInv, CancelsAreTrue
<1> QED
  BY <1>7, <1>8, <1>9, <1>10, <1>11 DEF IInv, ProductInv

LEMMA Forgotten ==
  ASSUME TypeOK, NEW w \in Workers, NEW e \in Executions, Forget(w, e)
  PROVE  /\ copy' \in [Workers -> [Executions -> Row]]
         /\ \A v \in Workers, f \in Executions :
              copy'[v][f] = copy[v][f] \/ copy'[v][f] = Absent
         /\ \A v \in Workers \ {w} : copy'[v] = copy[v]
<1>1. /\ copy \in [Workers -> [Executions -> Row]]
      /\ copy' = [copy EXCEPT ![w] = [copy[w] EXCEPT ![e] = Absent]]
  BY DEF TypeOK, Forget
<1>2. Absent \in Row
  BY DEF Absent, Row, Statuses
<1> QED
  BY <1>1, <1>2

LEMMA PollIngestKeeps ==
  ASSUME IInv, NEW w \in Workers, PollIngest(w)
  PROVE  IInv' /\ Overwrites
<1> DEFINE e == heard[w].exec
           seen == copy[w][e]
<1>1. TypeOK /\ ProductInv
  BY DEF IInv
<1>2. /\ heard[w] # NoAnswer
      /\ heard' = [heard EXCEPT ![w] = NoAnswer]
      /\ Forget(w, e)
      /\ UNCHANGED <<batch, call, cancel, run, idem, late, crashes>>
  BY DEF PollIngest, engineVars
<1>3. /\ e \in Executions /\ seen.ref # None /\ seen.ref = row[e].ref
      /\ heard[w].word \in Outcomes => run[seen.ref].outcome = heard[w].word
  BY <1>1, <1>2 DEF ProductInv, HeardIsTrue, CopiesAgree
<1>4. row' \in [Executions -> Row] /\ Overwrites
  <2>1. CASE /\ heard[w].word \in Outcomes \cup {"RUNNING"}
             /\ row' = [row EXCEPT ![e] = Ingest(@, seen.status, heard[w].word)]
    BY <1>1, <1>3, <2>1, Ingested
  <2>2. CASE row' = [row EXCEPT ![e].status = "ENGINE_INTERRUPTED"]
    BY <1>1, <1>3, <2>2, StatusWritten
  <2>3. CASE row' = [row EXCEPT ![e].status = StaleStatus(seen.ref)]
    <3>1. StaleStatus(seen.ref) = "ENGINE_INTERRUPTED"
      BY <1>3 DEF StaleStatus
    <3> QED
      BY <1>1, <1>3, <2>3, <3>1, StatusWritten
  <2>4. CASE row' = row
    BY <1>1, <2>4 DEF Overwrites, TypeOK
  <2> QED
    BY <2>1, <2>2, <2>3, <2>4 DEF PollIngest
<1>5. /\ copy' \in [Workers -> [Executions -> Row]]
      /\ \A v \in Workers, f \in Executions :
           copy'[v][f] = copy[v][f] \/ copy'[v][f] = Absent
      /\ \A v \in Workers \ {w} : copy'[v] = copy[v]
  BY <1>1, <1>2, <1>3, Forgotten
<1>6. /\ heard' \in [Workers -> Answer]
      /\ heard'[w] = NoAnswer
      /\ \A v \in Workers \ {w} : heard'[v] = heard[v]
  BY <1>1, <1>2 DEF TypeOK, Answer, NoAnswer, Words
<1>7. Forgets /\ CallsEnd
  BY <1>2, <1>5, <1>6 DEF Forgets, CallsEnd
<1>8. TypeOK'
  BY <1>1, <1>2, <1>4, <1>5, <1>6 DEF TypeOK
<1> QED
  BY <1>2, <1>4, <1>7, <1>8, QuietStepKeeps

LEMMA CheckUnpolledKeeps ==
  ASSUME IInv, NEW w \in Workers, NEW e \in Executions, CheckUnpolled(w, e)
  PROVE  IInv' /\ Overwrites
<1>1. TypeOK
  BY DEF IInv
<1>2. /\ heard[w] = NoAnswer
      /\ Forget(w, e)
      /\ UNCHANGED <<batch, call, heard, cancel, run, idem, late, crashes>>
      /\ row' = [row EXCEPT ![e].status = StaleStatus(None)] \/ row' = row
  BY DEF CheckUnpolled, engineVars
<1>3. row' \in [Executions -> Row] /\ Overwrites
  <2>1. CASE row' = [row EXCEPT ![e].status = "FAILED_TO_START"]
    BY <1>1, <2>1, StatusWritten
  <2>2. CASE row' = row
    BY <1>1, <2>2 DEF Overwrites, TypeOK
  <2> QED
    BY <1>2, <2>1, <2>2 DEF StaleStatus
<1>4. /\ copy' \in [Workers -> [Executions -> Row]]
      /\ \A v \in Workers, f \in Executions :
           copy'[v][f] = copy[v][f] \/ copy'[v][f] = Absent
      /\ \A v \in Workers \ {w} : copy'[v] = copy[v]
  BY <1>1, <1>2, Forgotten
<1>5. Forgets /\ CallsEnd
  BY <1>2, <1>4 DEF Forgets, CallsEnd
<1>6. TypeOK'
  BY <1>1, <1>2, <1>3, <1>4 DEF TypeOK
<1> QED
  BY <1>2, <1>3, <1>5, <1>6, QuietStepKeeps

\* A worker that loses the copies of its reconcile turn, and maybe its batch.
LEMMA WorkerForgetsKeeps ==
  ASSUME IInv, NEW w \in Workers,
         row' = row, UNCHANGED <<cancel, run, idem>>,
         late' \in SUBSET Executions,
         crashes < MaxCrashes, crashes' = crashes + 1,
         copy' = [copy EXCEPT ![w] = [e \in Executions |-> Absent]],
         heard' = [heard EXCEPT ![w] = NoAnswer],
         \/ UNCHANGED <<batch, call>>
         \/ /\ batch' = [batch EXCEPT ![w] = {}]
            /\ call' = [call EXCEPT ![w] = NoCall]
  PROVE  IInv'
<1>1. TypeOK
  BY DEF IInv
<1>2. Absent \in Row /\ NoAnswer \in Answer /\ NoCall \in Call
  BY DEF Absent, Row, Statuses, NoAnswer, Answer, Words, NoCall, Call, CallStates
<1>3. copy' \in [Workers -> [Executions -> Row]]
  BY <1>1, <1>2 DEF TypeOK
<1>4. /\ heard' \in [Workers -> Answer]
      /\ batch' \in [Workers -> SUBSET Executions]
      /\ call' \in [Workers -> Call]
  BY <1>1, <1>2 DEF TypeOK
<1>5. TypeOK'
  BY <1>1, <1>3, <1>4, BoundsAssumption DEF TypeOK
<1>7. Overwrites
  BY DEF Overwrites
<1>6. Forgets /\ CallsEnd
  BY <1>1 DEF Forgets, CallsEnd, TypeOK
<1> QED
  BY <1>5, <1>6, <1>7, QuietStepKeeps

LEMMA PassAbortsKeeps ==
  ASSUME IInv, NEW w \in Workers, PassAborts(w)
  PROVE  IInv'
BY WorkerForgetsKeeps DEF PassAborts, engineVars, IInv, TypeOK

LEMMA WorkerCrashKeeps ==
  ASSUME IInv, NEW w \in Workers, WorkerCrash(w)
  PROVE  IInv'
<1>1. late' \in SUBSET Executions
  BY DEF WorkerCrash, Abandon, IInv, TypeOK, ProductInv, CallShape
<1> QED
  BY <1>1, WorkerForgetsKeeps DEF WorkerCrash

LEMMA SilenceKeeps ==
  ASSUME IInv, NEW e \in Executions, Silence(e)
  PROVE  IInv' /\ Overwrites
<1>1. TypeOK
  BY DEF IInv
<1>2. /\ row' = [row EXCEPT ![e].old = TRUE]
      /\ UNCHANGED <<batch, call, copy, heard, cancel, run, idem, late, crashes>>
  BY DEF Silence, workerVars, engineVars
<1>3. /\ row' \in [Executions -> Row]
      /\ \A f \in Executions : row'[f].ref = row[f].ref /\ row'[f].status = row[f].status
  <2>1. row \in [Executions -> Row] /\ row' = [row EXCEPT ![e] = [row[e] EXCEPT !.old = TRUE]]
    BY <1>1, <1>2 DEF TypeOK
  <2>2. /\ [row[e] EXCEPT !.old = TRUE] \in Row
        /\ [row[e] EXCEPT !.old = TRUE].ref = row[e].ref
        /\ [row[e] EXCEPT !.old = TRUE].status = row[e].status
    BY <2>1 DEF Row
  <2> QED
    BY <2>1, <2>2
<1>4. TypeOK'
  BY <1>1, <1>2, <1>3 DEF TypeOK
<1>5. Overwrites /\ Forgets /\ CallsEnd
  BY <1>2, <1>3 DEF Overwrites, Forgets, CallsEnd
<1> QED
  BY <1>2, <1>4, <1>5, QuietStepKeeps

\* The request has answered and forgets the row.
LEMMA Responded ==
  ASSUME TypeOK, NEW c \in Requests, Respond(c), UNCHANGED <<batch, call, copy, heard>>
  PROVE  cancel' \in [Requests -> Cancelling] /\ Forgets /\ CallsEnd
<1>1. NoCancel \in Cancelling
  BY DEF NoCancel, Cancelling, Absent, Row, Statuses, Words
<1>2. cancel' \in [Requests -> Cancelling]
  BY <1>1 DEF Respond, TypeOK
<1>3. Forgets
  BY DEF Forgets, Respond, TypeOK
<1> QED
  BY <1>2, <1>3 DEF CallsEnd

LEMMA CancelBeginKeeps ==
  ASSUME IInv, NEW c \in Requests, NEW e \in Executions, CancelBegin(c, e)
  PROVE  IInv'
<1>1. TypeOK /\ ProductInv /\ EngineInv
  BY DEF IInv
<1>2. /\ cancel' = [cancel EXCEPT ![c] = [exec |-> e, seen |-> row[e], word |-> "NONE"]]
      /\ UNCHANGED <<row, batch, call, copy, heard, run, idem, late, crashes>>
  BY DEF CancelBegin, workerVars, engineVars
<1>3. cancel \in [Requests -> Cancelling] /\ cancel' \in [Requests -> Cancelling]
  BY <1>1, <1>2 DEF TypeOK, Cancelling, Words
<1>4. TypeOK'
  BY <1>1, <1>2, <1>3 DEF TypeOK
<1>5. EngineInv'
  BY <1>1, <1>2, EngineQuiet
<1>6. CallShape' /\ HeldRows' /\ RowCanBeResolved' /\ HeardIsTrue' /\ RefsAreOwn' /\ RowsAreTrue'
  BY <1>1, <1>2 DEF ProductInv, CallShape, HeldRows, RowCanBeResolved, HeardIsTrue,
     RefsAreOwn, RowsAreTrue
<1>7. CopiesAgree'
  BY <1>1, <1>2, <1>3 DEF ProductInv, CopiesAgree
<1>8. CancelsAreTrue'
  BY <1>1, <1>2, <1>3 DEF ProductInv, CancelsAreTrue, Outcomes
<1> QED
  BY <1>4, <1>5, <1>6, <1>7, <1>8 DEF IInv, ProductInv

LEMMA CancelUndispatchedKeeps ==
  ASSUME IInv, NEW c \in Requests, CancelUndispatched(c)
  PROVE  IInv' /\ Overwrites
<1>1. TypeOK /\ ProductInv
  BY DEF IInv
<1>2. /\ cancel[c].exec \in Executions
      /\ row' = [row EXCEPT ![cancel[c].exec].status = "CANCELLED"]
      /\ Respond(c)
      /\ UNCHANGED <<batch, call, copy, heard, run, idem, late, crashes>>
  BY <1>1 DEF CancelUndispatched, workerVars, engineVars, ProductInv, CopiesAgree
<1>3. row' \in [Executions -> Row] /\ Overwrites
  BY <1>1, <1>2, StatusWritten
<1>4. cancel' \in [Requests -> Cancelling] /\ Forgets /\ CallsEnd
  BY <1>1, <1>2, Responded
<1>5. TypeOK'
  BY <1>1, <1>2, <1>3, <1>4 DEF TypeOK
<1> QED
  BY <1>2, <1>3, <1>4, <1>5, QuietStepKeeps

\* The row a request marks has the ref it loaded.
LEMMA MarkedKeeps ==
  ASSUME TypeOK, ProductInv, NEW c \in Requests,
         cancel[c] # NoCancel, cancel[c].seen.ref # None
  PROVE  /\ cancel[c].exec \in Executions
         /\ cancel[c].seen.ref \in Refs
         /\ row[cancel[c].exec].ref = cancel[c].seen.ref
         /\ Marked(c) \in [Executions -> Row]
         /\ \A f \in Executions :
              /\ Marked(c)[f].ref = row[f].ref
              /\ f # cancel[c].exec => Marked(c)[f] = row[f]
              /\ Marked(c)[f].status \in {row[f].status, "CANCEL_REQUESTED"}
<1>1. /\ cancel[c].exec \in Executions
      /\ row[cancel[c].exec].ref = cancel[c].seen.ref
      /\ cancel[c].seen.ref \in Refs
  BY DEF ProductInv, CopiesAgree, TypeOK, Row
<1>2. row \in [Executions -> Row]
  BY DEF TypeOK
<1>3. PICK s \in {row[cancel[c].exec].status, "CANCEL_REQUESTED"} :
        Marked(c) = [row EXCEPT ![cancel[c].exec].status = s]
  BY <1>1, <1>2 DEF Marked, Flushed
<1>4. s \in Statuses
  BY <1>1, <1>2, <1>3 DEF Row, Statuses, Active, InFlight
<1> QED
  BY <1>1, <1>2, <1>3, <1>4 DEF Row

LEMMA CancelAnsweredKeeps ==
  ASSUME IInv, NEW c \in Requests, CancelAnswered(c)
  PROVE  IInv' /\ Overwrites
<1> DEFINE e == cancel[c].exec
           ref == cancel[c].seen.ref
           word == StatusOf(ref)
<1>1. TypeOK /\ ProductInv /\ EngineInv /\ EngineTypes
  BY DEF IInv, TypeOK, EngineTypes
<1>2. /\ cancel[c] # NoCancel /\ ref # None
      /\ SetCancelled(ref)
      /\ row' = IF word = "UNKNOWN" THEN row
                ELSE [Marked(c) EXCEPT ![e] = Ingest(@, "CANCEL_REQUESTED", word)]
      /\ Respond(c)
      /\ UNCHANGED <<batch, call, copy, heard, idem, late, crashes>>
  BY DEF CancelAnswered, workerVars
<1>3. /\ e \in Executions /\ ref \in Refs /\ row[e].ref = ref
      /\ Marked(c) \in [Executions -> Row]
      /\ \A f \in Executions :
           /\ Marked(c)[f].ref = row[f].ref
           /\ f # e => Marked(c)[f] = row[f]
           /\ Marked(c)[f].status \in {row[f].status, "CANCEL_REQUESTED"}
  BY <1>1, <1>2, MarkedKeeps
<1>4. EngineTypes' /\ EngineInv' /\ RunsKeep
  BY <1>1, <1>2, <1>3, SetCancelledKeeps
<1>5. /\ word \in Outcomes \cup {"RUNNING", "UNKNOWN"}
      /\ word \in Outcomes => run[ref].outcome = word
  BY <1>1, <1>3, StatusOfIsTrue
<1>6. row' \in [Executions -> Row] /\ Overwrites
  <2>1. CASE word = "UNKNOWN"
    BY <1>1, <1>2, <2>1 DEF Overwrites, TypeOK
  <2>2. CASE word # "UNKNOWN"
    <3>1. word \in Outcomes \cup {"RUNNING"} /\ word \in Statuses
      BY <1>5, <2>2 DEF Statuses, Active, InFlight, Terminal, Outcomes
    <3>2. Marked(c)[e] \in Row
      BY <1>3
    <3>3. /\ Ingest(Marked(c)[e], "CANCEL_REQUESTED", word) \in Row
          /\ Ingest(Marked(c)[e], "CANCEL_REQUESTED", word).ref = Marked(c)[e].ref
          /\ Ingest(Marked(c)[e], "CANCEL_REQUESTED", word).status \in {Marked(c)[e].status, word}
      BY <3>1, <3>2 DEF Ingest, Row
    <3>4. /\ row' \in [Executions -> Row]
          /\ row'[e] = Ingest(Marked(c)[e], "CANCEL_REQUESTED", word)
          /\ \A f \in Executions \ {e} : row'[f] = row[f]
      BY <1>2, <1>3, <2>2, <3>3
    <3>5. row'[e].ref = row[e].ref
      BY <1>3, <3>3, <3>4
    <3>6. row'[e].status \in {row[e].status, "CANCEL_REQUESTED", word}
      BY <1>3, <3>3, <3>4
    <3>7. \/ row'[e].status \in {row[e].status, "CANCELLED"}
          \/ row'[e].status \in {"RUNNING", "CANCEL_REQUESTED"} /\ row[e].ref # None
          \/ /\ row'[e].status \in Outcomes
             /\ row[e].ref # None
             /\ run[row[e].ref].outcome = row'[e].status
      BY <1>2, <1>3, <1>5, <3>1, <3>6
    <3> QED
      BY <3>4, <3>5, <3>7 DEF Overwrites
  <2> QED
    BY <2>1, <2>2
<1>7. cancel' \in [Requests -> Cancelling] /\ Forgets /\ CallsEnd
  BY <1>1, <1>2, Responded
<1>8. TypeOK'
  BY <1>1, <1>2, <1>4, <1>6, <1>7 DEF TypeOK, EngineTypes
<1>9. CallShape'
  BY <1>1, <1>4, <1>7, CallsEndKeeps DEF ProductInv
<1> QED
  BY <1>1, <1>4, <1>6, <1>7, <1>8, <1>9, OverwriteKeeps DEF IInv

\* The answer is kept for later: what it says of the run it is about stays true.
LEMMA CancelHearsKeeps ==
  ASSUME IInv, NEW c \in Requests, CancelHears(c)
  PROVE  IInv' /\ row' = row
<1> DEFINE ref == cancel[c].seen.ref
           word == StatusOf(ref)
<1>1. TypeOK /\ ProductInv /\ EngineInv /\ EngineTypes
  BY DEF IInv, TypeOK, EngineTypes
<1>2. /\ cancel[c] # NoCancel /\ ref # None /\ word # "UNKNOWN"
      /\ SetCancelled(ref)
      /\ cancel' = [cancel EXCEPT ![c].word = word]
      /\ UNCHANGED <<row, batch, call, copy, heard, idem, late, crashes>>
  BY DEF CancelHears, workerVars
<1>3. ref \in Refs
  BY <1>1, <1>2, MarkedKeeps
<1>4. EngineTypes' /\ EngineInv' /\ RunsKeep
  BY <1>1, <1>2, <1>3, SetCancelledKeeps
<1>5. /\ word \in Outcomes \cup {"RUNNING"}
      /\ word \in Outcomes => run'[ref].outcome = word
  <2>1. word \in Outcomes => run[ref].outcome = word
    BY <1>1, <1>3, StatusOfIsTrue
  <2> QED
    BY <1>1, <1>2, <1>3, <1>4, <2>1, StatusOfIsTrue DEF RunsKeep, Outcomes
<1>6. cancel \in [Requests -> Cancelling] /\ word \in Words
  BY <1>1, <1>5 DEF TypeOK, Words
<1> HIDE DEF word
<1>7. /\ cancel' \in [Requests -> Cancelling]
      /\ \A d \in Requests \ {c} : cancel'[d] = cancel[d]
      /\ cancel'[c].exec = cancel[c].exec /\ cancel'[c].seen = cancel[c].seen
      /\ cancel'[c].word = word
  BY <1>2, <1>6 DEF Cancelling
<1>8. TypeOK'
  BY <1>1, <1>2, <1>4, <1>7 DEF TypeOK, EngineTypes
<1>9. Overwrites /\ CallsEnd
  BY <1>2 DEF Overwrites, CallsEnd
<1>10. CallShape' /\ HeldRows' /\ RowCanBeResolved'
  BY <1>1, <1>2, <1>4, <1>9, CallsEndKeeps DEF ProductInv, HeldRows, RowCanBeResolved
<1>11. CopiesAgree'
  BY <1>1, <1>2, <1>7 DEF ProductInv, CopiesAgree
<1>12. HeardIsTrue'
  <2>1. \A w \in Workers, e \in Executions : copy[w][e].ref \in Refs \cup {None}
    BY <1>1 DEF TypeOK, Row
  <2> QED
    BY <1>1, <1>2, <1>4, <2>1 DEF ProductInv, HeardIsTrue, RunsKeep, Outcomes
<1>13. RefsAreOwn' /\ RowsAreTrue'
  <2>1. \A e \in Executions : row[e].ref \in Refs \cup {None}
    BY <1>1 DEF TypeOK, Row
  <2>2. RefsAreOwn'
    BY <1>1, <1>2, <1>4, <2>1, NoneAssumption DEF ProductInv, RefsAreOwn, RunsKeep
  <2>3. RowsAreTrue'
    BY <1>1, <1>2, <1>4, <2>1 DEF ProductInv, RowsAreTrue, RunsKeep
  <2> QED
    BY <2>2, <2>3
<1>14. CancelsAreTrue'
  <2> SUFFICES ASSUME NEW d \in Requests
               PROVE  /\ cancel'[d].word \in Outcomes \cup {"RUNNING", "NONE"}
                      /\ cancel'[d].word # "NONE" => cancel'[d] # NoCancel /\ cancel'[d].seen.ref # None
                      /\ cancel'[d].word \in Outcomes => run'[cancel'[d].seen.ref].outcome = cancel'[d].word
    BY DEF CancelsAreTrue
  <2>1. CASE d = c
    BY <1>2, <1>5, <1>7, <2>1 DEF NoCancel, Absent
  <2>2. CASE d # c
    <3>1. cancel'[d] = cancel[d] /\ cancel[d].seen.ref \in Refs \cup {None}
      BY <1>6, <1>7, <2>2 DEF Cancelling, Row
    <3> QED
      BY <1>1, <1>4, <3>1 DEF ProductInv, CancelsAreTrue, RunsKeep, Outcomes
  <2> QED
    BY <2>1, <2>2
<1> QED
  BY <1>2, <1>4, <1>8, <1>10, <1>11, <1>12, <1>13, <1>14 DEF IInv, ProductInv

\* And is written on the row as it is by then: it still is what that row's run said.
LEMMA CancelRecordsKeeps ==
  ASSUME IInv, NEW c \in Requests, CancelRecords(c)
  PROVE  IInv' /\ Overwrites
<1> DEFINE e == cancel[c].exec
           ref == cancel[c].seen.ref
<1>1. TypeOK /\ ProductInv
  BY DEF IInv
<1>2. /\ cancel[c].word # "NONE"
      /\ row' = [row EXCEPT ![e] = Ingest(@, "CANCEL_REQUESTED", cancel[c].word)]
      /\ Respond(c)
      /\ UNCHANGED <<batch, call, copy, heard, run, idem, late, crashes>>
  BY DEF CancelRecords, workerVars, engineVars
<1>3. /\ e \in Executions /\ ref # None /\ row[e].ref = ref
      /\ cancel[c].word \in Outcomes \cup {"RUNNING"}
      /\ cancel[c].word \in Outcomes => run[ref].outcome = cancel[c].word
  BY <1>1, <1>2, MarkedKeeps DEF ProductInv, CancelsAreTrue
<1>4. row' \in [Executions -> Row] /\ Overwrites
  BY <1>1, <1>2, <1>3, Ingested
<1>5. cancel' \in [Requests -> Cancelling] /\ Forgets /\ CallsEnd
  BY <1>1, <1>2, Responded
<1>6. TypeOK'
  BY <1>1, <1>2, <1>4, <1>5 DEF TypeOK
<1> QED
  BY <1>2, <1>4, <1>5, <1>6, QuietStepKeeps

\* The engine may have been told of the cancel or not.
LEMMA MaybeCancelledKeeps ==
  ASSUME EngineTypes, EngineInv, NEW r \in Refs, SetCancelled(r) \/ UNCHANGED run, UNCHANGED idem
  PROVE  EngineTypes' /\ EngineInv' /\ RunsKeep
<1>1. CASE SetCancelled(r)
  BY <1>1, SetCancelledKeeps
<1>2. CASE UNCHANGED run
  BY <1>2, EngineQuiet DEF EngineTypes
<1> QED
  BY <1>1, <1>2

LEMMA CancelDeferredKeeps ==
  ASSUME IInv, NEW c \in Requests, CancelDeferred(c)
  PROVE  IInv' /\ Overwrites
<1>1. TypeOK /\ ProductInv /\ EngineInv /\ EngineTypes
  BY DEF IInv, TypeOK, EngineTypes
<1>2. /\ cancel[c] # NoCancel /\ cancel[c].seen.ref # None
      /\ SetCancelled(cancel[c].seen.ref) \/ UNCHANGED run
      /\ row' = Marked(c)
      /\ Respond(c)
      /\ UNCHANGED <<batch, call, copy, heard, idem, late, crashes>>
  BY DEF CancelDeferred, workerVars
<1>3. /\ cancel[c].exec \in Executions /\ cancel[c].seen.ref \in Refs
      /\ row[cancel[c].exec].ref = cancel[c].seen.ref
      /\ Marked(c) \in [Executions -> Row]
      /\ \A f \in Executions :
           /\ Marked(c)[f].ref = row[f].ref
           /\ f # cancel[c].exec => Marked(c)[f] = row[f]
           /\ Marked(c)[f].status \in {row[f].status, "CANCEL_REQUESTED"}
  BY <1>1, <1>2, MarkedKeeps
<1>4. EngineTypes' /\ EngineInv' /\ RunsKeep
  BY <1>1, <1>2, <1>3, MaybeCancelledKeeps
<1>5. Overwrites
  BY <1>2, <1>3 DEF Overwrites
<1>6. cancel' \in [Requests -> Cancelling] /\ Forgets /\ CallsEnd
  BY <1>1, <1>2, Responded
<1>7. TypeOK'
  BY <1>1, <1>2, <1>3, <1>4, <1>6 DEF TypeOK, EngineTypes
<1>8. CallShape'
  BY <1>1, <1>4, <1>6, CallsEndKeeps DEF ProductInv
<1> QED
  BY <1>1, <1>4, <1>5, <1>6, <1>7, <1>8, OverwriteKeeps DEF IInv

LEMMA CancelDiesKeeps ==
  ASSUME IInv, NEW c \in Requests, CancelDies(c)
  PROVE  IInv'
<1>1. TypeOK /\ ProductInv /\ EngineInv /\ EngineTypes
  BY DEF IInv, TypeOK, EngineTypes
<1>2. /\ cancel[c] # NoCancel /\ cancel[c].seen.ref # None
      /\ SetCancelled(cancel[c].seen.ref) \/ UNCHANGED run
      /\ Respond(c)
      /\ crashes < MaxCrashes /\ crashes' = crashes + 1
      /\ UNCHANGED <<row, batch, call, copy, heard, idem, late>>
  BY DEF CancelDies, workerVars
<1>3. EngineTypes' /\ EngineInv' /\ RunsKeep
  BY <1>1, <1>2, MarkedKeeps, MaybeCancelledKeeps
<1>4. Overwrites
  BY <1>2 DEF Overwrites
<1>5. cancel' \in [Requests -> Cancelling] /\ Forgets /\ CallsEnd
  BY <1>1, <1>2, Responded
<1>6. TypeOK'
  BY <1>1, <1>2, <1>3, <1>5, BoundsAssumption DEF TypeOK, EngineTypes
<1>7. CallShape'
  BY <1>1, <1>3, <1>5, CallsEndKeeps DEF ProductInv
<1> QED
  BY <1>1, <1>3, <1>4, <1>5, <1>6, <1>7, OverwriteKeeps DEF IInv

----------------------------------------------------------------------------
(* The theorems *)

LEMMA NextKeeps == IInv /\ Next => IInv'
<1> SUFFICES ASSUME IInv, Next PROVE IInv'
  OBVIOUS
<1>1. ASSUME NEW e \in Executions, Create(e) \/ AcceptLate(e) \/ Silence(e)
      PROVE  IInv'
  BY <1>1, CreateKeeps, AcceptLateKeeps, SilenceKeeps
<1>2. ASSUME NEW w \in Workers, Dispatcher(w)
      PROVE  IInv'
  BY <1>2, ClaimKeeps, PostKeeps, DispatchStartedKeeps, DispatchDeferredKeeps,
     DispatchRefusedKeeps DEF Dispatcher
<1>3. ASSUME NEW w \in Workers, Reconciler(w)
      PROVE  IInv'
  BY <1>3, PassBeginKeeps, PollKeeps, CheckUnpolledKeeps, PollIngestKeeps DEF Reconciler
<1>4. ASSUME NEW w \in Workers, Accept(w)
      PROVE  IInv'
  BY <1>4, AcceptKeeps
<1>5. ASSUME NEW r \in Refs, Finish(r)
      PROVE  IInv'
  BY <1>5, FinishStepKeeps
<1>6. ASSUME NEW c \in Requests, CancelRequest(c)
      PROVE  IInv'
  BY <1>6, CancelBeginKeeps, CancelUndispatchedKeeps, CancelAnsweredKeeps, CancelHearsKeeps,
     CancelRecordsKeeps, CancelDeferredKeeps DEF CancelRequest
<1>7. ASSUME Faults
      PROVE  IInv'
  BY <1>7, EngineCrashStepKeeps, DispatchAbortsKeeps, PassAbortsKeeps, WorkerCrashKeeps,
     CancelDiesKeeps DEF Faults
<1> QED
  BY <1>1, <1>2, <1>3, <1>4, <1>5, <1>6, <1>7 DEF Next

\* In every reachable state, IInv.
LEMMA Invariance == Spec => []IInv
<1>1. IInv /\ UNCHANGED vars => IInv'
  <2> SUFFICES ASSUME IInv, UNCHANGED vars PROVE IInv'
    OBVIOUS
  <2>1. UNCHANGED <<row, batch, call, copy, heard, cancel, run, idem, late, crashes>>
    BY DEF vars
  <2>2. TypeOK'
    BY <2>1 DEF IInv, TypeOK
  <2>3. EngineInv' /\ RunsKeep
    BY <2>1, EngineQuiet DEF IInv
  <2>4. ProductInv'
    BY <2>1, <2>2, <2>3, EngineStepKeeps DEF IInv, workerVars
  <2> QED
    BY <2>2, <2>3, <2>4 DEF IInv
<1> QED
  BY <1>1, InitEstablishes, NextKeeps, PTL DEF Spec

\* All state keeps its type: no status outside ExecutionStatus is ever stored,
\* in particular none the engine's answer was turned into (_parse_status).
THEOREM TypeCorrectness == Spec => []TypeOK
<1>1. IInv => TypeOK
  BY DEF IInv
<1> QED
  BY <1>1, Invariance, PTL

\* Any number of workers share the queue without ever holding the same row, and
\* no row that can be claimed is held (claim_queued, dispatch, ADR-011).
THEOREM DispatchIsExclusive == Spec => []ExclusiveDispatch
<1>1. IInv => ExclusiveDispatch
  BY DEF IInv, ProductInv, HeldRows, ExclusiveDispatch, Queued
<1> QED
  BY <1>1, Invariance, PTL

\* startExecution's idempotency map keeps two runs of one execution from going on
\* at once, across sweeps, restarts and requests handled late.
THEOREM OneLiveRun == Spec => []OneLiveRunPerExecution
<1>1. IInv => OneLiveRunPerExecution
  BY DEF IInv, EngineInv, KeysKnowRuns, OneLiveRunPerExecution
<1> QED
  BY <1>1, Invariance, PTL

\* What a row says of the end of its run is what happened to that run, although
\* the row was written from a copy read before the engine was asked (poll, ingest).
THEOREM HistoryIsTrue == Spec => []TruthfulHistory
<1>1. IInv => TruthfulHistory
  BY DEF IInv, TypeOK, Row, ProductInv, RefsAreOwn, RowsAreTrue, TruthfulHistory
<1> QED
  BY <1>1, Invariance, PTL

\* No interleaving of stale writers leaves a row waiting for the engine without
\* the ref to ask for, or a row with a ref waiting to be dispatched.
THEOREM RowsCanBeResolved == Spec => []RowCanBeResolved
<1>1. IInv => RowCanBeResolved
  BY DEF IInv, ProductInv
<1> QED
  BY <1>1, Invariance, PTL

LEMMA OverwritesKeepRefs ==
  ASSUME Overwrites
  PROVE  \A f \in Executions : row[f].ref # None => row'[f].ref = row[f].ref
BY DEF Overwrites

\* A row's engine ref is written once (dispatch), never replaced.
THEOREM RefsAreForever == Spec => RefIsForever
<1> DEFINE Kept == \A e \in Executions : row[e].ref # None => row'[e].ref = row[e].ref
<1>1. IInv /\ Next => Kept
  <2> SUFFICES ASSUME IInv, Next PROVE Kept
    OBVIOUS
  <2>1. row \in [Executions -> Row]
    BY DEF IInv, TypeOK
  <2>2. ASSUME NEW e \in Executions, Create(e) \/ AcceptLate(e) \/ Silence(e)
        PROVE  Kept
    <3>1. CASE Create(e)
      BY <2>1, <3>1 DEF Create, Row
    <3>2. CASE AcceptLate(e)
      BY <3>2 DEF AcceptLate
    <3>3. CASE Silence(e)
      BY <3>3, SilenceKeeps, OverwritesKeepRefs
    <3> QED
      BY <2>2, <3>1, <3>2, <3>3
  <2>3. ASSUME NEW w \in Workers, Dispatcher(w)
        PROVE  Kept
    <3>1. CASE Claim(w)
      BY <2>1, <3>1 DEF Claim, Row
    <3>2. CASE \E e \in Executions : Post(w, e)
      BY <2>1, <3>2 DEF Post, Row
    <3>3. CASE DispatchStarted(w)
      BY <3>3, DispatchStartedKeeps
    <3>4. CASE DispatchDeferred(w)
      BY <3>4, DispatchDeferredKeeps
    <3>5. CASE DispatchRefused(w)
      BY <3>5, DispatchRefusedKeeps, OverwritesKeepRefs
    <3> QED
      BY <2>3, <3>1, <3>2, <3>3, <3>4, <3>5 DEF Dispatcher
  <2>4. ASSUME NEW w \in Workers, Reconciler(w)
        PROVE  Kept
    <3>1. CASE PassBegin(w) \/ \E e \in Executions : Poll(w, e)
      BY <3>1 DEF PassBegin, Poll
    <3>2. CASE PollIngest(w) \/ \E e \in Executions : CheckUnpolled(w, e)
      BY <3>2, PollIngestKeeps, CheckUnpolledKeeps, OverwritesKeepRefs
    <3> QED
      BY <2>4, <3>1, <3>2 DEF Reconciler
  <2>5. ASSUME NEW c \in Requests, CancelRequest(c)
        PROVE  Kept
    <3>1. CASE \E e \in Executions : CancelBegin(c, e)
      BY <3>1 DEF CancelBegin
    <3>2. CASE CancelUndispatched(c) \/ CancelAnswered(c) \/ CancelDeferred(c) \/ CancelRecords(c)
      BY <3>2, CancelUndispatchedKeeps, CancelAnsweredKeeps, CancelDeferredKeeps,
         CancelRecordsKeeps, OverwritesKeepRefs
    <3>3. CASE CancelHears(c)
      BY <3>3 DEF CancelHears
    <3> QED
      BY <2>5, <3>1, <3>2, <3>3 DEF CancelRequest
  <2>6. ASSUME \/ \E w \in Workers : Accept(w)
               \/ \E r \in Refs : Finish(r)
               \/ Faults
        PROVE  Kept
    BY <2>6 DEF Accept, Finish, Faults, EngineCrash, DispatchAborts, PassAborts,
       WorkerCrash, CancelDies
  <2> QED
    BY <2>2, <2>3, <2>4, <2>5, <2>6 DEF Next
<1>2. IInv /\ [Next]_vars => [Kept]_vars
  BY <1>1
<1> QED
  BY <1>2, Invariance, PTL DEF Spec, RefIsForever

\* Nobody has the row of a run that has ended in memory any more.
AtRest(e) ==
  /\ row[e].status \in Terminal
  /\ \A w \in Workers : e \notin batch[w] /\ copy[w][e] = Absent
  /\ \A c \in Requests : cancel[c].exec # e

LEMMA RestStays ==
  ASSUME IInv, [Next]_vars, NEW e \in Executions, AtRest(e)
  PROVE  AtRest(e)' /\ row'[e] = row[e]
<1> DEFINE Stays == AtRest(e)' /\ row'[e] = row[e]
<1>1. /\ TypeOK /\ CallShape /\ row \in [Executions -> Row]
      /\ row[e].status \notin {"ABSENT", "QUEUED", "DISPATCHING", "RUNNING", "CANCEL_REQUESTED"}
      /\ Absent.status = "ABSENT" /\ Absent.ref = None
  BY DEF IInv, ProductInv, TypeOK, AtRest, Terminal, Outcomes, Absent
\* What each worker is about is another row.
<1>2. \A w \in Workers : /\ call[w].state # "idle" => call[w].exec # e
                         /\ heard[w] # NoAnswer => heard[w].exec # e
                         /\ copy[w][e].status = "ABSENT" /\ copy[w][e].ref = None
  BY <1>1 DEF IInv, ProductInv, CallShape, HeardIsTrue, AtRest
<1>3. ASSUME row'[e] = row[e], batch' = batch, copy' = copy, cancel' = cancel
      PROVE  Stays
  BY <1>3 DEF AtRest
<1>4. ASSUME NEW f \in Executions, Create(f) \/ AcceptLate(f) \/ Silence(f)
      PROVE  Stays
  <2>1. row'[e] = row[e]
    BY <1>1, <1>4 DEF Create, AcceptLate, Silence, InFlight
  <2> QED
    BY <1>3, <1>4, <2>1 DEF Create, AcceptLate, Silence, workerVars
<1>5. ASSUME NEW w \in Workers, Dispatcher(w)
      PROVE  Stays
  <2>1. CASE Claim(w)
    <3>1. PICK S \in SUBSET Queued :
            /\ batch' = [batch EXCEPT ![w] = S]
            /\ row' = [f \in Executions |->
                         IF f \in S THEN [row[f] EXCEPT !.status = "DISPATCHING"] ELSE row[f]]
      BY <2>1 DEF Claim
    <3>2. e \notin S
      BY <1>1 DEF Queued
    <3>3. row'[e] = row[e] /\ \A v \in Workers : e \notin batch'[v]
      BY <1>1, <3>1, <3>2 DEF AtRest, TypeOK
    <3> QED
      BY <2>1, <3>3 DEF AtRest, Claim
  <2>2. ASSUME NEW f \in Executions, Post(w, f)
        PROVE  Stays
    <3>1. f # e
      BY <2>2 DEF Post, AtRest
    <3>2. row'[e] = row[e]
      BY <1>1, <2>2, <3>1 DEF Post
    <3> QED
      BY <1>3, <2>2, <3>2 DEF Post
  <2>3. CASE DispatchStarted(w) \/ DispatchDeferred(w) \/ DispatchRefused(w)
    <3>0. call[w].state # "idle"
      BY <2>3 DEF DispatchStarted, DispatchDeferred, DispatchRefused
    <3>1. call[w].exec # e
      BY <1>2, <1>5, <3>0
    <3>2. row'[e] = row[e]
      BY <1>1, <2>3, <3>1 DEF DispatchStarted, DispatchDeferred, DispatchRefused
    <3>3. \A v \in Workers : e \notin batch'[v]
      BY <1>1, <2>3 DEF DispatchStarted, DispatchDeferred, DispatchRefused, Release, AtRest, TypeOK
    <3> QED
      BY <2>3, <3>2, <3>3 DEF DispatchStarted, DispatchDeferred, DispatchRefused, AtRest
  <2> QED
    BY <1>5, <2>1, <2>2, <2>3 DEF Dispatcher
<1>6. ASSUME NEW w \in Workers, Reconciler(w)
      PROVE  Stays
  <2>1. CASE PassBegin(w)
    <3>1. \A v \in Workers : copy'[v][e] = Absent
      BY <1>1, <2>1 DEF PassBegin, InFlight, AtRest, TypeOK
    <3> QED
      BY <2>1, <3>1 DEF PassBegin, AtRest
  <2>2. ASSUME NEW f \in Executions, Poll(w, f)
        PROVE  Stays
    BY <1>3, <2>2 DEF Poll
  <2>3. ASSUME NEW f \in Executions, CheckUnpolled(w, f)
        PROVE  Stays
    <3>0. copy[w][f].status # "ABSENT"
      BY <2>3 DEF CheckUnpolled
    <3>1. f # e
      BY <1>2, <1>6, <3>0
    <3>2. row'[e] = row[e]
      BY <1>1, <2>3, <3>1 DEF CheckUnpolled
    <3>3. \A v \in Workers : copy'[v][e] = Absent
      BY <1>1, <2>3, Forgotten DEF CheckUnpolled, AtRest
    <3> QED
      BY <2>3, <3>2, <3>3 DEF CheckUnpolled, AtRest
  <2>4. CASE PollIngest(w)
    <3> DEFINE f == heard[w].exec
    <3>0. heard[w] # NoAnswer
      BY <2>4 DEF PollIngest
    <3>1. f # e /\ f \in Executions
      BY <1>2, <1>6, <3>0 DEF IInv, ProductInv, HeardIsTrue
    <3> HIDE DEF f
    <3>2. Forget(w, f)
      BY <2>4 DEF PollIngest, f
    <3>3. row'[e] = row[e]
      <4>1. \/ \E new : row' = [row EXCEPT ![f] = new]
            \/ \E new : row' = [row EXCEPT ![f].status = new]
            \/ row' = row
        BY <2>4 DEF PollIngest, f
      <4> QED
        BY <1>1, <3>1, <4>1
    <3>4. \A v \in Workers : copy'[v][e] = Absent
      BY <1>1, <3>1, <3>2, Forgotten DEF AtRest
    <3> QED
      BY <2>4, <3>3, <3>4 DEF PollIngest, AtRest
  <2> QED
    BY <1>6, <2>1, <2>2, <2>3, <2>4 DEF Reconciler
<1>7. ASSUME NEW c \in Requests, CancelRequest(c) \/ CancelDies(c)
      PROVE  Stays
  <2>1. ASSUME NEW f \in Executions, CancelBegin(c, f)
        PROVE  Stays
    <3>1. f # e
      BY <1>1, <2>1 DEF CancelBegin, Active, InFlight
    <3>2. \A d \in Requests : cancel'[d].exec # e
      BY <1>1, <2>1, <3>1 DEF CancelBegin, AtRest, TypeOK
    <3> QED
      BY <2>1, <3>2 DEF CancelBegin, AtRest, workerVars
  <2>2. ASSUME \/ CancelUndispatched(c) \/ CancelAnswered(c) \/ CancelDeferred(c)
               \/ CancelRecords(c) \/ CancelDies(c)
        PROVE  Stays
    <3> DEFINE f == cancel[c].exec
    <3>1. f # e
      BY DEF AtRest
    <3>2. cancel' = [cancel EXCEPT ![c] = NoCancel] /\ batch' = batch /\ copy' = copy
      BY <2>2 DEF CancelUndispatched, CancelAnswered, CancelDeferred, CancelRecords, CancelDies,
         Respond, workerVars
    <3>3. NoCancel.exec # e
      BY NoneAssumption DEF NoCancel
    <3>4. \A d \in Requests : cancel'[d].exec # e
      BY <1>1, <3>2, <3>3 DEF AtRest, TypeOK
    <3>5. row'[e] = row[e]
      BY <1>1, <2>2, <3>1 DEF CancelUndispatched, CancelAnswered, CancelDeferred, CancelRecords,
         CancelDies, Marked
    <3> QED
      BY <3>2, <3>4, <3>5 DEF AtRest
  <2>3. ASSUME CancelHears(c)
        PROVE  Stays
    <3>1. \A d \in Requests : cancel'[d].exec = cancel[d].exec
      BY <1>1, <2>3 DEF CancelHears, TypeOK, Cancelling
    <3> QED
      BY <2>3, <3>1 DEF CancelHears, AtRest, workerVars
  <2> QED
    BY <1>7, <2>1, <2>2, <2>3 DEF CancelRequest
<1>8. ASSUME \/ \E w \in Workers : Accept(w)
             \/ \E r \in Refs : Finish(r)
             \/ EngineCrash \/ UNCHANGED vars
      PROVE  Stays
  BY <1>3, <1>8 DEF Accept, Finish, EngineCrash, vars, workerVars
<1>9. ASSUME NEW w \in Workers, DispatchAborts(w) \/ PassAborts(w) \/ WorkerCrash(w)
      PROVE  Stays
  <2>1. row' = row /\ cancel' = cancel
    BY <1>9 DEF DispatchAborts, PassAborts, WorkerCrash
  <2>2. \A v \in Workers : e \notin batch'[v] /\ copy'[v][e] = Absent
    BY <1>1, <1>9 DEF DispatchAborts, PassAborts, WorkerCrash, AtRest, TypeOK
  <2> QED
    BY <2>1, <2>2 DEF AtRest
<1> QED
  BY <1>4, <1>5, <1>6, <1>7, <1>8, <1>9 DEF Next, Faults

\* The outcome a row records is final from the moment on at which no worker and no request
\* holds an older copy of it: crashes, requests the engine handles late, and whatever is
\* done to other rows never change it again (the safety half of EveryRunSettles).
THEOREM RestIsFinal ==
  ASSUME NEW e \in Executions, NEW s \in Terminal
  PROVE  Spec => [](AtRest(e) /\ row[e].status = s => [](row[e].status = s))
<1> DEFINE Final == AtRest(e) /\ row[e].status = s
<1>1. IInv /\ [Next]_vars /\ Final => Final'
  BY RestStays
<1> QED
  BY <1>1, Invariance, PTL DEF Spec

----------------------------------------------------------------------------
(* The promised state machine *)

\* What the state machine is promised for: one worker, whose work outlasts no stale window,
\* and no request that cancels.
Calm == Prompt /\ Requests = {} /\ \A v, w \in Workers : v = w

\* Nothing is cancelled, and a row that waits to be taken up was never silent.
NothingCancelled ==
  \A e \in Executions : /\ row[e].status # "CANCEL_REQUESTED"
                        /\ row[e].status \in {"ABSENT", "QUEUED"} => ~row[e].old

\* Nobody but the worker that holds a row writes it.
HeldAreDispatching ==
  \A w \in Workers : \A e \in batch[w] : row[e].status = "DISPATCHING" /\ ~row[e].old

\* A copy that the reconcile loop may write from is current where it matters: a run it asks
\* for still runs, a row it gives up was left behind by an earlier turn of the dispatch loop.
CopiesAreCurrent ==
  \A w \in Workers, e \in Executions :
    /\ copy[w][e].ref # None => copy[w][e].status = "RUNNING" /\ row[e].status = "RUNNING"
    /\ copy[w][e].ref = None /\ copy[w][e].old =>
         row[e].status = "DISPATCHING" /\ \A v \in Workers : e \notin batch[v]

CalmInv == NothingCancelled /\ HeldAreDispatching /\ CopiesAreCurrent

\* The variable of RunLifecycle.
Status == [e \in Executions |-> row[e].status]

LEMMA LifecycleBecomes ==
  ASSUME NEW e \in Executions, NEW new, row'[e].status = new,
         \A f \in Executions \ {e} : row'[f].status = row[f].status
  PROVE  Lifecycle!Becomes(e, new)
BY DEF Lifecycle!Becomes

LEMMA StatusKept ==
  ASSUME \A e \in Executions : row'[e].status = row[e].status
  PROVE  Status' = Status
BY DEF Status

\* A step that writes no row, and takes no new copy.
LEMMA NoWriteKeeps ==
  ASSUME CalmInv, UNCHANGED row,
         \A w \in Workers : /\ batch'[w] \subseteq batch[w]
                            /\ \A e \in Executions : copy'[w][e] \in {copy[w][e], Absent}
  PROVE  CalmInv' /\ Status' = Status
<1>1. Absent.ref = None /\ Absent.old = FALSE
  BY DEF Absent
<1>2. NothingCancelled' /\ HeldAreDispatching'
  BY DEF CalmInv, NothingCancelled, HeldAreDispatching
<1>3. CopiesAreCurrent'
  BY <1>1 DEF CalmInv, CopiesAreCurrent
<1> QED
  BY <1>2, <1>3, StatusKept DEF CalmInv

\* A step that writes one row, which no worker holds and no copy disputes any more.
LEMMA WriteKeeps ==
  ASSUME IInv, CalmInv, NEW e \in Executions,
         \A f \in Executions \ {e} : row'[f] = row[f],
         \A w \in Workers : /\ batch'[w] \subseteq batch[w] \ {e}
                            /\ \A f \in Executions : copy'[w][f] \in {copy[w][f], Absent}
                            /\ copy'[w][e].ref = None /\ ~copy'[w][e].old,
         row'[e].status # "CANCEL_REQUESTED",
         row'[e].status \in {"ABSENT", "QUEUED"} => ~row'[e].old
  PROVE  CalmInv'
<1>1. Absent.ref = None /\ Absent.old = FALSE
  BY DEF Absent
<1>2. NothingCancelled'
  BY DEF CalmInv, NothingCancelled
<1>3. HeldAreDispatching'
  <2> SUFFICES ASSUME NEW w \in Workers, NEW f \in batch'[w]
               PROVE  row'[f].status = "DISPATCHING" /\ ~row'[f].old
    BY DEF HeldAreDispatching
  <2>1. f \in batch[w] /\ f # e /\ f \in Executions
    BY DEF IInv, TypeOK
  <2> QED
    BY <2>1 DEF CalmInv, HeldAreDispatching
<1>4. CopiesAreCurrent'
  BY <1>1 DEF CalmInv, CopiesAreCurrent
<1> QED
  BY <1>2, <1>3, <1>4 DEF CalmInv

\* The row a worker dispatches, and what its own reconcile loop knows of it.
LEMMA HeldIsCurrent ==
  ASSUME IInv, CalmInv, Calm, NEW w \in Workers, call[w].state # "idle"
  PROVE  /\ call[w].exec \in batch[w] /\ call[w].exec \in Executions
         /\ row[call[w].exec].status = "DISPATCHING" /\ ~row[call[w].exec].old
         /\ \A v \in Workers : /\ v = w
                               /\ copy[v][call[w].exec].ref = None
                               /\ ~copy[v][call[w].exec].old
<1>1. call[w].exec \in batch[w]
  BY DEF IInv, ProductInv, CallShape
<1>2. call[w].exec \in Executions
  BY <1>1 DEF IInv, TypeOK
<1>3. row[call[w].exec].status = "DISPATCHING" /\ ~row[call[w].exec].old
  BY <1>1 DEF CalmInv, HeldAreDispatching
<1>4. \A v \in Workers : v = w
  BY DEF Calm
<1>5. \A v \in Workers : copy[v][call[w].exec].ref = None /\ ~copy[v][call[w].exec].old
  BY <1>1, <1>2, <1>3 DEF CalmInv, CopiesAreCurrent
<1> QED
  BY <1>1, <1>2, <1>3, <1>4, <1>5

\* The end of a dispatch: whatever the engine answered, the row is written and let go.
LEMMA ReleaseAdvances ==
  ASSUME IInv, CalmInv, Calm, NEW w \in Workers, call[w].state # "idle", Release(w),
         UNCHANGED copy, \A f \in Executions \ {call[w].exec} : row'[f] = row[f],
         row'[call[w].exec].status \in {"RUNNING", "QUEUED", "FAILED_TO_START"},
         row'[call[w].exec].status = "QUEUED" => row'[call[w].exec].old = row[call[w].exec].old
  PROVE  CalmInv' /\ Lifecycle!Next
<1> DEFINE e == call[w].exec
<1>1. /\ e \in batch[w] /\ e \in Executions
      /\ row[e].status = "DISPATCHING" /\ ~row[e].old
      /\ \A v \in Workers : v = w /\ copy[v][e].ref = None /\ ~copy[v][e].old
  BY HeldIsCurrent
<1>2. \A v \in Workers : batch'[v] \subseteq batch[v] \ {e}
  BY <1>1 DEF Release, IInv, TypeOK
<1>3. PICK f \in Executions : f = e
  BY <1>1
<1>4. CalmInv'
  <2> HIDE DEF e
  <2>1. \A g \in Executions \ {f} : row'[g] = row[g]
    BY <1>3 DEF e
  <2>2. /\ row'[f].status \in {"RUNNING", "QUEUED", "FAILED_TO_START"}
        /\ row'[f].status = "QUEUED" => ~row'[f].old
    BY <1>1, <1>3 DEF e
  <2> QED
    BY <1>1, <1>2, <1>3, <2>1, <2>2, WriteKeeps
<1>a. PICK new : new = row'[f].status
  OBVIOUS
<1>5. Lifecycle!Becomes(f, new) /\ new \in {"RUNNING", "QUEUED", "FAILED_TO_START"}
  BY <1>a, <1>3, LifecycleBecomes
<1>6. Status[f] = "DISPATCHING"
  BY <1>1, <1>3 DEF Status
<1>7. Lifecycle!PutBack(f) \/ Lifecycle!GiveUp(f) \/ Lifecycle!Start(f)
  BY <1>5, <1>6 DEF Lifecycle!PutBack, Lifecycle!GiveUp, Lifecycle!Start, Status
<1> QED
  BY <1>4, <1>7 DEF Lifecycle!Next

\* The end of a reconcile check that writes: the row still runs, or it was left behind.
LEMMA VerdictAdvances ==
  ASSUME IInv, CalmInv, Calm, NEW w \in Workers, NEW e \in Executions, Forget(w, e),
         UNCHANGED batch, \A f \in Executions \ {e} : row'[f] = row[f],
         \/ copy[w][e].ref # None /\ row'[e].status \in Lifecycle!Ends
         \/ copy[w][e].ref = None /\ copy[w][e].old /\ row'[e].status = "FAILED_TO_START"
  PROVE  CalmInv' /\ Lifecycle!Next
<1>1. /\ \A v \in Workers, f \in Executions : copy'[v][f] \in {copy[v][f], Absent}
      /\ \A v \in Workers : copy'[v][e] = Absent
  BY Forgotten DEF IInv, TypeOK, Forget, Calm
<1>2. \A v \in Workers : e \notin batch[v]
  BY DEF CalmInv, CopiesAreCurrent, HeldAreDispatching
<1>3. \A v \in Workers : copy'[v][e].ref = None /\ ~copy'[v][e].old
  BY <1>1 DEF Absent
<1>4. \A v \in Workers : batch'[v] \subseteq batch[v] \ {e}
  BY <1>2
<1>5. row'[e].status \notin {"CANCEL_REQUESTED", "ABSENT", "QUEUED"}
  BY DEF Lifecycle!Ends
<1>6. CalmInv'
  BY <1>1, <1>3, <1>4, <1>5, WriteKeeps
<1>a. PICK new : new = row'[e].status
  OBVIOUS
<1>7. Lifecycle!Becomes(e, new)
  BY <1>a, LifecycleBecomes
<1>8. CASE copy[w][e].ref # None
  <2>1. Status[e] = "RUNNING"
    BY <1>8 DEF CalmInv, CopiesAreCurrent, Status
  <2>2. Lifecycle!End(e)
    BY <1>a, <1>7, <1>8, <2>1 DEF Lifecycle!End, Status
  <2> QED
    BY <1>6, <2>2 DEF Lifecycle!Next
<1>9. CASE copy[w][e].ref = None
  <2>1. Status[e] = "DISPATCHING"
    BY <1>9 DEF CalmInv, CopiesAreCurrent, Status
  <2>2. Lifecycle!GiveUp(e)
    BY <1>a, <1>7, <1>9, <2>1 DEF Lifecycle!GiveUp, Status
  <2> QED
    BY <1>6, <2>2 DEF Lifecycle!Next
<1> QED
  BY <1>8, <1>9

LEMMA CreateAdvances ==
  ASSUME IInv, CalmInv, NEW e \in Executions, Create(e)
  PROVE  CalmInv' /\ Lifecycle!Next
<1>1. /\ row[e].status = "ABSENT" /\ UNCHANGED <<batch, copy>>
      /\ row' = [row EXCEPT ![e].status = "QUEUED"]
      /\ row \in [Executions -> Row] /\ batch \in [Workers -> SUBSET Executions]
  BY DEF Create, workerVars, IInv, TypeOK
<1>2. /\ row'[e].status = "QUEUED" /\ row'[e].old = row[e].old
      /\ \A f \in Executions \ {e} : row'[f] = row[f]
  BY <1>1 DEF Row
<1>3. ~row[e].old
  BY <1>1 DEF CalmInv, NothingCancelled
<1>4. \A w \in Workers : e \notin batch[w] /\ copy[w][e].ref = None /\ ~copy[w][e].old
  BY <1>1 DEF CalmInv, HeldAreDispatching, CopiesAreCurrent
<1>5. CalmInv'
  BY <1>1, <1>2, <1>3, <1>4, WriteKeeps
<1>6. \A f \in Executions : WorkflowOf[f] = WorkflowOf[e] => Status[f] \notin Lifecycle!Unfinished
  BY DEF Create, Status, Active, InFlight, Lifecycle!Unfinished
<1>7. Status[e] = "ABSENT"
  BY <1>1 DEF Status
<1>8. Lifecycle!Becomes(e, "QUEUED")
  BY <1>2, LifecycleBecomes
<1>9. Lifecycle!Enqueue(e)
  BY <1>6, <1>7, <1>8 DEF Lifecycle!Enqueue, Status
<1> QED
  BY <1>5, <1>9 DEF Lifecycle!Next

LEMMA ClaimAdvances ==
  ASSUME IInv, CalmInv, NEW w \in Workers, Claim(w)
  PROVE  CalmInv' /\ Lifecycle!Next
<1>1. PICK S \in SUBSET Queued :
        /\ batch' = [batch EXCEPT ![w] = S]
        /\ row' = [e \in Executions |->
                     IF e \in S THEN [row[e] EXCEPT !.status = "DISPATCHING"] ELSE row[e]]
  BY DEF Claim
<1>2. /\ row \in [Executions -> Row] /\ batch \in [Workers -> SUBSET Executions]
      /\ S \subseteq Executions /\ \A e \in S : row[e].status = "QUEUED" /\ UNCHANGED copy
  BY DEF IInv, TypeOK, Queued, Claim
<1>3. \A e \in Executions : IF e \in S THEN row'[e].status = "DISPATCHING" /\ row'[e].old = row[e].old
                                     ELSE row'[e] = row[e]
  BY <1>1, <1>2 DEF Row
<1>4. \A e \in S : ~row[e].old
  BY <1>2 DEF CalmInv, NothingCancelled
<1>5. \A v \in Workers : batch'[v] = IF v = w THEN S ELSE batch[v]
  BY <1>1, <1>2
<1>6. NothingCancelled' /\ HeldAreDispatching'
  BY <1>2, <1>3, <1>4, <1>5 DEF CalmInv, NothingCancelled, HeldAreDispatching
<1>7. CopiesAreCurrent'
  BY <1>2, <1>3, <1>4, <1>5 DEF CalmInv, CopiesAreCurrent, Claim
<1>8. Lifecycle!TakeUp(S)
  BY <1>2, <1>3 DEF Lifecycle!TakeUp, Status
<1> QED
  BY <1>2, <1>6, <1>7, <1>8 DEF CalmInv, Lifecycle!Next

LEMMA PostIsUnseen ==
  ASSUME IInv, CalmInv, NEW w \in Workers, NEW e \in Executions, Post(w, e)
  PROVE  CalmInv' /\ Status' = Status
<1>1. /\ row' = [row EXCEPT ![e].old = FALSE] /\ row \in [Executions -> Row]
      /\ e \in batch[w] /\ UNCHANGED <<batch, copy>> /\ batch \in [Workers -> SUBSET Executions]
  BY DEF Post, IInv, TypeOK
<1>2. /\ \A f \in Executions : row'[f].status = row[f].status
      /\ \A f \in Executions \ {e} : row'[f] = row[f]
      /\ ~row'[e].old
  BY <1>1 DEF Row
<1>3. NothingCancelled' /\ HeldAreDispatching' /\ CopiesAreCurrent'
  BY <1>1, <1>2 DEF CalmInv, NothingCancelled, HeldAreDispatching, CopiesAreCurrent
<1> QED
  BY <1>2, <1>3, StatusKept DEF CalmInv

LEMMA SilenceIsUnseen ==
  ASSUME IInv, CalmInv, NEW e \in Executions, Silence(e)
  PROVE  CalmInv' /\ Status' = Status
<1>1. /\ row' = [row EXCEPT ![e].old = TRUE] /\ row \in [Executions -> Row]
      /\ row[e].status \in InFlight /\ UNCHANGED <<batch, copy>>
      /\ \A w \in Workers : e \notin batch[w]
      /\ batch \in [Workers -> SUBSET Executions]
  BY DEF Silence, IInv, TypeOK, workerVars
<1>2. /\ \A f \in Executions : row'[f].status = row[f].status
      /\ \A f \in Executions \ {e} : row'[f] = row[f]
  BY <1>1 DEF Row
<1>3. NothingCancelled' /\ HeldAreDispatching' /\ CopiesAreCurrent'
  BY <1>1, <1>2 DEF CalmInv, NothingCancelled, HeldAreDispatching, CopiesAreCurrent, InFlight
<1> QED
  BY <1>2, <1>3, StatusKept DEF CalmInv

LEMMA PassBeginIsUnseen ==
  ASSUME IInv, CalmInv, NEW w \in Workers, PassBegin(w)
  PROVE  CalmInv' /\ Status' = Status
<1>1. /\ copy' = [copy EXCEPT ![w] =
                   [e \in Executions |-> IF row[e].status \in InFlight THEN row[e] ELSE Absent]]
      /\ copy \in [Workers -> [Executions -> Row]] /\ UNCHANGED <<row, batch>>
  BY DEF PassBegin, IInv, TypeOK
<1>2. \A v \in Workers, e \in Executions :
        copy'[v][e] = IF v # w THEN copy[v][e]
                      ELSE IF row[e].status \in InFlight THEN row[e] ELSE Absent
  BY <1>1
<1>3. ASSUME NEW e \in Executions, row[e].status \in InFlight
      PROVE  /\ row[e].ref # None => row[e].status = "RUNNING"
             /\ row[e].ref = None => row[e].status = "DISPATCHING"
  BY <1>3 DEF IInv, ProductInv, RowCanBeResolved, CalmInv, NothingCancelled, InFlight
<1>4. CopiesAreCurrent'
  <2> SUFFICES ASSUME NEW v \in Workers, NEW e \in Executions
               PROVE  /\ copy'[v][e].ref # None =>
                           copy'[v][e].status = "RUNNING" /\ row[e].status = "RUNNING"
                      /\ copy'[v][e].ref = None /\ copy'[v][e].old =>
                           row[e].status = "DISPATCHING" /\ \A u \in Workers : e \notin batch[u]
    BY <1>1 DEF CopiesAreCurrent
  <2>1. CASE v # w
    BY <1>2, <2>1 DEF CalmInv, CopiesAreCurrent
  <2>2. CASE v = w /\ row[e].status \in InFlight
    BY <1>2, <1>3, <2>2 DEF CalmInv, HeldAreDispatching
  <2>3. CASE v = w /\ row[e].status \notin InFlight
    BY <1>2, <2>3 DEF Absent
  <2> QED
    BY <2>1, <2>2, <2>3
<1>5. NothingCancelled' /\ HeldAreDispatching'
  BY <1>1 DEF CalmInv, NothingCancelled, HeldAreDispatching
<1> QED
  BY <1>1, <1>4, <1>5, StatusKept DEF CalmInv

LEMMA PollIngestAdvances ==
  ASSUME IInv, CalmInv, Calm, NEW w \in Workers, PollIngest(w)
  PROVE  CalmInv' /\ (Lifecycle!Next \/ Status' = Status)
<1>1. PICK e : e = heard[w].exec
  OBVIOUS
<1>2. /\ e \in Executions /\ copy[w][e].ref # None /\ row \in [Executions -> Row]
      /\ Forget(w, e) /\ UNCHANGED batch
  BY <1>1 DEF PollIngest, IInv, ProductInv, HeardIsTrue, TypeOK
<1>3. copy[w][e].status = "RUNNING" /\ row[e].status = "RUNNING"
  BY <1>2 DEF CalmInv, CopiesAreCurrent
<1>4. \A v \in Workers, f \in Executions : copy'[v][f] \in {copy[v][f], Absent}
  BY <1>2, Forgotten DEF IInv
<1>5. CASE heard[w].word \in Outcomes
  <2>1. row' = [row EXCEPT ![e] = Ingest(@, copy[w][e].status, heard[w].word)]
    BY <1>1, <1>5 DEF PollIngest, Outcomes
  <2>2. \A f \in Executions \ {e} : row'[f] = row[f]
    BY <1>2, <2>1
  <2>3. row'[e].status = heard[w].word
    BY <1>2, <1>5, <2>1 DEF Ingest, Row, Outcomes
  <2> QED
    BY <1>2, <1>5, <2>2, <2>3, VerdictAdvances DEF Outcomes, Lifecycle!Ends
<1>6. CASE heard[w].word = "RUNNING"
  <2>1. row' = [row EXCEPT ![e] = Ingest(@, copy[w][e].status, "RUNNING")]
    BY <1>1, <1>6 DEF PollIngest, Outcomes
  <2>2. /\ \A f \in Executions \ {e} : row'[f] = row[f]
        /\ row'[e].status = "RUNNING"
    BY <1>2, <1>3, <2>1 DEF Ingest, Row
  <2>3. NothingCancelled' /\ HeldAreDispatching'
    BY <1>2, <1>3, <2>2 DEF CalmInv, NothingCancelled, HeldAreDispatching, IInv, TypeOK
  <2>4. CopiesAreCurrent'
    BY <1>2, <1>3, <1>4, <2>2 DEF CalmInv, CopiesAreCurrent, Absent
  <2> QED
    BY <1>3, <2>2, <2>3, <2>4, StatusKept DEF CalmInv
<1>7. CASE row' = [row EXCEPT ![e].status = "ENGINE_INTERRUPTED"]
  <2>1. /\ \A f \in Executions \ {e} : row'[f] = row[f]
        /\ row'[e].status = "ENGINE_INTERRUPTED"
    BY <1>2, <1>7 DEF Row
  <2> QED
    BY <1>2, <2>1, VerdictAdvances DEF Lifecycle!Ends
<1>8. CASE row' = row
  <2>1. \A v \in Workers : batch'[v] \subseteq batch[v]
    BY <1>2
  <2> QED
    BY <1>4, <1>8, <2>1, NoWriteKeeps
<1> QED
  BY <1>1, <1>2, <1>5, <1>6, <1>7, <1>8 DEF PollIngest, StaleStatus

LEMMA CheckUnpolledAdvances ==
  ASSUME IInv, CalmInv, Calm, NEW w \in Workers, NEW e \in Executions, CheckUnpolled(w, e)
  PROVE  CalmInv' /\ (Lifecycle!Next \/ Status' = Status)
<1>1. /\ copy[w][e].ref = None /\ row \in [Executions -> Row]
      /\ Forget(w, e) /\ UNCHANGED batch
      /\ row' = IF copy[w][e].old THEN [row EXCEPT ![e].status = "FAILED_TO_START"] ELSE row
  BY DEF CheckUnpolled, Elapsed, Calm, StaleStatus, IInv, TypeOK
<1>2. CASE copy[w][e].old
  <2>1. /\ \A f \in Executions \ {e} : row'[f] = row[f]
        /\ row'[e].status = "FAILED_TO_START"
    BY <1>1, <1>2 DEF Row
  <2> QED
    BY <1>1, <1>2, <2>1, VerdictAdvances
<1>3. CASE ~copy[w][e].old
  <2>1. /\ \A v \in Workers : batch'[v] \subseteq batch[v]
        /\ \A v \in Workers, f \in Executions : copy'[v][f] \in {copy[v][f], Absent}
    BY <1>1, Forgotten DEF IInv
  <2> QED
    BY <1>1, <1>3, <2>1, NoWriteKeeps
<1> QED
  BY <1>2, <1>3

LEMMA DispatchAdvances ==
  ASSUME IInv, CalmInv, Calm, NEW w \in Workers,
         DispatchStarted(w) \/ DispatchDeferred(w) \/ DispatchRefused(w)
  PROVE  CalmInv' /\ Lifecycle!Next
<1>1. PICK e : e = call[w].exec
  OBVIOUS
<1>2. /\ call[w].state # "idle" /\ Release(w) /\ UNCHANGED copy
      /\ \/ row' = [row EXCEPT ![e] = [status |-> "RUNNING", ref |-> call[w].ref, old |-> FALSE]]
         \/ row' = [row EXCEPT ![e].status = "QUEUED"]
         \/ row' = [row EXCEPT ![e].status = "FAILED_TO_START"]
  BY <1>1 DEF DispatchStarted, DispatchDeferred, DispatchRefused
<1>3. e \in Executions /\ row \in [Executions -> Row]
  BY <1>1, <1>2, HeldIsCurrent DEF IInv, TypeOK
<1>4. /\ \A f \in Executions \ {e} : row'[f] = row[f]
      /\ row'[e].status \in {"RUNNING", "QUEUED", "FAILED_TO_START"}
      /\ row'[e].status = "QUEUED" => row'[e].old = row[e].old
  BY <1>2, <1>3 DEF Row
<1> QED
  BY <1>1, <1>2, <1>4, ReleaseAdvances

LEMMA CalmStep ==
  ASSUME Calm, IInv, CalmInv, [Next]_vars
  PROVE  CalmInv' /\ [Lifecycle!Next]_Status
<1>1. ASSUME NEW e \in Executions, Create(e) \/ AcceptLate(e) \/ Silence(e)
      PROVE  CalmInv' /\ [Lifecycle!Next]_Status
  BY <1>1, CreateAdvances, SilenceIsUnseen, NoWriteKeeps DEF AcceptLate, workerVars
<1>2. ASSUME NEW w \in Workers, Dispatcher(w)
      PROVE  CalmInv' /\ [Lifecycle!Next]_Status
  BY <1>2, ClaimAdvances, PostIsUnseen, DispatchAdvances DEF Dispatcher
<1>3. ASSUME NEW w \in Workers, Reconciler(w)
      PROVE  CalmInv' /\ [Lifecycle!Next]_Status
  <2>1. ASSUME NEW e \in Executions, Poll(w, e)
        PROVE  CalmInv' /\ [Lifecycle!Next]_Status
    BY <2>1, NoWriteKeeps DEF Poll
  <2> QED
    BY <1>3, <2>1, PassBeginIsUnseen, PollIngestAdvances, CheckUnpolledAdvances DEF Reconciler
<1>4. ASSUME \/ \E w \in Workers : Accept(w)
             \/ \E r \in Refs : Finish(r)
             \/ EngineCrash
             \/ UNCHANGED vars
      PROVE  CalmInv' /\ [Lifecycle!Next]_Status
  <2>1. UNCHANGED <<row, batch, copy>>
    BY <1>4 DEF Accept, Finish, EngineCrash, vars, workerVars
  <2> QED
    BY <2>1, NoWriteKeeps
<1>5. ASSUME NEW w \in Workers, DispatchAborts(w) \/ PassAborts(w) \/ WorkerCrash(w)
      PROVE  CalmInv' /\ [Lifecycle!Next]_Status
  <2>1. /\ UNCHANGED row
        /\ batch' = batch \/ batch' = [batch EXCEPT ![w] = {}]
        /\ copy' = copy \/ copy' = [copy EXCEPT ![w] = [e \in Executions |-> Absent]]
    BY <1>5 DEF DispatchAborts, PassAborts, WorkerCrash
  <2>2. \A v \in Workers : batch'[v] \subseteq batch[v]
    BY <2>1 DEF IInv, TypeOK
  <2>3. \A v \in Workers, e \in Executions : copy'[v][e] \in {copy[v][e], Absent}
    <3>1. copy \in [Workers -> [Executions -> Row]]
      BY DEF IInv, TypeOK
    <3>2. CASE copy' = [copy EXCEPT ![w] = [e \in Executions |-> Absent]]
      BY <3>1, <3>2
    <3> QED
      BY <2>1, <3>2
  <2> QED
    BY <2>1, <2>2, <2>3, NoWriteKeeps
<1>6. Requests = {}
  BY DEF Calm
<1> QED
  BY <1>1, <1>2, <1>3, <1>4, <1>5, <1>6 DEF Next, Faults

LEMMA CalmInit == Init => CalmInv /\ Lifecycle!Init
<1> SUFFICES ASSUME Init PROVE CalmInv /\ Lifecycle!Init
  OBVIOUS
<1>1. CalmInv
  BY DEF Init, CalmInv, NothingCancelled, HeldAreDispatching, CopiesAreCurrent, Absent
<1>2. Lifecycle!Init
  BY DEF Init, Lifecycle!Init, Absent
<1> QED
  BY <1>1, <1>2

\* With one worker, prompt work and nothing cancelled, the saga implements the promised state
\* machine: each transaction of dispatch, poll and mark_interrupted is one of its steps or
\* does not show, through engine crashes, lost answers, results that expire and turns of a
\* loop that abort.
THEOREM SagaImplementsLifecycle ==
  ASSUME Calm
  PROVE  Spec => ImplementsLifecycle
<1>1. IInv /\ CalmInv /\ [Next]_vars => CalmInv' /\ [Lifecycle!Next]_Status
  BY CalmStep
<1> QED
  BY <1>1, CalmInit, Invariance, PTL DEF Spec, ImplementsLifecycle, Lifecycle!Spec, Status


\* What the state machine keeps: a known status of every execution, and one run at a time.
Known == {"ABSENT", "FAILED_TO_START"} \cup Lifecycle!Unfinished \cup Lifecycle!Ends
LifecycleInv == (\A e \in Executions : row[e].status \in Known) /\ Lifecycle!OneRunAtATime

\* One run moves between two unfinished statuses, or ends: nothing new runs.
LEMMA MoveKeeps ==
  ASSUME LifecycleInv, NEW e \in Executions, NEW new \in Known, Lifecycle!Becomes(e, new),
         new \in Lifecycle!Unfinished => row[e].status \in Lifecycle!Unfinished
  PROVE  LifecycleInv'
<1>1. \A f \in Executions : row'[f].status = IF f = e THEN new ELSE row[f].status
  BY DEF Lifecycle!Becomes
<1>2. Lifecycle!OneRunAtATime'
  BY <1>1 DEF LifecycleInv, Lifecycle!OneRunAtATime
<1> QED
  BY <1>1, <1>2 DEF LifecycleInv

LEMMA LifecycleStep == LifecycleInv /\ [Lifecycle!Next]_Status => LifecycleInv'
<1> SUFFICES ASSUME LifecycleInv, [Lifecycle!Next]_Status PROVE LifecycleInv'
  OBVIOUS
<1> USE DEF Known, Lifecycle!Unfinished, Lifecycle!Ends
<1>1. ASSUME NEW S \in SUBSET Executions, Lifecycle!TakeUp(S)
      PROVE  LifecycleInv'
  <2>1. \A e \in S : row[e].status = "QUEUED"
    BY <1>1 DEF Lifecycle!TakeUp
  <2>2. \A e \in Executions : row'[e].status = IF e \in S THEN "DISPATCHING" ELSE row[e].status
    BY <1>1 DEF Lifecycle!TakeUp
  <2> QED
    BY <2>1, <2>2 DEF LifecycleInv, Lifecycle!OneRunAtATime
<1>2. ASSUME NEW e \in Executions, Lifecycle!Enqueue(e)
      PROVE  LifecycleInv'
  <2>1. \A f \in Executions : row'[f].status = IF f = e THEN "QUEUED" ELSE row[f].status
    BY <1>2 DEF Lifecycle!Enqueue, Lifecycle!Becomes
  <2>2. \A f \in Executions :
          WorkflowOf[f] = WorkflowOf[e] => row[f].status \notin Lifecycle!Unfinished
    BY <1>2 DEF Lifecycle!Enqueue
  <2>3. Lifecycle!OneRunAtATime'
    BY <2>1, <2>2 DEF LifecycleInv, Lifecycle!OneRunAtATime
  <2> QED
    BY <2>1, <2>3 DEF LifecycleInv
<1>3. ASSUME NEW e \in Executions,
             \/ Lifecycle!PutBack(e) \/ Lifecycle!GiveUp(e)
             \/ Lifecycle!Start(e) \/ Lifecycle!End(e)
      PROVE  LifecycleInv'
  <2>1. PICK new \in Known :
          /\ Lifecycle!Becomes(e, new)
          /\ new \in Lifecycle!Unfinished => row[e].status \in Lifecycle!Unfinished
    BY <1>3 DEF Lifecycle!PutBack, Lifecycle!GiveUp, Lifecycle!Start, Lifecycle!End
  <2> QED
    BY <2>1, MoveKeeps
<1>4. CASE Status' = Status
  <2>1. \A e \in Executions : row'[e].status = row[e].status
    BY <1>4 DEF Status
  <2> QED
    BY <2>1 DEF LifecycleInv, Lifecycle!OneRunAtATime
<1> QED
  BY <1>1, <1>2, <1>3, <1>4 DEF Lifecycle!Next

\* The promised state machine never lets two runs of one workflow overlap (SRS 30.3,
\* _check_concurrency with its default of one run per workflow).
THEOREM RunsDoNotOverlap == Lifecycle!Spec => []Lifecycle!OneRunAtATime
<1>1. Lifecycle!Init => LifecycleInv
  <2> SUFFICES ASSUME Lifecycle!Init PROVE LifecycleInv
    OBVIOUS
  <2>1. \A e \in Executions : row[e].status = "ABSENT"
    BY DEF Lifecycle!Init
  <2> QED
    BY <2>1 DEF LifecycleInv, Lifecycle!OneRunAtATime, Known, Lifecycle!Unfinished
<1>2. LifecycleInv => Lifecycle!OneRunAtATime
  BY DEF LifecycleInv
<1> QED
  BY <1>1, <1>2, LifecycleStep, PTL DEF Lifecycle!Spec, Status

\* So the saga never has two active runs of one workflow either: a run that was taken off
\* the engine's hands does not become active again beside the next one.
THEOREM OneActiveRun ==
  ASSUME Calm
  PROVE  Spec => []OneActiveRunPerWorkflow
<1>1. CalmInv /\ Lifecycle!OneRunAtATime => OneActiveRunPerWorkflow
  BY DEF CalmInv, NothingCancelled, Lifecycle!OneRunAtATime, Lifecycle!Unfinished,
     OneActiveRunPerWorkflow, Active, InFlight
<1>2. Spec => []CalmInv
  <2>1. IInv /\ CalmInv /\ [Next]_vars => CalmInv'
    BY CalmStep
  <2> QED
    BY <2>1, CalmInit, Invariance, PTL DEF Spec
<1>3. Spec => []Lifecycle!OneRunAtATime
  BY SagaImplementsLifecycle, RunsDoNotOverlap DEF ImplementsLifecycle
<1> QED
  BY <1>1, <1>2, <1>3, PTL
=============================================================================
