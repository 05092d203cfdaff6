---------------------------------- MODULE Firing ----------------------------------
(***************************************************************************)
(* Schedules that come due (backend/app: services/triggers.py, services/   *)
(* schedules.py, schedule_loop of worker.py). Several workers tick; one    *)
(* tick is one transaction over all the bindings it locked, one statement  *)
(* of it an action here, and nothing of it is seen before it commits.      *)
(***************************************************************************)
EXTENDS Integers, FiniteSets, Sequences, SequencesExt

CONSTANTS
  Bindings,      \* trigger bindings of type SCHEDULE, one per workflow
  Spaces,        \* workspaces
  SpaceOf,       \* the workspace of each binding
  Skipping,      \* bindings whose overlap policy is SKIP_IF_RUNNING
  Dated,         \* bindings whose cron expression names a year, EndOfDates the last
  Zoned,         \* bindings whose timezone the tz database drops at EndOfDates
  EndOfDates,
  Tickers,       \* workers
  Nobody,
  Batch,         \* due_schedules' limit
  MaxActive,     \* ceiling of active runs per workspace
  MaxTime,       \* bound on the clock
  MaxEdits,      \* bound on the activations, edits and starts by hand
  MaxCrashesOfTicks

ASSUME FiringAssumption ==
  /\ IsFiniteSet(Bindings) /\ SpaceOf \in [Bindings -> Spaces]
  /\ Nobody \notin Tickers
  /\ Batch \in Nat \ {0} /\ MaxActive \in Nat
  /\ EndOfDates \in Nat /\ MaxTime \in Nat
  /\ Dated \cap Zoned = {}

VARIABLES
  now,
  binding,  \* committed rows: enabled, next_run_at (0 is NULL), and the workflow's deleted
  calls,    \* requests of the editor that have read a row and not written it
  active,   \* committed active runs of each workflow
  tick,     \* per worker: its transaction
  space,    \* per workspace: who holds the advisory lock of executions.create
  fired,    \* when the runs of a binding started, since it was last armed
  edits, ticksLost

firingVars == <<now, binding, calls, active, tick, space, fired, edits, ticksLost>>

Interval == 1
Idle == [todo |-> <<>>, rows |-> <<>>, starts |-> <<>>, at |-> "head"]

FiringInit ==
  /\ now = 1
  /\ binding \in [Bindings -> {[enabled |-> TRUE, next |-> now, deleted |-> FALSE],
                               [enabled |-> FALSE, next |-> 0, deleted |-> FALSE],
                               [enabled |-> FALSE, next |-> 0, deleted |-> TRUE]}]
  /\ calls = {}
  /\ active = [b \in Bindings |-> 0]
  /\ tick = [w \in Tickers |-> Idle]
  /\ space = [s \in Spaces |-> Nobody]
  /\ fired = [b \in Bindings |-> <<>>]
  /\ edits \in 0 .. MaxEdits /\ ticksLost \in 0 .. MaxCrashesOfTicks

----------------------------------------------------------------------------
(* schedules.next_run_at *)

Raises(b) == b \in Dated /\ now >= EndOfDates
Invalid(b) == b \in Zoned /\ now >= EndOfDates

\* A fault to detect: the next time is counted from the one that was due.
NextRunCatchesUp(b, due) == due + Interval

\* From now on, not from the time that was due: what was missed is skipped.
NextRun(b, due) == IF b \in Dated THEN EndOfDates ELSE now + Interval

----------------------------------------------------------------------------
(* The editor *)

Open(w) == tick[w] # Idle
Locked(b) == \E w \in Tickers : b \in DOMAIN tick[w].rows

\* activate, save_draft of an enabled schedule, delete of a workflow that is off: the request
\* reads the row and computes what it writes.
EditReads(b, kind) ==
  /\ edits < MaxEdits
  /\ ~binding[b].deleted
  /\ kind # "delete" => ~Raises(b) /\ ~Invalid(b)
  /\ kind = "save" => binding[b].enabled
  /\ kind = "delete" => ~binding[b].enabled /\ active[b] = 0
  /\ calls' = calls \cup {[of |-> b, kind |-> kind, copy |-> binding[b],
                           next |-> IF kind = "delete" THEN 0 ELSE NextRun(b, now)]}
  /\ edits' = edits + 1
  /\ UNCHANGED <<now, binding, active, tick, space, fired, ticksLost>>

\* Only the columns it changed are written, and only if it changed one it waits for the row.
EditWrites(e) ==
  LET b == e.of
      turnsOn == e.kind = "activate" /\ ~e.copy.enabled
      rearms == e.next # e.copy.next
  IN /\ turnsOn \/ rearms => ~Locked(b)
     /\ binding' = [binding EXCEPT
          ![b].enabled = @ \/ turnsOn,
          ![b].next = IF rearms THEN e.next ELSE @,
          ![b].deleted = @ \/ e.kind = "delete"]
     /\ fired' = IF turnsOn \/ rearms THEN [fired EXCEPT ![b] = <<>>] ELSE fired
     /\ calls' = calls \ {e}
     /\ UNCHANGED <<now, active, tick, space, edits, ticksLost>>

\* deactivate
Stop(b) ==
  /\ binding[b].enabled /\ ~Locked(b) /\ edits < MaxEdits
  /\ binding' = [binding EXCEPT ![b].enabled = FALSE, ![b].next = 0]
  /\ edits' = edits + 1
  /\ UNCHANGED <<now, calls, active, tick, space, fired, ticksLost>>

\* A run is started by hand (executions.create; ExecutionCreate has its statements), a run ends.
ActiveIn(s, counts) ==
  LET Sum[B \in SUBSET Bindings] ==
        IF B = {} THEN 0 ELSE LET b == CHOOSE b \in B : TRUE IN counts[b] + Sum[B \ {b}]
  IN Sum[{b \in Bindings : SpaceOf[b] = s}]

StartByHand(b) ==
  /\ ~binding[b].deleted /\ edits < MaxEdits
  /\ space[SpaceOf[b]] = Nobody
  /\ ActiveIn(SpaceOf[b], active) < MaxActive
  /\ active' = [active EXCEPT ![b] = @ + 1]
  /\ edits' = edits + 1
  /\ UNCHANGED <<now, binding, calls, tick, space, fired, ticksLost>>

RunEnds(b) ==
  /\ active[b] > 0
  /\ active' = [active EXCEPT ![b] = @ - 1]
  /\ UNCHANGED <<now, binding, calls, tick, space, fired, edits, ticksLost>>

TimePasses ==
  /\ now < MaxTime
  /\ now' = now + 1
  /\ UNCHANGED <<binding, calls, active, tick, space, fired, edits, ticksLost>>

----------------------------------------------------------------------------
(* schedule_loop *)

Due(b) == binding[b].enabled /\ binding[b].next # 0 /\ binding[b].next <= now

\* A fault to detect: a plain SELECT, which sees the rows another tick has in hand.
FreeUnlocked(b) == TRUE

\* FOR UPDATE SKIP LOCKED
Free(b) == ~Locked(b)

\* due_schedules: the bindings that are due and free, in the order of next_run_at, a batch.
Batches ==
  LET ready == {b \in Bindings : Due(b) /\ Free(b)}
      size == IF Cardinality(ready) < Batch THEN Cardinality(ready) ELSE Batch
      Earliest(s) == \A b \in ready : \A i \in 1 .. size :
                       binding[b].next < binding[s[i]].next => \E j \in 1 .. i : s[j] = b
  IN {s \in [1 .. size -> ready] : IsInjective(s) /\ Earliest(s)} \ {<<>>}

BeginTick(w) ==
  /\ ~Open(w)
  /\ \E batch \in Batches :
       tick' = [tick EXCEPT ![w] = [todo |-> batch, starts |-> <<>>, at |-> "head",
                                    rows |-> [b \in ToSet(batch) |-> binding[b]]]]
  /\ UNCHANGED <<now, binding, calls, active, space, fired, edits, ticksLost>>

Turn(w, at) == Open(w) /\ tick[w].todo # <<>> /\ tick[w].at = at
First(w) == Head(tick[w].todo)
StartedBy(w, b) == b \in DOMAIN tick[w].starts

\* fire_schedule is done with the binding; row is what it leaves of it.
Done(w, row) ==
  tick' = [tick EXCEPT ![w].rows[First(w)] = row, ![w].todo = Tail(@), ![w].at = "head"]

Off(row) == [row EXCEPT !.enabled = FALSE, !.next = 0]

\* A fault to detect: the early return leaves the time as it is.
AdvancedOnlyIfFired(w) ==
  LET b == First(w) row == tick[w].rows[b]
  IN IF tick[w].at = "head" THEN row
     ELSE IF Invalid(b) THEN Off(row) ELSE [row EXCEPT !.next = NextRun(b, row.next)]

\* The finally clause: the next time whatever happened; a broken configuration is turned off.
Advanced(w) ==
  LET b == First(w) row == tick[w].rows[b]
  IN IF Invalid(b) THEN Off(row) ELSE [row EXCEPT !.next = NextRun(b, row.next)]

\* The workflow is gone.
FindsDeleted(w) ==
  /\ Turn(w, "head") /\ binding[First(w)].deleted
  /\ Done(w, Off(tick[w].rows[First(w)]))
  /\ UNCHANGED <<now, binding, calls, active, space, fired, edits, ticksLost>>

Overlaps(b) == b \in Skipping /\ active[b] > 0

SkipsOverlap(w) ==
  /\ Turn(w, "head") /\ ~binding[First(w)].deleted /\ Overlaps(First(w))
  /\ ~Raises(First(w))
  /\ Done(w, Advanced(w))
  /\ UNCHANGED <<now, binding, calls, active, space, fired, edits, ticksLost>>

\* executions.create finds the workflow and asks for the workspace's lock.
Asks(w) ==
  /\ Turn(w, "head") /\ ~binding[First(w)].deleted /\ ~Overlaps(First(w))
  /\ tick' = [tick EXCEPT ![w].at = "asking"]
  /\ UNCHANGED <<now, binding, calls, active, space, fired, edits, ticksLost>>

\* The runs of its own transaction count too.
Counted(w) == [b \in Bindings |-> active[b] + IF StartedBy(w, b) THEN 1 ELSE 0]

\* It has the lock, now or since a binding before this one, and counts, which no start can
\* disturb: the run is inserted, or the ceiling refuses it (an AppError, logged).
Creates(w) ==
  LET b == First(w)
      s == SpaceOf[b]
      admitted == ActiveIn(s, Counted(w)) < MaxActive
      starts == IF admitted
                THEN [c \in DOMAIN tick[w].starts \cup {b} |->
                        IF c = b THEN now ELSE tick[w].starts[c]]
                ELSE tick[w].starts
  IN /\ Turn(w, "asking") /\ space[s] \in {Nobody, w} /\ ~Raises(b)
     /\ space' = [space EXCEPT ![s] = w]
     /\ tick' = [tick EXCEPT ![w].rows[b] = Advanced(w), ![w].starts = starts,
                             ![w].todo = Tail(@), ![w].at = "head"]
     /\ UNCHANGED <<now, binding, calls, active, fired, edits, ticksLost>>

Waiting(s) == {w \in Tickers : Turn(w, "asking") /\ SpaceOf[First(w)] = s}

\* The end of a transaction; PostgreSQL hands its locks to those who wait for them.
Release(w) ==
  space' \in {holder \in [Spaces -> Tickers \cup {Nobody}] :
    \A s \in Spaces :
      \/ space[s] # w /\ holder[s] = space[s]
      \/ space[s] = w /\ holder[s] \in Waiting(s) \ {w}
      \/ space[s] = w /\ Waiting(s) \subseteq {w} /\ holder[s] = Nobody}

CommitTick(w) ==
  /\ Open(w) /\ tick[w].todo = <<>>
  /\ binding' = [b \in Bindings |->
       IF b \in DOMAIN tick[w].rows
       THEN [binding[b] EXCEPT !.enabled = tick[w].rows[b].enabled, !.next = tick[w].rows[b].next]
       ELSE binding[b]]
  /\ active' = Counted(w)
  /\ fired' = [b \in Bindings |->
       IF StartedBy(w, b) THEN Append(fired[b], tick[w].starts[b]) ELSE fired[b]]
  /\ Release(w)
  /\ tick' = [tick EXCEPT ![w] = Idle]
  /\ UNCHANGED <<now, calls, edits, ticksLost>>

\* next_run_at raises what is no AppError: a cron expression without a date to come.
TickRaises(w) ==
  /\ \/ Turn(w, "head") /\ ~binding[First(w)].deleted /\ Overlaps(First(w))
     \/ Turn(w, "asking") /\ space[SpaceOf[First(w)]] \in {Nobody, w}
  /\ Raises(First(w))

\* Two ticks wait for each other's workspace: PostgreSQL ends one of them.
Blocked(w, v) == Turn(w, "asking") /\ space[SpaceOf[First(w)]] = v
Deadlocked(w) == \E v \in Tickers \ {w} : Blocked(w, v) /\ Blocked(v, w)

\* Whatever ends the transaction takes the whole tick back; the loop logs it and goes on.
RollBack(w) ==
  /\ Open(w)
  /\ TickRaises(w) \/ Deadlocked(w) \/ ticksLost < MaxCrashesOfTicks
  /\ ticksLost' = IF TickRaises(w) \/ Deadlocked(w) THEN ticksLost ELSE ticksLost + 1
  /\ tick' = [tick EXCEPT ![w] = Idle]
  /\ Release(w)
  /\ UNCHANGED <<now, binding, calls, active, fired, edits>>

----------------------------------------------------------------------------
Works(w) ==
  \/ BeginTick(w)
  \/ FindsDeleted(w)
  \/ SkipsOverlap(w)
  \/ Asks(w)
  \/ Creates(w)
  \/ CommitTick(w)

FiringNext ==
  \/ \E w \in Tickers : Works(w) \/ RollBack(w)
  \/ \E b \in Bindings :
       \/ \E kind \in {"activate", "save", "delete"} : EditReads(b, kind)
       \/ Stop(b) \/ StartByHand(b) \/ RunEnds(b)
  \/ \E e \in calls : EditWrites(e)
  \/ TimePasses

\* The loop ticks again after every tick; PostgreSQL finds a deadlock.
FiringFairness ==
  \A w \in Tickers :
    /\ WF_firingVars(Works(w))
    /\ WF_firingVars((TickRaises(w) \/ Deadlocked(w)) /\ RollBack(w))

FiringSpec == FiringInit /\ [][FiringNext]_firingVars /\ FiringFairness

----------------------------------------------------------------------------
(* Properties *)

\* Two workers, a tick that is rolled back after it started runs, a worker that was down: the
\* runs of a schedule, as long as nobody arms it again, are an interval apart. It never fires
\* twice for one due time and never in a burst for the times it missed.
NoBurst ==
  \A b \in Bindings \ Dated : \A i, j \in DOMAIN fired[b] :
    i < j => fired[b][i] + Interval <= fired[b][j]

\* A schedule that was turned off starts nothing, though a tick read it while it was on: a
\* run of it becomes visible only while its row is enabled.
StartsOnlyWhileOn ==
  [][\A b \in Bindings :
       Len(fired'[b]) > Len(fired[b]) => binding[b].enabled]_firingVars

\* "A schedule that stopped advancing because a workflow was stuck would fire a burst": each
\* due schedule is answered, by a run, by a skip or by being turned off, although ticks are
\* rolled back, wait for each other, or are refused by the ceiling.
DueAnswered == \A b \in Bindings : Due(b) ~> ~Due(b)
=============================================================================
