--------------------------- MODULE FiringProofs ---------------------------
(***************************************************************************)
(* Theorems about Firing for any number of schedules, workspaces and       *)
(* workers, any overlap policies, batches and ceilings, and any ticks lost.*)
(***************************************************************************)
EXTENDS Firing, FiniteSetTheorems, SequenceTheorems, TLAPS

Row == [enabled : BOOLEAN, next : Nat, deleted : BOOLEAN]

\* The rows a tick has locked.
Holds(w) == DOMAIN tick[w].rows

TickShape(t) ==
  /\ DOMAIN t = {"todo", "rows", "starts", "at"}
  /\ DOMAIN t.rows \subseteq Bindings /\ \A b \in DOMAIN t.rows : t.rows[b] \in Row
  /\ DOMAIN t.starts \subseteq DOMAIN t.rows /\ \A b \in DOMAIN t.starts : t.starts[b] \in Nat
  /\ t.todo \in Seq(DOMAIN t.rows)

Types ==
  /\ now \in Nat
  /\ binding \in [Bindings -> Row]
  /\ \A e \in calls : e.of \in Bindings /\ e.next \in Nat
  /\ fired \in [Bindings -> Seq(Nat)]
  /\ DOMAIN tick = Tickers /\ \A w \in Tickers : TickShape(tick[w])

\* SKIP LOCKED: no two ticks have a row in hand.
LockedOnce == \A w, v \in Tickers : w # v => Holds(w) \cap Holds(v) = {}

\* A row in hand is, in what is committed, as due as when it was read.
LockedIsDue ==
  \A w \in Tickers : \A b \in Holds(w) :
    binding[b].enabled /\ binding[b].next # 0 /\ binding[b].next <= now

\* A tick never moves a time back,
RowsMoveOn ==
  \A w \in Tickers : \A b \in Holds(w) \ Dated :
    tick[w].rows[b].next # 0 => binding[b].next <= tick[w].rows[b].next

\* starts a run no sooner than it was due, and leaves the next time an interval after.
StartsMoveOn ==
  \A w \in Tickers : \A b \in DOMAIN tick[w].starts :
    /\ binding[b].next <= tick[w].starts[b] /\ tick[w].starts[b] <= now
    /\ b \notin Dated /\ tick[w].rows[b].next # 0 =>
         tick[w].starts[b] + Interval <= tick[w].rows[b].next

\* The last run is an interval before the time at which the next is due.
LastBeforeNext ==
  \A b \in Bindings \ Dated :
    fired[b] # <<>> /\ binding[b].next # 0 =>
      fired[b][Len(fired[b])] + Interval <= binding[b].next

IInv ==
  /\ Types /\ LockedOnce /\ LockedIsDue /\ RowsMoveOn /\ StartsMoveOn /\ LastBeforeNext /\ NoBurst

----------------------------------------------------------------------------
LEMMA IdleShape == TickShape(Idle) /\ DOMAIN Idle.rows = {} /\ DOMAIN Idle.starts = {}
BY DEF TickShape, Idle

LEMMA RowIsRow ==
  ASSUME NEW e \in BOOLEAN, NEW n \in Nat, NEW d \in BOOLEAN
  PROVE  [enabled |-> e, next |-> n, deleted |-> d] \in Row
BY DEF Row

LEMMA InitHolds == FiringInit => IInv
<1> SUFFICES ASSUME FiringInit PROVE IInv
  OBVIOUS
<1>1. \A w \in Tickers : tick[w] = Idle
  BY DEF FiringInit
<1>2. \A b \in Bindings : fired[b] = <<>>
  BY DEF FiringInit
<1>3. Types
  <2>1. ASSUME NEW b \in Bindings PROVE binding[b] \in Row
    <3>1. \/ binding[b] = [enabled |-> TRUE, next |-> 1, deleted |-> FALSE]
          \/ binding[b] = [enabled |-> FALSE, next |-> 0, deleted |-> FALSE]
          \/ binding[b] = [enabled |-> FALSE, next |-> 0, deleted |-> TRUE]
      BY DEF FiringInit
    <3>2. TRUE \in BOOLEAN /\ FALSE \in BOOLEAN
      OBVIOUS
    <3>3. 0 \in Nat /\ 1 \in Nat
      OBVIOUS
    <3> QED
      BY <3>1, <3>2, <3>3, RowIsRow
  <2>2. binding \in [Bindings -> Row]
    BY <2>1 DEF FiringInit
  <2>3. fired \in [Bindings -> Seq(Nat)]
    BY <1>2 DEF FiringInit
  <2> QED
    BY <1>1, <2>2, <2>3, IdleShape DEF FiringInit, Types
<1>4. \A w \in Tickers : Holds(w) = {} /\ DOMAIN tick[w].starts = {}
  BY <1>1, IdleShape DEF Holds
<1>5. LockedOnce /\ LockedIsDue /\ RowsMoveOn /\ StartsMoveOn
  BY <1>4 DEF LockedOnce, LockedIsDue, RowsMoveOn, StartsMoveOn
<1>6. LastBeforeNext /\ NoBurst
  BY <1>2 DEF LastBeforeNext, NoBurst
<1> QED
  BY <1>3, <1>5, <1>6 DEF IInv

\* A step of one tick that commits nothing.
LEMMA TickKeeps ==
  ASSUME IInv, NEW w \in Tickers, DOMAIN tick' = Tickers, TickShape(tick'[w]),
         \A v \in Tickers \ {w} : tick'[v] = tick[v],
         UNCHANGED <<now, binding, calls, fired>>,
         \A b \in DOMAIN tick'[w].rows :
           /\ \A v \in Tickers \ {w} : b \notin Holds(v)
           /\ binding[b].enabled /\ binding[b].next # 0 /\ binding[b].next <= now
           /\ b \notin Dated /\ tick'[w].rows[b].next # 0 =>
                binding[b].next <= tick'[w].rows[b].next,
         \A b \in DOMAIN tick'[w].starts :
           /\ binding[b].next <= tick'[w].starts[b] /\ tick'[w].starts[b] <= now
           /\ b \notin Dated /\ tick'[w].rows[b].next # 0 =>
                tick'[w].starts[b] + Interval <= tick'[w].rows[b].next
  PROVE  IInv'
<1>1. /\ Holds(w)' = DOMAIN tick'[w].rows
      /\ \A v \in Tickers \ {w} : Holds(v)' = Holds(v)
  BY DEF Holds
<1>2. Types'
  BY DEF IInv, Types
<1>3. LockedOnce'
  BY <1>1 DEF IInv, LockedOnce
<1>4. LockedIsDue'
  BY <1>1 DEF IInv, LockedIsDue
<1>5. RowsMoveOn'
  BY <1>1 DEF IInv, RowsMoveOn
<1>6. StartsMoveOn'
  BY DEF IInv, StartsMoveOn
<1>7. LastBeforeNext' /\ NoBurst'
  BY DEF IInv, LastBeforeNext, NoBurst
<1> QED
  BY <1>2, <1>3, <1>4, <1>5, <1>6, <1>7 DEF IInv

LEMMA RollBackKeeps ==
  ASSUME IInv, NEW w \in Tickers, RollBack(w)
  PROVE  IInv'
<1>1. DOMAIN tick' = Tickers /\ tick'[w] = Idle /\ \A v \in Tickers \ {w} : tick'[v] = tick[v]
  BY DEF RollBack, IInv, Types
<1>2. UNCHANGED <<now, binding, calls, fired>>
  BY DEF RollBack
<1> QED
  BY <1>1, <1>2, TickKeeps, IdleShape

LEMMA BeginTickKeeps ==
  ASSUME IInv, NEW w \in Tickers, BeginTick(w)
  PROVE  IInv'
<1> DEFINE ready == {b \in Bindings : Due(b) /\ Free(b)}
           size == IF Cardinality(ready) < Batch THEN Cardinality(ready) ELSE Batch
<1>1. PICK batch \in Batches :
        tick' = [tick EXCEPT ![w] = [todo |-> batch, starts |-> <<>>, at |-> "head",
                                     rows |-> [b \in ToSet(batch) |-> binding[b]]]]
  BY DEF BeginTick
<1> DEFINE t == [todo |-> batch, starts |-> <<>>, at |-> "head",
                 rows |-> [b \in ToSet(batch) |-> binding[b]]]
<1>2. IsFiniteSet(ready) /\ Cardinality(ready) \in Nat
  BY FiringAssumption, FS_Subset, FS_CardinalityType
<1>3. size \in Nat
  BY <1>2, FiringAssumption
<1>4. batch \in [1 .. size -> ready]
  BY DEF Batches
<1>5. batch \in Seq(ToSet(batch)) /\ ToSet(batch) \subseteq ready
  <2> HIDE DEF ready, size
  <2>1. DOMAIN batch = 1 .. size /\ \A i \in 1 .. size : batch[i] \in ToSet(batch)
    BY <1>4 DEF ToSet
  <2>2. batch \in [1 .. size -> ToSet(batch)]
    BY <1>4, <2>1
  <2>3. batch \in Seq(ToSet(batch))
    BY <1>3, <2>2
  <2>4. ToSet(batch) \subseteq ready
    BY <1>4 DEF ToSet
  <2> QED
    BY <2>3, <2>4
<1>6. /\ t.rows = [b \in ToSet(batch) |-> binding[b]] /\ DOMAIN t.rows = ToSet(batch)
      /\ t.todo = batch /\ DOMAIN t.starts = {}
  OBVIOUS
<1>7. TickShape(t)
  <2>1. ToSet(batch) \subseteq Bindings
    BY <1>5
  <2>2. \A b \in ToSet(batch) : binding[b] \in Row
    BY <2>1 DEF IInv, Types
  <2> QED
    BY <1>5, <1>6, <2>1, <2>2 DEF TickShape
<1>8. \A b \in ready : /\ \A v \in Tickers : b \notin Holds(v)
                       /\ binding[b].enabled /\ binding[b].next # 0 /\ binding[b].next <= now
  BY DEF Due, Free, Locked, Holds
<1>9. \A b \in ToSet(batch) : binding[b].next \in Nat
  BY <1>5 DEF IInv, Types, Row
<1>10. /\ UNCHANGED <<now, binding, calls, fired>>
       /\ DOMAIN tick' = Tickers /\ tick'[w] = t /\ \A v \in Tickers \ {w} : tick'[v] = tick[v]
  BY <1>1 DEF BeginTick, IInv, Types
<1> HIDE DEF t, ready, size
<1>11. \A b \in DOMAIN t.rows :
         /\ \A v \in Tickers \ {w} : b \notin Holds(v)
         /\ binding[b].enabled /\ binding[b].next # 0 /\ binding[b].next <= now
         /\ b \notin Dated /\ t.rows[b].next # 0 => binding[b].next <= t.rows[b].next
  BY <1>5, <1>6, <1>8, <1>9
<1> QED
  BY <1>6, <1>7, <1>10, <1>11, TickKeeps

\* What fire_schedule needs of the row it is at.
LEMMA AtHead ==
  ASSUME IInv, NEW w \in Tickers, NEW at, Turn(w, at)
  PROVE  /\ First(w) \in Holds(w) /\ First(w) \in Bindings
         /\ Tail(tick[w].todo) \in Seq(Holds(w))
         /\ tick[w].rows[First(w)] \in Row
<1>1. tick[w].todo \in Seq(Holds(w)) /\ tick[w].todo # <<>> /\ TickShape(tick[w])
  BY DEF IInv, Types, TickShape, Turn, Holds
<1>2. First(w) \in Holds(w) /\ Tail(tick[w].todo) \in Seq(Holds(w))
  BY <1>1 DEF First
<1> QED
  BY <1>1, <1>2 DEF TickShape, Holds

\* A tick goes on with another row for the binding at its head.
LEMMA RowKeeps ==
  ASSUME IInv, NEW w \in Tickers, First(w) \in Holds(w), tick'[w].rows[First(w)] \in Row,
         First(w) \notin Dated => \/ tick'[w].rows[First(w)].next = 0
                                \/ tick'[w].rows[First(w)].next = now + Interval,
         DOMAIN tick' = Tickers, DOMAIN tick'[w] = DOMAIN tick[w],
         \A v \in Tickers \ {w} : tick'[v] = tick[v],
         DOMAIN tick'[w].rows = Holds(w),
         \A c \in Holds(w) \ {First(w)} : tick'[w].rows[c] = tick[w].rows[c],
         tick'[w].todo \in Seq(Holds(w)),
         \A c \in DOMAIN tick'[w].starts :
           \/ c = First(w) /\ tick'[w].starts[c] = now
           \/ c \in DOMAIN tick[w].starts /\ tick'[w].starts[c] = tick[w].starts[c],
         UNCHANGED <<now, binding, calls, fired>>
  PROVE  IInv'
<1> DEFINE b == First(w)
           row == tick'[w].rows[b]
           rows == tick'[w].rows
           starts == tick'[w].starts
<1> b \in Holds(w) /\ row \in Row /\ (b \notin Dated => row.next = 0 \/ row.next = now + Interval)
  OBVIOUS
<1>1. TickShape(tick[w]) /\ now \in Nat /\ binding \in [Bindings -> Row] /\ Holds(w) \subseteq Bindings
  BY DEF IInv, Types, TickShape, Holds
<1>2. /\ DOMAIN rows = Holds(w) /\ rows[b] = row
      /\ \A c \in Holds(w) \ {b} : rows[c] = tick[w].rows[c]
  BY DEF Holds
<1>3. \A c \in DOMAIN starts : \/ c = b /\ starts[c] = now
                               \/ c \in DOMAIN tick[w].starts /\ starts[c] = tick[w].starts[c]
  OBVIOUS
<1> HIDE DEF rows, starts, b, row
<1>4. \A c \in Holds(w) : /\ binding[c].next \in Nat /\ rows[c] \in Row /\ rows[c].next \in Nat
                          /\ tick[w].rows[c].next \in Nat
  BY <1>1, <1>2 DEF TickShape, Holds, Row
<1>5. DOMAIN starts \subseteq Holds(w) /\ \A c \in DOMAIN starts : starts[c] \in Nat
  BY <1>1, <1>3 DEF TickShape, Holds
<1>6. TickShape(tick'[w])
  BY <1>1, <1>2, <1>4, <1>5 DEF TickShape, rows, starts
<1>7. \A c \in Holds(w) :
        /\ \A v \in Tickers \ {w} : c \notin Holds(v)
        /\ binding[c].enabled /\ binding[c].next # 0 /\ binding[c].next <= now
  BY DEF IInv, LockedOnce, LockedIsDue
<1>8. \A c \in Holds(w) : c \notin Dated /\ rows[c].next # 0 => binding[c].next <= rows[c].next
  BY <1>1, <1>2, <1>4, <1>7 DEF IInv, RowsMoveOn, Interval
<1>9. \A c \in DOMAIN tick[w].starts :
        /\ binding[c].next <= tick[w].starts[c] /\ tick[w].starts[c] <= now
        /\ c \notin Dated /\ tick[w].rows[c].next # 0 => tick[w].starts[c] + Interval <= tick[w].rows[c].next
  BY DEF IInv, StartsMoveOn
<1>10. ASSUME NEW c \in DOMAIN starts
       PROVE  /\ binding[c].next <= starts[c] /\ starts[c] <= now
              /\ c \notin Dated /\ rows[c].next # 0 => starts[c] + Interval <= rows[c].next
  <2>1. CASE c # b
    BY <1>2, <1>3, <1>5, <1>9, <2>1
  <2>2. CASE c = b
    BY <1>1, <1>2, <1>3, <1>4, <1>5, <1>7, <1>9, <2>2 DEF Interval
  <2> QED
    BY <2>1, <2>2
<1> QED
  BY <1>2, <1>6, <1>7, <1>8, <1>10, TickKeeps DEF rows, starts

LEMMA OffRow == ASSUME NEW row \in Row PROVE Off(row) \in Row /\ Off(row).next = 0
BY DEF Off, Row

LEMMA AdvancedRow ==
  ASSUME IInv, NEW w \in Tickers, tick[w].rows[First(w)] \in Row
  PROVE  /\ Advanced(w) \in Row
         /\ First(w) \notin Dated => Advanced(w).next = 0 \/ Advanced(w).next = now + Interval
<1>1. NextRun(First(w), tick[w].rows[First(w)].next) \in Nat
  BY FiringAssumption DEF NextRun, IInv, Types, Interval
<1> QED
  BY <1>1, OffRow DEF Advanced, NextRun, Row

LEMMA AsksKeeps ==
  ASSUME IInv, NEW w \in Tickers, Asks(w)
  PROVE  IInv'
<1>1. TickShape(tick[w]) /\ DOMAIN tick = Tickers
  BY DEF IInv, Types
<1>2. /\ DOMAIN tick' = Tickers /\ DOMAIN tick'[w] = DOMAIN tick[w]
      /\ \A v \in Tickers \ {w} : tick'[v] = tick[v]
      /\ tick'[w].rows = tick[w].rows /\ tick'[w].starts = tick[w].starts
      /\ tick'[w].todo = tick[w].todo
      /\ UNCHANGED <<now, binding, calls, fired>>
  BY <1>1 DEF Asks, TickShape
<1>3. TickShape(tick'[w])
  BY <1>1, <1>2 DEF TickShape
<1>4. \A c \in DOMAIN tick[w].rows :
        /\ \A v \in Tickers \ {w} : c \notin Holds(v)
        /\ binding[c].enabled /\ binding[c].next # 0 /\ binding[c].next <= now
        /\ c \notin Dated /\ tick[w].rows[c].next # 0 => binding[c].next <= tick[w].rows[c].next
  BY DEF IInv, LockedOnce, LockedIsDue, RowsMoveOn, Holds
<1>5. \A c \in DOMAIN tick[w].starts :
        /\ binding[c].next <= tick[w].starts[c] /\ tick[w].starts[c] <= now
        /\ c \notin Dated /\ tick[w].rows[c].next # 0 =>
             tick[w].starts[c] + Interval <= tick[w].rows[c].next
  BY DEF IInv, StartsMoveOn
<1> QED
  BY <1>2, <1>3, <1>4, <1>5, TickKeeps

\* fire_schedule leaves a row without firing.
LEMMA DoneKeeps ==
  ASSUME IInv, NEW w \in Tickers, Turn(w, "head"),
         NEW row \in Row, row.next = 0 \/ row = Advanced(w), Done(w, row),
         UNCHANGED <<now, binding, calls, fired>>
  PROVE  IInv'
<1>1. /\ First(w) \in Holds(w) /\ Tail(tick[w].todo) \in Seq(Holds(w))
      /\ tick[w].rows[First(w)] \in Row
  BY AtHead
<1>2. First(w) \notin Dated => row.next = 0 \/ row.next = now + Interval
  BY <1>1, AdvancedRow
<1>3. TickShape(tick[w]) /\ DOMAIN tick = Tickers
  BY DEF IInv, Types
<1>4. /\ DOMAIN tick' = Tickers /\ DOMAIN tick'[w] = DOMAIN tick[w]
      /\ \A v \in Tickers \ {w} : tick'[v] = tick[v]
      /\ DOMAIN tick'[w].rows = Holds(w) /\ tick'[w].rows[First(w)] = row
      /\ \A c \in Holds(w) \ {First(w)} : tick'[w].rows[c] = tick[w].rows[c]
      /\ tick'[w].todo = Tail(tick[w].todo)
      /\ tick'[w].starts = tick[w].starts
  BY <1>1, <1>3 DEF Done, TickShape, Holds
<1>5. \A c \in DOMAIN tick'[w].starts :
        \/ c = First(w) /\ tick'[w].starts[c] = now
        \/ c \in DOMAIN tick[w].starts /\ tick'[w].starts[c] = tick[w].starts[c]
  BY <1>4
<1>6. tick'[w].todo \in Seq(Holds(w))
  BY <1>1, <1>4
<1> QED
  BY <1>1, <1>2, <1>4, <1>5, <1>6, RowKeeps

LEMMA CreatesKeeps ==
  ASSUME IInv, NEW w \in Tickers, Creates(w)
  PROVE  IInv'
<1>1. Turn(w, "asking") /\ UNCHANGED <<now, binding, calls, fired>>
  BY DEF Creates
<1>2. /\ First(w) \in Holds(w) /\ Tail(tick[w].todo) \in Seq(Holds(w))
      /\ tick[w].rows[First(w)] \in Row
  BY <1>1, AtHead
<1>3. /\ Advanced(w) \in Row
      /\ First(w) \notin Dated => Advanced(w).next = 0 \/ Advanced(w).next = now + Interval
  BY <1>2, AdvancedRow
<1>4. TickShape(tick[w]) /\ DOMAIN tick = Tickers
  BY DEF IInv, Types
<1> DEFINE Starts(admitted) ==
             IF admitted
             THEN [c \in DOMAIN tick[w].starts \cup {First(w)} |->
                     IF c = First(w) THEN now ELSE tick[w].starts[c]]
             ELSE tick[w].starts
<1>5. \E admitted :
        tick' = [tick EXCEPT ![w].rows[First(w)] = Advanced(w), ![w].starts = Starts(admitted),
                             ![w].todo = Tail(@), ![w].at = "head"]
  BY DEF Creates
<1>6. \A admitted : \A c \in DOMAIN Starts(admitted) :
        \/ c = First(w) /\ Starts(admitted)[c] = now
        \/ c \in DOMAIN tick[w].starts /\ Starts(admitted)[c] = tick[w].starts[c]
  OBVIOUS
<1> HIDE DEF Starts
<1>7. /\ DOMAIN tick' = Tickers /\ DOMAIN tick'[w] = DOMAIN tick[w]
      /\ \A v \in Tickers \ {w} : tick'[v] = tick[v]
      /\ DOMAIN tick'[w].rows = Holds(w) /\ tick'[w].rows[First(w)] = Advanced(w)
      /\ \A c \in Holds(w) \ {First(w)} : tick'[w].rows[c] = tick[w].rows[c]
      /\ tick'[w].todo = Tail(tick[w].todo)
      /\ \E admitted : tick'[w].starts = Starts(admitted)
  BY <1>2, <1>4, <1>5 DEF TickShape, Holds
<1>8. \A c \in DOMAIN tick'[w].starts :
        \/ c = First(w) /\ tick'[w].starts[c] = now
        \/ c \in DOMAIN tick[w].starts /\ tick'[w].starts[c] = tick[w].starts[c]
  BY <1>6, <1>7
<1>9. tick'[w].todo \in Seq(Holds(w))
  BY <1>2, <1>7
<1> QED
  BY <1>1, <1>2, <1>3, <1>7, <1>8, <1>9, RowKeeps

LEMMA FireKeeps ==
  ASSUME IInv, NEW w \in Tickers, FindsDeleted(w) \/ SkipsOverlap(w)
  PROVE  IInv'
<1>1. Turn(w, "head") /\ UNCHANGED <<now, binding, calls, fired>>
  BY DEF FindsDeleted, SkipsOverlap
<1>2. tick[w].rows[First(w)] \in Row
  BY <1>1, AtHead
<1>3. Off(tick[w].rows[First(w)]) \in Row /\ Off(tick[w].rows[First(w)]).next = 0
  BY <1>2, OffRow
<1>4. Advanced(w) \in Row
  BY <1>2, AdvancedRow
<1> QED
  BY <1>1, <1>3, <1>4, DoneKeeps DEF FindsDeleted, SkipsOverlap

\* A step of the editor on a row nobody has in hand: a time it changes starts a new
\* series of runs.
LEMMA EditKeeps ==
  ASSUME IInv, UNCHANGED <<now, tick>>,
         \A e \in calls' : e.of \in Bindings /\ e.next \in Nat,
         NEW b \in Bindings, NEW row \in Row, binding' = [binding EXCEPT ![b] = row],
         \/ row.enabled = binding[b].enabled /\ row.next = binding[b].next
         \/ ~ Locked(b),
         \/ fired' = fired /\ (row.next = binding[b].next \/ row.next = 0)
         \/ fired' = [fired EXCEPT ![b] = <<>>]
  PROVE  IInv'
<1>1. /\ binding'[b] = row /\ \A c \in Bindings \ {b} : binding'[c] = binding[c]
      /\ fired \in [Bindings -> Seq(Nat)] /\ binding \in [Bindings -> Row]
  BY DEF IInv, Types
<1>2. /\ \A c \in Bindings \ {b} : fired'[c] = fired[c]
      /\ fired'[b] = fired[b] \/ fired'[b] = <<>>
      /\ fired' \in [Bindings -> Seq(Nat)]
  <2>1. <<>> \in Seq(Nat)
    OBVIOUS
  <2>2. CASE fired' = fired
    BY <1>1, <2>2
  <2>3. CASE fired' = [fired EXCEPT ![b] = <<>>]
    BY <1>1, <2>1, <2>3
  <2> QED
    BY <2>2, <2>3
<1>3. \A w \in Tickers : /\ Holds(w)' = Holds(w) /\ Holds(w) \subseteq Bindings
                         /\ DOMAIN tick[w].starts \subseteq Holds(w)
  BY DEF Holds, IInv, Types, TickShape
<1>4. \A w \in Tickers : \A c \in Holds(w) :
        binding'[c].enabled = binding[c].enabled /\ binding'[c].next = binding[c].next
  BY <1>1, <1>3 DEF Locked, Holds
<1>5. Types'
  BY <1>1, <1>2 DEF IInv, Types
<1>6. LockedOnce' /\ LockedIsDue'
  BY <1>3, <1>4 DEF IInv, LockedOnce, LockedIsDue
<1>7. RowsMoveOn' /\ StartsMoveOn'
  BY <1>3, <1>4 DEF IInv, RowsMoveOn, StartsMoveOn
<1>8. LastBeforeNext'
  <2> SUFFICES ASSUME NEW c \in Bindings \ Dated, fired'[c] # <<>>, binding'[c].next # 0
               PROVE  fired'[c][Len(fired'[c])] + Interval <= binding'[c].next
    BY DEF LastBeforeNext
  <2>1. fired'[c] = fired[c] /\ binding'[c].next = binding[c].next
    BY <1>1, <1>2
  <2> QED
    BY <2>1 DEF IInv, LastBeforeNext
<1>9. NoBurst'
  <2>1. \A c \in Bindings : fired'[c] = fired[c] \/ DOMAIN fired'[c] = {}
    BY <1>2
  <2> QED
    BY <2>1 DEF IInv, NoBurst
<1> QED
  BY <1>5, <1>6, <1>7, <1>8, <1>9 DEF IInv

LEMMA EditWritesKeeps ==
  ASSUME IInv, NEW e \in calls, EditWrites(e)
  PROVE  IInv'
<1> DEFINE b == e.of
           turnsOn == e.kind = "activate" /\ ~e.copy.enabled
           rearms == e.next # e.copy.next
           row == [binding[b] EXCEPT !.enabled = @ \/ turnsOn,
                                     !.next = IF rearms THEN e.next ELSE @,
                                     !.deleted = @ \/ e.kind = "delete"]
<1>1. b \in Bindings /\ e.next \in Nat /\ binding[b] \in Row /\ DOMAIN binding = Bindings
  BY DEF IInv, Types
<1>2. binding' = [binding EXCEPT ![b] = row]
  BY <1>1 DEF EditWrites
<1>3. row \in Row
  BY <1>1 DEF Row
<1>4. ~ turnsOn /\ ~ rearms => /\ row.enabled = binding[b].enabled /\ row.next = binding[b].next
                               /\ fired' = fired
  BY <1>1 DEF Row, EditWrites
<1>5. turnsOn \/ rearms => ~ Locked(b) /\ fired' = [fired EXCEPT ![b] = <<>>]
  BY DEF EditWrites
<1>6. UNCHANGED <<now, tick>> /\ calls' \subseteq calls
  BY DEF EditWrites
<1>7. \A f \in calls' : f.of \in Bindings /\ f.next \in Nat
  BY <1>6 DEF IInv, Types
<1> HIDE DEF turnsOn, rearms, row, b
<1> QED
  BY <1>1, <1>2, <1>3, <1>4, <1>5, <1>6, <1>7, EditKeeps

LEMMA StopKeeps ==
  ASSUME IInv, NEW b \in Bindings, Stop(b)
  PROVE  IInv'
<1>1. binding[b] \in Row /\ DOMAIN binding = Bindings
  BY DEF IInv, Types
<1>2. Off(binding[b]) \in Row /\ Off(binding[b]).next = 0
  BY <1>1, OffRow
<1>3. binding' = [binding EXCEPT ![b] = Off(binding[b])]
  BY <1>1 DEF Stop, Off
<1>4. ~ Locked(b) /\ UNCHANGED <<now, tick, fired, calls>>
  BY DEF Stop
<1>5. \A f \in calls' : f.of \in Bindings /\ f.next \in Nat
  BY <1>4 DEF IInv, Types
<1> QED
  BY <1>2, <1>3, <1>4, <1>5, EditKeeps

\* Steps that touch no row, no tick and no run of a schedule.
LEMMA OtherKeeps ==
  ASSUME IInv, UNCHANGED <<binding, tick, fired>>,
         now' = now \/ now' = now + 1,
         \A e \in calls' : e.of \in Bindings /\ e.next \in Nat
  PROVE  IInv'
<1>1. Types'
  BY DEF IInv, Types
<1>2. now \in Nat /\ now <= now'
  BY DEF IInv, Types
<1>3. \A w \in Tickers : /\ Holds(w)' = Holds(w) /\ Holds(w) \subseteq Bindings
                         /\ DOMAIN tick[w].starts \subseteq Holds(w)
                         /\ \A b \in DOMAIN tick[w].starts : tick[w].starts[b] \in Nat
                         /\ \A b \in Holds(w) : binding[b].next \in Nat
  BY DEF Holds, IInv, Types, TickShape, Row
<1>4. LockedOnce' /\ LockedIsDue'
  BY <1>2, <1>3 DEF IInv, LockedOnce, LockedIsDue
<1>5. RowsMoveOn' /\ StartsMoveOn'
  BY <1>2, <1>3 DEF IInv, RowsMoveOn, StartsMoveOn
<1>6. LastBeforeNext' /\ NoBurst'
  BY DEF IInv, LastBeforeNext, NoBurst
<1> QED
  BY <1>1, <1>4, <1>5, <1>6 DEF IInv

\* The commit of a tick: its rows and its runs are seen at once.
LEMMA CommitKeeps ==
  ASSUME IInv, NEW w \in Tickers, CommitTick(w)
  PROVE  IInv'
<1> DEFINE t == tick[w]
<1>1. /\ binding' = [b \in Bindings |->
           IF b \in DOMAIN t.rows
           THEN [binding[b] EXCEPT !.enabled = t.rows[b].enabled, !.next = t.rows[b].next]
           ELSE binding[b]]
      /\ fired' = [b \in Bindings |->
           IF b \in DOMAIN t.starts THEN Append(fired[b], t.starts[b]) ELSE fired[b]]
      /\ tick' = [tick EXCEPT ![w] = Idle] /\ now' = now /\ calls' = calls
  BY DEF CommitTick, StartedBy
<1>2. TickShape(t) /\ Holds(w) = DOMAIN t.rows
  BY DEF IInv, Types, Holds
<1> HIDE DEF t
<1>3. /\ tick'[w] = Idle /\ DOMAIN tick' = Tickers
      /\ \A v \in Tickers \ {w} : tick'[v] = tick[v]
  BY <1>1 DEF IInv, Types
<1>4. /\ Holds(w)' = {} /\ DOMAIN tick'[w].starts = {}
      /\ \A v \in Tickers \ {w} : Holds(v)' = Holds(v)
  BY <1>3, IdleShape DEF Holds
<1>5. /\ \A b \in DOMAIN t.rows : b \in Bindings /\ binding'[b].next = t.rows[b].next
      /\ \A b \in Bindings \ DOMAIN t.rows : binding'[b] = binding[b]
      /\ \A b \in Bindings : binding'[b] \in Row /\ binding[b].next \in Nat
      /\ binding' \in [Bindings -> Row]
  <2>1. \A b \in Bindings : binding[b] \in Row /\ binding[b].next \in Nat
    BY DEF IInv, Types, Row
  <2>2. \A b \in DOMAIN t.rows : b \in Bindings /\ t.rows[b] \in Row
    BY <1>2 DEF TickShape
  <2>3. ASSUME NEW b \in DOMAIN t.rows
        PROVE  binding'[b] \in Row /\ binding'[b].next = t.rows[b].next
    <3>1. binding'[b] = [binding[b] EXCEPT !.enabled = t.rows[b].enabled, !.next = t.rows[b].next]
      BY <1>1, <2>2
    <3> QED
      BY <2>1, <2>2, <3>1 DEF Row
  <2>4. \A b \in Bindings \ DOMAIN t.rows : binding'[b] = binding[b]
    BY <1>1
  <2>5. \A b \in Bindings : binding'[b] \in Row
    BY <2>1, <2>3, <2>4
  <2>6. binding' \in [Bindings -> Row]
    BY <1>1, <2>5
  <2> QED
    BY <2>1, <2>2, <2>3, <2>4, <2>5, <2>6
<1>6. \A v \in Tickers \ {w} : \A b \in Holds(v) : b \in Bindings /\ binding'[b] = binding[b]
  <2>1. \A v \in Tickers \ {w} : Holds(v) \subseteq Bindings
    BY DEF IInv, Types, TickShape, Holds
  <2>2. \A v \in Tickers \ {w} : Holds(v) \cap Holds(w) = {}
    BY DEF IInv, LockedOnce
  <2> QED
    BY <1>2, <1>5, <2>1, <2>2
<1>7. \A b \in Bindings : fired[b] \in Seq(Nat)
  BY DEF IInv, Types
<1>8. \A b \in DOMAIN t.starts :
        /\ b \in Bindings /\ b \in DOMAIN t.rows /\ t.starts[b] \in Nat
        /\ fired'[b] = Append(fired[b], t.starts[b])
  BY <1>1, <1>2 DEF TickShape
<1>9. \A b \in Bindings \ DOMAIN t.starts : fired'[b] = fired[b]
  BY <1>1
<1>10. Types'
  <2>1. ASSUME NEW b \in Bindings PROVE fired'[b] \in Seq(Nat)
    <3>1. CASE b \in DOMAIN t.starts
      <4>1. fired[b] \in Seq(Nat) /\ t.starts[b] \in Nat /\ fired'[b] = Append(fired[b], t.starts[b])
        BY <1>7, <1>8, <3>1
      <4> QED
        BY <4>1
    <3>2. CASE b \notin DOMAIN t.starts
      BY <1>7, <1>9, <3>2
    <3> QED
      BY <3>1, <3>2
  <2>2. fired' \in [Bindings -> Seq(Nat)]
    BY <1>1, <2>1
  <2> QED
    BY <1>1, <1>3, <1>5, <2>2, IdleShape DEF IInv, Types
<1>11. LockedOnce'
  BY <1>4 DEF IInv, LockedOnce
<1>12. LockedIsDue'
  <2>1. now' = now
    BY <1>1
  <2> QED
    BY <1>4, <1>6, <2>1 DEF IInv, LockedIsDue
<1>13. RowsMoveOn'
  BY <1>3, <1>4, <1>6 DEF IInv, RowsMoveOn
<1>14. StartsMoveOn'
  <2>1. \A v \in Tickers : DOMAIN tick[v].starts \subseteq Holds(v)
    BY DEF IInv, Types, TickShape, Holds
  <2>2. \A v \in Tickers \ {w} : \A b \in DOMAIN tick[v].starts : binding'[b] = binding[b]
    BY <1>6, <2>1
  <2>3. \A v \in Tickers \ {w} : \A b \in DOMAIN tick'[v].starts :
          /\ tick'[v] = tick[v] /\ b \in DOMAIN tick[v].starts /\ binding'[b] = binding[b]
    BY <1>3, <2>2
  <2>4. \A v \in Tickers \ {w} : \A b \in DOMAIN tick'[v].starts :
          /\ binding'[b].next <= tick'[v].starts[b] /\ tick'[v].starts[b] <= now'
          /\ b \notin Dated /\ tick'[v].rows[b].next # 0 =>
               tick'[v].starts[b] + Interval <= tick'[v].rows[b].next
    <3>1. now' = now
      BY <1>1
    <3>2. \A v \in Tickers : \A b \in DOMAIN tick[v].starts :
            /\ binding[b].next <= tick[v].starts[b] /\ tick[v].starts[b] <= now
            /\ b \notin Dated /\ tick[v].rows[b].next # 0 =>
                 tick[v].starts[b] + Interval <= tick[v].rows[b].next
      BY DEF IInv, StartsMoveOn
    <3> QED
      BY <2>3, <3>1, <3>2
  <2> QED
    BY <1>4, <2>4 DEF StartsMoveOn
\* What the row and the start of a binding in hand are to its last run.
<1>15. ASSUME NEW b \in Bindings \ Dated, b \in DOMAIN t.starts
       PROVE  /\ binding[b].next # 0 /\ binding[b].next <= t.starts[b]
              /\ binding'[b].next # 0 => t.starts[b] + Interval <= binding'[b].next
  BY <1>2, <1>5, <1>8, <1>15 DEF IInv, LockedIsDue, StartsMoveOn, t
<1>16. ASSUME NEW b \in Bindings \ Dated, b \in DOMAIN t.rows, binding'[b].next # 0
       PROVE  binding[b].next # 0 /\ binding[b].next <= binding'[b].next
  BY <1>2, <1>5, <1>16 DEF IInv, LockedIsDue, RowsMoveOn, t
<1>17. LastBeforeNext'
  <2> SUFFICES ASSUME NEW b \in Bindings \ Dated, fired'[b] # <<>>, binding'[b].next # 0
               PROVE  fired'[b][Len(fired'[b])] + Interval <= binding'[b].next
    BY DEF LastBeforeNext
  <2>1. CASE b \in DOMAIN t.starts
    <3>1. fired'[b][Len(fired'[b])] = t.starts[b]
      BY <1>7, <1>8, <2>1
    <3> QED
      BY <1>15, <2>1, <3>1
  <2>2. CASE b \notin DOMAIN t.starts
    <3>1. fired'[b] = fired[b] /\ binding[b].next # 0 /\ binding[b].next <= binding'[b].next
      BY <1>5, <1>9, <1>16, <2>2
    <3>2. fired[b][Len(fired[b])] + Interval <= binding[b].next
      BY <3>1 DEF IInv, LastBeforeNext
    <3>3. fired[b][Len(fired[b])] \in Nat
      BY <1>7, <3>1
    <3>4. binding[b].next \in Nat /\ binding'[b].next \in Nat
      BY <1>5 DEF Row
    <3> QED
      BY <3>1, <3>2, <3>3, <3>4 DEF Interval
  <2> QED
    BY <2>1, <2>2
<1>18. NoBurst'
  <2> SUFFICES ASSUME NEW b \in Bindings \ Dated, NEW i \in DOMAIN fired'[b],
                      NEW j \in DOMAIN fired'[b], i < j
               PROVE  fired'[b][i] + Interval <= fired'[b][j]
    BY DEF NoBurst
  <2>1. CASE b \notin DOMAIN t.starts
    BY <1>9, <2>1 DEF IInv, NoBurst
  <2>2. CASE b \in DOMAIN t.starts
    <3> DEFINE s == fired[b]
               n == Len(s)
    <3>1. s \in Seq(Nat) /\ n \in Nat /\ DOMAIN s = 1 .. n /\ \A k \in 1 .. n : s[k] \in Nat
      BY <1>7
    <3>2. PICK x \in Nat : x = t.starts[b] /\ fired'[b] = Append(s, x)
      BY <1>8, <2>2
    <3>3. /\ DOMAIN Append(s, x) = 1 .. n + 1 /\ Append(s, x)[n + 1] = x
          /\ \A k \in 1 .. n : Append(s, x)[k] = s[k]
      BY <3>1
    <3> HIDE DEF s, n
    <3>4. /\ fired'[b] = Append(s, t.starts[b]) /\ t.starts[b] \in Nat
          /\ i \in 1 .. n + 1 /\ j \in 1 .. n + 1
          /\ \A k \in 1 .. n : fired'[b][k] = s[k]
          /\ fired'[b][n + 1] = t.starts[b]
      BY <3>2, <3>3
    <3>5. \A k, l \in 1 .. n : k < l => s[k] + Interval <= s[l]
      BY <3>1 DEF IInv, NoBurst, s
    <3>6. n # 0 => s[n] + Interval <= binding[b].next
      BY <1>15, <2>2, <3>1 DEF IInv, LastBeforeNext, s, n
    <3>7. binding[b].next <= t.starts[b] /\ binding[b].next \in Nat
      BY <1>5, <1>15, <2>2
    <3>8. CASE j <= n
      BY <3>1, <3>4, <3>5, <3>8
    <3>9. CASE j = n + 1
      <4>1. i \in 1 .. n /\ n # 0
        BY <3>1, <3>4, <3>9
      <4>2. s[i] <= s[n]
        BY <3>1, <3>5, <4>1 DEF Interval
      <4>3. s[i] + Interval <= t.starts[b]
        BY <3>1, <3>4, <3>6, <3>7, <4>1, <4>2 DEF Interval
      <4> QED
        BY <3>4, <3>9, <4>1, <4>3
    <3> QED
      BY <3>1, <3>4, <3>8, <3>9
  <2> QED
    BY <2>1, <2>2
<1> QED
  BY <1>10, <1>11, <1>12, <1>13, <1>14, <1>17, <1>18 DEF IInv

LEMMA Step == IInv /\ [FiringNext]_firingVars => IInv'
<1> SUFFICES ASSUME IInv, [FiringNext]_firingVars PROVE IInv'
  OBVIOUS
<1>1. CASE UNCHANGED firingVars
  BY <1>1, OtherKeeps DEF firingVars, IInv, Types
<1>2. ASSUME NEW w \in Tickers, Works(w) \/ RollBack(w)
      PROVE  IInv'
  BY <1>2, BeginTickKeeps, FireKeeps, AsksKeeps, CreatesKeeps, CommitKeeps, RollBackKeeps DEF Works
<1>3. ASSUME NEW b \in Bindings, NEW kind \in {"activate", "save", "delete"}, EditReads(b, kind)
      PROVE  IInv'
  <2>1. NextRun(b, now) \in Nat
    BY FiringAssumption DEF NextRun, Interval, IInv, Types
  <2>2. \A e \in calls' : e.of \in Bindings /\ e.next \in Nat
    BY <1>3, <2>1 DEF EditReads, IInv, Types
  <2> QED
    BY <1>3, <2>2, OtherKeeps DEF EditReads
<1>4. ASSUME NEW b \in Bindings, StartByHand(b) \/ RunEnds(b)
      PROVE  IInv'
  BY <1>4, OtherKeeps DEF StartByHand, RunEnds, IInv, Types
<1>5. ASSUME NEW b \in Bindings, Stop(b)
      PROVE  IInv'
  BY <1>5, StopKeeps
<1>6. ASSUME NEW e \in calls, EditWrites(e)
      PROVE  IInv'
  BY <1>6, EditWritesKeeps
<1>7. CASE TimePasses
  BY <1>7, OtherKeeps DEF TimePasses, IInv, Types
<1> QED
  BY <1>1, <1>2, <1>3, <1>4, <1>5, <1>6, <1>7 DEF FiringNext

LEMMA Invariance == FiringSpec => []IInv
BY InitHolds, Step, PTL DEF FiringSpec

\* As long as nobody arms it again, the runs of a schedule are an interval apart, for
\* any number of workers, ticks rolled back and times missed (due_schedules'
\* SKIP LOCKED, fire_schedule's finally clause).
THEOREM FiresOncePerTime == FiringSpec => []NoBurst
<1>1. IInv => NoBurst
  BY DEF IInv
<1> QED
  BY <1>1, Invariance, PTL

\* An edit adds no run to those of the time that is set.
LEMMA EditForgets ==
  ASSUME NEW b \in DOMAIN fired, NEW e, EditWrites(e)
  PROVE  fired'[b] = fired[b] \/ fired'[b] = <<>>
<1> DEFINE turnsOn == e.kind = "activate" /\ ~e.copy.enabled
           rearms == e.next # e.copy.next
<1>1. turnsOn \/ rearms => fired' = [fired EXCEPT ![e.of] = <<>>]
  BY DEF EditWrites
<1>2. ~ turnsOn /\ ~ rearms => fired' = fired
  BY DEF EditWrites
<1> HIDE DEF turnsOn, rearms
<1> QED
  BY <1>1, <1>2

\* No run of a schedule becomes visible after the schedule was turned off: the tick
\* holds the row from its SELECT to its commit.
THEOREM TurnedOffIsOff == FiringSpec => StartsOnlyWhileOn
<1>1. IInv /\ [FiringNext]_firingVars =>
        [\A b \in Bindings : Len(fired'[b]) > Len(fired[b]) => binding[b].enabled]_firingVars
  <2> SUFFICES ASSUME IInv, FiringNext, NEW b \in Bindings, ~ binding[b].enabled
               PROVE  ~ (Len(fired'[b]) > Len(fired[b]))
    BY DEF firingVars
  <2>1. fired \in [Bindings -> Seq(Nat)]
    BY DEF IInv, Types
  <2>2. ASSUME NEW w \in Tickers, CommitTick(w)
        PROVE  fired'[b] = fired[b]
    <3>1. ~ StartedBy(w, b)
      BY DEF StartedBy, IInv, LockedIsDue, Types, TickShape, Holds
    <3> QED
      BY <2>1, <2>2, <3>1 DEF CommitTick
  <2>3. ASSUME NEW e \in calls, EditWrites(e)
        PROVE  fired'[b] = fired[b] \/ fired'[b] = <<>>
    BY <2>1, <2>3, EditForgets
  <2>4. ASSUME NEW w \in Tickers, BeginTick(w) \/ RollBack(w) \/ FindsDeleted(w) \/ SkipsOverlap(w)
        PROVE  fired' = fired
    BY <2>4 DEF BeginTick, RollBack, FindsDeleted, SkipsOverlap
  <2>5. ASSUME NEW w \in Tickers, Asks(w) \/ Creates(w)
        PROVE  fired' = fired
    BY <2>5 DEF Asks, Creates
  <2>6. ASSUME NEW c \in Bindings,
               \/ \E kind \in {"activate", "save", "delete"} : EditReads(c, kind)
               \/ Stop(c) \/ StartByHand(c) \/ RunEnds(c)
        PROVE  fired' = fired
    BY <2>6 DEF EditReads, Stop, StartByHand, RunEnds
  <2>7. TimePasses => fired' = fired
    BY DEF TimePasses
  <2> QED
    BY <2>1, <2>2, <2>3, <2>4, <2>5, <2>6, <2>7 DEF FiringNext, Works
<1> QED
  BY <1>1, Invariance, PTL DEF FiringSpec, StartsOnlyWhileOn
=============================================================================
