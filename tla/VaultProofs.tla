------------------------------- MODULE VaultProofs -------------------------------
(***************************************************************************)
(* Proofs about Vault, for any number of credentials, any size of the      *)
(* batches, and any number of writes, restarts and interrupted passes.     *)
(***************************************************************************)
EXTENDS Vault, FiniteSetTheorems, TLAPS

Shapes ==
  /\ DOMAIN record = Slots
  /\ \A c \in Slots : Stored(c) => /\ {"kek", "wrapped", "sealed"} \subseteq DOMAIN record[c]
                                  /\ record[c].kek \in Keks
  /\ DOMAIN rotation = {"at", "offset", "page"}
  /\ rotation.offset \in Nat /\ IsFiniteSet(rotation.page)
  /\ serving \in Keks

\* What rewrap_all still has to write back is what the row holds, unless the secret was
\* saved since the SELECT.
PageIsCurrent ==
  \A copy \in rotation.page : \A c \in Slots \ raced :
    copy.of = c /\ Stored(c) => copy.wrapped = record[c].wrapped

\* The secrets a pass still has to reach.
Left == {c \in StoredSlots : record[c].kek = "old"}
InPage(c) == \E copy \in rotation.page : copy.of = c /\ Unwraps(copy)

\* While nothing disturbs a pass, what is left lies behind its offset or in the batch.
LeftIsAhead ==
  ~disturbed =>
    /\ rotation.at = "reading" => \A c \in Left : Position(c, StoredSlots) > rotation.offset
    /\ rotation.at = "writing" =>
         \A c \in Left : \/ InPage(c)
                        \/ Position(c, StoredSlots) > rotation.offset + Cardinality(rotation.page)
    /\ rotation.at = "done" => Left = {}

IInv == Shapes /\ PageIsCurrent /\ SecretsSurvive /\ LeftIsAhead

----------------------------------------------------------------------------
(* ORDER BY, OFFSET, LIMIT *)

LEMMA FiniteSlots ==
  ASSUME NEW slots \in SUBSET Slots
  PROVE  IsFiniteSet(slots) /\ Cardinality(slots) \in Nat /\ slots \subseteq Nat
BY VaultAssumption, FS_Subset, FS_CardinalityType

LEMMA PositionRange ==
  ASSUME NEW slots \in SUBSET Slots, NEW c \in slots
  PROVE  Position(c, slots) \in 1 .. Cardinality(slots)
<1> DEFINE upTo == {d \in slots : d <= c}
<1>1. upTo \in SUBSET slots /\ upTo \in SUBSET Slots /\ c \in upTo
  BY FiniteSlots
<1>2. Cardinality(upTo) \in Nat /\ IsFiniteSet(upTo) /\ Cardinality(upTo) <= Cardinality(slots)
  BY <1>1, FiniteSlots, FS_Subset
<1>3. Cardinality(upTo) # 0
  BY <1>1, <1>2, FS_EmptySet
<1> QED
  BY <1>2, <1>3, FiniteSlots DEF Position

\* The later row has the higher number.
LEMMA PositionsGoUp ==
  ASSUME NEW slots \in SUBSET Slots, NEW c \in slots, NEW d \in slots, c < d
  PROVE  Position(c, slots) < Position(d, slots)
<1> DEFINE upTo(x) == {e \in slots : e <= x}
<1>1. upTo(c) \in SUBSET Slots /\ upTo(d) \in SUBSET Slots
  OBVIOUS
<1>2. /\ IsFiniteSet(upTo(c)) /\ Cardinality(upTo(c)) \in Nat
      /\ IsFiniteSet(upTo(d)) /\ Cardinality(upTo(d)) \in Nat
  BY <1>1, FiniteSlots
<1>3. slots \subseteq Nat
  BY FiniteSlots
<1>4. d \notin upTo(c) /\ upTo(c) \cup {d} \subseteq upTo(d)
  <2>1. c \in Nat /\ d \in Nat /\ \A e \in slots : e \in Nat
    BY <1>3
  <2>2. ~(d <= c) /\ d <= d
    BY <2>1
  <2>3. \A e \in slots : e <= c => e <= d
    BY <2>1
  <2> QED
    BY <2>2, <2>3, Zenon
<1>5. Cardinality(upTo(c) \cup {d}) = Cardinality(upTo(c)) + 1
  BY <1>2, <1>4, FS_AddElement
<1>6. Cardinality(upTo(c) \cup {d}) <= Cardinality(upTo(d))
  BY <1>2, <1>4, FS_Subset
<1> QED
  BY <1>2, <1>5, <1>6 DEF Position

\* A new row moves none of the others forward.
LEMMA PositionsStay ==
  ASSUME NEW slots \in SUBSET Slots, NEW more \in SUBSET Slots, slots \subseteq more,
         NEW c \in slots
  PROVE  Position(c, slots) <= Position(c, more)
<1> DEFINE upTo(some) == {e \in some : e <= c}
<1>1. upTo(more) \in SUBSET Slots /\ upTo(slots) \in SUBSET upTo(more)
  OBVIOUS
<1> QED
  BY <1>1, FiniteSlots, FS_Subset DEF Position

LEMMA PositionsDiffer ==
  ASSUME NEW slots \in SUBSET Slots, NEW c \in slots, NEW d \in slots,
         Position(c, slots) = Position(d, slots)
  PROVE  c = d
<1>1. Position(c, slots) \in Nat /\ c \in Nat /\ d \in Nat
  BY FiniteSlots, PositionRange
<1>2. ~(c < d) /\ ~(d < c)
  BY <1>1, PositionsGoUp
<1> QED
  BY <1>1, <1>2

\* Rows are numbered from 1 on without a gap.
LEMMA PositionsAreAll ==
  ASSUME NEW slots \in SUBSET Slots, NEW n \in 1 .. Cardinality(slots)
  PROVE  \E c \in slots : Position(c, slots) = n
<1> DEFINE f == [c \in slots |-> Position(c, slots)]
<1>1. slots \subseteq Nat /\ Cardinality(slots) \in Nat /\ IsFiniteSet(slots)
  BY FiniteSlots
<1>2. f \in [slots -> 1 .. Cardinality(slots)]
  BY PositionRange
<1>3. \A c, d \in slots : Position(c, slots) = Position(d, slots) => c = d
  BY PositionsDiffer
<1>4. f \in Injection(slots, 1 .. Cardinality(slots))
  BY <1>2, <1>3 DEF Injection, IsInjective
<1>5. IsFiniteSet(1 .. Cardinality(slots)) /\ Cardinality(1 .. Cardinality(slots)) = Cardinality(slots)
  BY <1>1, FS_Interval
<1>6. f \in Surjection(slots, 1 .. Cardinality(slots))
  BY <1>4, <1>5, FS_Injection
<1> QED
  BY <1>6 DEF Surjection

\* A batch holds at most the rows its LIMIT allows.
LEMMA PagesAreBounded ==
  ASSUME IInv
  PROVE  IsFiniteSet(Page) /\ Cardinality(Page) \in Nat /\ Cardinality(Page) <= PageSize
<1>1. PICK slots \in SUBSET Slots : slots = StoredSlots
  BY DEF StoredSlots
<1>2. PICK lo \in Nat : lo = rotation.offset
  BY DEF IInv, Shapes
<1> DEFINE there == {d \in slots : Position(d, slots) \in lo + 1 .. lo + PageSize}
           numbers == {Position(d, slots) : d \in there}
           f == [n \in numbers |-> Copy(CHOOSE d \in there : Position(d, slots) = n)]
<1>3. IsFiniteSet(numbers) /\ Cardinality(numbers) \in Nat /\ Cardinality(numbers) <= PageSize
  <2>1. numbers \in SUBSET (lo + 1 .. lo + PageSize)
    OBVIOUS
  <2>2. /\ IsFiniteSet(lo + 1 .. lo + PageSize)
        /\ Cardinality(lo + 1 .. lo + PageSize) = PageSize
    BY VaultAssumption, FS_Interval
  <2> QED
    BY <2>1, <2>2, FS_Subset, FS_CardinalityType
<1>4. Page = {Copy(d) : d \in there}
  BY <1>1, <1>2 DEF Page, PageOf
<1>5. \A d \in there : f[Position(d, slots)] = Copy(d)
  BY PositionsDiffer
<1> HIDE DEF f
<1>6. f \in [numbers -> Page]
  <2>1. \A n \in numbers : f[n] \in Page
    BY <1>4, <1>5
  <2>2. f = [n \in numbers |-> f[n]]
    BY DEF f
  <2> QED
    BY <2>1, <2>2
<1>7. \A x \in Page : \E n \in numbers : f[n] = x
  BY <1>4, <1>5
<1>8. f \in Surjection(numbers, Page)
  BY <1>6, <1>7 DEF Surjection
<1>9. IsFiniteSet(Page) /\ Cardinality(Page) <= Cardinality(numbers)
  BY <1>3, <1>8, FS_Surjection
<1> QED
  BY <1>3, <1>9, VaultAssumption, FS_CardinalityType

----------------------------------------------------------------------------
(* The steps *)

LEMMA CopySays ==
  \A c : Copy(c).of = c /\ Copy(c).wrapped = record[c].wrapped /\ Copy(c).kek = record[c].kek
  BY DEF Copy

\* A step beside a pass, which leaves it nothing more to reach.
LEMMA LeftKeeps ==
  ASSUME IInv, rotation' = rotation,
         ~disturbed' => ~disturbed /\ Left' \subseteq Left /\ StoredSlots \subseteq StoredSlots'
  PROVE  LeftIsAhead'
<1> SUFFICES ASSUME ~disturbed' PROVE LeftIsAhead'
  BY DEF LeftIsAhead
<1>1. ~disturbed /\ Left' \subseteq Left /\ Left \subseteq StoredSlots
  BY DEF Left
<1>2. StoredSlots \in SUBSET Slots /\ StoredSlots' \in SUBSET Slots
  BY DEF StoredSlots
<1>3. \A c \in Left : /\ Position(c, StoredSlots) <= Position(c, StoredSlots')
                      /\ Position(c, StoredSlots) \in Nat /\ Position(c, StoredSlots') \in Nat
  BY <1>1, <1>2, PositionsStay, PositionRange, FiniteSlots
<1>4. \A c : InPage(c)' <=> InPage(c)
  BY DEF InPage, Unwraps
<1>5. rotation.offset \in Nat /\ Cardinality(rotation.page) \in Nat
  BY FS_CardinalityType DEF IInv, Shapes
<1> QED
  BY <1>1, <1>3, <1>4, <1>5 DEF IInv, LeftIsAhead

\* A save of a secret that is in the page sets it apart; any other is coherent at once.
LEMMA WriteKeeps ==
  ASSUME IInv, NEW c \in Slots, NEW payload, Write(c, payload), UNCHANGED <<rotation, serving>>
  PROVE  IInv'
<1> DEFINE new == [kek |-> serving, wrapped |-> writes', sealed |-> writes',
                   payload |-> payload]
<1>1. record' = [record EXCEPT ![c] = new]
  BY DEF Write
<1>2. DOMAIN record' = Slots /\ \A d \in Slots : record'[d] = IF d = c THEN new ELSE record[d]
  BY <1>1 DEF IInv, Shapes
<1>3. /\ {"kek", "wrapped", "sealed"} \subseteq DOMAIN new /\ new.kek = serving
      /\ new.wrapped = new.sealed
  OBVIOUS
<1> HIDE DEF new
<1>4. serving \in Keks /\ new # NoRecord
  BY <1>3 DEF IInv, Shapes, Keks, NoRecord
<1>5. Shapes'
  BY <1>2, <1>3, <1>4 DEF IInv, Shapes, Stored
<1>6. PageIsCurrent'
  <2> SUFFICES ASSUME NEW copy \in rotation.page, NEW d \in Slots, d \notin raced',
                      copy.of = d, Stored(d)'
               PROVE  copy.wrapped = record'[d].wrapped
    BY DEF PageIsCurrent
  <2>1. d # c /\ d \notin raced
    BY DEF Write
  <2>2. record'[d] = record[d]
    BY <1>2, <2>1
  <2> QED
    BY <2>1, <2>2 DEF IInv, PageIsCurrent, Stored
<1>7. SecretsSurvive'
  <2> SUFFICES ASSUME NEW d \in Slots, d \notin raced', Stored(d)'
               PROVE  record'[d].wrapped = record'[d].sealed
    BY DEF SecretsSurvive
  <2>1. CASE d = c
    BY <2>1, <1>2, <1>3
  <2>2. CASE d # c
    <3>1. d \notin raced
      BY <2>2 DEF Write
    <3>2. record'[d] = record[d]
      BY <1>2, <2>2
    <3> QED
      BY <3>1, <3>2 DEF IInv, SecretsSurvive, Stored
  <2> QED
    BY <2>1, <2>2
<1>8. LeftIsAhead'
  <2>1. ~disturbed' => ~disturbed /\ serving = "new"
    BY <1>4 DEF Write, Keks
  <2>2. StoredSlots \subseteq StoredSlots'
    BY <1>2, <1>4 DEF StoredSlots, Stored
  <2>3. serving = "new" => Left' \subseteq Left
    BY <1>2, <1>3 DEF Left, StoredSlots, Stored
  <2> QED
    BY <2>1, <2>2, <2>3, LeftKeeps
<1> QED
  BY <1>5, <1>6, <1>7, <1>8 DEF IInv

LEMMA DeleteKeeps ==
  ASSUME IInv, NEW c \in Slots, DeleteCredential(c)
  PROVE  IInv'
<1>1. /\ DOMAIN record' = Slots
      /\ \A d \in Slots : record'[d] = IF d = c THEN NoRecord ELSE record[d]
      /\ rotation' = rotation /\ raced' = raced /\ serving' = serving /\ disturbed' = TRUE
  BY DEF DeleteCredential, IInv, Shapes
<1>2. \A d \in Slots : Stored(d)' => Stored(d) /\ record'[d] = record[d]
  BY <1>1 DEF Stored
<1> QED
  BY <1>1, <1>2 DEF IInv, Shapes, PageIsCurrent, SecretsSurvive, LeftIsAhead

LEMMA BeginKeeps == IInv /\ BeginRotation => IInv'
<1> SUFFICES ASSUME IInv, BeginRotation PROVE IInv'
  OBVIOUS
<1>1. /\ rotation' = [at |-> "reading", offset |-> 0, page |-> {}]
      /\ UNCHANGED <<record, raced, serving>>
  BY DEF BeginRotation, NoRotation
<1>2. /\ rotation'.at = "reading" /\ rotation'.offset = 0 /\ rotation'.page = {}
      /\ DOMAIN rotation' = {"at", "offset", "page"}
  BY <1>1
<1>3. \A c \in StoredSlots : Position(c, StoredSlots) > 0
  BY PositionRange, FiniteSlots DEF StoredSlots
<1>4. LeftIsAhead'
  BY <1>1, <1>2, <1>3 DEF LeftIsAhead, Left, StoredSlots, Stored
<1>5. Shapes' /\ PageIsCurrent' /\ SecretsSurvive'
  BY <1>1, <1>2, FS_EmptySet DEF IInv, Shapes, PageIsCurrent, SecretsSurvive, Stored
<1> QED
  BY <1>4, <1>5 DEF IInv

LEMMA EndKeeps == IInv /\ EndRotation => IInv'
<1> SUFFICES ASSUME IInv, EndRotation PROVE IInv'
  OBVIOUS
<1>1. rotation' = [at |-> "idle", offset |-> 0, page |-> {}] /\ UNCHANGED <<record, raced, serving>>
  BY DEF EndRotation, NoRotation
<1>2. /\ rotation'.at = "idle" /\ rotation'.offset = 0 /\ rotation'.page = {}
      /\ DOMAIN rotation' = {"at", "offset", "page"}
  BY <1>1
<1> QED
  BY <1>1, <1>2, FS_EmptySet DEF IInv, Shapes, PageIsCurrent, SecretsSurvive, Stored, LeftIsAhead

\* An empty batch says that nothing lies behind the offset; any other has what comes next.
LEMMA ReadKeeps == IInv /\ ReadPage => IInv'
<1> SUFFICES ASSUME IInv, ReadPage PROVE IInv'
  OBVIOUS
<1>1. /\ rotation.at = "reading" /\ UNCHANGED <<record, raced, serving, disturbed>>
      /\ rotation.offset \in Nat /\ PageSize \in Nat \ {0}
      /\ DOMAIN rotation = {"at", "offset", "page"}
  BY VaultAssumption DEF ReadPage, IInv, Shapes
<1>2. StoredSlots' = StoredSlots /\ Left' = Left /\ \A c \in Slots : Stored(c)' = Stored(c)
  BY <1>1 DEF StoredSlots, Left, Stored
<1>3. SecretsSurvive'
  BY <1>1, <1>2 DEF IInv, SecretsSurvive
<1>4. StoredSlots \in SUBSET Slots /\ Left \subseteq StoredSlots
  BY DEF StoredSlots, Left
<1>5. ~disturbed => \A c \in Left : /\ Position(c, StoredSlots) > rotation.offset
                                   /\ Position(c, StoredSlots) \in 1 .. Cardinality(StoredSlots)
  BY <1>1, <1>4, PositionRange DEF IInv, LeftIsAhead
<1>6. \A c \in StoredSlots :
        Position(c, StoredSlots) \in rotation.offset + 1 .. rotation.offset + PageSize
          => Copy(c) \in Page
  BY DEF Page, PageOf
<1>7. CASE Page = {}
  <2>1. rotation' = [at |-> "done", offset |-> 0, page |-> {}]
    BY <1>7 DEF ReadPage, NoRotation
  <2>2. /\ rotation'.at = "done" /\ rotation'.offset = 0 /\ rotation'.page = {}
        /\ DOMAIN rotation' = {"at", "offset", "page"}
    BY <2>1
  <2>3. ~disturbed => Left = {}
    <3> SUFFICES ASSUME ~disturbed, NEW c \in Left PROVE FALSE
      OBVIOUS
    <3>1. rotation.offset + 1 \in 1 .. Cardinality(StoredSlots)
      BY <1>1, <1>4, <1>5, FiniteSlots
    <3>2. PICK d \in StoredSlots : Position(d, StoredSlots) = rotation.offset + 1
      BY <1>4, <3>1, PositionsAreAll
    <3>3. Copy(d) \in Page
      BY <1>1, <1>6, <3>2
    <3> QED
      BY <1>7, <3>3
  <2>4. Shapes' /\ PageIsCurrent' /\ LeftIsAhead'
    BY <1>1, <1>2, <2>2, <2>3, FS_EmptySet DEF IInv, Shapes, PageIsCurrent, LeftIsAhead
  <2> QED
    BY <1>3, <2>4 DEF IInv
<1>8. CASE Page # {}
  <2>1. rotation' = [rotation EXCEPT !.at = "writing", !.page = Page]
    BY <1>8 DEF ReadPage
  <2>2. /\ rotation'.at = "writing" /\ rotation'.offset = rotation.offset /\ rotation'.page = Page
        /\ DOMAIN rotation' = {"at", "offset", "page"}
    BY <1>1, <2>1
  <2>3. IsFiniteSet(Page) /\ Cardinality(Page) \in Nat /\ Cardinality(Page) <= PageSize
    BY PagesAreBounded
  <2>4. Shapes'
    BY <1>1, <1>2, <2>2, <2>3 DEF IInv, Shapes
  <2>5. PageIsCurrent'
    <3>1. \A copy \in Page : \E d : copy = Copy(d)
      BY DEF Page, PageOf
    <3> QED
      BY <1>1, <2>2, <3>1, CopySays DEF PageIsCurrent
  <2>6. LeftIsAhead'
    <3> SUFFICES ASSUME ~disturbed, NEW c \in Left
                 PROVE  \/ InPage(c)'
                        \/ Position(c, StoredSlots) > rotation.offset + Cardinality(Page)
      BY <1>1, <1>2, <2>2 DEF LeftIsAhead
    <3>1. CASE Position(c, StoredSlots) <= rotation.offset + PageSize
      <4>1. Copy(c) \in rotation'.page
        BY <1>1, <1>4, <1>5, <1>6, <2>2, <3>1, FiniteSlots
      <4>2. Copy(c).of = c /\ Unwraps(Copy(c))
        BY CopySays DEF Unwraps, Left
      <4> QED
        BY <4>1, <4>2 DEF InPage, Unwraps
    <3>2. CASE Position(c, StoredSlots) > rotation.offset + PageSize
      BY <1>1, <1>4, <1>5, <2>3, <3>2, FiniteSlots
    <3> QED
      BY <1>1, <1>5, <3>1, <3>2, <1>4, FiniteSlots
  <2> QED
    BY <1>3, <2>4, <2>5, <2>6 DEF IInv
<1> QED
  BY <1>7, <1>8

\* A batch writes back what is there already, but for the secrets set apart.
LEMMA CommitKeeps ==
  ASSUME IInv, CommitPage
  PROVE  IInv'
<1> DEFINE rotated == {copy \in rotation.page : Unwraps(copy)}
           done == {copy.of : copy \in rotated}
           Of(c) == CHOOSE copy \in rotated : copy.of = c
           After(c) == [record[c] EXCEPT !.kek = "new", !.wrapped = Rewrapped(Of(c))]
<1>1. /\ \A c \in done : Stored(c)
      /\ record' = [c \in Slots |-> IF c \in done THEN After(c) ELSE record[c]]
      /\ rotation' = [at |-> "reading",
                      offset |-> rotation.offset + Cardinality(rotation.page), page |-> {}]
      /\ rotation.at = "writing" /\ UNCHANGED <<raced, serving, disturbed>>
  BY DEF CommitPage
<1>2. \A c \in done : Of(c) \in rotated /\ Of(c).of = c
  OBVIOUS
<1>3. \A c \in done : /\ Of(c).kek = "old" /\ Rewrapped(Of(c)) = Of(c).wrapped
                     /\ Of(c) \in rotation.page
  BY <1>2 DEF Unwraps, Rewrapped
<1>4. \A c \in Slots \ raced : c \in done => Of(c).wrapped = record[c].wrapped
  <2> SUFFICES ASSUME NEW c \in Slots \ raced, c \in done
               PROVE  Of(c).wrapped = record[c].wrapped
    OBVIOUS
  <2>1. PICK copy \in rotation.page : copy = Of(c)
    BY <1>3
  <2>2. copy.of = c /\ Stored(c)
    BY <1>1, <1>2, <2>1
  <2> HIDE DEF Of, done, rotated, After
  <2>3. copy.wrapped = record[c].wrapped
    BY <2>2 DEF IInv, PageIsCurrent
  <2> QED
    BY <2>1, <2>3
<1>5. \A c : c \in done <=> InPage(c)
  BY DEF InPage
<1> HIDE DEF rotated, done, Of
<1>6. \A c \in Slots : c \in done =>
        /\ DOMAIN After(c) = DOMAIN record[c]
        /\ After(c).wrapped = Of(c).wrapped
        /\ After(c).sealed = record[c].sealed
        /\ After(c).kek = "new"
  BY <1>1, <1>3 DEF IInv, Shapes
<1>7. \A c \in Slots : c \in done => After(c) # NoRecord
  BY <1>6 DEF NoRecord
<1> HIDE DEF After
<1>8. DOMAIN record' = Slots /\ \A c \in Slots : record'[c] = IF c \in done THEN After(c) ELSE record[c]
  BY <1>1
<1>9. \A c \in Slots : Stored(c)' <=> Stored(c)
  BY <1>1, <1>7, <1>8 DEF Stored
<1>10. /\ rotation'.at = "reading" /\ rotation'.page = {}
       /\ rotation'.offset = rotation.offset + Cardinality(rotation.page)
       /\ DOMAIN rotation' = {"at", "offset", "page"}
  BY <1>1
<1>11. rotation.offset \in Nat /\ Cardinality(rotation.page) \in Nat
  BY FS_CardinalityType DEF IInv, Shapes
<1>12. Shapes'
  <2>1. \A c \in Slots : Stored(c)' => /\ {"kek", "wrapped", "sealed"} \subseteq DOMAIN record'[c]
                                      /\ record'[c].kek \in Keks
    BY <1>6, <1>8, <1>9 DEF IInv, Shapes, Keks
  <2> QED
    BY <1>1, <1>8, <1>10, <1>11, <2>1, FS_EmptySet DEF IInv, Shapes
<1>13. PageIsCurrent'
  BY <1>10 DEF PageIsCurrent
<1>14. SecretsSurvive'
  BY <1>1, <1>4, <1>6, <1>8, <1>9 DEF IInv, SecretsSurvive
<1>15. LeftIsAhead'
  <2>1. StoredSlots' = StoredSlots
    BY <1>9 DEF StoredSlots
  <2>2. \A c \in Left' : c \in Left /\ ~InPage(c)
    BY <1>5, <1>6, <1>8, <1>9 DEF Left, StoredSlots
  <2>3. ~disturbed => \A c \in Left : ~InPage(c) =>
          Position(c, StoredSlots) > rotation.offset + Cardinality(rotation.page)
    BY <1>1 DEF IInv, LeftIsAhead
  <2> QED
    BY <1>1, <1>10, <2>1, <2>2, <2>3 DEF LeftIsAhead
<1> QED
  BY <1>12, <1>13, <1>14, <1>15 DEF IInv

LEMMA InitIsGood == VaultInit => IInv
<1> SUFFICES ASSUME VaultInit PROVE IInv
  OBVIOUS
<1>1. \A c \in Slots : ~Stored(c)
  BY DEF VaultInit, Stored
<1>2. rotation.at = "idle" /\ rotation.page = {} /\ rotation.offset = 0
  BY DEF VaultInit, NoRotation
<1>3. Shapes
  BY <1>1, <1>2, FS_EmptySet DEF VaultInit, Shapes, NoRotation, Keks
<1> QED
  BY <1>1, <1>2, <1>3 DEF IInv, PageIsCurrent, SecretsSurvive, LeftIsAhead

LEMMA StepKeeps ==
  ASSUME IInv, [VaultNext]_vaultVars
  PROVE  IInv'
<1>1. ASSUME NEW c \in Slots, Create(c)
      PROVE  IInv'
  BY <1>1, WriteKeeps DEF Create
<1>2. ASSUME NEW c \in Slots, NEW fields \in SUBSET Fields, Update(c, fields)
      PROVE  IInv'
  BY <1>2, WriteKeeps DEF Update
<1>3. ASSUME NEW c \in Slots, DeleteCredential(c)
      PROVE  IInv'
  BY <1>3, DeleteKeeps
<1>4. CASE BeginRotation \/ ReadPage \/ CommitPage \/ EndRotation
  BY <1>4, BeginKeeps, ReadKeeps, CommitKeeps, EndKeeps
<1>5. ASSUME UNCHANGED <<record, rotation, raced, disturbed>>, serving' \in Keks
      PROVE  IInv'
  <2>1. Shapes' /\ PageIsCurrent' /\ SecretsSurvive'
    BY <1>5 DEF IInv, Shapes, PageIsCurrent, SecretsSurvive, Stored
  <2>2. StoredSlots' = StoredSlots /\ Left' = Left
    BY <1>5 DEF StoredSlots, Left, Stored
  <2> QED
    BY <1>5, <2>1, <2>2, LeftKeeps DEF IInv
<1>6. serving \in Keks
  BY DEF IInv, Shapes
<1>7. ASSUME NEW c \in Slots, Resolve(c) \/ Test(c)
      PROVE  IInv'
  BY <1>5, <1>6, <1>7 DEF Resolve, Test
<1>8. ASSUME NEW c \in Slots, NEW signedIn \in BOOLEAN, RunEndsWith(c, signedIn)
      PROVE  IInv'
  BY <1>5, <1>6, <1>8 DEF RunEndsWith
<1>9. CASE Restart \/ UNCHANGED vaultVars
  BY <1>5, <1>6, <1>9 DEF Restart, vaultVars, Keks
<1> QED
  BY <1>1, <1>2, <1>3, <1>4, <1>7, <1>8, <1>9 DEF VaultNext

LEMMA Invariance == VaultSpec => []IInv
BY InitIsGood, StepKeeps, PTL DEF VaultSpec

----------------------------------------------------------------------------
\* No pass of rewrap_all, however often it is stopped and run again and whatever it overlaps,
\* makes a secret undecryptable that was not saved between the SELECT and the commit of a
\* batch (core/secrets.py, rewrap_all).
THEOREM RotationIsSafe == VaultSpec => []SecretsSurvive
<1>1. IInv => SecretsSurvive
  BY DEF IInv
<1> QED
  BY <1>1, Invariance, PTL

\* A pass of rewrap_all that comes to its end has reached every secret, for any number of them
\* and any batch size: paging by offset skips none although secrets are created and saved
\* under the new key meanwhile, as long as none is deleted or saved under the old one.
THEOREM RotationIsComplete == VaultSpec => []RotationReachesAll
<1>1. IInv => RotationReachesAll
  <2> SUFFICES ASSUME IInv, rotation.at = "done", ~disturbed, NEW c \in Slots, Stored(c)
               PROVE  record[c].kek = "new"
    BY DEF RotationReachesAll
  <2>1. c \notin Left
    BY DEF IInv, LeftIsAhead
  <2> QED
    BY <2>1 DEF IInv, Shapes, Left, StoredSlots, Keks
<1> QED
  BY <1>1, Invariance, PTL
=============================================================================
