----------------------------- MODULE PlatformProofs -----------------------------
(***************************************************************************)
(* Proofs about what stands around the runs: Gateway, for any callers,     *)
(* workflows and limits, then Alerts, for any rules, people and failures.  *)
(***************************************************************************)
EXTENDS Gateway, Alerts, FiniteSetTheorems, TLAPS

----------------------------------------------------------------------------
(* The gateway: what the rate limit and the answers rest on *)

HasKey(p) == p.at = "creating" \/ p.at \in Accepted

\* What a call carries at each stage.
PostShape(p) ==
  /\ "at" \in DOMAIN p
  /\ p.at # "new" => /\ {"window", "counted"} \subseteq DOMAIN p
                     /\ p.window \in 1 .. window /\ p.counted \in BOOLEAN
  /\ p.at = "counting" => ~p.counted
  /\ HasKey(p) => "key" \in DOMAIN p

GatewayShape ==
  /\ window \in Nat \ {0} /\ latest \in Nat /\ late \in BOOLEAN /\ latest <= window
  /\ bucket \in [window : Nat, hits : Nat]
  /\ DOMAIN post = Posts /\ \A c \in Posts : PostShape(post[c])
  /\ DOMAIN audit = Posts

\* A call that counted and passed.
Passed(p) == p.at \notin {"new", "counting", "limited"} /\ p.counted

\* Nothing passed in a window later than the latest that was counted.
LatestIsLast == \A c \in Posts : Passed(post[c]) => post[c].window <= latest

\* While statements come in the order of their windows, the bucket is of the latest one, or
\* it was pruned and no statement of that window is to come.
BucketIsLatest ==
  ~late => \/ bucket.window = latest
           \/ /\ bucket = NoBucket /\ latest < window
              /\ \A c \in Posts : post[c].at = "counting" => latest < post[c].window

\* The bucket has counted every call of its window that passed.
HitsCover ==
  ~late => \A w \in Nat \ {0} :
    /\ Cardinality(Admitted(w)) <= Limit
    /\ bucket.window = w => Cardinality(Admitted(w)) <= bucket.hits

FewPassed == \A w \in Nat \ {0} : IsFiniteSet(Admitted(w))

\* The audit row of a call is what its answer says.
RowOf ==
  \A c \in Posts :
    audit[c] = IF post[c].at \in Accepted THEN "received"
               ELSE IF post[c].at \in Refused THEN "rejected" ELSE "none"

\* A call that started a run was accepted, and its key has no other.
StartedOnce ==
  /\ \A d \in started : d \in Posts /\ post[d].at \in Accepted
  /\ \A d, e \in started : post[d].key = post[e].key /\ post[d].key # Unkeyed => d = e

AcceptedHasRun ==
  \A c \in Posts : post[c].at \in Accepted => c \in started \/ Replays(c) # {}

GatewayInv ==
  /\ GatewayShape /\ LatestIsLast /\ BucketIsLatest /\ HitsCover /\ FewPassed
  /\ RowOf /\ StartedOnce /\ AcceptedHasRun

----------------------------------------------------------------------------
LEMMA GatewayInitHolds == GatewayInit => GatewayInv
<1> SUFFICES ASSUME GatewayInit PROVE GatewayInv
  OBVIOUS
<1>1. /\ \A c \in Posts : post[c] = [at |-> "new"] /\ audit[c] = "none"
      /\ bucket = NoBucket /\ latest = 0 /\ window = 1 /\ late = FALSE /\ started = {}
      /\ DOMAIN post = Posts /\ DOMAIN audit = Posts
  BY DEF GatewayInit
<1>2. \A c \in Posts : post[c].at = "new" /\ DOMAIN post[c] = {"at"}
  BY <1>1
<1>3. GatewayShape
  <2>1. bucket \in [window : Nat, hits : Nat]
    BY <1>1 DEF NoBucket
  <2>2. \A c \in Posts : PostShape(post[c])
    BY <1>2 DEF PostShape, HasKey, Accepted
  <2>3. late \in BOOLEAN
    BY <1>1
  <2> QED
    BY <1>1, <2>1, <2>2, <2>3 DEF GatewayShape
<1>4. \A w : Admitted(w) = {}
  BY <1>2 DEF Admitted
<1>5. HitsCover /\ FewPassed
  BY <1>1, <1>4, FS_EmptySet, GatewayAssumption DEF HitsCover, FewPassed, NoBucket
<1>6. LatestIsLast /\ BucketIsLatest /\ RowOf /\ StartedOnce /\ AcceptedHasRun
  BY <1>1, <1>2 DEF LatestIsLast, Passed, BucketIsLatest, NoBucket, RowOf, StartedOnce, AcceptedHasRun, Accepted, Refused
<1> QED
  BY <1>3, <1>5, <1>6 DEF GatewayInv

\* A step of one call that counts nothing.
LEMMA CallKeeps ==
  ASSUME GatewayInv, NEW c \in Posts, UNCHANGED <<window, bucket, late, latest>>,
         DOMAIN post' = Posts, \A d \in Posts \ {c} : post'[d] = post[d],
         PostShape(post'[c]), post[c].at # "new" => post'[c].window = post[c].window,
         Passed(post'[c]) <=> Passed(post[c]),
         post'[c].at = "counting" => post'[c].window = window
  PROVE  LatestIsLast' /\ BucketIsLatest' /\ HitsCover' /\ FewPassed'
<1>1. \A w : Admitted(w)' = Admitted(w)
  BY DEF Admitted, Passed
<1>2. HitsCover' /\ FewPassed'
  BY <1>1 DEF GatewayInv, HitsCover, FewPassed
<1>3. LatestIsLast'
  BY DEF GatewayInv, LatestIsLast, Passed
<1>4. BucketIsLatest'
  BY DEF GatewayInv, BucketIsLatest
<1> QED
  BY <1>2, <1>3, <1>4

\* A step of one call that starts no run and leaves no row.
LEMMA AnswersKept ==
  ASSUME GatewayInv, NEW c \in Posts, UNCHANGED <<audit, started>>,
         DOMAIN post' = Posts, \A d \in Posts \ {c} : post'[d] = post[d],
         post[c].at \notin Accepted \cup Refused, post'[c].at \notin Accepted \cup Refused
  PROVE  RowOf' /\ StartedOnce' /\ AcceptedHasRun'
<1>1. c \notin started
  BY DEF GatewayInv, StartedOnce
<1>2. RowOf' /\ StartedOnce'
  BY <1>1 DEF GatewayInv, RowOf, StartedOnce
<1>3. \A d \in Posts \ {c} : Replays(d)' = Replays(d)
  BY <1>1 DEF Replays, GatewayInv, StartedOnce
<1>4. AcceptedHasRun'
  BY <1>3 DEF GatewayInv, AcceptedHasRun
<1> QED
  BY <1>2, <1>4

\* The stages of a call that change nothing but where it is.
LEMMA GotoKeeps ==
  ASSUME GatewayInv, NEW c \in Posts, NEW at,
         post[c].at \in {"counting", "handling", "rejecting", "creating"},
         at \in {"handling", "rejecting", "failed"},
         post[c].at = "counting" => at = "handling", Goto(c, at),
         UNCHANGED <<window, bucket, audit, started, late, latest>>
  PROVE  GatewayInv'
<1>1. PostShape(post[c]) /\ DOMAIN post = Posts
  BY DEF GatewayInv, GatewayShape
<1>2. /\ DOMAIN post' = Posts /\ \A d \in Posts \ {c} : post'[d] = post[d]
      /\ DOMAIN post'[c] = DOMAIN post[c] /\ post'[c].at = at
      /\ post'[c].window = post[c].window /\ post'[c].counted = post[c].counted
  BY <1>1 DEF Goto, PostShape
<1>3. PostShape(post'[c]) /\ (Passed(post'[c]) <=> Passed(post[c]))
  BY <1>1, <1>2 DEF PostShape, Passed, HasKey, Accepted
<1>4. GatewayShape'
  BY <1>2, <1>3 DEF GatewayInv, GatewayShape, PostShape
<1>5. LatestIsLast' /\ BucketIsLatest' /\ HitsCover' /\ FewPassed'
  BY <1>2, <1>3, CallKeeps
<1>6. RowOf' /\ StartedOnce' /\ AcceptedHasRun'
  BY <1>2, AnswersKept DEF Accepted, Refused
<1> QED
  BY <1>4, <1>5, <1>6 DEF GatewayInv

LEMMA ArrivesKeeps ==
  ASSUME GatewayInv, NEW c \in Posts, Arrives(c)
  PROVE  GatewayInv'
<1>1. /\ post[c].at = "new" /\ UNCHANGED <<window, bucket, audit, started, late, latest>>
      /\ DOMAIN post' = Posts /\ \A d \in Posts \ {c} : post'[d] = post[d]
      /\ post'[c] = [at |-> "counting", window |-> window, counted |-> FALSE]
  BY DEF Arrives, GatewayInv, GatewayShape
<1>2. /\ post'[c].at = "counting" /\ post'[c].window = window /\ post'[c].counted = FALSE
      /\ DOMAIN post'[c] = {"at", "window", "counted"}
  BY <1>1
<1>3. window \in 1 .. window
  BY <1>1 DEF GatewayInv, GatewayShape
<1>4. PostShape(post'[c]) /\ ~Passed(post[c]) /\ ~Passed(post'[c])
  BY <1>1, <1>2, <1>3 DEF PostShape, Passed, HasKey, Accepted
<1>5. GatewayShape'
  BY <1>1, <1>2, <1>3 DEF GatewayInv, GatewayShape, PostShape, HasKey, Accepted
<1>6. LatestIsLast' /\ BucketIsLatest' /\ HitsCover' /\ FewPassed'
  BY <1>1, <1>2, <1>4, CallKeeps
<1>7. RowOf' /\ StartedOnce' /\ AcceptedHasRun'
  BY <1>1, <1>2, AnswersKept DEF Accepted, Refused
<1> QED
  BY <1>5, <1>6, <1>7 DEF GatewayInv

LEMMA CountsKeeps ==
  ASSUME GatewayInv, NEW c \in Posts, Counts(c)
  PROVE  GatewayInv'
<1>a. PICK v : v = post[c].window
  OBVIOUS
<1>b. PICK n : n = HitCount(v)
  OBVIOUS
<1>c. PICK to : to = IF n <= Limit THEN "handling" ELSE "limited"
  OBVIOUS
<1>1. /\ v \in Nat \ {0} /\ v <= window /\ window \in Nat \ {0} /\ latest \in Nat /\ latest <= window
      /\ bucket.window \in Nat /\ bucket.hits \in Nat /\ n \in Nat \ {0}
  BY <1>a, <1>b DEF Counts, GatewayInv, GatewayShape, PostShape, HitCount
<1>2. /\ post[c].at = "counting" /\ {"window", "counted"} \subseteq DOMAIN post[c]
      /\ "at" \in DOMAIN post[c] /\ DOMAIN post = Posts /\ post[c].counted = FALSE
  BY DEF Counts, GatewayInv, GatewayShape, PostShape
<1>3. /\ bucket' = [window |-> v, hits |-> n]
      /\ late' = (late \/ latest > v) /\ latest' = IF latest > v THEN latest ELSE v
      /\ UNCHANGED <<window, audit, started>>
      /\ post' = [post EXCEPT ![c].counted = TRUE, ![c].at = to]
  BY <1>a, <1>b, <1>c DEF Counts
<1>4. /\ DOMAIN post' = Posts /\ \A d \in Posts \ {c} : post'[d] = post[d]
      /\ DOMAIN post'[c] = DOMAIN post[c] /\ post'[c].at = to
      /\ post'[c].window = v /\ post'[c].counted = TRUE
  BY <1>a, <1>2, <1>3
<1>5. bucket'.window = v /\ bucket'.hits = n
  BY <1>3
<1>6. to \in {"handling", "limited"} /\ (to = "handling" <=> n <= Limit)
  BY <1>c
<1>7. /\ {"at", "window", "counted"} \subseteq DOMAIN post'[c] /\ v \in 1 .. window
      /\ latest' \in Nat /\ latest' <= window /\ latest <= latest' /\ v <= latest'
  BY <1>1, <1>2, <1>3, <1>4
<1>8. GatewayShape'
  BY <1>1, <1>3, <1>4, <1>6, <1>7 DEF GatewayInv, GatewayShape, PostShape, HasKey, Accepted
<1>9. LatestIsLast'
  BY <1>1, <1>4, <1>7 DEF GatewayInv, LatestIsLast, Passed, GatewayShape, PostShape
<1>10. BucketIsLatest'
  BY <1>1, <1>3, <1>5 DEF BucketIsLatest, GatewayInv
<1>11. /\ \A w : w # v => Admitted(w)' = Admitted(w)
       /\ Admitted(v)' = IF to = "handling" THEN Admitted(v) \cup {c} ELSE Admitted(v)
       /\ c \notin Admitted(v)
  BY <1>a, <1>2, <1>4, <1>6 DEF Admitted
<1>12. FewPassed'
  <2> SUFFICES ASSUME NEW w \in Nat \ {0} PROVE IsFiniteSet(Admitted(w)')
    BY DEF FewPassed
  <2>1. IsFiniteSet(Admitted(w)) /\ IsFiniteSet(Admitted(w) \cup {c})
    BY FS_AddElement DEF GatewayInv, FewPassed
  <2> QED
    BY <1>11, <2>1
<1>13. ~late' => ~late /\ latest <= v
  <2>1. ~late' => ~late /\ ~(latest > v)
    BY <1>3, Zenon
  <2> QED
    BY <1>1, <2>1
<1>14. ~late' /\ bucket.window # v => Admitted(v) = {}
  <2> SUFFICES ASSUME ~late', bucket.window # v PROVE latest < v
    BY <1>1 DEF GatewayInv, LatestIsLast, Admitted, Passed
  <2> QED
    BY <1>a, <1>1, <1>2, <1>13 DEF GatewayInv, BucketIsLatest
<1>15. ~late' => Cardinality(Admitted(v)) <= n - 1
  <2> SUFFICES ASSUME ~late' PROVE Cardinality(Admitted(v)) <= n - 1
    OBVIOUS
  <2>1. CASE bucket.window = v
    BY <1>b, <1>1, <1>13, <2>1 DEF GatewayInv, HitsCover, HitCount
  <2>2. CASE bucket.window # v
    BY <1>b, <1>14, <2>2, FS_EmptySet DEF HitCount
  <2> QED
    BY <2>1, <2>2
<1>16. Cardinality(Admitted(v)) \in Nat /\ IsFiniteSet(Admitted(v))
  BY <1>1, FS_CardinalityType DEF GatewayInv, FewPassed
<1>17. to = "handling" => Cardinality(Admitted(v)') = Cardinality(Admitted(v)) + 1
  BY <1>11, <1>16, FS_AddElement
<1>18. ~late' => Cardinality(Admitted(v)') <= Limit /\ Cardinality(Admitted(v)') <= n
  <2> SUFFICES ASSUME ~late'
               PROVE  Cardinality(Admitted(v)') <= Limit /\ Cardinality(Admitted(v)') <= n
    OBVIOUS
  <2>1. Limit \in Nat
    BY GatewayAssumption
  <2>2. CASE to = "handling"
    BY <1>1, <1>6, <1>15, <1>16, <1>17, <2>1, <2>2
  <2>3. CASE to # "handling"
    <3>1. Cardinality(Admitted(v)) <= Limit
      BY <1>1, <1>13 DEF GatewayInv, HitsCover
    <3> QED
      BY <1>1, <1>11, <1>15, <1>16, <2>3, <3>1
  <2> QED
    BY <2>2, <2>3
<1>19. HitsCover'
  <2> SUFFICES ASSUME ~late', NEW w \in Nat \ {0}
               PROVE  /\ Cardinality(Admitted(w)') <= Limit
                      /\ bucket'.window = w => Cardinality(Admitted(w)') <= bucket'.hits
    BY DEF HitsCover
  <2>1. CASE w = v
    BY <1>5, <1>18, <2>1
  <2>2. CASE w # v
    BY <1>5, <1>11, <1>13, <2>2 DEF GatewayInv, HitsCover
  <2> QED
    BY <2>1, <2>2
<1>20. RowOf' /\ StartedOnce' /\ AcceptedHasRun'
  BY <1>2, <1>3, <1>4, <1>6, AnswersKept
<1> QED
  BY <1>8, <1>9, <1>10, <1>12, <1>19, <1>20 DEF GatewayInv

LEMMA PruneKeeps == GatewayInv /\ Prune => GatewayInv'
<1> SUFFICES ASSUME GatewayInv, Prune PROVE GatewayInv'
  OBVIOUS
<1>1. /\ bucket' = [window |-> 0, hits |-> 0] /\ bucket # NoBucket /\ bucket.window + 1 < window
      /\ bucket.window \in Nat /\ window \in Nat
      /\ \A d \in Posts : post[d].at = "counting" => post[d].window > bucket.window
      /\ UNCHANGED <<window, post, audit, started, late, latest>>
  BY DEF Prune, NoBucket, GatewayInv, GatewayShape
<1>2. GatewayShape' /\ LatestIsLast'
  BY <1>1 DEF GatewayInv, GatewayShape, PostShape, LatestIsLast, Passed
<1>3. BucketIsLatest'
  <2> SUFFICES ASSUME ~late
               PROVE  /\ bucket' = NoBucket /\ latest < window
                      /\ \A d \in Posts : post[d].at = "counting" => latest < post[d].window
    BY <1>1 DEF BucketIsLatest
  <2>1. bucket.window = latest
    BY <1>1 DEF GatewayInv, BucketIsLatest
  <2>2. \A d \in Posts : post[d].at = "counting" => post[d].window \in Nat
    BY DEF GatewayInv, GatewayShape, PostShape
  <2> QED
    BY <1>1, <2>1, <2>2 DEF NoBucket
<1>4. HitsCover' /\ FewPassed'
  <2>1. \A w : Admitted(w)' = Admitted(w)
    BY <1>1 DEF Admitted
  <2> QED
    BY <1>1, <2>1 DEF GatewayInv, HitsCover, FewPassed
<1>5. \A c : Replays(c)' = Replays(c)
  BY <1>1 DEF Replays
<1>6. RowOf' /\ StartedOnce' /\ AcceptedHasRun'
  BY <1>1, <1>5 DEF GatewayInv, RowOf, StartedOnce, AcceptedHasRun
<1> QED
  BY <1>2, <1>3, <1>4, <1>6 DEF GatewayInv

LEMMA NextWindowKeeps == GatewayInv /\ NextWindow => GatewayInv'
<1> SUFFICES ASSUME GatewayInv, NextWindow PROVE GatewayInv'
  OBVIOUS
<1>1. /\ window' = window + 1 /\ window \in Nat /\ latest \in Nat /\ latest <= window
      /\ UNCHANGED <<bucket, post, audit, started, late, latest>>
  BY DEF NextWindow, GatewayInv, GatewayShape
<1>2. \A p : PostShape(p) => PostShape(p)'
  BY <1>1 DEF PostShape
<1>3. GatewayShape' /\ LatestIsLast' /\ BucketIsLatest'
  BY <1>1, <1>2 DEF GatewayInv, GatewayShape, LatestIsLast, Passed, BucketIsLatest
<1>4. \A w : Admitted(w)' = Admitted(w) /\ Replays(w)' = Replays(w)
  BY <1>1 DEF Admitted, Replays
<1>5. HitsCover' /\ FewPassed' /\ RowOf' /\ StartedOnce' /\ AcceptedHasRun'
  BY <1>1, <1>4 DEF GatewayInv, HitsCover, FewPassed, RowOf, StartedOnce, AcceptedHasRun
<1> QED
  BY <1>3, <1>5 DEF GatewayInv

LEMMA StartsRunKeeps ==
  ASSUME GatewayInv, NEW c \in Posts, StartsRun(c)
  PROVE  GatewayInv'
<1>1. PICK key : post' = [post EXCEPT ![c] = [at |-> "creating", window |-> @.window,
                                              counted |-> @.counted, key |-> key]]
  BY DEF StartsRun
<1>2. post[c].at = "handling" /\ UNCHANGED <<window, bucket, audit, started, late, latest>>
  BY DEF StartsRun
<1>3. DOMAIN post = Posts /\ PostShape(post[c])
  BY DEF GatewayInv, GatewayShape
<1>4. /\ DOMAIN post' = Posts /\ \A d \in Posts \ {c} : post'[d] = post[d]
      /\ post'[c] = [at |-> "creating", window |-> post[c].window,
                     counted |-> post[c].counted, key |-> key]
  BY <1>1, <1>3
<1>5. /\ DOMAIN post'[c] = {"at", "window", "counted", "key"} /\ post'[c].at = "creating"
      /\ post'[c].window = post[c].window /\ post'[c].counted = post[c].counted
  BY <1>4
<1>6. PostShape(post'[c]) /\ (Passed(post'[c]) <=> Passed(post[c]))
  BY <1>2, <1>3, <1>5 DEF PostShape, Passed
<1>7. GatewayShape'
  BY <1>2, <1>4, <1>6 DEF GatewayInv, GatewayShape, PostShape
<1>8. LatestIsLast' /\ BucketIsLatest' /\ HitsCover' /\ FewPassed'
  BY <1>2, <1>4, <1>5, <1>6, CallKeeps
<1>9. RowOf' /\ StartedOnce' /\ AcceptedHasRun'
  BY <1>2, <1>4, <1>5, AnswersKept DEF Accepted, Refused
<1> QED
  BY <1>7, <1>8, <1>9 DEF GatewayInv

\* The calls that are answered: the stage, the audit row and, the first time, the run.
LEMMA RefusalKeeps ==
  ASSUME GatewayInv, NEW c \in Posts, RefusalSent(c)
  PROVE  GatewayInv'
<1>1. /\ post[c].at = "rejecting" /\ UNCHANGED <<window, bucket, started, late, latest>>
      /\ PostShape(post[c]) /\ DOMAIN post = Posts /\ DOMAIN audit = Posts
  BY DEF RefusalSent, GatewayInv, GatewayShape
<1>a. PICK at \in Refused : Goto(c, at)
  BY DEF RefusalSent
<1>2. /\ DOMAIN post' = Posts /\ \A d \in Posts \ {c} : post'[d] = post[d]
      /\ DOMAIN post'[c] = DOMAIN post[c] /\ post'[c].at \in Refused
      /\ post'[c].window = post[c].window /\ post'[c].counted = post[c].counted
      /\ DOMAIN audit' = Posts /\ \A d \in Posts \ {c} : audit'[d] = audit[d]
      /\ audit'[c] = "rejected"
  BY <1>1, <1>a DEF RefusalSent, Goto, PostShape, KeptOnError
<1>3. PostShape(post'[c]) /\ (Passed(post'[c]) <=> Passed(post[c]))
  BY <1>1, <1>2 DEF PostShape, Passed, HasKey, Accepted, Refused
<1>4. GatewayShape'
  BY <1>1, <1>2, <1>3 DEF GatewayInv, GatewayShape, PostShape
<1>5. LatestIsLast' /\ BucketIsLatest' /\ HitsCover' /\ FewPassed'
  BY <1>1, <1>2, <1>3, CallKeeps DEF Refused
<1>6. c \notin started
  BY <1>1 DEF GatewayInv, StartedOnce, Accepted
<1>7. RowOf' /\ StartedOnce'
  <2>1. RowOf'
    BY <1>1, <1>2 DEF GatewayInv, RowOf, Accepted, Refused
  <2>2. StartedOnce'
    BY <1>1, <1>2, <1>6 DEF GatewayInv, StartedOnce
  <2> QED
    BY <2>1, <2>2
<1>8. \A d \in Posts \ {c} : Replays(d)' = Replays(d)
  BY <1>1, <1>2, <1>6 DEF Replays, GatewayInv, StartedOnce
<1>9. AcceptedHasRun'
  BY <1>1, <1>2, <1>8 DEF GatewayInv, AcceptedHasRun, Accepted, Refused
<1> QED
  BY <1>4, <1>5, <1>7, <1>9 DEF GatewayInv

LEMMA AcceptanceKeeps ==
  ASSUME GatewayInv, NEW c \in Posts, AcceptanceSent(c)
  PROVE  GatewayInv'
<1>1. /\ post[c].at = "creating" /\ UNCHANGED <<window, bucket, late, latest>>
      /\ PostShape(post[c]) /\ DOMAIN post = Posts /\ DOMAIN audit = Posts
      /\ started' = IF Replays(c) = {} THEN started \cup {c} ELSE started
  BY DEF AcceptanceSent, GatewayInv, GatewayShape
<1>a. PICK at \in Accepted : Goto(c, at)
  BY DEF AcceptanceSent
<1>2. /\ DOMAIN post' = Posts /\ \A d \in Posts \ {c} : post'[d] = post[d]
      /\ DOMAIN post'[c] = DOMAIN post[c] /\ post'[c].at \in Accepted
      /\ post'[c].window = post[c].window /\ post'[c].counted = post[c].counted
      /\ post'[c].key = post[c].key
      /\ DOMAIN audit' = Posts /\ \A d \in Posts \ {c} : audit'[d] = audit[d]
      /\ audit'[c] = "received"
  BY <1>1, <1>a DEF AcceptanceSent, Goto, PostShape
<1>3. PostShape(post'[c]) /\ (Passed(post'[c]) <=> Passed(post[c]))
  BY <1>1, <1>2 DEF PostShape, Passed, HasKey, Accepted
<1>4. GatewayShape'
  BY <1>1, <1>2, <1>3 DEF GatewayInv, GatewayShape, PostShape
<1>5. LatestIsLast' /\ BucketIsLatest' /\ HitsCover' /\ FewPassed'
  BY <1>1, <1>2, <1>3, CallKeeps DEF Accepted
<1>6. /\ c \notin started /\ started \subseteq Posts /\ started \subseteq started'
      /\ started' \subseteq started \cup {c}
      /\ \A d \in Posts : post'[d].key = post[d].key
  BY <1>1, <1>2 DEF GatewayInv, StartedOnce, Accepted
<1>7. RowOf'
  BY <1>1, <1>2 DEF GatewayInv, RowOf
<1>8. StartedOnce'
  <2>1. \A d \in started' : d \in Posts /\ post'[d].at \in Accepted
    BY <1>2, <1>6 DEF GatewayInv, StartedOnce
  <2>2. c \in started' => \A d \in started : ~(post[d].key = post[c].key /\ post[c].key # Unkeyed)
    BY <1>1, <1>6 DEF Replays
  <2>3. ASSUME NEW d \in started', NEW e \in started', post'[d].key = post'[e].key, post'[d].key # Unkeyed
        PROVE  d = e
    <3>1. post[d].key = post[e].key /\ post[d].key # Unkeyed
      BY <1>6, <2>1, <2>3
    <3>2. CASE d \in started /\ e \in started
      BY <3>1, <3>2 DEF GatewayInv, StartedOnce
    <3>3. CASE d = c
      BY <1>6, <2>2, <3>1, <3>3
    <3>4. CASE e = c
      BY <1>6, <2>2, <3>1, <3>4
    <3> QED
      BY <1>6, <3>2, <3>3, <3>4
  <2> QED
    BY <2>1, <2>3 DEF StartedOnce
<1>9. \A d \in Posts : Replays(d) \subseteq Replays(d)'
  BY <1>6 DEF Replays
<1>10. AcceptedHasRun'
  <2>1. c \in started' \/ Replays(c)' # {}
    BY <1>1, <1>9
  <2>2. \A d \in Posts \ {c} : post'[d].at \in Accepted => d \in started' \/ Replays(d)' # {}
    BY <1>2, <1>6, <1>9 DEF GatewayInv, AcceptedHasRun
  <2> QED
    BY <2>1, <2>2 DEF AcceptedHasRun
<1> QED
  BY <1>4, <1>5, <1>7, <1>8, <1>10 DEF GatewayInv

LEMMA GatewayStepKeeps == GatewayInv /\ [GatewayNext]_gatewayVars => GatewayInv'
<1> SUFFICES ASSUME GatewayInv, [GatewayNext]_gatewayVars PROVE GatewayInv'
  OBVIOUS
<1>1. CASE UNCHANGED gatewayVars
  <2>1. \A w : Admitted(w)' = Admitted(w) /\ Replays(w)' = Replays(w)
    BY <1>1 DEF gatewayVars, Admitted, Replays
  <2> QED
    BY <1>1, <2>1 DEF gatewayVars, GatewayInv, GatewayShape, PostShape, LatestIsLast, Passed, BucketIsLatest,
       HitsCover, FewPassed, RowOf, StartedOnce, AcceptedHasRun
<1>2. ASSUME NEW c \in Posts, Arrives(c) \/ Counts(c)
      PROVE  GatewayInv'
  BY <1>2, ArrivesKeeps, CountsKeeps
<1>3. ASSUME NEW c \in Posts, PassesUncounted(c)
      PROVE  GatewayInv'
  BY <1>3, GotoKeeps DEF PassesUncounted
<1>4. ASSUME NEW c \in Posts, Unknown(c) \/ Rejects(c)
      PROVE  GatewayInv'
  BY <1>4, GotoKeeps DEF Unknown, Rejects
<1>5. ASSUME NEW c \in Posts, Fails(c)
      PROVE  GatewayInv'
  BY <1>5, GotoKeeps DEF Fails
<1>6. ASSUME NEW c \in Posts, StartsRun(c) \/ RefusalSent(c) \/ AcceptanceSent(c)
      PROVE  GatewayInv'
  BY <1>6, StartsRunKeeps, RefusalKeeps, AcceptanceKeeps
<1>7. CASE Prune \/ NextWindow
  BY <1>7, PruneKeeps, NextWindowKeeps
<1> QED
  BY <1>1, <1>2, <1>3, <1>4, <1>5, <1>6, <1>7 DEF GatewayNext

LEMMA GatewayInvariance == GatewaySpec => []GatewayInv
BY GatewayInitHolds, GatewayStepKeeps, PTL DEF GatewaySpec

----------------------------------------------------------------------------
\* Of the calls counted in a window at most the limit pass, for any number of replicas
\* and calls and any limit, as long as no statement overtakes one of a later window
\* (core/rate_limit.py: one UPSERT counts, hit commits it, prune deletes idle rows).
THEOREM TheLimitHolds == GatewaySpec => []LimitKept
<1>1. GatewayInv => LimitKept
  BY DEF GatewayInv, LimitKept, HitsCover
<1> QED
  BY <1>1, GatewayInvariance, PTL

\* What receive and handle_webhook answer is what the database holds, for any number of
\* calls and keys: 202 with the one run of its key, a refusal with its audit row, and
\* neither when the call was limited or failed.
THEOREM AnswersHold == GatewaySpec => []AnswersAreTrue
<1>1. GatewayInv => AnswersAreTrue
  <2> SUFFICES ASSUME GatewayInv, NEW c \in Posts
               PROVE  /\ post[c].at \in Accepted =>
                           /\ audit[c] = "received"
                           /\ c \in started \/ Replays(c) # {}
                           /\ Cardinality(Replays(c)) <= 1
                      /\ post[c].at \in Refused => audit[c] = "rejected" /\ c \notin started
                      /\ post[c].at \in {"limited", "failed"} =>
                           audit[c] = "none" /\ c \notin started
    BY DEF AnswersAreTrue
  <2>1. post[c].at \in Refused \cup {"limited", "failed"} => c \notin started
    BY DEF GatewayInv, StartedOnce, Accepted, Refused
  <2>2. \A d, e \in Replays(c) : d = e
    BY DEF GatewayInv, StartedOnce, Replays
  <2>3. Cardinality(Replays(c)) <= 1
    <3>1. CASE Replays(c) = {}
      BY <3>1, FS_EmptySet
    <3>2. CASE Replays(c) # {}
      <4>1. PICK d : Replays(c) = {d}
        BY <2>2, <3>2
      <4> QED
        BY <4>1, FS_Singleton
    <3> QED
      BY <3>1, <3>2
  <2> QED
    BY <2>1, <2>3 DEF GatewayInv, RowOf, AcceptedHasRun, Accepted, Refused
<1> QED
  BY <1>1, GatewayInvariance, PTL

----------------------------------------------------------------------------
(* The alerts: what a failure that was told rests on *)

\* A notification speaks of what its dedup key names, and of a day that has come.
IsNote(n, today) == n.about = n.key.part /\ n.at \in Nat /\ n.at <= today

\* One of these notifications is of the failure e.
ToldBy(N, e) ==
  \E n \in N : /\ n.key.event = "EXECUTION_FAILED" /\ n.key.workflow = e.workflow
               /\ n.about = e.code
               /\ n.at \in e.at - e.cooldown .. e.at

AlertsTypes ==
  /\ day \in Nat /\ rules \subseteq AlertRules
  /\ DOMAIN raising = Raisers
  /\ \A l \in Raisers : raising[l].kind = "run" =>
       DOMAIN raising[l] = {"kind", "workflow", "code", "at", "cooldown", "silenced", "raised"}

NotesAreTrue == \A n \in notes : IsNote(n, day)

\* What a transaction in progress is about to add.
RaisedAreTrue ==
  \A l \in Raisers : raising[l] # NotRaising => \A n \in raising[l].raised : IsNote(n, day)

\* A failure that was evaluated will have been told of when its transaction commits.
EvaluatedIsTold ==
  \A l \in Raisers : raising[l].kind = "run" =>
    raising[l].silenced \/ ToldBy(notes \cup raising[l].raised, raising[l])

AlertsInv == AlertsTypes /\ NotesAreTrue /\ RaisedAreTrue /\ EvaluatedIsTold /\ ToldUnlessSilenced

----------------------------------------------------------------------------
LEMMA AlertsInitHolds == AlertsInit => AlertsInv
<1> SUFFICES ASSUME AlertsInit PROVE AlertsInv
  OBVIOUS
<1>1. /\ \A l \in Raisers : raising[l] = NotRaising /\ raising[l].kind = "none"
      /\ notes = {} /\ ended = NoFailure /\ day = 1
  BY DEF AlertsInit, NotRaising
<1>2. rules \subseteq AlertRules /\ DOMAIN raising = Raisers
  BY AlertsAssumption DEF AlertsInit
<1> QED
  BY <1>1, <1>2 DEF AlertsInv, AlertsTypes, NotesAreTrue, RaisedAreTrue, EvaluatedIsTold, ToldUnlessSilenced

\* The rule that is picked is of the event asked for, and has a cooldown.
LEMMA PickedRule ==
  ASSUME AlertsTypes, NEW event \in Events, NEW rule \in Picks(event)
  PROVE  rule.event = event /\ rule.cooldown \in Nat
<1>1. DefaultRule(event).event = event /\ DefaultRule(event).cooldown \in Nat
  BY DEF DefaultRule, DEFAULT_COOLDOWN
<1>2. \A r \in For(event) : r.event = event /\ r.cooldown \in Nat
  BY DEF For, AlertsTypes, AlertRules
<1>3. Picks(event) \subseteq For(event) \cup {DefaultRule(event)}
  BY DEF Picks
<1> QED
  BY <1>1, <1>2, <1>3

\* What raise_alert adds is a true notification of today.
LEMMA RaisedNotes ==
  ASSUME AlertsTypes, NEW rule, NEW f, NEW part, NEW n \in Raised(rule, f, part)
  PROVE  IsNote(n, day)
<1>1. n = [key |-> DedupKey(rule.event, f, part), about |-> part, at |-> day]
  BY DEF Raised
<1>2. n.about = part /\ n.at = day /\ n.key.part = part
  BY <1>1 DEF DedupKey
<1> QED
  BY <1>2 DEF IsNote, AlertsTypes

\* Unless the rule silences it, raise_alert finds or adds a notification of the failure.
LEMMA FailureIsTold ==
  ASSUME AlertsTypes, NotesAreTrue, NEW f, NEW code, NEW rule \in Picks("EXECUTION_FAILED"),
         ~ Silences(rule, f), NEW e, e.workflow = f, e.code = code, e.at = day,
         e.cooldown = rule.cooldown
  PROVE  ToldBy(notes \cup Raised(rule, f, code), e)
<1> DEFINE key == DedupKey(rule.event, f, code)
<1>1. rule.event = "EXECUTION_FAILED" /\ rule.cooldown \in Nat /\ day \in Nat
  BY PickedRule DEF Events, AlertsTypes
<1>2. key.event = "EXECUTION_FAILED" /\ key.workflow = f /\ key.part = code
  BY <1>1 DEF DedupKey
<1> HIDE DEF key
<1>3. CASE \E n \in notes : n.key = key /\ n.at >= day - rule.cooldown
  <2>1. PICK n \in notes : n.key = key /\ n.at >= day - rule.cooldown
    BY <1>3
  <2>2. n.about = code /\ n.at \in Nat /\ n.at <= day
    BY <1>2, <2>1 DEF NotesAreTrue, IsNote
  <2>3. n.at \in e.at - e.cooldown .. e.at
    BY <1>1, <2>1, <2>2
  <2> QED
    BY <1>2, <2>1, <2>2, <2>3 DEF ToldBy
<1>4. CASE ~ \E n \in notes : n.key = key /\ n.at >= day - rule.cooldown
  <2> DEFINE n == [key |-> key, about |-> code, at |-> day]
  <2>1. n \in Raised(rule, f, code)
    BY <1>4 DEF Raised, key
  <2>2. n.key = key /\ n.about = code /\ n.at = day
    OBVIOUS
  <2>3. n.at \in e.at - e.cooldown .. e.at
    BY <1>1, <2>2
  <2> HIDE DEF n
  <2> QED
    BY <1>2, <2>1, <2>2, <2>3 DEF ToldBy
<1> QED
  BY <1>3, <1>4

\* More notifications tell of no less.
LEMMA MoreTold ==
  ASSUME NEW N, NEW M, N \subseteq M, NEW e, ToldBy(N, e)
  PROVE  ToldBy(M, e)
BY DEF ToldBy

\* A step that adds no notification and ends no run: one transaction may change, to one
\* whose notifications are true and tell of its failure.
LEMMA QuietKeeps ==
  ASSUME AlertsInv, UNCHANGED <<notes, ended>>,
         rules' \subseteq AlertRules, day' = day \/ day' = day + 1,
         DOMAIN raising' = Raisers,
         \A l \in Raisers :
           \/ raising'[l] = raising[l] \/ raising'[l] = NotRaising
           \/ /\ raising'[l].kind = "run" =>
                   /\ DOMAIN raising'[l] =
                        {"kind", "workflow", "code", "at", "cooldown", "silenced", "raised"}
                   /\ raising'[l].silenced \/ ToldBy(notes \cup raising'[l].raised, raising'[l])
              /\ \A n \in raising'[l].raised : IsNote(n, day)
  PROVE  AlertsInv'
<1>1. day \in Nat /\ day' \in Nat /\ day <= day'
  BY DEF AlertsInv, AlertsTypes
<1>2. \A n : IsNote(n, day) => IsNote(n, day')
  BY <1>1 DEF IsNote
<1>3. NotRaising.kind = "none"
  BY DEF NotRaising
<1>4. AlertsTypes'
  BY <1>1, <1>3 DEF AlertsInv, AlertsTypes
<1>5. NotesAreTrue'
  BY <1>2 DEF AlertsInv, NotesAreTrue
<1>6. RaisedAreTrue'
  BY <1>2 DEF AlertsInv, RaisedAreTrue
<1>7. EvaluatedIsTold'
  BY <1>3 DEF AlertsInv, EvaluatedIsTold
<1>8. ToldUnlessSilenced'
  BY DEF AlertsInv, ToldUnlessSilenced, Told
<1> QED
  BY <1>4, <1>5, <1>6, <1>7, <1>8 DEF AlertsInv

LEMMA EvaluateKeeps ==
  ASSUME AlertsInv, NEW l \in Raisers, NEW f \in Watched, NEW code \in Codes,
         EvaluateFailure(l, f, code)
  PROVE  AlertsInv'
<1>1. PICK failed \in Picks("EXECUTION_FAILED"), often \in Picks("CONSECUTIVE_FAILURES"),
           signIn \in Picks("CREDENTIAL_INVALID"), threshold \in Threshold :
        raising' = [raising EXCEPT ![l] =
            [kind |-> "run", workflow |-> f, code |-> code, at |-> day,
             cooldown |-> failed.cooldown, silenced |-> Silences(failed, f),
             raised |-> Raised(failed, f, code)
                        \cup (IF streak[f] + 1 >= threshold
                              THEN Raised(often, f, ToString((streak[f] + 1) \div threshold))
                              ELSE {})
                        \cup (IF code \in SignInCodes THEN Raised(signIn, f, "any") ELSE {})]]
  BY DEF EvaluateFailure
<1>2. PICK part : raising'[l] =
            [kind |-> "run", workflow |-> f, code |-> code, at |-> day,
             cooldown |-> failed.cooldown, silenced |-> Silences(failed, f),
             raised |-> Raised(failed, f, code)
                        \cup (IF streak[f] + 1 >= threshold THEN Raised(often, f, part) ELSE {})
                        \cup (IF code \in SignInCodes THEN Raised(signIn, f, "any") ELSE {})]
  BY <1>1 DEF AlertsInv, AlertsTypes
<1> DEFINE r == raising'[l]
<1>3. /\ DOMAIN r = {"kind", "workflow", "code", "at", "cooldown", "silenced", "raised"}
      /\ r.workflow = f /\ r.code = code /\ r.at = day /\ r.cooldown = failed.cooldown
      /\ r.silenced = Silences(failed, f)
      /\ Raised(failed, f, code) \subseteq r.raised
      /\ r.raised \subseteq Raised(failed, f, code) \cup Raised(often, f, part)
                            \cup Raised(signIn, f, "any")
  BY <1>2
<1> HIDE DEF r
<1>4. \A n \in r.raised : IsNote(n, day)
  BY <1>3, RaisedNotes DEF AlertsInv
<1>5. r.silenced \/ ToldBy(notes \cup r.raised, r)
  <2> SUFFICES ASSUME ~ r.silenced PROVE ToldBy(notes \cup r.raised, r)
    OBVIOUS
  <2>1. ToldBy(notes \cup Raised(failed, f, code), r)
    BY <1>3, FailureIsTold DEF AlertsInv
  <2> QED
    BY <1>3, <2>1, MoreTold
<1>6. UNCHANGED <<notes, ended, rules, day>> /\ DOMAIN raising' = Raisers
      /\ \A m \in Raisers \ {l} : raising'[m] = raising[m]
  BY <1>1 DEF EvaluateFailure, AlertsInv, AlertsTypes
<1> QED
  BY <1>3, <1>4, <1>5, <1>6, QuietKeeps DEF r, AlertsInv, AlertsTypes

LEMMA HouseKeeps ==
  ASSUME AlertsInv, NEW l \in Raisers, NEW status, NEW missed, KeepHouse(l, status, missed)
  PROVE  AlertsInv'
<1>1. PICK degraded \in Picks("ENGINE_DEGRADED"), overdue \in Picks("SCHEDULE_MISSED") :
        raising' = [raising EXCEPT ![l] =
          [kind |-> "house", status |-> status,
           raised |-> EngineAlerts(degraded, status) \cup MissedAlerts(overdue, missed)]]
  BY DEF KeepHouse
<1>2. raising'[l].kind = "house"
      /\ raising'[l].raised = EngineAlerts(degraded, status) \cup MissedAlerts(overdue, missed)
  BY <1>1 DEF AlertsInv, AlertsTypes
<1>3. \A n \in EngineAlerts(degraded, status) : IsNote(n, day)
  BY RaisedNotes DEF EngineAlerts, AlertsInv
<1>4. \A n \in MissedAlerts(overdue, missed) : IsNote(n, day)
  BY RaisedNotes DEF MissedAlerts, AlertsInv
<1>5. UNCHANGED <<notes, ended, rules, day>> /\ DOMAIN raising' = Raisers
      /\ \A m \in Raisers \ {l} : raising'[m] = raising[m]
  BY <1>1 DEF KeepHouse, AlertsInv, AlertsTypes
<1> QED
  BY <1>2, <1>3, <1>4, <1>5, QuietKeeps DEF AlertsInv, AlertsTypes

\* The commit of a transaction shows its notifications, and the end of its run.
LEMMA CommitKeeps ==
  ASSUME AlertsInv, NEW l \in Raisers, CommitEnd(l) \/ CommitHouse(l)
  PROVE  AlertsInv'
<1>1. /\ raising[l] # NotRaising /\ notes' = notes \cup raising[l].raised
      /\ raising' = [raising EXCEPT ![l] = NotRaising] /\ UNCHANGED <<day, rules>>
  BY DEF CommitEnd, CommitHouse, NotRaising
<1>2. NotRaising.kind = "none"
  BY DEF NotRaising
<1>3. /\ raising'[l] = NotRaising /\ DOMAIN raising' = Raisers
      /\ \A m \in Raisers \ {l} : raising'[m] = raising[m]
  BY <1>1 DEF AlertsInv, AlertsTypes
<1>4. AlertsTypes' /\ NotesAreTrue' /\ RaisedAreTrue'
  BY <1>1, <1>2, <1>3 DEF AlertsInv, AlertsTypes, NotesAreTrue, RaisedAreTrue
<1>5. EvaluatedIsTold'
  <2> SUFFICES ASSUME NEW m \in Raisers, raising'[m].kind = "run"
               PROVE  raising'[m].silenced \/ ToldBy(notes' \cup raising'[m].raised, raising'[m])
    BY DEF EvaluatedIsTold
  <2>1. raising'[m] = raising[m]
    BY <1>2, <1>3
  <2>2. raising[m].silenced \/ ToldBy(notes \cup raising[m].raised, raising[m])
    BY <2>1 DEF AlertsInv, EvaluatedIsTold
  <2> QED
    BY <1>1, <2>1, <2>2, MoreTold
<1>6. ToldUnlessSilenced'
  <2>1. CASE CommitHouse(l)
    BY <1>1, <2>1 DEF CommitHouse, AlertsInv, ToldUnlessSilenced, Told
  <2>2. CASE CommitEnd(l)
    <3> DEFINE r == raising[l]
    <3>1. r.kind = "run" /\ ended' = [r EXCEPT !.raised = {}]
      BY <2>2 DEF CommitEnd
    <3>2. DOMAIN r = {"kind", "workflow", "code", "at", "cooldown", "silenced", "raised"}
      BY <3>1 DEF AlertsInv, AlertsTypes
    <3>3. /\ ended'.silenced = r.silenced /\ ended'.workflow = r.workflow
          /\ ended'.code = r.code /\ ended'.at = r.at /\ ended'.cooldown = r.cooldown
      BY <3>1, <3>2
    <3>4. r.silenced \/ ToldBy(notes', r)
      BY <1>1, <3>1 DEF AlertsInv, EvaluatedIsTold
    <3> HIDE DEF r
    <3> QED
      BY <3>3, <3>4 DEF ToldUnlessSilenced, Told, ToldBy
  <2> QED
    BY <2>1, <2>2
<1> QED
  BY <1>4, <1>5, <1>6 DEF AlertsInv

LEMMA AlertsStepKeeps == AlertsInv /\ [AlertsNext]_alertVars => AlertsInv'
<1> SUFFICES ASSUME AlertsInv, [AlertsNext]_alertVars PROVE AlertsInv'
  OBVIOUS
<1>0. AlertsTypes
  BY DEF AlertsInv
<1>1. CASE UNCHANGED alertVars
  BY <1>0, <1>1, QuietKeeps DEF alertVars, AlertsTypes
<1>2. ASSUME NEW l \in Raisers, NEW f \in Watched, NEW code \in Codes, EvaluateFailure(l, f, code)
      PROVE  AlertsInv'
  BY <1>2, EvaluateKeeps
<1>3. ASSUME NEW l \in Raisers, NEW status, NEW missed, KeepHouse(l, status, missed)
      PROVE  AlertsInv'
  BY <1>3, HouseKeeps
<1>4. ASSUME NEW l \in Raisers, CommitEnd(l) \/ CommitHouse(l)
      PROVE  AlertsInv'
  BY <1>4, CommitKeeps
<1>5. ASSUME NEW l \in Raisers, Abandon(l)
      PROVE  AlertsInv'
  BY <1>0, <1>5, QuietKeeps DEF Abandon, AlertsTypes
<1>6. CASE \/ \E f \in Watched : EndWell(f)
           \/ \E rule \in GivenRules : UpsertRule(rule)
           \/ \E rule \in rules : DeleteRule(rule)
           \/ DayPasses
  <2>1. rules' \subseteq AlertRules
    BY <1>0, <1>6, AlertsAssumption DEF EndWell, UpsertRule, DeleteRule, DayPasses, AlertsTypes
  <2>2. UNCHANGED <<notes, ended, raising>> /\ (day' = day \/ day' = day + 1)
    BY <1>6 DEF EndWell, UpsertRule, DeleteRule, DayPasses
  <2> QED
    BY <1>0, <2>1, <2>2, QuietKeeps DEF AlertsTypes
<1> QED
  BY <1>1, <1>2, <1>3, <1>4, <1>5, <1>6 DEF AlertsNext

LEMMA AlertsInvariance == AlertsSpec => []AlertsInv
BY AlertsInitHolds, AlertsStepKeeps, PTL DEF AlertsSpec

\* Every failed run is told of for the reason it failed, by its own notification or an
\* equal one inside the cooldown, however loops overlap, are rolled back and evaluate
\* again, and rules change; except where a rule that names another workflow is picked
\* (raise_alert, evaluate_execution).
THEOREM FailuresAreTold == AlertsSpec => []ToldUnlessSilenced
<1>1. AlertsInv => ToldUnlessSilenced
  BY DEF AlertsInv
<1> QED
  BY <1>1, AlertsInvariance, PTL
=============================================================================
