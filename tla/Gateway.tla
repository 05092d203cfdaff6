---------------------------------- MODULE Gateway ----------------------------------
(***************************************************************************)
(* The webhook gateway (backend/app: api/hooks.py, services/triggers.py,   *)
(* core/rate_limit.py): calls of one hook, on any number of replicas, are  *)
(* counted in the database, checked, and answered.                         *)
(***************************************************************************)
EXTENDS Integers, FiniteSets

CONSTANTS
  Posts,
  Keys,          \* values of the Idempotency-Key header
  Unkeyed,       \* a call without the header
  Limit,         \* webhook_rate_limit_per_minute
  MaxWindow      \* bound on the clock, counted in windows of the limit

ASSUME GatewayAssumption ==
  /\ Unkeyed \notin Keys
  /\ Limit \in Nat \ {0} /\ MaxWindow \in Nat

VARIABLES
  window,   \* the window the clock is in
  bucket,   \* the row of rate_limit_buckets
  post,     \* how far each call is and what it carries
  audit,    \* the audit row each call has left
  started,  \* the calls that started a run
  late,     \* a statement of an earlier window has come after one of a later window
  latest    \* the latest window that was counted

gatewayVars == <<window, bucket, post, audit, started, late, latest>>

NoBucket == [window |-> 0, hits |-> 0]

GatewayInit ==
  /\ window = 1
  /\ bucket = NoBucket
  /\ post = [c \in Posts |-> [at |-> "new"]]
  /\ audit = [c \in Posts |-> "none"]
  /\ started = {}
  /\ late = FALSE /\ latest = 0

Goto(c, at) == post' = [post EXCEPT ![c].at = at]

\* Where a call whose transaction has committed ends. The acknowledgement of a commit may be
\* lost on its way to receive, which then answers 500 and has nothing left to roll back.
Accepted == {"accepted", "acceptance lost"}
Refused == {"refused", "refusal lost"}

----------------------------------------------------------------------------
(* Counting: core/rate_limit.py *)

\* check reads the clock of its replica, then sends its statement.
Arrives(c) ==
  /\ post[c].at = "new"
  /\ post' = [post EXCEPT ![c] = [at |-> "counting", window |-> window, counted |-> FALSE]]
  /\ UNCHANGED <<window, bucket, audit, started, late, latest>>

\* A fault to detect: the hit that opens a window is not counted.
HitCountFromZero(w) == IF bucket.window = w THEN bucket.hits + 1 ELSE 0

\* _HIT's count, in one statement.
HitCount(w) == IF bucket.window = w THEN bucket.hits + 1 ELSE 1

\* hit commits the count whatever becomes of the call; over the limit it is answered 429.
Counts(c) ==
  LET w == post[c].window
      allowed == HitCount(w) <= Limit
  IN /\ post[c].at = "counting"
     /\ bucket' = [window |-> w, hits |-> HitCount(w)]
     /\ late' = (late \/ latest > w)
     /\ latest' = IF latest > w THEN latest ELSE w
     /\ post' = [post EXCEPT ![c].counted = TRUE,
                             ![c].at = IF allowed THEN "handling" ELSE "limited"]
     /\ UNCHANGED <<window, audit, started>>

\* The counter cannot be reached: check lets the call pass.
PassesUncounted(c) ==
  /\ post[c].at = "counting"
  /\ Goto(c, "handling")
  /\ UNCHANGED <<window, bucket, audit, started, late, latest>>

\* prune, when nobody has touched the bucket for an hour; no statement waits that long.
Prune ==
  /\ bucket # NoBucket /\ bucket.window + 1 < window
  /\ \A c \in Posts : post[c].at = "counting" => post[c].window > bucket.window
  /\ bucket' = NoBucket
  /\ UNCHANGED <<window, post, audit, started, late, latest>>

----------------------------------------------------------------------------
(* Handling: receive and handle_webhook *)

\* The body is too large or no JSON, or resolve_webhook finds no hook that is on.
Unknown(c) ==
  /\ post[c].at = "handling"
  /\ Goto(c, "failed")
  /\ UNCHANGED <<window, bucket, audit, started, late, latest>>

\* authenticate_webhook refuses: the method, the type, the size, the signature or its age. The
\* audit row is flushed and the error goes up to receive.
Rejects(c) ==
  /\ post[c].at = "handling"
  /\ Goto(c, "rejecting")
  /\ UNCHANGED <<window, bucket, audit, started, late, latest>>

\* executions.create (ExecutionCreate has its statements) inserts a run, with the workspace's
\* lock until the end of the transaction, and its audit row is flushed.
StartsRun(c) ==
  /\ post[c].at = "handling"
  /\ \A d \in Posts : post[d].at # "creating"
  /\ \E key \in Keys \cup {Unkeyed} :
       post' = [post EXCEPT ![c] = [at |-> "creating", window |-> @.window,
                                    counted |-> @.counted, key |-> key]]
  /\ UNCHANGED <<window, bucket, audit, started, late, latest>>

\* A fault to detect: an error takes back what its call has written.
KeptOnErrorNever(c) == audit[c]

\* receive commits on an AppError too: "keep the audit row for the rejection".
KeptOnError(c) == "rejected"

RefusalSent(c) ==
  /\ post[c].at = "rejecting"
  /\ audit' = [audit EXCEPT ![c] = KeptOnError(c)]
  /\ \E at \in Refused : Goto(c, at)
  /\ UNCHANGED <<window, bucket, started, late, latest>>

\* The run of an earlier call with the key, which create returns instead of a new one.
Replays(c) == {d \in started : post[d].key = post[c].key /\ post[c].key # Unkeyed}

AcceptanceSent(c) ==
  /\ post[c].at = "creating"
  /\ started' = IF Replays(c) = {} THEN started \cup {c} ELSE started
  /\ audit' = [audit EXCEPT ![c] = "received"]
  /\ \E at \in Accepted : Goto(c, at)
  /\ UNCHANGED <<window, bucket, late, latest>>

\* The workspace is at its ceiling or nothing is published: an AppError, and nothing is written
\* before it. Or anything else fails, the commit too or what follows a flush, and is rolled
\* back: 500.
Fails(c) ==
  /\ post[c].at \in {"handling", "rejecting", "creating"}
  /\ Goto(c, "failed")
  /\ UNCHANGED <<window, bucket, audit, started, late, latest>>

----------------------------------------------------------------------------
NextWindow ==
  /\ window < MaxWindow
  /\ window' = window + 1
  /\ UNCHANGED <<bucket, post, audit, started, late, latest>>

GatewayNext ==
  \/ \E c \in Posts :
       \/ Arrives(c) \/ Counts(c) \/ PassesUncounted(c)
       \/ Unknown(c) \/ Rejects(c) \/ RefusalSent(c)
       \/ StartsRun(c) \/ AcceptanceSent(c) \/ Fails(c)
  \/ Prune \/ NextWindow

GatewaySpec == GatewayInit /\ [][GatewayNext]_gatewayVars

----------------------------------------------------------------------------
(* Properties *)

Admitted(w) ==
  {c \in Posts : post[c].at \notin {"new", "counting", "limited"}
                 /\ post[c].counted /\ post[c].window = w}

\* "A limit means the same number however many API replicas": of the calls counted in a
\* window no more than the limit pass, whatever order replicas count them in and although
\* buckets are pruned, unless a statement comes after one of a later window.
LimitKept == ~late => \A w \in 1 .. MaxWindow : Cardinality(Admitted(w)) <= Limit

\* What the gateway answers is what the database holds: 202 with a run, the only one of its
\* key; a refusal with its audit row. A call that fails after it has written, and is answered
\* 500, has left all of that or nothing: a run without its audit row never.
AnswersAreTrue ==
  \A c \in Posts :
    /\ post[c].at \in Accepted =>
         /\ audit[c] = "received"
         /\ c \in started \/ Replays(c) # {}
         /\ Cardinality(Replays(c)) <= 1
    /\ post[c].at \in Refused => audit[c] = "rejected" /\ c \notin started
    /\ post[c].at \in {"limited", "failed"} =>
         audit[c] = "none" /\ c \notin started
=============================================================================
