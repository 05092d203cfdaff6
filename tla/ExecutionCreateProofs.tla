------------------------ MODULE ExecutionCreateProofs ------------------------
(***************************************************************************)
(* Proofs about ExecutionCreate, for any number of requests, workflows,    *)
(* workspaces and keys, any limits and any quotas: its invariants, and     *)
(* that it implements the atomic RunQueue.                                 *)
(***************************************************************************)
EXTENDS ExecutionCreate, FiniteSetTheorems, TLAPS

Active == {d \in Requests : run[d] = "active"}

\* A request whose answer rests on what it counted or looked up under the lock.
Holds(c) ==
  \/ pc[c] \in {"locked", "refused", "admitted", "conflict", "inserted"}
  \/ pc[c] = "answered" /\ reply[c].kind = "refused"

\* How far a request is shows in its question, its row and its reply.
Shape ==
  \A c \in Requests :
    /\ pc[c] # "new" => ask[c] \in Question
    /\ pc[c] = "new" => ask[c] = None
    /\ run[c] = "pending" <=> pc[c] = "inserted"
    /\ Committed(c) => pc[c] = "ended" /\ reply[c] = Reply("run", c)
    /\ pc[c] \notin {"answered", "ended"} => reply[c] = NoReply
    /\ pc[c] \in {"answered", "ended"} => reply[c] # NoReply
    /\ reply[c].kind # "run" => reply[c] = Reply(reply[c].kind, None)

\* The lock of a workspace belongs to the one request in it that relies on it.
LockIsHeld == \A c \in Requests : Holds(c) => lock[Space(c)] = c

\* Whom a request was given: itself, or a run of its key that was committed before.
ReplyIsOwn ==
  \A c \in Requests :
    reply[c].kind = "run" =>
      \/ reply[c].run = c /\ Committed(c)
      \/ reply[c].run \in Named(ask[c])

\* A run that is not visible yet has its key for itself, and so has one that is.
KeyIsFree == \A c \in Requests : pc[c] = "inserted" => Named(ask[c]) = {}

OneRunPerKey ==
  \A c, d \in Requests :
    Committed(c) /\ Committed(d) /\ ask[c] = ask[d] /\ ask[c].key # None => c = d

\* Each run was started by a step of its own.
FewAreActive == IsFiniteSet(Active)

IInv ==
  /\ TypeOK /\ Shape /\ LockIsHeld /\ ReplyIsOwn /\ KeyIsFree /\ OneRunPerKey
  /\ FewAreActive /\ CeilingsKept /\ ReplayNeverRefused

----------------------------------------------------------------------------
LEMMA InitHolds == Init => IInv
<1> SUFFICES ASSUME Init PROVE IInv
  OBVIOUS
<1>1. TypeOK
  BY DEF Init, TypeOK, Phases, NoReply, Reply
<1>2. \A c \in Requests : pc[c] = "new" /\ run[c] = "none" /\ reply[c] = NoReply /\ ask[c] = None
  BY DEF Init
<1>3. NoReply.kind = "none" /\ NoReply = Reply("none", None)
  BY DEF NoReply, Reply
<1>4. Active = {}
  BY <1>2 DEF Active
<1>5. FewAreActive
  BY <1>4, FS_EmptySet DEF FewAreActive
<1>6. Shape /\ LockIsHeld /\ ReplyIsOwn /\ KeyIsFree /\ OneRunPerKey /\ CeilingsKept /\ ReplayNeverRefused
  BY <1>2, <1>3 DEF Shape, LockIsHeld, Holds, ReplyIsOwn, KeyIsFree, OneRunPerKey,
     CeilingsKept, ReplayNeverRefused, Committed
<1> QED
  BY <1>1, <1>5, <1>6 DEF IInv

\* A step that starts no run raises nobody's counts.
LEMMA FewerRuns ==
  ASSUME FewAreActive, Active' \subseteq Active, \A d \in Active' : ask'[d] = ask[d]
  PROVE  /\ FewAreActive'
         /\ \A e \in Requests : ask'[e] = ask[e] =>
              /\ Cardinality(Running(e)) \in Nat /\ Cardinality(Running(e)') \in Nat
              /\ Cardinality(RunningInSpace(e)) \in Nat
              /\ Cardinality(RunningInSpace(e)') \in Nat
              /\ Cardinality(Running(e)') <= Cardinality(Running(e))
              /\ Cardinality(RunningInSpace(e)') <= Cardinality(RunningInSpace(e))
<1>1. FewAreActive'
  BY FS_Subset DEF FewAreActive
<1>2. ASSUME NEW e \in Requests, ask'[e] = ask[e]
      PROVE  /\ Running(e) \subseteq Active /\ RunningInSpace(e) \subseteq Active
             /\ Running(e)' \subseteq Running(e)
             /\ RunningInSpace(e)' \subseteq RunningInSpace(e)
  BY <1>2 DEF Running, RunningInSpace, Active, Space
<1>3. ASSUME NEW e \in Requests, ask'[e] = ask[e]
      PROVE  IsFiniteSet(Running(e)) /\ IsFiniteSet(RunningInSpace(e))
  BY <1>2, <1>3, FS_Subset DEF FewAreActive
<1> QED
  BY <1>1, <1>2, <1>3, FS_Subset, FS_CardinalityType

\* The limits of requests that were let in stand when no run is started and
\* nobody else is let in.
LEMMA CeilingsStand ==
  ASSUME IInv, Active' \subseteq Active, \A d \in Active' : ask'[d] = ask[d],
         TypeOK',
         \A e \in Requests : pc'[e] \in {"admitted", "inserted"} =>
           pc[e] \in {"admitted", "inserted"} /\ ask'[e] = ask[e] /\ ceiling'[e] = ceiling[e]
  PROVE  FewAreActive' /\ CeilingsKept'
<1>1. FewAreActive
  BY DEF IInv
<1>2. ASSUME NEW e \in Requests, pc'[e] \in {"admitted", "inserted"}
      PROVE  /\ Cardinality(Running(e)') < MaxPerWorkflow
             /\ Cardinality(RunningInSpace(e)') < ceiling'[e]
  <2>1. pc[e] \in {"admitted", "inserted"} /\ ask'[e] = ask[e] /\ ceiling'[e] = ceiling[e]
    BY <1>2
  <2>2. /\ Cardinality(Running(e)) < MaxPerWorkflow
        /\ Cardinality(RunningInSpace(e)) < ceiling[e]
    BY <2>1 DEF IInv, CeilingsKept
  <2>3. ceiling[e] \in Nat /\ MaxPerWorkflow \in Nat
    BY LimitsAssumption DEF IInv, TypeOK
  <2> QED
    BY <1>1, <2>1, <2>2, <2>3, FewerRuns
<1> QED
  BY <1>1, <1>2, FewerRuns DEF CeilingsKept

LEMMA LockKeeps ==
  ASSUME IInv, NEW c \in Requests, Lock(c)
  PROVE  IInv'
<1>1. /\ pc[c] = "waiting" /\ lock[Space(c)] = None
      /\ lock' = [lock EXCEPT ![Space(c)] = c] /\ pc' = [pc EXCEPT ![c] = "locked"]
      /\ UNCHANGED <<ask, ceiling, run, quota, reply>>
  BY DEF Lock, Goto
<1>2. /\ pc'[c] = "locked" /\ \A d \in Requests \ {c} : pc'[d] = pc[d]
      /\ ask[c] \in Question /\ Space(c) \in Workspaces
  BY <1>1, WorkspaceOfAssumption DEF IInv, TypeOK, Shape, Question, Space
<1>3. TypeOK'
  BY <1>1, <1>2 DEF IInv, TypeOK, Phases
<1>4. Shape'
  BY <1>1, <1>2 DEF IInv, Shape, Committed
<1>5. LockIsHeld'
  <2>1. \A d \in Requests \ {c} : Holds(d)' => Holds(d) /\ lock[Space(d)] = d /\ Space(d) # Space(c)
    BY <1>1, <1>2, NoneAssumption DEF IInv, LockIsHeld, Holds
  <2>2. \A d \in Requests : Space(d)' = Space(d)
    BY <1>1 DEF Space
  <2>3. lock'[Space(c)] = c /\ \A s : s # Space(c) => lock'[s] = lock[s]
    BY <1>1, <1>2 DEF IInv, TypeOK
  <2> QED
    BY <2>1, <2>2, <2>3 DEF LockIsHeld
<1>6. ReplyIsOwn' /\ KeyIsFree' /\ OneRunPerKey' /\ ReplayNeverRefused'
  BY <1>1, <1>2 DEF IInv, ReplyIsOwn, KeyIsFree, OneRunPerKey, ReplayNeverRefused, Named, Committed
<1>7. FewAreActive' /\ CeilingsKept'
  BY <1>1, <1>2, <1>3, CeilingsStand DEF Active
<1> QED
  BY <1>3, <1>4, <1>5, <1>6, <1>7 DEF IInv

LEMMA BeginKeeps ==
  ASSUME IInv, NEW c \in Requests, Begin(c)
  PROVE  IInv'
<1>1. PICK q \in Question :
        /\ ask' = [ask EXCEPT ![c] = q]
        /\ ceiling' = [ceiling EXCEPT ![c] = Ceiling(quota[WorkspaceOf[q.workflow]])]
        /\ \/ Named(q) = {} /\ Goto(c, "waiting") /\ UNCHANGED reply
           \/ \E d \in Named(q) : Answer(c, Reply("run", d))
  BY DEF Begin
<1>2. pc[c] = "new" /\ UNCHANGED <<run, lock, quota>>
  BY DEF Begin
<1>3. /\ run[c] = "none" /\ ~ Committed(c) /\ reply[c] = NoReply
      /\ ask'[c] = q /\ \A d \in Requests \ {c} : ask'[d] = ask[d]
      /\ \A d \in Requests : Committed(d)' <=> Committed(d)
  BY <1>1, <1>2 DEF IInv, Shape, Committed, TypeOK
<1>4. /\ \A r : {d \in Requests : Committed(d)' /\ ask'[d] = r /\ r.key # None} = Named(r)
      /\ Named(ask[c])' = Named(q)
      /\ \A d \in Requests \ {c} : Named(ask[d])' = Named(ask[d])
  BY <1>3 DEF Named
<1>5. Ceiling(quota[WorkspaceOf[q.workflow]]) \in Nat
  <2>1. quota[WorkspaceOf[q.workflow]] \in Nat \cup {None}
    BY WorkspaceOfAssumption, LimitsAssumption DEF IInv, TypeOK, Question
  <2> QED
    BY <2>1, LimitsAssumption DEF Ceiling
<1>6. \/ /\ Named(q) = {} /\ pc' = [pc EXCEPT ![c] = "waiting"] /\ reply' = reply
         /\ pc'[c] = "waiting" /\ reply'[c] = NoReply
      \/ \E d \in Named(q) :
           /\ pc' = [pc EXCEPT ![c] = "answered"]
           /\ reply' = [reply EXCEPT ![c] = Reply("run", d)]
           /\ pc'[c] = "answered" /\ reply'[c] = Reply("run", d) /\ d \in Requests
  BY <1>1, <1>3 DEF Goto, Answer, Named, IInv, TypeOK
<1>7. \A d \in Requests \ {c} : pc'[d] = pc[d] /\ reply'[d] = reply[d] /\ ceiling'[d] = ceiling[d]
  BY <1>1, <1>6 DEF IInv, TypeOK
<1>8. TypeOK'
  <2>1. \A d \in Requests : Reply("run", d) \in [kind : {"none", "run", "refused", "failed"},
                                                 run : Requests \cup {None}]
    BY DEF Reply
  <2>2. reply' \in [Requests -> [kind : {"none", "run", "refused", "failed"},
                                 run : Requests \cup {None}]]
    BY <1>6, <2>1 DEF IInv, TypeOK
  <2>3. pc' \in [Requests -> Phases]
    BY <1>6 DEF IInv, TypeOK, Phases
  <2>4. ask' \in [Requests -> Question \cup {None}] /\ ceiling' \in [Requests -> Nat]
    BY <1>1, <1>5 DEF IInv, TypeOK
  <2> QED
    BY <1>2, <2>2, <2>3, <2>4 DEF IInv, TypeOK
<1>9. Shape'
  <2>1. \A d \in Requests : Reply("run", d) # NoReply /\ Reply("run", d).kind = "run"
    BY DEF Reply, NoReply
  <2>2. NoReply.kind = "none"
    BY DEF NoReply, Reply
  <2> QED
    BY <1>1, <1>2, <1>3, <1>6, <1>7, <2>1, <2>2 DEF IInv, Shape
<1>10. \/ pc'[c] = "waiting" /\ reply'[c].kind = "none" /\ Named(q) = {}
       \/ pc'[c] = "answered" /\ reply'[c].kind = "run" /\ reply'[c].run \in Named(q)
  <2>1. NoReply.kind = "none" /\ \A d : Reply("run", d).kind = "run" /\ Reply("run", d).run = d
    BY DEF Reply, NoReply
  <2> QED
    BY <1>6, <2>1
<1>11. LockIsHeld'
  <2>1. ~ Holds(c)'
    BY <1>10 DEF Holds
  <2>2. \A d \in Requests \ {c} : Holds(d)' => Holds(d) /\ Space(d)' = Space(d)
    BY <1>3, <1>7 DEF Holds, Space
  <2> QED
    BY <1>2, <2>1, <2>2 DEF IInv, LockIsHeld
<1>12. ReplyIsOwn'
  <2>1. reply'[c].kind = "run" => reply'[c].run \in Named(ask[c])'
    BY <1>3, <1>4, <1>10
  <2>2. \A d \in Requests \ {c} : reply'[d].kind = "run" =>
          (reply'[d].run = d /\ Committed(d)') \/ reply'[d].run \in Named(ask[d])'
    BY <1>3, <1>4, <1>7 DEF IInv, ReplyIsOwn
  <2> QED
    BY <2>1, <2>2 DEF ReplyIsOwn
<1>13. KeyIsFree'
  BY <1>4, <1>7, <1>10 DEF IInv, KeyIsFree
<1>14. OneRunPerKey' /\ ReplayNeverRefused'
  BY <1>3, <1>4, <1>7, <1>10 DEF IInv, OneRunPerKey, ReplayNeverRefused
<1>15. FewAreActive' /\ CeilingsKept'
  BY <1>2, <1>3, <1>6, <1>7, <1>8, CeilingsStand DEF Active
<1> QED
  BY <1>8, <1>9, <1>11, <1>12, <1>13, <1>14, <1>15 DEF IInv

LEMMA CheckKeeps ==
  ASSUME IInv, NEW c \in Requests, Check(c)
  PROVE  IInv'
<1>1. PICK limit \in {ceiling[c], Ceiling(quota[Space(c)])} :
        /\ ceiling' = [ceiling EXCEPT ![c] = limit]
        /\ \/ /\ Cardinality(Running(c)) < MaxPerWorkflow
              /\ Cardinality(RunningInSpace(c)) < limit
              /\ Goto(c, "admitted")
           \/ Goto(c, "refused")
  BY DEF Check
<1>2. pc[c] = "locked" /\ UNCHANGED <<ask, run, lock, quota, reply>>
  BY DEF Check
<1>3. limit \in Nat
  <2>1. quota[Space(c)] \in Nat \cup {None}
    BY <1>2, WorkspaceOfAssumption, LimitsAssumption DEF IInv, TypeOK, Shape, Space, Question
  <2> QED
    BY <1>1, <2>1, LimitsAssumption DEF Ceiling, IInv, TypeOK
<1>4. /\ \/ pc' = [pc EXCEPT ![c] = "admitted"] /\ pc'[c] = "admitted"
         \/ pc' = [pc EXCEPT ![c] = "refused"] /\ pc'[c] = "refused"
      /\ ceiling'[c] = limit
      /\ \A d \in Requests \ {c} : pc'[d] = pc[d] /\ ceiling'[d] = ceiling[d]
  BY <1>1 DEF Goto, IInv, TypeOK
<1>5. TypeOK'
  BY <1>1, <1>2, <1>3, <1>4 DEF IInv, TypeOK, Phases
<1>6. Shape'
  BY <1>2, <1>4 DEF IInv, Shape, Committed
<1>7. LockIsHeld'
  BY <1>2, <1>4 DEF IInv, LockIsHeld, Holds, Space
<1>8. ReplyIsOwn' /\ KeyIsFree' /\ OneRunPerKey' /\ ReplayNeverRefused'
  BY <1>2, <1>4 DEF IInv, ReplyIsOwn, KeyIsFree, OneRunPerKey, ReplayNeverRefused, Named, Committed
<1>9. \A e \in Requests : Running(e)' = Running(e) /\ RunningInSpace(e)' = RunningInSpace(e)
  BY <1>2 DEF Running, RunningInSpace, Space
<1>10. CeilingsKept'
  <2>1. pc'[c] = "admitted" =>
          Cardinality(Running(c)) < MaxPerWorkflow /\ Cardinality(RunningInSpace(c)) < ceiling'[c]
    BY <1>1, <1>4 DEF Goto, IInv, TypeOK
  <2>2. pc'[c] # "inserted"
    BY <1>4
  <2> QED
    BY <1>4, <1>9, <2>1, <2>2 DEF IInv, CeilingsKept
<1>11. FewAreActive'
  BY <1>2 DEF IInv, FewAreActive, Active
<1> QED
  BY <1>5, <1>6, <1>7, <1>8, <1>10, <1>11 DEF IInv

\* SecondLookup and ReadWinner: a request that holds the lock has its answer.
LEMMA AnswerKeeps ==
  ASSUME IInv, NEW c \in Requests, pc[c] \in {"refused", "conflict"}, NEW r,
         \/ r = Reply("refused", None) /\ Named(ask[c]) = {}
         \/ \E d \in Named(ask[c]) : r = Reply("run", d),
         Answer(c, r), UNCHANGED <<ask, ceiling, run, lock, quota>>
  PROVE  IInv'
<1>1. /\ pc' = [pc EXCEPT ![c] = "answered"] /\ reply' = [reply EXCEPT ![c] = r]
      /\ pc'[c] = "answered" /\ reply'[c] = r
      /\ \A d \in Requests \ {c} : pc'[d] = pc[d] /\ reply'[d] = reply[d]
  BY DEF Answer, IInv, TypeOK
<1>2. /\ \A q : Named(q) \subseteq Requests
      /\ \A d \in Requests : Named(ask[d])' = Named(ask[d]) /\ (Committed(d)' <=> Committed(d))
  BY DEF Named, Committed
<1>3. \/ r = Reply("refused", None) /\ r.kind = "refused" /\ Named(ask[c]) = {}
      \/ r.kind = "run" /\ r.run \in Named(ask[c])
  BY DEF Reply
<1>4. r \in [kind : {"none", "run", "refused", "failed"}, run : Requests \cup {None}]
  BY <1>2 DEF Reply
<1>5. TypeOK'
  BY <1>1, <1>4 DEF IInv, TypeOK, Phases
<1>6. Shape'
  <2>1. NoReply.kind = "none"
    BY DEF NoReply, Reply
  <2>2. r # NoReply /\ (r.kind # "run" => r = Reply(r.kind, None))
    BY <1>3, <2>1
  <2> QED
    BY <1>1, <1>2, <2>2 DEF IInv, Shape
<1>7. LockIsHeld'
  BY <1>1 DEF IInv, LockIsHeld, Holds, Space
<1>8. ReplyIsOwn'
  BY <1>1, <1>2, <1>3 DEF IInv, ReplyIsOwn
<1>9. KeyIsFree' /\ OneRunPerKey'
  BY <1>1, <1>2 DEF IInv, KeyIsFree, OneRunPerKey
<1>10. ReplayNeverRefused'
  BY <1>1, <1>2, <1>3 DEF IInv, ReplayNeverRefused
<1>11. FewAreActive' /\ CeilingsKept'
  BY <1>1, <1>5, CeilingsStand DEF Active
<1> QED
  BY <1>5, <1>6, <1>7, <1>8, <1>9, <1>10, <1>11 DEF IInv

LEMMA InsertKeeps ==
  ASSUME IInv, NEW c \in Requests, Insert(c)
  PROVE  IInv'
<1>1. /\ pc[c] = "admitted" /\ UNCHANGED <<ask, ceiling, lock, quota, reply>>
      /\ \/ /\ Named(ask[c]) = {} /\ run' = [run EXCEPT ![c] = "pending"]
            /\ pc' = [pc EXCEPT ![c] = "inserted"]
         \/ pc' = [pc EXCEPT ![c] = "conflict"] /\ run' = run
  BY DEF Insert, Goto
<1>2. /\ run[c] = "none"
      /\ \/ pc'[c] = "inserted" /\ run'[c] = "pending" /\ Named(ask[c]) = {}
         \/ pc'[c] = "conflict" /\ run'[c] = "none"
      /\ \A d \in Requests \ {c} : pc'[d] = pc[d] /\ run'[d] = run[d]
  BY <1>1 DEF IInv, Shape, TypeOK, Committed
<1>3. /\ \A d \in Requests : Committed(d)' <=> Committed(d)
      /\ \A d \in Requests : Space(d)' = Space(d)
  BY <1>1, <1>2 DEF Committed, Space
<1>4. \A d \in Requests : Named(ask[d])' = Named(ask[d])
  BY <1>1, <1>3 DEF Named
<1>5. TypeOK'
  BY <1>1 DEF IInv, TypeOK, Phases
<1>6. Shape'
  BY <1>1, <1>2, <1>3 DEF IInv, Shape
<1>7. LockIsHeld'
  BY <1>1, <1>2, <1>3 DEF IInv, LockIsHeld, Holds
<1>8. ReplyIsOwn' /\ KeyIsFree' /\ OneRunPerKey' /\ ReplayNeverRefused'
  BY <1>1, <1>2, <1>3, <1>4 DEF IInv, ReplyIsOwn, KeyIsFree, OneRunPerKey, ReplayNeverRefused
<1>9. FewAreActive' /\ CeilingsKept'
  BY <1>1, <1>2, <1>5, CeilingsStand DEF Active
<1> QED
  BY <1>5, <1>6, <1>7, <1>8, <1>9 DEF IInv

\* The end of a transaction takes its lock and nobody else's.
LEMMA ReleaseKeeps ==
  ASSUME TypeOK, Shape, LockIsHeld, NEW c \in Requests, Release(c), ask' = ask, pc'[c] = "ended",
         \A d \in Requests \ {c} : pc'[d] = pc[d] /\ reply'[d] = reply[d]
  PROVE  LockIsHeld' /\ lock' \in [Workspaces -> Requests \cup {None}]
<1>1. lock' = [s \in Workspaces |-> IF lock[s] = c THEN None ELSE lock[s]]
  BY DEF Release
<1>2. ~ Holds(c)'
  BY DEF Holds
<1>3. \A d \in Requests \ {c} : Holds(d)' => lock[Space(d)] = d /\ Space(d)' = Space(d)
  BY DEF Holds, LockIsHeld, Space
<1>4. ASSUME NEW d \in Requests \ {c}, Holds(d)' PROVE lock'[Space(d)] = d
  <2>1. Space(d) \in Workspaces
    BY <1>4, WorkspaceOfAssumption DEF Holds, Shape, Space, Question
  <2> QED
    BY <1>1, <1>3, <1>4, <2>1
<1> QED
  BY <1>1, <1>2, <1>3, <1>4 DEF LockIsHeld, TypeOK

\* Two requests of one workspace never rely on its lock at once.
LEMMA NobodyElseHolds ==
  ASSUME LockIsHeld, NEW c \in Requests, NEW d \in Requests, Holds(c), Holds(d),
         Space(c) = Space(d)
  PROVE  c = d
BY DEF LockIsHeld

LEMMA CommitRunKeeps ==
  ASSUME IInv, NEW c \in Requests, Commit(c), pc[c] = "inserted"
  PROVE  IInv'
<1>1. /\ run' = [run EXCEPT ![c] = "active"] /\ reply' = [reply EXCEPT ![c] = Reply("run", c)]
      /\ pc' = [pc EXCEPT ![c] = "ended"] /\ Release(c) /\ UNCHANGED <<ask, ceiling, quota>>
  BY DEF Commit, Goto
<1>2. /\ run[c] = "pending" /\ ask[c] \in Question /\ Named(ask[c]) = {} /\ Holds(c)
      /\ run'[c] = "active" /\ reply'[c] = Reply("run", c) /\ pc'[c] = "ended"
      /\ \A d \in Requests \ {c} : pc'[d] = pc[d] /\ run'[d] = run[d] /\ reply'[d] = reply[d]
  BY <1>1 DEF IInv, Shape, TypeOK, KeyIsFree, Holds
<1>3. Reply("run", c) # NoReply /\ Reply("run", c).kind = "run" /\ Reply("run", c).run = c
  BY DEF Reply, NoReply
<1>4. /\ ~ Committed(c) /\ Committed(c)'
      /\ \A d \in Requests \ {c} : Committed(d)' <=> Committed(d)
      /\ \A d \in Requests : Space(d)' = Space(d)
  BY <1>1, <1>2 DEF Committed, Space
<1>5. \A d \in Requests : Named(ask[d]) \subseteq Named(ask[d])'
  BY <1>1, <1>4 DEF Named
<1>6. \A d \in Requests \ {c} : Holds(d) => Space(d) # Space(c) /\ ask[d] # ask[c]
  BY <1>2, NobodyElseHolds DEF IInv, Space
<1>7. \A d \in Requests \ {c} : Holds(d) => Named(ask[d])' = Named(ask[d])
  BY <1>1, <1>4, <1>6 DEF Named
<1>8. LockIsHeld' /\ lock' \in [Workspaces -> Requests \cup {None}]
  BY <1>1, <1>2, ReleaseKeeps DEF IInv
<1>9. TypeOK'
  <2>1. Reply("run", c) \in [kind : {"none", "run", "refused", "failed"},
                             run : Requests \cup {None}]
    BY DEF Reply
  <2> QED
    BY <1>1, <1>8, <2>1 DEF IInv, TypeOK, Phases
<1>10. Shape'
  BY <1>1, <1>2, <1>3, <1>4 DEF IInv, Shape
<1>11. ReplyIsOwn'
  BY <1>2, <1>3, <1>4, <1>5 DEF IInv, ReplyIsOwn
<1>12. KeyIsFree'
  BY <1>2, <1>7 DEF IInv, KeyIsFree, Holds
<1>13. ReplayNeverRefused'
  BY <1>2, <1>7 DEF IInv, ReplayNeverRefused, Holds
<1>14. OneRunPerKey'
  <2>1. \A d \in Requests : Committed(d) /\ ask[d] = ask[c] => ask[c].key = None
    BY <1>2 DEF Named
  <2> QED
    BY <1>1, <1>4, <2>1 DEF IInv, OneRunPerKey
<1>15. FewAreActive'
  <2>1. Active' = Active \cup {c}
    BY <1>2 DEF Active
  <2> QED
    BY <2>1, FS_AddElement DEF IInv, FewAreActive
<1>16. CeilingsKept'
  <2>1. ASSUME NEW d \in Requests, pc'[d] \in {"admitted", "inserted"}
        PROVE  /\ pc[d] \in {"admitted", "inserted"} /\ ceiling'[d] = ceiling[d]
               /\ Running(d)' = Running(d) /\ RunningInSpace(d)' = RunningInSpace(d)
    <3>1. d # c /\ Holds(d)
      BY <1>2, <2>1 DEF Holds
    <3>2. Space(d) # Space(c) /\ ask[d].workflow # ask[c].workflow
      BY <1>6, <3>1 DEF Space
    <3> QED
      BY <1>1, <1>2, <2>1, <3>1, <3>2 DEF Running, RunningInSpace, Space
  <2> QED
    BY <2>1 DEF IInv, CeilingsKept
<1> QED
  BY <1>8, <1>9, <1>10, <1>11, <1>12, <1>13, <1>14, <1>15, <1>16 DEF IInv

\* A request ends with an answer and no row of its own: a commit of an answer that
\* is there, or a failure.
LEMMA EndKeeps ==
  ASSUME IInv, NEW c \in Requests, pc[c] \notin {"new", "ended"}, NEW r,
         \/ r = reply[c] /\ pc[c] = "answered"
         \/ r = Reply("failed", None),
         run' = [run EXCEPT ![c] = "none"], reply' = [reply EXCEPT ![c] = r],
         pc' = [pc EXCEPT ![c] = "ended"], Release(c), UNCHANGED <<ask, ceiling, quota>>
  PROVE  IInv'
<1>1. /\ ~ Committed(c) /\ ask[c] \in Question
      /\ run'[c] = "none" /\ reply'[c] = r /\ pc'[c] = "ended"
      /\ \A d \in Requests \ {c} : pc'[d] = pc[d] /\ run'[d] = run[d] /\ reply'[d] = reply[d]
  BY DEF IInv, Shape, TypeOK
<1>2. \A d \in Requests : Committed(d)' <=> Committed(d)
  BY <1>1 DEF Committed
<1>3. \A d \in Requests : Named(ask[d])' = Named(ask[d])
  BY <1>2 DEF Named
<1>4. LockIsHeld' /\ lock' \in [Workspaces -> Requests \cup {None}]
  BY <1>1, ReleaseKeeps DEF IInv
<1>5. Reply("failed", None).kind = "failed" /\ NoReply.kind = "none"
  BY DEF Reply, NoReply
<1>6. TypeOK'
  <2>1. r \in [kind : {"none", "run", "refused", "failed"}, run : Requests \cup {None}]
    BY DEF IInv, TypeOK, Reply
  <2> QED
    BY <1>4, <2>1 DEF IInv, TypeOK, Phases
<1>7. Shape'
  <2>1. r # NoReply /\ (r.kind # "run" => r = Reply(r.kind, None))
    BY <1>5 DEF IInv, Shape
  <2> QED
    BY <1>1, <1>2, <2>1 DEF IInv, Shape
<1>8. ReplyIsOwn'
  BY <1>1, <1>2, <1>3, <1>5 DEF IInv, ReplyIsOwn
<1>9. KeyIsFree' /\ OneRunPerKey' /\ ReplayNeverRefused'
  <2>1. KeyIsFree'
    BY <1>1, <1>3 DEF IInv, KeyIsFree
  <2>2. OneRunPerKey'
    BY <1>2 DEF IInv, OneRunPerKey
  <2>3. ReplayNeverRefused'
    BY <1>1, <1>3 DEF IInv, ReplayNeverRefused
  <2> QED
    BY <2>1, <2>2, <2>3
<1>10. FewAreActive' /\ CeilingsKept'
  BY <1>1, <1>6, CeilingsStand DEF Active
<1> QED
  BY <1>4, <1>6, <1>7, <1>8, <1>9, <1>10 DEF IInv

LEMMA CommitKeeps ==
  ASSUME IInv, NEW c \in Requests, Commit(c)
  PROVE  IInv'
<1>1. CASE pc[c] = "inserted"
  BY <1>1, CommitRunKeeps
<1>2. CASE pc[c] = "answered"
  <2>1. /\ run[c] = "none" /\ run' = run /\ reply' = reply
        /\ pc' = [pc EXCEPT ![c] = "ended"] /\ Release(c) /\ UNCHANGED <<ask, ceiling, quota>>
    BY <1>2 DEF Commit, Goto, IInv, Shape, TypeOK, Committed
  <2>2. run' = [run EXCEPT ![c] = "none"] /\ reply' = [reply EXCEPT ![c] = reply[c]]
    BY <2>1 DEF IInv, TypeOK
  <2> QED
    BY <1>2, <2>1, <2>2, EndKeeps
<1> QED
  BY <1>1, <1>2 DEF Commit

LEMMA FailKeeps ==
  ASSUME IInv, NEW c \in Requests, Fail(c)
  PROVE  IInv'
BY EndKeeps DEF Fail, Goto

LEMMA EndRunKeeps ==
  ASSUME IInv, NEW c \in Requests, EndRun(c)
  PROVE  IInv'
<1>1. /\ run[c] = "active" /\ run' = [run EXCEPT ![c] = "ended"]
      /\ UNCHANGED <<ask, pc, ceiling, lock, quota, reply>>
  BY DEF EndRun
<1>2. run'[c] = "ended" /\ \A d \in Requests \ {c} : run'[d] = run[d]
  BY <1>1 DEF IInv, TypeOK
<1>3. \A d \in Requests : (Committed(d)' <=> Committed(d)) /\ Space(d)' = Space(d)
  BY <1>1, <1>2 DEF Committed, Space
<1>4. \A d \in Requests : Named(ask[d])' = Named(ask[d])
  BY <1>1, <1>3 DEF Named
<1>5. TypeOK'
  BY <1>1 DEF IInv, TypeOK
<1>6. Shape' /\ LockIsHeld'
  BY <1>1, <1>2, <1>3 DEF IInv, Shape, LockIsHeld, Holds
<1>7. ReplyIsOwn' /\ KeyIsFree' /\ OneRunPerKey' /\ ReplayNeverRefused'
  BY <1>1, <1>3, <1>4 DEF IInv, ReplyIsOwn, KeyIsFree, OneRunPerKey, ReplayNeverRefused
<1>8. FewAreActive' /\ CeilingsKept'
  BY <1>1, <1>2, <1>5, CeilingsStand DEF Active
<1> QED
  BY <1>5, <1>6, <1>7, <1>8 DEF IInv

\* SetQuota, and a step of something else.
LEMMA QuotaKeeps ==
  ASSUME IInv, UNCHANGED <<ask, pc, ceiling, run, lock, reply>>,
         quota' \in [Workspaces -> Quotas]
  PROVE  IInv'
<1>1. TypeOK'
  BY DEF IInv, TypeOK
<1>2. Shape' /\ LockIsHeld' /\ FewAreActive'
  BY DEF IInv, Shape, LockIsHeld, Holds, Space, FewAreActive, Active, Committed
<1>3. ReplyIsOwn' /\ KeyIsFree' /\ OneRunPerKey' /\ ReplayNeverRefused'
  BY DEF IInv, ReplyIsOwn, KeyIsFree, OneRunPerKey, ReplayNeverRefused, Named, Committed
<1>4. CeilingsKept'
  BY DEF IInv, CeilingsKept, Running, RunningInSpace, Space
<1> QED
  BY <1>1, <1>2, <1>3, <1>4 DEF IInv

LEMMA Invariance == Spec => []IInv
<1>1. IInv /\ [Next]_vars => IInv'
  <2> SUFFICES ASSUME IInv, [Next]_vars PROVE IInv'
    OBVIOUS
  <2>1. CASE UNCHANGED vars
    BY <2>1, QuotaKeeps DEF vars, IInv, TypeOK
  <2>2. ASSUME NEW s \in Workspaces, SetQuota(s)
        PROVE  IInv'
    BY <2>2, QuotaKeeps DEF SetQuota, IInv, TypeOK
  <2>3. ASSUME NEW c \in Requests, SecondLookup(c) \/ ReadWinner(c)
        PROVE  IInv'
    BY <2>3, AnswerKeeps DEF SecondLookup, ReadWinner
  <2>4. ASSUME NEW c \in Requests, Begin(c) \/ Lock(c) \/ Check(c) \/ Insert(c)
        PROVE  IInv'
    BY <2>4, BeginKeeps, LockKeeps, CheckKeeps, InsertKeeps
  <2>5. ASSUME NEW c \in Requests, Commit(c) \/ Fail(c) \/ EndRun(c)
        PROVE  IInv'
    BY <2>5, CommitKeeps, FailKeeps, EndRunKeeps
  <2> QED
    BY <2>1, <2>2, <2>3, <2>4, <2>5 DEF Next, Proceed
<1> QED
  BY <1>1, InitHolds, PTL DEF Spec

\* The state keeps its types; a ceiling is a number even where no quota is set.
THEOREM TypesHold == Spec => []TypeOK
BY Invariance, PTL DEF IInv

\* Under any interleaving of requests, ends of runs, changes of a quota and
\* failures, a run let in is within the limits it was checked against until it is
\* visible: _check_concurrency's counts stand because the lock keeps others out.
THEOREM CeilingsAreKept == Spec => []CeilingsKept
BY Invariance, PTL DEF IInv

\* A refusal for concurrency is never sent while the run the caller should have
\* been given exists: the second lookup is read under the lock, and no run of that
\* workspace becomes visible before the refusal's transaction ends.
THEOREM ReplaysAreNeverRefused == Spec => []ReplayNeverRefused
BY Invariance, PTL DEF IInv

----------------------------------------------------------------------------
(* What callers can see behaves as RunQueue. *)

Seen == [c \in Requests |-> IF Committed(c) THEN run[c] ELSE "none"]
Told == [c \in Requests |-> IF pc[c] = "ended" THEN reply[c] ELSE NoReply]

\* A step inside a transaction shows nothing.
LEMMA Inside ==
  ASSUME \A d \in Requests :
           /\ Committed(d)' <=> Committed(d)
           /\ Committed(d) => run'[d] = run[d]
           /\ pc'[d] = "ended" <=> pc[d] = "ended"
           /\ pc[d] = "ended" => reply'[d] = reply[d]
  PROVE  Seen' = Seen /\ Told' = Told
BY DEF Seen, Told

LEMMA QueueInit ==
  ASSUME Init
  PROVE  Queue!Init
BY DEF Init, Queue!Init, Committed, NoReply, Reply, Queue!NoReply

LEMMA BeginAsks ==
  ASSUME IInv, NEW c \in Requests, Begin(c)
  PROVE  Queue!Ask(c)
<1>1. PICK q \in Question :
        /\ ask' = [ask EXCEPT ![c] = q]
        /\ \/ pc' = [pc EXCEPT ![c] = "waiting"] /\ reply' = reply
           \/ \E d \in Named(q) : /\ pc' = [pc EXCEPT ![c] = "answered"]
                                  /\ reply' = [reply EXCEPT ![c] = Reply("run", d)]
  BY DEF Begin, Goto, Answer
<1>2. pc[c] = "new" /\ ask[c] = None /\ run' = run
  BY DEF Begin, IInv, Shape
<1>3. \A d \in Requests :
        /\ pc'[d] = "ended" <=> pc[d] = "ended"
        /\ pc[d] = "ended" => reply'[d] = reply[d]
  BY <1>1, <1>2 DEF IInv, TypeOK
<1>4. Seen' = Seen /\ Told' = Told
  BY <1>2, <1>3, Inside DEF Committed
<1>5. q \in Queue!Question
  BY DEF Question, Queue!Question
<1> QED
  BY <1>1, <1>2, <1>4, <1>5 DEF Queue!Ask, Seen, Told

\* Steps of a transaction that is still open.
LEMMA OpenSteps ==
  ASSUME IInv, NEW c \in Requests, Lock(c) \/ Check(c) \/ SecondLookup(c) \/ Insert(c) \/ ReadWinner(c)
  PROVE  Seen' = Seen /\ Told' = Told /\ ask' = ask
<1>1. /\ pc[c] \notin {"new", "answered", "ended"} /\ ask' = ask
      /\ \E phase \in Phases \ {"ended"} : pc' = [pc EXCEPT ![c] = phase]
  BY DEF Lock, Check, SecondLookup, Insert, ReadWinner, Goto, Answer, Phases
<1>2. \A d \in Requests \ {c} : pc'[d] = pc[d] /\ reply'[d] = reply[d] /\ run'[d] = run[d]
  BY DEF Lock, Check, SecondLookup, Insert, ReadWinner, Goto, Answer, IInv, TypeOK
<1>3. run[c] = "none" \/ run[c] = "pending"
  BY <1>1 DEF IInv, Shape, TypeOK, Committed
<1>4. run'[c] = run[c] \/ run'[c] = "pending"
  BY DEF Lock, Check, SecondLookup, Insert, ReadWinner, IInv, TypeOK
<1>5. pc[c] # "ended" /\ pc'[c] # "ended"
  BY <1>1 DEF IInv, TypeOK
<1> QED
  BY <1>1, <1>2, <1>3, <1>4, <1>5, Inside DEF Committed

\* The view of a request that ends: its own entries change and no others.
LEMMA Ends ==
  ASSUME IInv, NEW c \in Requests, NEW r,
         pc' = [pc EXCEPT ![c] = "ended"], reply' = [reply EXCEPT ![c] = r],
         ask' = ask, \A d \in Requests \ {c} : run'[d] = run[d]
  PROVE  /\ Told' = [Told EXCEPT ![c] = r]
         /\ Seen' = [Seen EXCEPT ![c] = IF Committed(c)' THEN run'[c] ELSE "none"]
<1>1. /\ pc'[c] = "ended" /\ reply'[c] = r
      /\ \A d \in Requests \ {c} : pc'[d] = pc[d] /\ reply'[d] = reply[d]
  BY DEF IInv, TypeOK
<1>2. \A d \in Requests \ {c} : Committed(d)' <=> Committed(d)
  BY DEF Committed
<1> QED
  BY <1>1, <1>2 DEF Told, Seen

\* What RunQueue sees of a request that has not ended.
LEMMA OpenRequest ==
  ASSUME IInv, NEW c \in Requests, pc[c] \notin {"new", "ended"}
  PROVE  /\ Seen[c] = "none" /\ Told[c] = NoReply /\ ask[c] # None
         /\ {d \in Requests : Seen[d] # "none" /\ ask[d] = ask[c] /\ ask[c].key # None}
              = Named(ask[c])
         /\ {d \in Requests : Seen[d] = "active" /\ ask[d].workflow = ask[c].workflow}
              = Running(c)
<1>1. ~ Committed(c) /\ ask[c] # None
  BY NoneAssumption DEF IInv, Shape, Question
<1>2. \A d \in Requests : Seen[d] = IF Committed(d) THEN run[d] ELSE "none"
  BY DEF Seen
<1>3. \A d \in Requests : (Seen[d] # "none" <=> Committed(d)) /\ (Seen[d] = "active" <=> run[d] = "active")
  BY <1>2 DEF Committed
<1> QED
  BY <1>1, <1>2, <1>3 DEF Told, Named, Running

LEMMA CommitAnswers ==
  ASSUME IInv, NEW c \in Requests, Commit(c)
  PROVE  Queue!Create(c) \/ Queue!Replay(c) \/ Queue!Refuse(c) \/ Queue!Fail(c)
<1>1. pc[c] \in {"inserted", "answered"} /\ ask' = ask
  BY DEF Commit
<1>2. /\ Seen[c] = "none" /\ Told[c] = NoReply /\ ask[c] # None
      /\ {d \in Requests : Seen[d] # "none" /\ ask[d] = ask[c] /\ ask[c].key # None}
              = Named(ask[c])
      /\ {d \in Requests : Seen[d] = "active" /\ ask[d].workflow = ask[c].workflow}
              = Running(c)
  BY <1>1, OpenRequest
<1>3. Queue!Waiting(c)
  BY <1>2 DEF Queue!Waiting, Told, NoReply, Reply, Queue!NoReply
<1>4. Queue!Named(c) = Named(ask[c]) /\ Queue!Overlapping(c) = Running(c)
  BY <1>2 DEF Queue!Named, Queue!Overlapping, Seen
<1>5. CASE pc[c] = "inserted"
  <2>1. /\ pc' = [pc EXCEPT ![c] = "ended"] /\ reply' = [reply EXCEPT ![c] = Reply("run", c)]
        /\ run' = [run EXCEPT ![c] = "active"]
    BY <1>5 DEF Commit, Goto
  <2>2. run'[c] = "active" /\ Committed(c)' /\ \A d \in Requests \ {c} : run'[d] = run[d]
    BY <2>1 DEF IInv, TypeOK, Committed
  <2>3. Told' = [Told EXCEPT ![c] = Reply("run", c)] /\ Seen' = [Seen EXCEPT ![c] = "active"]
    BY <1>1, <2>1, <2>2, Ends
  <2>4. Named(ask[c]) = {} /\ Cardinality(Running(c)) < MaxPerWorkflow
    BY <1>5 DEF IInv, KeyIsFree, CeilingsKept
  <2>5. Queue!Named(c) = {} /\ Cardinality(Queue!Overlapping(c)) < MaxPerWorkflow
    BY <1>4, <2>4
  <2>6. Queue!Reply("run", c) = Reply("run", c)
    BY DEF Reply, Queue!Reply
  <2>7. Queue!Create(c)
    <3>1. Seen[c] = "none"
      BY <1>2
    <3>2. ask' = ask
      BY <1>1
    <3>3. Queue!Cardinality(Queue!Overlapping(c)) < MaxPerWorkflow
      BY <2>5 DEF Queue!Cardinality, Cardinality
    <3> QED
      BY <1>3, <2>3, <2>5, <2>6, <3>1, <3>2, <3>3 DEF Queue!Create, Seen, Told
  <2> QED
    BY <2>7
<1>6. CASE pc[c] = "answered"
  <2>1. /\ pc' = [pc EXCEPT ![c] = "ended"] /\ reply' = reply /\ run' = run
    BY <1>6 DEF Commit, Goto
  <2>2. reply' = [reply EXCEPT ![c] = reply[c]] /\ ~ Committed(c)'
    BY <1>6, <2>1 DEF IInv, TypeOK, Shape, Committed
  <2>3. Told' = [Told EXCEPT ![c] = reply[c]] /\ Seen' = [Seen EXCEPT ![c] = "none"]
    BY <1>1, <2>1, <2>2, Ends
  <2>4. Seen' = Seen
    BY <1>2, <2>3 DEF Seen
  <2>5. reply[c].kind \in {"run", "refused", "failed"}
    <3>1. reply[c] # NoReply /\ (reply[c].kind # "run" => reply[c] = Reply(reply[c].kind, None))
      BY <1>6 DEF IInv, Shape
    <3>2. reply[c].kind \in {"none", "run", "refused", "failed"}
      BY DEF IInv, TypeOK
    <3> QED
      BY <3>1, <3>2 DEF NoReply
  <2>6. CASE reply[c].kind = "run"
    <3>1. reply[c].run \in Named(ask[c])
      BY <1>6, <2>6 DEF IInv, ReplyIsOwn, Shape
    <3>2. reply[c] = Reply("run", reply[c].run)
      BY <2>6 DEF IInv, TypeOK, Reply
    <3>3. Queue!Replay(c)
      BY <1>1, <1>3, <1>4, <2>3, <2>4, <3>1, <3>2
      DEF Queue!Replay, Seen, Told, Reply, Queue!Reply
    <3> QED
      BY <3>3
  <2>7. CASE reply[c].kind = "refused"
    <3>1. Named(ask[c]) = {} /\ reply[c] = Reply("refused", None)
      BY <1>6, <2>7 DEF IInv, ReplayNeverRefused, Shape
    <3>2. Queue!Refuse(c)
      BY <1>1, <1>3, <1>4, <2>3, <2>4, <3>1
      DEF Queue!Refuse, Seen, Told, Reply, Queue!Reply
    <3> QED
      BY <3>2
  <2>8. CASE reply[c].kind = "failed"
    <3>1. reply[c] = Reply("failed", None)
      BY <2>8 DEF IInv, Shape
    <3>2. Queue!Fail(c)
      BY <1>1, <1>3, <2>3, <2>4, <3>1
      DEF Queue!Fail, Seen, Told, Reply, Queue!Reply
    <3> QED
      BY <3>2
  <2> QED
    BY <2>5, <2>6, <2>7, <2>8
<1> QED
  BY <1>1, <1>5, <1>6

LEMMA FailFails ==
  ASSUME IInv, NEW c \in Requests, Fail(c)
  PROVE  Queue!Fail(c)
<1>1. /\ pc[c] \notin {"new", "ended"} /\ pc' = [pc EXCEPT ![c] = "ended"] /\ ask' = ask
      /\ reply' = [reply EXCEPT ![c] = Reply("failed", None)]
      /\ run' = [run EXCEPT ![c] = "none"]
  BY DEF Fail, Goto
<1>2. ~ Committed(c)' /\ \A d \in Requests \ {c} : run'[d] = run[d]
  BY <1>1 DEF IInv, TypeOK, Committed
<1>3. Seen[c] = "none" /\ Told[c] = NoReply /\ ask[c] # None
  BY <1>1, OpenRequest
<1>4. Told' = [Told EXCEPT ![c] = Reply("failed", None)] /\ Seen' = [Seen EXCEPT ![c] = "none"]
  BY <1>1, <1>2, Ends
<1>5. Seen' = Seen
  BY <1>3, <1>4 DEF Seen
<1>6. Queue!Waiting(c)
  BY <1>3 DEF Queue!Waiting, Told, NoReply, Reply, Queue!NoReply
<1> QED
  BY <1>1, <1>4, <1>5, <1>6 DEF Queue!Fail, Seen, Told, Reply, Queue!Reply

LEMMA EndRunEnds ==
  ASSUME IInv, NEW d \in Requests, EndRun(d)
  PROVE  Queue!End(d)
<1>1. /\ run[d] = "active" /\ run' = [run EXCEPT ![d] = "ended"]
      /\ ask' = ask /\ pc' = pc /\ reply' = reply
  BY DEF EndRun
<1>2. Seen[d] = "active" /\ Told' = Told
  BY <1>1 DEF Seen, Told, Committed
<1>3. Seen' = [Seen EXCEPT ![d] = "ended"]
  BY <1>1 DEF Seen, Committed, IInv, TypeOK
<1> QED
  BY <1>1, <1>2, <1>3 DEF Queue!End, Seen, Told

\* Whatever other requests, ends of runs, quota changes and rollbacks happen in
\* between, create answers each request as if it had been handled at one instant,
\* when its transaction ends: what callers see is a behaviour of RunQueue.
THEOREM AtomicForCallers == Spec => ImplementsRunQueue
<1>1. IInv /\ [Next]_vars => [Queue!Next]_(Queue!queue)
  <2> SUFFICES ASSUME IInv, [Next]_vars PROVE [Queue!Next]_(Queue!queue)
    OBVIOUS
  <2>1. ASSUME ask' = ask, Seen' = Seen, Told' = Told
        PROVE  UNCHANGED Queue!queue
    BY <2>1 DEF Queue!queue, Seen, Told
  <2>2. CASE UNCHANGED vars
    <3>1. ask' = ask /\ Seen' = Seen /\ Told' = Told
      BY <2>2, Inside DEF vars, Committed
    <3> QED
      BY <2>1, <3>1
  <2>3. ASSUME NEW s \in Workspaces, SetQuota(s)
        PROVE  UNCHANGED Queue!queue
    <3>1. ask' = ask /\ Seen' = Seen /\ Told' = Told
      BY <2>3, Inside DEF SetQuota, Committed
    <3> QED
      BY <2>1, <3>1
  <2>4. ASSUME NEW c \in Requests,
               Lock(c) \/ Check(c) \/ SecondLookup(c) \/ Insert(c) \/ ReadWinner(c)
        PROVE  UNCHANGED Queue!queue
    BY <2>1, <2>4, OpenSteps
  <2>5. ASSUME NEW c \in Requests, Begin(c) \/ Commit(c) \/ Fail(c) \/ EndRun(c)
        PROVE  Queue!Next
    BY <2>5, BeginAsks, CommitAnswers, FailFails, EndRunEnds DEF Queue!Next
  <2> QED
    BY <2>2, <2>3, <2>4, <2>5 DEF Next, Proceed
<1> QED
  BY <1>1, QueueInit, Invariance, PTL DEF Spec, ImplementsRunQueue, Queue!Spec

\* Same key, same answer (SRS 27.4): no two requests with one key of one workflow
\* are ever given different runs, however create's steps interleave.
THEOREM OneAnswerPerKey == Spec => []Queue!SameKeySameAnswer
<1>1. IInv => Queue!SameKeySameAnswer
  <2> SUFFICES ASSUME IInv, NEW c \in Requests, NEW d \in Requests,
                      Told[c].kind = "run", Told[d].kind = "run",
                      ask[c] = ask[d], ask[c].key # None
               PROVE  Told[c].run = Told[d].run
    BY DEF Queue!SameKeySameAnswer, Told
  <2>1. \A e \in {c, d} : Told[e] = reply[e]
    BY DEF Told, NoReply, Reply
  <2>2. \A e \in {c, d} : /\ reply[e].run \in Requests /\ Committed(reply[e].run)
                          /\ ask[reply[e].run] = ask[c]
    BY <2>1 DEF IInv, ReplyIsOwn, Named
  <2> QED
    BY <2>1, <2>2 DEF IInv, OneRunPerKey
<1> QED
  BY <1>1, Invariance, PTL

----------------------------------------------------------------------------
(* Nobody waits for ever: what a proof can say of EveryRequestAnswered.     *)

\* A step of the request that its guard lets it take.
CanGoOn(c) ==
  \/ pc[c] \in {"locked", "refused", "inserted", "answered"}
  \/ /\ pc[c] = "admitted"
     /\ ~ \E d \in Requests : run[d] = "pending" /\ ask[d] = ask[c] /\ ask[c].key # None
  \/ pc[c] = "conflict" /\ Named(ask[c]) # {}

\* A lock has a holder that has begun and not ended, in that workspace.
LocksAreHeld ==
  \A s \in Workspaces : lock[s] # None =>
    pc[lock[s]] \notin {"new", "waiting", "ended"} /\ Space(lock[s]) = s

\* The row that was in the way of an insert is still there to be read.
WinnerIsThere == \A c \in Requests : pc[c] = "conflict" => Named(ask[c]) # {}

\* Rows that are visible stay so.
LEMMA NamedGrows ==
  ASSUME IInv, [Next]_vars, NEW c \in Requests, pc[c] # "new"
  PROVE  ask'[c] = ask[c] /\ Named(ask[c]) \subseteq Named(ask[c])'
<1>1. \A d \in Requests : /\ pc[d] # "new" => ask'[d] = ask[d]
                          /\ Committed(d) => Committed(d)'
  <2>1. ASSUME NEW b \in Requests, Begin(b)
        PROVE  \A d \in Requests : /\ pc[d] # "new" => ask'[d] = ask[d]
                                   /\ Committed(d) => Committed(d)'
    BY <2>1 DEF Begin, Committed, IInv, TypeOK
  <2>2. ASSUME NEW b \in Requests, Commit(b) \/ Fail(b) \/ EndRun(b) \/ Insert(b)
        PROVE  \A d \in Requests : ask'[d] = ask[d] /\ (Committed(d) => Committed(d)')
    <3>1. Committed(b) => pc[b] = "ended"
      BY DEF IInv, Shape
    <3>2. run \in [Requests -> {"none", "pending", "active", "ended"}]
      BY DEF IInv, TypeOK
    <3>3. \A d \in Requests \ {b} : run'[d] = run[d]
      BY <2>2, <3>2 DEF Commit, Fail, EndRun, Insert
    <3>4. Committed(b) => Committed(b)'
      BY <2>2, <3>1, <3>2 DEF Commit, Fail, EndRun, Insert, Committed
    <3> QED
      BY <2>2, <3>3, <3>4 DEF Commit, Fail, EndRun, Insert, Committed
  <2>3. ASSUME NEW b \in Requests, Lock(b) \/ Check(b) \/ SecondLookup(b) \/ ReadWinner(b)
        PROVE  UNCHANGED <<ask, run>>
    BY <2>3 DEF Lock, Check, SecondLookup, ReadWinner
  <2>4. ASSUME (\E s \in Workspaces : SetQuota(s)) \/ UNCHANGED vars
        PROVE  UNCHANGED <<ask, run>>
    BY <2>4 DEF SetQuota, vars
  <2> QED
    BY <2>1, <2>2, <2>3, <2>4 DEF Next, Proceed, Committed
<1>2. \A d \in Requests : Committed(d) => pc[d] # "new"
  BY DEF IInv, Shape
<1> QED
  BY <1>1, <1>2 DEF Named

LEMMA WinnersStay ==
  ASSUME IInv, [Next]_vars, WinnerIsThere
  PROVE  WinnerIsThere'
<1> SUFFICES ASSUME NEW c \in Requests, pc'[c] = "conflict"
             PROVE  Named(ask[c])' # {}
  BY DEF WinnerIsThere
<1>1. pc[c] = "conflict" \/ (pc[c] = "admitted" /\ Named(ask[c]) # {})
  <2>1. pc \in [Requests -> Phases]
    BY DEF IInv, TypeOK
  <2>2. ASSUME NEW b \in Requests, Insert(b)
        PROVE  pc[c] = "conflict" \/ (pc[c] = "admitted" /\ Named(ask[c]) # {})
    BY <2>1, <2>2 DEF Insert, Goto
  <2>3. ASSUME NEW b \in Requests,
               Begin(b) \/ Lock(b) \/ Check(b) \/ SecondLookup(b) \/ ReadWinner(b)
        PROVE  pc[c] = "conflict"
    BY <2>1, <2>3 DEF Begin, Lock, Check, SecondLookup, ReadWinner, Goto, Answer
  <2>4. ASSUME NEW b \in Requests, Commit(b) \/ Fail(b) \/ EndRun(b)
        PROVE  pc[c] = "conflict"
    BY <2>1, <2>4 DEF Commit, Fail, EndRun, Goto
  <2>5. ASSUME (\E s \in Workspaces : SetQuota(s)) \/ UNCHANGED vars
        PROVE  pc[c] = "conflict"
    BY <2>5 DEF SetQuota, vars
  <2> QED
    BY <2>2, <2>3, <2>4, <2>5 DEF Next, Proceed
<1>2. pc[c] # "new" /\ Named(ask[c]) # {}
  BY <1>1 DEF WinnerIsThere
<1> QED
  BY <1>2, NamedGrows

LEMMA LocksStay ==
  ASSUME IInv, [Next]_vars, LocksAreHeld
  PROVE  LocksAreHeld'
<1> SUFFICES ASSUME NEW s \in Workspaces, lock'[s] # None
             PROVE  /\ pc'[lock'[s]] \notin {"new", "waiting", "ended"}
                    /\ WorkspaceOf[ask'[lock'[s]].workflow] = s
  BY DEF LocksAreHeld, Space
<1> DEFINE Held == /\ pc'[lock'[s]] \notin {"new", "waiting", "ended"}
                   /\ WorkspaceOf[ask'[lock'[s]].workflow] = s
<1>1. pc \in [Requests -> Phases] /\ lock \in [Workspaces -> Requests \cup {None}]
      /\ ask \in [Requests -> Question \cup {None}]
  BY DEF IInv, TypeOK
<1>2. lock[s] # None => /\ lock[s] \in Requests /\ Space(lock[s]) = s
                        /\ pc[lock[s]] \notin {"new", "waiting", "ended"}
  BY <1>1 DEF LocksAreHeld
<1>3. ASSUME lock'[s] = lock[s], ask'[lock[s]] = ask[lock[s]],
             pc'[lock[s]] \notin {"new", "waiting", "ended"}
      PROVE  Held
  BY <1>2, <1>3 DEF Space
<1>4. ASSUME NEW b \in Requests, Begin(b) PROVE Held
  <2>1. lock'[s] = lock[s] /\ lock[s] # b
    BY <1>2, <1>4 DEF Begin
  <2>2. ask'[lock[s]] = ask[lock[s]] /\ pc'[lock[s]] = pc[lock[s]]
    BY <1>1, <1>2, <1>4, <2>1 DEF Begin, Goto, Answer
  <2> QED
    BY <1>2, <1>3, <2>1, <2>2
<1>5. ASSUME NEW b \in Requests, Lock(b) PROVE Held
  <2>1. CASE s = Space(b)
    <3>1. lock'[s] = b /\ pc'[b] = "locked" /\ ask' = ask
      BY <1>1, <1>5, <2>1 DEF Lock, Goto
    <3> QED
      BY <2>1, <3>1 DEF Space
  <2>2. CASE s # Space(b)
    <3>1. lock'[s] = lock[s] /\ ask' = ask /\ pc[b] = "waiting"
      BY <1>1, <1>5, <2>2 DEF Lock
    <3>2. pc'[lock[s]] = pc[lock[s]]
      BY <1>1, <1>2, <1>5, <3>1 DEF Lock, Goto
    <3> QED
      BY <1>2, <1>3, <3>1, <3>2
  <2> QED
    BY <2>1, <2>2
<1>6. ASSUME NEW b \in Requests, Check(b) \/ SecondLookup(b) \/ Insert(b) \/ ReadWinner(b)
      PROVE  Held
  <2>1. lock' = lock /\ ask' = ask
    BY <1>6 DEF Check, SecondLookup, Insert, ReadWinner
  <2>2. \A d \in Requests :
          \/ pc'[d] = pc[d]
          \/ pc'[d] \in {"admitted", "refused", "answered", "inserted", "conflict"}
    BY <1>1, <1>6 DEF Check, SecondLookup, Insert, ReadWinner, Goto, Answer
  <2> QED
    BY <1>2, <1>3, <2>1, <2>2
<1>7. ASSUME NEW b \in Requests, Commit(b) \/ Fail(b) PROVE Held
  <2>1. lock' = [t \in Workspaces |-> IF lock[t] = b THEN None ELSE lock[t]] /\ ask' = ask
    BY <1>7 DEF Commit, Fail, Release
  <2>2. lock'[s] = lock[s] /\ lock[s] # b
    BY <2>1
  <2>3. pc'[lock[s]] = pc[lock[s]]
    BY <1>1, <1>2, <1>7, <2>2 DEF Commit, Fail, Goto
  <2> QED
    BY <1>2, <1>3, <2>1, <2>2, <2>3
<1>8. ASSUME (\E t \in Workspaces : SetQuota(t)) \/ (\E b \in Requests : EndRun(b)) \/ UNCHANGED vars
      PROVE  Held
  BY <1>2, <1>3, <1>8 DEF SetQuota, EndRun, vars
<1> QED
  BY <1>4, <1>5, <1>6, <1>7, <1>8 DEF Next, Proceed

\* Whoever holds a workspace's lock can take its next step: it finds the row that was in
\* the way of its insert, and it never waits at the unique index for another request's
\* row, which would need the lock it holds.  So no request waits for one that waits (the
\* safety half of EveryRequestAnswered).
THEOREM HolderGoesOn == Spec => [](\A s \in Workspaces : lock[s] # None => CanGoOn(lock[s]))
<1> DEFINE Turn == LocksAreHeld /\ WinnerIsThere
<1>1. Init => Turn
  BY DEF Init, LocksAreHeld, WinnerIsThere
<1>2. IInv /\ [Next]_vars /\ Turn => Turn'
  BY LocksStay, WinnersStay
<1>3. IInv /\ Turn => \A s \in Workspaces : lock[s] # None => CanGoOn(lock[s])
  <2> SUFFICES ASSUME IInv, Turn, NEW s \in Workspaces, lock[s] # None
               PROVE  CanGoOn(lock[s])
    OBVIOUS
  <2>1. PICK c \in Requests : c = lock[s]
    BY DEF IInv, TypeOK
  <2>2. pc[c] \in Phases \ {"new", "waiting", "ended"} /\ Space(c) = s
    BY <2>1 DEF LocksAreHeld, IInv, TypeOK
  <2>3. ASSUME pc[c] = "admitted", NEW d \in Requests, run[d] = "pending", ask[d] = ask[c]
        PROVE  FALSE
    <3>1. pc[d] = "inserted" /\ Space(d) = s
      BY <2>2, <2>3 DEF IInv, Shape, Space
    <3>2. lock[s] = d
      BY <3>1 DEF IInv, LockIsHeld, Holds
    <3> QED
      BY <2>1, <2>3, <3>1, <3>2
  <2> QED
    BY <2>1, <2>2, <2>3 DEF CanGoOn, WinnerIsThere, Phases
<1> QED
  BY <1>1, <1>2, <1>3, Invariance, PTL DEF Spec
=============================================================================
