------------------------ MODULE WorkflowStoreProofs ------------------------
(***************************************************************************)
(* Theorems about WorkflowStore for any number of requests, graphs and     *)
(* versions, whatever trigger each graph declares.                         *)
(***************************************************************************)
EXTENDS WorkflowStore, TLAPS

----------------------------------------------------------------------------
(* The inductive invariant: the four properties, and what may be relied on *)
(* in the copies a request holds while others commit.                      *)

BindingNamesVersion ==
  /\ binding.version \in Numbers \cup {0}
  /\ binding.enabled => binding.version # 0

RowsAgree ==
  /\ binding.version = workflow.active
  /\ ~workflow.deleted => (binding.enabled <=> workflow.status = "ACTIVE")
  /\ workflow.status = "DELETED" => workflow.deleted

\* A copy is of a moment not after now: versions have only been added since, and the
\* binding never goes back to naming none.
CopyIsPast(copy) ==
  /\ copy.workflow.published <= workflow.published
  /\ copy.binding.version \in Numbers \cup {0}
  /\ copy.binding.version # 0 => binding.version # 0
  /\ copy.binding.enabled => copy.binding.version # 0

\* A number given out is free, or taken by whoever inserted first.
NumberIsNext(copy) ==
  copy.stage = "numbered" =>
    copy.number \in 1 .. workflow.published + 1 /\ copy.draft.graph \in Valid

\* A copy taken in one moment is as coherent as the rows were.
CopyIsWhole(copy) ==
  /\ copy.stage \in {"ready", "numbered", "deleting"}
  /\ ~copy.workflow.deleted /\ copy.workflow.status # "DELETED"
  /\ copy.binding.version = copy.workflow.active
  /\ copy.binding.enabled <=> copy.workflow.status = "ACTIVE"

Copies == \A r \in Requests : request[r] # Idle => CopyIsPast(request[r])
NumbersAreNext == \A r \in Requests : request[r] # Idle => NumberIsNext(request[r])
WholeCopies == \A r \in Requests : request[r] # Idle => CopyIsWhole(request[r])

IInv ==
  /\ TypeOK
  /\ VersionsInOrder
  /\ PublishedIsValid
  /\ BindingNamesVersion
  /\ Copies
  /\ NumbersAreNext
  /\ ~torn => RowsAgree /\ WholeCopies

----------------------------------------------------------------------------
(* What an UPDATE leaves of each row, column by column.                    *)

LEMMA FlushedWorkflow ==
  ASSUME NEW row \in WorkflowRows, NEW copy \in WorkflowRows, NEW object \in WorkflowRows,
         NEW new, new = Flushed(row, copy, object)
  PROVE  /\ new \in WorkflowRows
         /\ new.status = IF object.status = copy.status THEN row.status ELSE object.status
         /\ new.published = IF object.published = copy.published THEN row.published
                            ELSE object.published
         /\ new.active = IF object.active = copy.active THEN row.active ELSE object.active
         /\ new.deleted = IF object.deleted = copy.deleted THEN row.deleted ELSE object.deleted
  BY DEF Flushed, WorkflowRows

LEMMA FlushedBinding ==
  ASSUME NEW row \in BindingRows, NEW copy \in BindingRows, NEW object \in BindingRows,
         NEW new, new = Flushed(row, copy, object)
  PROVE  /\ new \in BindingRows
         /\ new.type = IF object.type = copy.type THEN row.type ELSE object.type
         /\ new.enabled = IF object.enabled = copy.enabled THEN row.enabled ELSE object.enabled
         /\ new.version = IF object.version = copy.version THEN row.version ELSE object.version
  BY DEF Flushed, BindingRows

LEMMA FlushedDraft ==
  ASSUME NEW row \in DraftRows, NEW copy \in DraftRows, NEW object \in DraftRows
  PROVE  Flushed(row, copy, object) \in DraftRows
  BY DEF Flushed, DraftRows

----------------------------------------------------------------------------
(* Steps that write rows. The request that writes is then idle, so the     *)
(* other copies need only that the rows did not go back.                   *)

LEMMA OthersKeep ==
  ASSUME IInv, torn' = torn, NEW r \in Requests, End(r), TypeOK',
         versions \subseteq versions', workflow.published <= workflow'.published,
         binding.version # 0 => binding'.version # 0
  PROVE  Copies' /\ NumbersAreNext' /\ (~torn => WholeCopies')
<1>1. \A s \in Requests : request'[s] # Idle => request[s] # Idle /\ request'[s] = request[s]
  BY DEF End, IInv, TypeOK
<1>2. Numbers \subseteq Numbers'
  BY DEF Numbers
<1>3. Copies'
  <2> SUFFICES ASSUME NEW s \in Requests, request'[s] # Idle
               PROVE  CopyIsPast(request[s])'
    BY DEF Copies
  <2>1. request[s] \in Loaded /\ request'[s] = request[s] /\ CopyIsPast(request[s])
    BY <1>1 DEF IInv, TypeOK, Copies
  <2> QED BY <2>1, <1>2 DEF CopyIsPast, IInv, TypeOK, Loaded, WorkflowRows, BoundsAssumption
<1>4. NumbersAreNext'
  <2> SUFFICES ASSUME NEW s \in Requests, request'[s] # Idle
               PROVE  NumberIsNext(request[s])'
    BY DEF NumbersAreNext
  <2>1. request[s] \in Loaded /\ request'[s] = request[s] /\ NumberIsNext(request[s])
    BY <1>1 DEF IInv, TypeOK, NumbersAreNext
  <2>2. workflow.published \in Nat /\ workflow'.published \in Nat
    BY BoundsAssumption DEF IInv, TypeOK, WorkflowRows
  <2> QED BY <2>1, <2>2 DEF NumberIsNext, Loaded
<1>5. ~torn => WholeCopies'
  BY <1>1 DEF IInv, WholeCopies, CopyIsWhole
<1> QED BY <1>3, <1>4, <1>5

\* A step that adds no version and leaves the pointer to the last one alone.
LEMMA WriteKeeps ==
  ASSUME IInv, torn' = torn, NEW r \in Requests, End(r), TypeOK',
         versions' = versions, workflow'.published = workflow.published,
         binding.version # 0 => binding'.version # 0,
         BindingNamesVersion', ~torn => RowsAgree'
  PROVE  IInv'
<1>1. workflow.published <= workflow'.published
  BY BoundsAssumption DEF IInv, TypeOK, WorkflowRows
<1>2. VersionsInOrder' /\ PublishedIsValid'
  BY DEF IInv, VersionsInOrder, PublishedIsValid, Numbers
<1> QED BY <1>1, <1>2, OthersKeep DEF IInv

LEMMA SaveKeeps ==
  ASSUME IInv, torn' = torn, NEW r \in Requests, NEW graph \in Graphs, Save(r, graph)
  PROVE  IInv'
<1> DEFINE copy == request[r]
<1> DEFINE object == Synced(copy.binding, graph)
<1> DEFINE switched == Switched(copy.workflow, copy.binding, graph)
<1>1. copy \in Loaded /\ copy # Idle
  BY DEF Save, Ready, IInv, TypeOK, Idle
<1>2. copy.workflow \in WorkflowRows /\ copy.binding \in BindingRows /\ copy.draft \in DraftRows
  BY <1>1 DEF Loaded
<1>3. /\ object \in BindingRows
      /\ object.version = copy.binding.version
      /\ object.enabled => copy.binding.enabled
  BY <1>2, GraphsAssumption DEF Synced, BindingRows
<1>4. /\ switched \in WorkflowRows
      /\ switched.published = copy.workflow.published
      /\ switched.active = copy.workflow.active
      /\ switched.deleted = copy.workflow.deleted
      /\ switched.status = IF copy.binding.enabled /\ ~object.enabled
                           THEN "INACTIVE" ELSE copy.workflow.status
  BY <1>2 DEF Switched, WorkflowRows
<1>5. workflow \in WorkflowRows /\ binding \in BindingRows /\ draft \in DraftRows
  BY DEF IInv, TypeOK
<1>6. workflow' = Flushed(workflow, copy.workflow, switched)
  BY DEF Save
<1>7. /\ workflow' \in WorkflowRows
      /\ workflow'.published = workflow.published
      /\ workflow'.active = workflow.active
      /\ workflow'.deleted = workflow.deleted
      /\ workflow'.status = IF switched.status = copy.workflow.status
                            THEN workflow.status ELSE switched.status
  BY <1>2, <1>4, <1>5, <1>6, FlushedWorkflow
<1> DEFINE flushed == Flushed(binding, copy.binding, object)
<1>8. /\ flushed \in BindingRows
      /\ flushed.version = binding.version
      /\ flushed.enabled = IF object.enabled = copy.binding.enabled
                           THEN binding.enabled ELSE object.enabled
  BY <1>2, <1>3, <1>5, FlushedBinding
<1>9. /\ binding' \in BindingRows
      /\ binding'.version = binding.version
      /\ binding'.enabled = flushed.enabled
  <2>1. \E rearms \in BOOLEAN : binding' = Rearmed(flushed, rearms)
    BY <1>2 DEF Save, BindingRows
  <2> HIDE DEF flushed
  <2> QED BY <2>1, <1>8 DEF Rearmed, BindingRows
<1>10. draft' \in DraftRows
  <2>1. [revision |-> copy.draft.revision + 1, graph |-> graph] \in DraftRows
    BY <1>2, BoundsAssumption DEF Save, DraftRows
  <2> QED BY <2>1, <1>2, <1>5, FlushedDraft DEF Save
<1>11. TypeOK'
  BY <1>7, <1>9, <1>10 DEF Save, End, IInv, TypeOK
<1>12. CopyIsPast(copy)
  BY <1>1 DEF IInv, Copies
<1>13. BindingNamesVersion'
  BY <1>3, <1>8, <1>9, <1>12 DEF Save, IInv, BindingNamesVersion, Numbers, CopyIsPast
<1>14. ~torn => RowsAgree'
  <2> SUFFICES ASSUME ~torn PROVE RowsAgree'
    OBVIOUS
  <2>1. CopyIsWhole(copy) /\ RowsAgree
    BY <1>1 DEF IInv, WholeCopies
  <2> HIDE DEF copy, object, switched, flushed
  <2> QED
    BY <2>1, <1>2, <1>3, <1>4, <1>7, <1>8, <1>9
    DEF CopyIsWhole, RowsAgree, BindingRows, WorkflowRows
<1> QED BY <1>7, <1>9, <1>11, <1>13, <1>14, WriteKeeps DEF Save

LEMMA ActivateKeeps ==
  ASSUME IInv, torn' = torn, NEW r \in Requests, NEW v \in versions, Activate(r, v)
  PROVE  IInv'
<1> DEFINE copy == request[r]
<1> DEFINE schedule == copy.binding.type = "SCHEDULE"
<1> DEFINE object == [copy.binding EXCEPT !.enabled = TRUE, !.version = v.number,
                                         !.armed = copy.binding.armed \/ schedule]
<1> DEFINE active == [copy.workflow EXCEPT !.active = v.number, !.status = "ACTIVE"]
<1>1. copy \in Loaded /\ copy # Idle
  BY DEF Activate, Ready, IInv, TypeOK, Idle
<1>2. copy.workflow \in WorkflowRows /\ copy.binding \in BindingRows
  BY <1>1 DEF Loaded
<1>3. v.number \in 0 .. MaxVersions /\ v.number # 0 /\ v.number \in Numbers
  BY BoundsAssumption DEF IInv, TypeOK, Versions, Numbers
<1>4. object \in BindingRows /\ object.enabled = TRUE /\ object.version = v.number
  BY <1>2, <1>3 DEF BindingRows
<1>5. /\ active \in WorkflowRows
      /\ active.published = copy.workflow.published
      /\ active.active = v.number
      /\ active.deleted = copy.workflow.deleted
      /\ active.status = "ACTIVE"
  BY <1>2, <1>3 DEF WorkflowRows
<1>6. workflow \in WorkflowRows /\ binding \in BindingRows
  BY DEF IInv, TypeOK
<1> DEFINE flushed == Flushed(binding, copy.binding, object)
<1>7. workflow' = Flushed(workflow, copy.workflow, active)
  BY DEF Activate
<1>8. \E rearms \in BOOLEAN : binding' = Rearmed(flushed, rearms)
  BY DEF Activate
<1> HIDE DEF object, active
<1>9. /\ workflow' \in WorkflowRows
      /\ workflow'.published = workflow.published
      /\ workflow'.active = IF v.number = copy.workflow.active THEN workflow.active ELSE v.number
      /\ workflow'.deleted = workflow.deleted
      /\ workflow'.status = IF copy.workflow.status = "ACTIVE" THEN workflow.status ELSE "ACTIVE"
  BY <1>2, <1>5, <1>6, <1>7, FlushedWorkflow
<1>10. /\ flushed \in BindingRows
       /\ flushed.version = IF v.number = copy.binding.version THEN binding.version ELSE v.number
       /\ flushed.enabled = IF copy.binding.enabled THEN binding.enabled ELSE TRUE
  <2>1. copy.binding.enabled \in BOOLEAN
    BY <1>2 DEF BindingRows
  <2>2. /\ flushed \in BindingRows
        /\ flushed.version = IF object.version = copy.binding.version THEN binding.version
                             ELSE object.version
        /\ flushed.enabled = IF object.enabled = copy.binding.enabled THEN binding.enabled
                             ELSE object.enabled
    BY <1>2, <1>4, <1>6, FlushedBinding
  <2> HIDE DEF flushed
  <2> QED BY <2>1, <2>2, <1>4
<1>11. /\ binding' \in BindingRows
       /\ binding'.version = flushed.version
       /\ binding'.enabled = flushed.enabled
  <2> HIDE DEF flushed
  <2> QED BY <1>8, <1>10 DEF Rearmed, BindingRows
<1>12. TypeOK'
  BY <1>9, <1>11 DEF Activate, End, IInv, TypeOK
<1>13. CopyIsPast(copy)
  BY <1>1 DEF IInv, Copies
<1>14. v.number # 0 /\ (copy.binding.version = v.number => binding.version # 0)
  BY <1>3, <1>13 DEF CopyIsPast
<1>15. BindingNamesVersion'
  BY <1>3, <1>10, <1>11, <1>13, <1>14
  DEF Activate, IInv, BindingNamesVersion, Numbers, CopyIsPast
<1>16. ~torn => RowsAgree'
  <2> SUFFICES ASSUME ~torn PROVE RowsAgree'
    OBVIOUS
  <2>1. CopyIsWhole(copy) /\ RowsAgree
    BY <1>1 DEF IInv, WholeCopies
  <2> HIDE DEF copy, flushed
  <2> QED
    BY <2>1, <1>2, <1>9, <1>10, <1>11
    DEF CopyIsWhole, RowsAgree, BindingRows, WorkflowRows
<1> QED BY <1>9, <1>10, <1>11, <1>12, <1>14, <1>15, <1>16, WriteKeeps DEF Activate

\* Deactivate and Delete switch the binding off.
LEMMA FlushedOff ==
  ASSUME NEW row \in BindingRows, NEW copy \in BindingRows, NEW new,
         new = Flushed(row, copy, Off(copy))
  PROVE  /\ new \in BindingRows
         /\ new.version = row.version
         /\ new.enabled = IF copy.enabled THEN FALSE ELSE row.enabled
<1>1. /\ Off(copy) \in BindingRows
      /\ Off(copy).version = copy.version
      /\ Off(copy).enabled = FALSE
  BY DEF Off, BindingRows
<1>2. copy.enabled \in BOOLEAN
  BY DEF BindingRows
<1>3. /\ new \in BindingRows
      /\ new.version = IF Off(copy).version = copy.version THEN row.version
                       ELSE Off(copy).version
      /\ new.enabled = IF Off(copy).enabled = copy.enabled THEN row.enabled
                       ELSE Off(copy).enabled
  BY <1>1, FlushedBinding
<1> QED BY <1>1, <1>2, <1>3

LEMMA DeactivateKeeps ==
  ASSUME IInv, torn' = torn, NEW r \in Requests, Deactivate(r)
  PROVE  IInv'
<1> DEFINE copy == request[r]
<1> DEFINE inactive == [copy.workflow EXCEPT !.status = "INACTIVE"]
<1>1. copy \in Loaded /\ copy # Idle
  BY DEF Deactivate, Ready, IInv, TypeOK, Idle
<1>2. copy.workflow \in WorkflowRows /\ copy.binding \in BindingRows
  BY <1>1 DEF Loaded
<1>3. workflow \in WorkflowRows /\ binding \in BindingRows
  BY DEF IInv, TypeOK
<1>4. /\ inactive \in WorkflowRows
      /\ inactive.published = copy.workflow.published
      /\ inactive.active = copy.workflow.active
      /\ inactive.deleted = copy.workflow.deleted
      /\ inactive.status = "INACTIVE"
  BY <1>2 DEF WorkflowRows
<1>5. workflow' = Flushed(workflow, copy.workflow, inactive)
  BY DEF Deactivate
<1> HIDE DEF inactive
<1>6. /\ workflow' \in WorkflowRows
      /\ workflow'.published = workflow.published
      /\ workflow'.active = workflow.active
      /\ workflow'.deleted = workflow.deleted
      /\ workflow'.status = IF copy.workflow.status = "INACTIVE"
                            THEN workflow.status ELSE "INACTIVE"
  BY <1>2, <1>3, <1>4, <1>5, FlushedWorkflow
<1>7. /\ binding' \in BindingRows
      /\ binding'.version = binding.version
      /\ binding'.enabled = IF copy.binding.enabled THEN FALSE ELSE binding.enabled
  BY <1>2, <1>3, FlushedOff DEF Deactivate
<1>8. TypeOK'
  BY <1>6, <1>7 DEF Deactivate, End, IInv, TypeOK
<1>9. BindingNamesVersion'
  BY <1>7 DEF Deactivate, IInv, BindingNamesVersion, Numbers
<1>10. ~torn => RowsAgree'
  <2> SUFFICES ASSUME ~torn PROVE RowsAgree'
    OBVIOUS
  <2>1. CopyIsWhole(copy) /\ RowsAgree
    BY <1>1 DEF IInv, WholeCopies
  <2> HIDE DEF copy
  <2> QED
    BY <2>1, <1>2, <1>6, <1>7 DEF CopyIsWhole, RowsAgree, BindingRows, WorkflowRows
<1> QED BY <1>6, <1>7, <1>8, <1>9, <1>10, WriteKeeps DEF Deactivate

LEMMA DeleteKeeps ==
  ASSUME IInv, torn' = torn, NEW r \in Requests, Delete(r)
  PROVE  IInv'
<1> DEFINE copy == request[r]
<1> DEFINE deleted == [copy.workflow EXCEPT !.deleted = TRUE, !.status = "DELETED"]
<1>1. copy \in Loaded /\ copy # Idle
  BY DEF Delete, IInv, TypeOK, Idle
<1>2. copy.workflow \in WorkflowRows /\ copy.binding \in BindingRows
  BY <1>1 DEF Loaded
<1>3. workflow \in WorkflowRows /\ binding \in BindingRows
  BY DEF IInv, TypeOK
<1>4. /\ deleted \in WorkflowRows
      /\ deleted.published = copy.workflow.published
      /\ deleted.active = copy.workflow.active
      /\ deleted.deleted = TRUE
  BY <1>2 DEF WorkflowRows
<1>5. workflow' = Flushed(workflow, copy.workflow, deleted)
  BY DEF Delete
<1> HIDE DEF deleted
<1>6. /\ workflow' \in WorkflowRows
      /\ workflow'.published = workflow.published
      /\ workflow'.active = workflow.active
      /\ workflow'.deleted = IF deleted.deleted = copy.workflow.deleted
                             THEN workflow.deleted ELSE deleted.deleted
  <2> DEFINE new == workflow'
  <2>1. new = Flushed(workflow, copy.workflow, deleted)
    BY <1>5
  <2> HIDE DEF new
  <2>2. /\ new \in WorkflowRows
        /\ new.published = workflow.published
        /\ new.active = workflow.active
        /\ new.deleted = IF deleted.deleted = copy.workflow.deleted
                         THEN workflow.deleted ELSE deleted.deleted
    BY <2>1, <1>2, <1>3, <1>4, FlushedWorkflow
  <2> QED BY <2>2 DEF new
<1>7. /\ binding' \in BindingRows
      /\ binding'.version = binding.version
      /\ binding'.enabled = IF copy.binding.enabled THEN FALSE ELSE binding.enabled
  BY <1>2, <1>3, FlushedOff DEF Delete
<1>8. TypeOK'
  BY <1>6, <1>7 DEF Delete, End, IInv, TypeOK
<1>9. BindingNamesVersion'
  BY <1>7 DEF Delete, IInv, BindingNamesVersion, Numbers
<1>10. ~torn => RowsAgree'
  <2> SUFFICES ASSUME ~torn PROVE RowsAgree'
    OBVIOUS
  <2>1. ~copy.workflow.deleted /\ RowsAgree
    BY <1>1 DEF IInv, WholeCopies, CopyIsWhole
  <2>2. workflow'.deleted
    BY <2>1, <1>2, <1>4, <1>6 DEF WorkflowRows
  <2> QED BY <2>1, <2>2, <1>6, <1>7 DEF RowsAgree
<1> QED BY <1>6, <1>7, <1>8, <1>9, <1>10, WriteKeeps DEF Delete

LEMMA PublishKeeps ==
  ASSUME IInv, torn' = torn, NEW r \in Requests, Publish(r)
  PROVE  IInv'
<1> DEFINE copy == request[r]
<1> DEFINE object == [copy.workflow EXCEPT !.published = copy.number]
<1> DEFINE version == [number |-> copy.number, graph |-> copy.draft.graph]
<1>1. copy \in Loaded /\ copy # Idle
  BY DEF Publish, IInv, TypeOK, Idle
<1>2. /\ copy.workflow \in WorkflowRows
      /\ copy.draft.graph \in Graphs
      /\ copy.number \in 0 .. MaxVersions
  BY <1>1 DEF Loaded, DraftRows
<1>3. workflow \in WorkflowRows /\ workflow.published \in Nat
  BY BoundsAssumption DEF IInv, TypeOK, WorkflowRows
<1>4. copy.number \in 1 .. workflow.published + 1 /\ copy.draft.graph \in Valid
  BY <1>1 DEF IInv, NumbersAreNext, NumberIsNext, Publish
<1>5. copy.number = workflow.published + 1
  BY <1>3, <1>4 DEF Publish, IInv, VersionsInOrder
<1>6. copy.workflow.published <= workflow.published
  BY <1>1 DEF IInv, Copies, CopyIsPast
<1>7. /\ object \in WorkflowRows
      /\ object.published = copy.number
      /\ object.published # copy.workflow.published
      /\ object.active = copy.workflow.active
      /\ object.status = copy.workflow.status
      /\ object.deleted = copy.workflow.deleted
  BY <1>2, <1>3, <1>5, <1>6, BoundsAssumption DEF WorkflowRows
<1>8. workflow' = Flushed(workflow, copy.workflow, object)
  BY DEF Publish
<1> HIDE DEF object
<1>9. /\ workflow' \in WorkflowRows
      /\ workflow'.published = workflow.published + 1
      /\ workflow'.active = workflow.active
      /\ workflow'.status = workflow.status
      /\ workflow'.deleted = workflow.deleted
  BY <1>2, <1>3, <1>5, <1>7, <1>8, FlushedWorkflow
<1>10. versions' = versions \cup {version} /\ version \in Versions
  BY <1>2, <1>4, BoundsAssumption DEF Publish, Versions
<1>11. version.number = workflow.published + 1 /\ version.graph \in Valid
  BY <1>4, <1>5
<1> HIDE DEF version
<1>12. TypeOK'
  BY <1>9, <1>10 DEF Publish, End, IInv, TypeOK
<1>13. VersionsInOrder'
  <2>1. Numbers' = Numbers \cup {version.number}
    BY <1>10 DEF Numbers
  <2>2. Numbers' = 1 .. workflow'.published
    BY <2>1, <1>3, <1>9, <1>11 DEF IInv, VersionsInOrder
  <2>3. version.number \notin Numbers
    BY <1>3, <1>11 DEF IInv, VersionsInOrder
  <2>4. \A v, w \in versions' : v.number = w.number => v = w
    BY <2>3, <1>10 DEF IInv, VersionsInOrder, Numbers
  <2> QED BY <2>2, <2>4 DEF VersionsInOrder
<1>14. PublishedIsValid'
  BY <1>10, <1>11 DEF IInv, PublishedIsValid
<1>15. BindingNamesVersion'
  BY <1>10 DEF Publish, IInv, BindingNamesVersion, Numbers
<1>16. ~torn => RowsAgree'
  BY <1>9 DEF Publish, IInv, RowsAgree
<1>17. Copies' /\ NumbersAreNext' /\ (~torn => WholeCopies')
  BY <1>3, <1>9, <1>10, <1>12, OthersKeep DEF Publish
<1> QED BY <1>12, <1>13, <1>14, <1>15, <1>16, <1>17 DEF IInv

----------------------------------------------------------------------------
(* Steps of a request that write no row, and steps of the worker.          *)

\* The rows stay, and one request holds a copy that is as good as the others.
LEMMA CopyKeeps ==
  ASSUME IInv, torn' = torn, UNCHANGED <<workflow, draft, binding, versions>>, running' \in BOOLEAN,
         NEW r \in Requests, NEW copy \in Loaded \cup {Idle},
         request' = [request EXCEPT ![r] = copy],
         copy # Idle => /\ CopyIsPast(copy)
                        /\ NumberIsNext(copy)
                        /\ ~torn => CopyIsWhole(copy)
  PROVE  IInv'
<1>1. request' \in [Requests -> Loaded \cup {Idle}]
  BY DEF IInv, TypeOK
<1>2. TypeOK'
  BY <1>1 DEF IInv, TypeOK
<1>3. \A s \in Requests : request'[s] = IF s = r THEN copy ELSE request[s]
  BY DEF IInv, TypeOK
<1>4. Copies' /\ NumbersAreNext' /\ (~torn => WholeCopies')
  BY <1>3 DEF IInv, Copies, CopyIsPast, NumbersAreNext, NumberIsNext, WholeCopies,
              CopyIsWhole, Numbers
<1>5. /\ VersionsInOrder' /\ PublishedIsValid' /\ BindingNamesVersion'
      /\ ~torn => RowsAgree'
  BY DEF IInv, VersionsInOrder, PublishedIsValid, BindingNamesVersion, RowsAgree,
         Numbers
<1> QED BY <1>2, <1>4, <1>5 DEF IInv

LEMMA LoadKeeps ==
  ASSUME IInv, torn' = torn, NEW r \in Requests, Load(r)
  PROVE  IInv'
<1> DEFINE copy == [stage |-> IF torn THEN "workflow" ELSE "ready",
                    workflow |-> workflow, draft |-> draft, binding |-> binding,
                    number |-> 0]
<1>1. workflow \in WorkflowRows /\ draft \in DraftRows /\ binding \in BindingRows
  BY DEF IInv, TypeOK
<1>2. copy \in Loaded
  BY <1>1, BoundsAssumption DEF Loaded, Stages
<1>3. CopyIsPast(copy)
  BY <1>1, BoundsAssumption DEF CopyIsPast, IInv, BindingNamesVersion, WorkflowRows
<1>4. NumberIsNext(copy)
  BY DEF NumberIsNext
<1>5. ~torn => CopyIsWhole(copy)
  BY DEF Load, CopyIsWhole, IInv, RowsAgree
<1>6. /\ UNCHANGED <<workflow, draft, binding, versions>>
      /\ running' \in BOOLEAN
      /\ request' = [request EXCEPT ![r] = copy]
  BY DEF Load, IInv, TypeOK
<1> HIDE DEF copy
<1> QED BY <1>2, <1>3, <1>4, <1>5, <1>6, CopyKeeps

LEMMA LoadDraftKeeps ==
  ASSUME IInv, torn' = torn, NEW r \in Requests, LoadDraft(r)
  PROVE  IInv'
<1> DEFINE old == request[r]
<1> DEFINE copy == [old EXCEPT !.stage = "draft", !.draft = draft]
<1>1. old \in Loaded /\ old # Idle /\ draft \in DraftRows
  BY DEF LoadDraft, IInv, TypeOK, Idle
<1>2. /\ copy \in Loaded
      /\ copy.stage = "draft"
      /\ copy.workflow = old.workflow
      /\ copy.binding = old.binding
  BY <1>1 DEF Loaded, Stages
<1>3. CopyIsPast(old) /\ torn
  BY <1>1 DEF LoadDraft, IInv, Copies, WholeCopies, CopyIsWhole
<1>4. /\ UNCHANGED <<workflow, draft, binding, versions>>
      /\ running' \in BOOLEAN
      /\ request' = [request EXCEPT ![r] = copy]
  BY <1>1 DEF LoadDraft, IInv, TypeOK, Loaded
<1> HIDE DEF copy
<1>5. CopyIsPast(copy) /\ NumberIsNext(copy)
  BY <1>2, <1>3 DEF CopyIsPast, NumberIsNext
<1> QED BY <1>2, <1>3, <1>4, <1>5, CopyKeeps

LEMMA CountNoRunKeeps ==
  ASSUME IInv, torn' = torn, NEW r \in Requests, CountNoRun(r)
  PROVE  IInv'
<1> DEFINE old == request[r]
<1> DEFINE copy == [old EXCEPT !.stage = "deleting"]
<1>1. old \in Loaded /\ old # Idle
  BY DEF CountNoRun, Ready, IInv, TypeOK, Idle
<1>2. /\ copy \in Loaded
      /\ copy.stage = "deleting"
      /\ copy.workflow = old.workflow
      /\ copy.binding = old.binding
  BY <1>1 DEF Loaded, Stages
<1>3. CopyIsPast(old) /\ (~torn => CopyIsWhole(old))
  BY <1>1 DEF IInv, Copies, WholeCopies
<1>4. /\ UNCHANGED <<workflow, draft, binding, versions>>
      /\ running' \in BOOLEAN
      /\ request' = [request EXCEPT ![r] = copy]
  BY <1>1 DEF CountNoRun, IInv, TypeOK, Loaded
<1> HIDE DEF copy
<1>5. CopyIsPast(copy) /\ NumberIsNext(copy) /\ (~torn => CopyIsWhole(copy))
  BY <1>2, <1>3 DEF CopyIsPast, NumberIsNext, CopyIsWhole
<1> QED BY <1>2, <1>4, <1>5, CopyKeeps

LEMMA LoadTriggersKeeps ==
  ASSUME IInv, torn' = torn, NEW r \in Requests, LoadTriggers(r)
  PROVE  IInv'
<1> DEFINE old == request[r]
<1> DEFINE copy == [old EXCEPT !.stage = "ready", !.binding = binding]
<1>1. old \in Loaded /\ old # Idle /\ binding \in BindingRows
  BY DEF LoadTriggers, IInv, TypeOK, Idle
<1>2. /\ copy \in Loaded
      /\ copy.stage = "ready"
      /\ copy.workflow = old.workflow
      /\ copy.binding = binding
  BY <1>1 DEF Loaded, Stages
<1>3. CopyIsPast(old) /\ torn
  BY <1>1 DEF LoadTriggers, IInv, Copies, WholeCopies, CopyIsWhole
<1>4. /\ UNCHANGED <<workflow, draft, binding, versions>>
      /\ running' \in BOOLEAN
      /\ request' = [request EXCEPT ![r] = copy]
  BY <1>1 DEF LoadTriggers, IInv, TypeOK, Loaded
<1> HIDE DEF copy
<1>5. CopyIsPast(copy) /\ NumberIsNext(copy)
  BY <1>2, <1>3 DEF CopyIsPast, NumberIsNext, IInv, BindingNamesVersion
<1> QED BY <1>2, <1>3, <1>4, <1>5, CopyKeeps

LEMMA NumberKeeps ==
  ASSUME IInv, torn' = torn, NEW r \in Requests, Number(r)
  PROVE  IInv'
<1> DEFINE old == request[r]
<1> DEFINE next == LastNumber + 1
<1> DEFINE copy == [old EXCEPT !.stage = "numbered", !.number = next]
<1>1. old \in Loaded /\ old # Idle
  BY DEF Number, Ready, IInv, TypeOK, Idle
<1>2. workflow.published \in Nat /\ Numbers = 1 .. workflow.published
  BY BoundsAssumption DEF IInv, TypeOK, WorkflowRows, VersionsInOrder
<1>3. LastNumber = workflow.published
  <2>1. CASE versions = {}
    <3>1. 1 .. workflow.published = {}
      BY <2>1, <1>2 DEF Numbers
    <3> QED BY <2>1, <3>1, <1>2 DEF LastNumber
  <2>2. CASE versions # {}
    <3>1. Numbers # {}
      BY <2>2 DEF Numbers
    <3>2. workflow.published \in Numbers /\ \A m \in Numbers : m <= workflow.published
      BY <3>1, <1>2
    <3>3. LastNumber \in Numbers /\ \A m \in Numbers : m <= LastNumber
      BY <2>2, <3>2 DEF LastNumber
    <3> QED BY <3>2, <3>3, <1>2
  <2> QED BY <2>1, <2>2
<1>4. next \in 0 .. MaxVersions /\ next = workflow.published + 1
  BY <1>2, <1>3, BoundsAssumption DEF Number
<1>5. /\ copy \in Loaded
      /\ copy.number = workflow.published + 1
      /\ copy.workflow = old.workflow
      /\ copy.binding = old.binding
      /\ copy.draft = old.draft
      /\ copy.stage = "numbered"
  <2> HIDE DEF next
  <2> QED BY <1>1, <1>4 DEF Loaded, Stages
<1>6. /\ UNCHANGED <<workflow, draft, binding, versions>>
      /\ running' \in BOOLEAN
      /\ request' = [request EXCEPT ![r] = copy]
  BY <1>1 DEF Number, IInv, TypeOK, Loaded
<1>7. CopyIsPast(old) /\ (~torn => CopyIsWhole(old))
  BY <1>1 DEF IInv, Copies, WholeCopies
<1> HIDE DEF copy
<1>8. CopyIsPast(copy) /\ (~torn => CopyIsWhole(copy))
  BY <1>5, <1>7 DEF CopyIsPast, CopyIsWhole
<1>9. NumberIsNext(copy)
  BY <1>2, <1>5 DEF NumberIsNext, Number
<1> QED BY <1>5, <1>6, <1>8, <1>9, CopyKeeps

\* The tick and the end of a run leave every copy as it is.
LEMMA WorkerKeeps ==
  ASSUME IInv, torn' = torn, Tick \/ RunEnds
  PROVE  IInv'
<1>1. /\ UNCHANGED <<workflow, draft, versions, request>>
      /\ running' \in BOOLEAN
  BY DEF Tick, RunEnds, IInv, TypeOK
<1>2. /\ binding' \in BindingRows
      /\ binding'.version = binding.version
      /\ binding'.enabled => binding.enabled
      /\ binding.enabled /\ binding.version # 0 /\ ~workflow.deleted => binding'.enabled
  <2>1. binding \in BindingRows /\ workflow \in WorkflowRows /\ running \in BOOLEAN
    BY DEF IInv, TypeOK
  <2>2. CASE Tick
    BY <2>1, <2>2 DEF Tick, Due, BindingRows, WorkflowRows
  <2>3. CASE RunEnds
    BY <2>1, <2>3 DEF RunEnds
  <2> QED BY <2>2, <2>3
<1>3. TypeOK'
  BY <1>1, <1>2 DEF IInv, TypeOK
<1>4. VersionsInOrder' /\ PublishedIsValid' /\ BindingNamesVersion'
  BY <1>1, <1>2 DEF IInv, VersionsInOrder, PublishedIsValid, BindingNamesVersion, Numbers
<1>5. Copies' /\ NumbersAreNext' /\ (~torn => WholeCopies')
  BY <1>1, <1>2 DEF IInv, Copies, CopyIsPast, NumbersAreNext, NumberIsNext, WholeCopies,
                    CopyIsWhole, Numbers
<1>6. ~torn => RowsAgree'
  BY <1>1, <1>2 DEF IInv, RowsAgree, BindingNamesVersion
<1> QED BY <1>3, <1>4, <1>5, <1>6 DEF IInv

----------------------------------------------------------------------------
LEMMA Inductive == Spec => []IInv
<1>1. Init => IInv
  <2> SUFFICES ASSUME Init PROVE IInv
    OBVIOUS
  <2>1. TypeOK
    <3>1. workflow \in WorkflowRows
      BY BoundsAssumption DEF Init, WorkflowRows
    <3>2. draft \in DraftRows
      BY BoundsAssumption DEF Init, DraftRows
    <3>3. binding \in BindingRows
      BY DEF Init
    <3> QED BY <3>1, <3>2, <3>3 DEF Init, TypeOK
  <2>2. \A r \in Requests : request[r] = Idle
    BY DEF Init
  <2>3. Numbers = {}
    BY DEF Init, Numbers
  <2>4. VersionsInOrder /\ PublishedIsValid
    BY <2>3 DEF Init, VersionsInOrder, PublishedIsValid
  <2>5. BindingNamesVersion /\ RowsAgree
    BY DEF Init, BindingNamesVersion, RowsAgree
  <2> QED BY <2>1, <2>2, <2>4, <2>5 DEF IInv, Copies, NumbersAreNext, WholeCopies
<1>2. IInv /\ [Next /\ UNCHANGED torn]_<<vars, torn>> => IInv'
  <2> SUFFICES ASSUME IInv, torn' = torn, Next \/ UNCHANGED vars PROVE IInv'
    OBVIOUS
  <2>1. ASSUME NEW r \in Requests, Load(r) PROVE IInv'
    BY <2>1, LoadKeeps
  <2>2. ASSUME NEW r \in Requests, LoadDraft(r) PROVE IInv'
    BY <2>2, LoadDraftKeeps
  <2>3. ASSUME NEW r \in Requests, LoadTriggers(r) PROVE IInv'
    BY <2>3, LoadTriggersKeeps
  <2>4. ASSUME NEW r \in Requests, Refuse(r) \/ Run(r) PROVE IInv'
    BY <2>4, CopyKeeps DEF Refuse, Run, End, IInv, TypeOK
  <2>5. ASSUME NEW r \in Requests, NEW graph \in Graphs, Save(r, graph) PROVE IInv'
    BY <2>5, SaveKeeps
  <2>6. ASSUME NEW r \in Requests, Number(r) PROVE IInv'
    BY <2>6, NumberKeeps
  <2>7. ASSUME NEW r \in Requests, Publish(r) PROVE IInv'
    BY <2>7, PublishKeeps
  <2>8. ASSUME NEW r \in Requests, NEW v \in versions, Activate(r, v) PROVE IInv'
    BY <2>8, ActivateKeeps
  <2>9. ASSUME NEW r \in Requests, Deactivate(r) PROVE IInv'
    BY <2>9, DeactivateKeeps
  <2>10. ASSUME NEW r \in Requests, Delete(r) PROVE IInv'
    BY <2>10, DeleteKeeps
  <2>11. ASSUME NEW r \in Requests, CountNoRun(r) PROVE IInv'
    BY <2>11, CountNoRunKeeps
  <2>12. CASE Tick \/ RunEnds
    BY <2>12, WorkerKeeps
  <2>13. CASE UNCHANGED vars
    BY <2>13 DEF vars, IInv, TypeOK, VersionsInOrder, PublishedIsValid, BindingNamesVersion,
                 Copies, CopyIsPast, NumbersAreNext, NumberIsNext, WholeCopies, CopyIsWhole,
                 RowsAgree, Numbers
  <2> QED
    BY <2>1, <2>2, <2>3, <2>4, <2>5, <2>6, <2>7, <2>8, <2>9, <2>10, <2>11, <2>12, <2>13 DEF Next
<1> QED BY <1>1, <1>2, PTL DEF Spec

\* The rows and the copies keep their types: no overlap of blind writes leaves a
\* binding of no known type, or a row with a column it cannot have.
THEOREM RowsAreTyped == Spec => []TypeOK
<1>1. IInv => TypeOK
  BY DEF IInv
<1> QED BY <1>1, Inductive, PTL

\* Concurrent publishers never skip, repeat or hide a version number
\* (workflows.py, publish).
THEOREM NumberedInOrder == Spec => []VersionsInOrder
<1>1. IInv => VersionsInOrder
  BY DEF IInv
<1> QED BY <1>1, Inductive, PTL

\* Only a graph that passed validation is ever published (workflows.py, publish).
THEOREM OnlyValidIsPublished == Spec => []PublishedIsValid
<1>1. IInv => PublishedIsValid
  BY DEF IInv
<1> QED BY <1>1, Inductive, PTL

\* An enabled binding always has a published version to fire (workflows.py, activate).
THEOREM EnabledHasVersion == Spec => []EnabledCanFire
<1>1. IInv => EnabledCanFire
  BY DEF IInv, BindingNamesVersion, EnabledCanFire
<1> QED BY <1>1, Inductive, PTL

\* While loads are of one moment, a workflow and its binding agree however the blind
\* writes of activate, deactivate, save_draft and delete overlap.
THEOREM BindingAgrees == Spec => []BindingFollowsWorkflow
<1>1. IInv => BindingFollowsWorkflow
  BY DEF IInv, RowsAgree, BindingFollowsWorkflow
<1> QED BY <1>1, Inductive, PTL

\* Blind writes never undo what is for good: a deleted workflow stays deleted, although
\* requests that loaded it before write its row afterwards; a version that was published
\* stays as it is; and the pointer to the last one never goes back (workflows.py: delete,
\* publish, and every writer of a copy).
THEOREM NothingIsUndone ==
  Spec => [][/\ workflow.deleted => workflow'.deleted
             /\ versions \subseteq versions'
             /\ workflow.published <= workflow'.published]_<<vars, torn>>
<1> DEFINE Kept == /\ workflow.deleted => workflow'.deleted
                   /\ versions \subseteq versions'
<1>1. IInv /\ [Next /\ UNCHANGED torn]_<<vars, torn>> => Kept
  <2> SUFFICES ASSUME IInv, Next \/ UNCHANGED <<vars, torn>> PROVE Kept
    OBVIOUS
  <2>1. workflow \in WorkflowRows /\ \A r \in Requests : request[r] # Idle => request[r] \in Loaded
    BY DEF IInv, TypeOK
  <2>2. ASSUME NEW r \in Requests, NEW graph \in Graphs, Save(r, graph)
        PROVE  Kept
    <3>1. request[r] \in Loaded
      BY <2>1, <2>2 DEF Save, Ready, Idle
    <3>2. Switched(request[r].workflow, request[r].binding, graph).deleted = request[r].workflow.deleted
      BY <3>1 DEF Switched, Loaded, WorkflowRows
    <3> QED
      BY <2>1, <2>2, <3>2 DEF Save, Flushed, WorkflowRows
  <2>3. ASSUME NEW r \in Requests, Publish(r) PROVE Kept
    <3>1. request[r] \in Loaded
      BY <2>1, <2>3 DEF Publish, Idle
    <3> QED
      BY <2>1, <2>3, <3>1 DEF Publish, Flushed, WorkflowRows, Loaded
  <2>4. ASSUME NEW r \in Requests, NEW v \in versions, Activate(r, v) PROVE Kept
    <3>1. request[r] \in Loaded
      BY <2>1, <2>4 DEF Activate, Ready, Idle
    <3> QED
      BY <2>1, <2>4, <3>1 DEF Activate, Flushed, WorkflowRows, Loaded
  <2>5. ASSUME NEW r \in Requests, Deactivate(r) \/ Delete(r) PROVE Kept
    <3>1. request[r] \in Loaded
      BY <2>1, <2>5 DEF Deactivate, Delete, Ready, Idle
    <3>2. CASE Deactivate(r)
      BY <2>1, <3>1, <3>2 DEF Deactivate, Flushed, WorkflowRows, Loaded
    <3>3. CASE Delete(r)
      BY <2>1, <3>1, <3>3 DEF Delete, Flushed, WorkflowRows, Loaded
    <3> QED
      BY <2>5, <3>2, <3>3
  <2>6. ASSUME NEW r \in Requests,
               \/ Load(r) \/ LoadDraft(r) \/ LoadTriggers(r) \/ Refuse(r) \/ Number(r) \/ CountNoRun(r)
               \/ Run(r)
        PROVE  Kept
    BY <2>6 DEF Load, LoadDraft, LoadTriggers, Refuse, Number, CountNoRun, Run
  <2>7. ASSUME Tick \/ RunEnds \/ UNCHANGED <<vars, torn>> PROVE Kept
    BY <2>7 DEF Tick, RunEnds, vars
  <2> QED
    BY <2>2, <2>3, <2>4, <2>5, <2>6, <2>7 DEF Next
<1>2. IInv /\ IInv' /\ Kept => workflow.published <= workflow'.published
  <2> SUFFICES ASSUME IInv, IInv', Kept PROVE workflow.published <= workflow'.published
    OBVIOUS
  <2>1. workflow.published \in Nat /\ workflow'.published \in Nat
    BY BoundsAssumption DEF IInv, TypeOK, WorkflowRows
  <2>2. 1 .. workflow.published \subseteq 1 .. workflow'.published
    BY DEF IInv, VersionsInOrder, Numbers
  <2> QED
    BY <2>1, <2>2
<1> QED BY <1>1, <1>2, Inductive, PTL DEF Spec
=============================================================================
