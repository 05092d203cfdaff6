---------------------------- MODULE WorkflowStore ----------------------------
(***************************************************************************)
(* One workflow under concurrent edits (backend/app/services/workflows.py):*)
(* its row, its draft, its published versions and its trigger binding.     *)
(* A request loads copies of the three rows and later writes, with no      *)
(* condition, the columns in which it changed its copies.                  *)
(***************************************************************************)
EXTENDS Integers, FiniteSets

CONSTANTS
  Requests,     \* API requests in progress; each serves one call after another
  Graphs,       \* graphs a draft can hold
  TriggerOf,    \* the trigger type a graph declares
  NoTrigger,    \* ... when it has no trigger node
  Valid,        \* the graphs the product and the engine's dry run accept
  MaxRevision,  \* bound on the draft's revision
  MaxVersions   \* bound on the number of versions

TriggerTypes == {"MANUAL", "SCHEDULE", "WEBHOOK"}

ASSUME GraphsAssumption ==
  /\ TriggerOf \in [Graphs -> TriggerTypes \cup {NoTrigger}]
  /\ NoTrigger \notin TriggerTypes
  /\ Valid \subseteq {g \in Graphs : TriggerOf[g] # NoTrigger}
ASSUME BoundsAssumption ==
  /\ MaxRevision \in Nat \ {0}
  /\ MaxVersions \in Nat

VARIABLES
  workflow,  \* the row of workflows; a version is named by its number, 0 is NULL
  draft,     \* the row of workflow_drafts
  binding,   \* the row of trigger_bindings; armed: next_run_at is set
  versions,  \* the rows of workflow_versions
  running,   \* an execution of the workflow has not ended
  request,   \* per request: how far it is and the copies it holds
  torn       \* the three SELECTs of a load may see three moments

vars == <<workflow, draft, binding, versions, running, request>>

WorkflowRows == [status : {"INACTIVE", "ACTIVE", "DELETED"}, published : 0 .. MaxVersions,
                 active : 0 .. MaxVersions, deleted : BOOLEAN]
DraftRows == [revision : 1 .. MaxRevision, graph : Graphs]
BindingRows == [type : TriggerTypes, enabled : BOOLEAN, version : 0 .. MaxVersions,
                armed : BOOLEAN]
Versions == [number : 1 .. MaxVersions, graph : Graphs]

Stages == {"workflow", "draft", "ready", "numbered", "deleting"}
Loaded == [stage : Stages, workflow : WorkflowRows, draft : DraftRows,
           binding : BindingRows, number : 0 .. MaxVersions]
Idle == [stage |-> "idle"]

\* A workflow as create and duplicate leave it.
Init ==
  /\ workflow = [status |-> "INACTIVE", published |-> 0, active |-> 0, deleted |-> FALSE]
  /\ draft \in [revision : {1}, graph : Graphs]
  /\ binding \in {b \in BindingRows :
       /\ ~b.enabled /\ ~b.armed /\ b.version = 0
       /\ TriggerOf[draft.graph] \in {NoTrigger, b.type}}
  /\ versions = {}
  /\ running = FALSE
  /\ request = [r \in Requests |-> Idle]
  /\ torn \in BOOLEAN

----------------------------------------------------------------------------
\* A fault to detect: the UPDATE names every column.
FlushedWhole(row, copy, object) == object

\* What an UPDATE leaves of a row: it names the columns in which the request's
\* object differs from the copy it loaded, and no others.
Flushed(row, copy, object) ==
  [c \in DOMAIN row |-> IF object[c] = copy[c] THEN row[c] ELSE object[c]]

\* next_run_at is computed anew and may or may not be the time already loaded:
\* then the column is written although both objects are armed.
Rearmed(row, rearms) == IF rearms THEN [row EXCEPT !.armed = TRUE] ELSE row

Ready(r) == request[r].stage = "ready"
End(r) == request' = [request EXCEPT ![r] = Idle]

\* Load of a request: get_workflow, which finds no deleted workflow. Its draft and
\* triggers come by SELECTs of their own right after.
Load(r) ==
  /\ request[r] = Idle
  /\ ~workflow.deleted
  /\ request' = [request EXCEPT ![r] =
       [stage |-> IF torn THEN "workflow" ELSE "ready",
        workflow |-> workflow, draft |-> draft, binding |-> binding, number |-> 0]]
  /\ UNCHANGED <<workflow, draft, binding, versions, running>>

LoadDraft(r) ==
  /\ request[r].stage = "workflow"
  /\ request' = [request EXCEPT ![r].stage = "draft", ![r].draft = draft]
  /\ UNCHANGED <<workflow, draft, binding, versions, running>>

LoadTriggers(r) ==
  /\ request[r].stage = "draft"
  /\ request' = [request EXCEPT ![r].stage = "ready", ![r].binding = binding]
  /\ UNCHANGED <<workflow, draft, binding, versions, running>>

\* Refused, failed or abandoned: the transaction is rolled back.
Refuse(r) ==
  /\ request[r] # Idle
  /\ End(r)
  /\ UNCHANGED <<workflow, draft, binding, versions, running>>

----------------------------------------------------------------------------
\* A fault to detect: a graph without a trigger sets the type all the same.
SyncedUnguarded(b, graph) ==
  [b EXCEPT !.type = TriggerOf[graph],
            !.enabled = b.enabled /\ b.type = TriggerOf[graph],
            !.armed = TriggerOf[graph] = "SCHEDULE" /\ (b.armed \/ b.enabled)]

\* The binding a graph asks for. A change of type switches an enabled one off.
Synced(b, graph) ==
  LET type == TriggerOf[graph]
  IN IF type = NoTrigger THEN b
     ELSE [b EXCEPT !.type = type,
                    !.enabled = b.enabled /\ b.type = type,
                    !.armed = type = "SCHEDULE" /\ (b.armed \/ b.enabled)]

\* The workflow's status with it.
Switched(w, b, graph) ==
  IF b.enabled /\ ~Synced(b, graph).enabled THEN [w EXCEPT !.status = "INACTIVE"] ELSE w

\* save_draft by an editor that has seen the revision this request loads.
Save(r, graph) ==
  LET copy == request[r]
      object == Synced(copy.binding, graph)
  IN /\ Ready(r)
     /\ copy.draft.revision < MaxRevision
     /\ draft' = Flushed(draft, copy.draft,
                         [revision |-> copy.draft.revision + 1, graph |-> graph])
     /\ \E rearms \in {FALSE, copy.binding.enabled /\ TriggerOf[graph] = "SCHEDULE"} :
          binding' = Rearmed(Flushed(binding, copy.binding, object), rearms)
     /\ workflow' = Flushed(workflow, copy.workflow,
                            Switched(copy.workflow, copy.binding, graph))
     /\ End(r)
     /\ UNCHANGED <<versions, running>>

\* publish up to the number it gives the new version: the copy of the draft has
\* passed validation, which includes a call of the engine.
Numbers == {v.number : v \in versions}
LastNumber == IF versions = {} THEN 0
              ELSE CHOOSE n \in Numbers : \A m \in Numbers : m <= n

Number(r) ==
  /\ Ready(r)
  /\ request[r].draft.graph \in Valid
  /\ LastNumber < MaxVersions
  /\ request' = [request EXCEPT ![r].stage = "numbered", ![r].number = LastNumber + 1]
  /\ UNCHANGED <<workflow, draft, binding, versions, running>>

\* A fault to detect: no unique constraint.
PublishUnconstrained(r) ==
  LET copy == request[r]
  IN /\ copy.stage = "numbered"
     /\ versions' = versions \cup {[number |-> copy.number, graph |-> copy.draft.graph]}
     /\ workflow' = Flushed(workflow, copy.workflow,
                            [copy.workflow EXCEPT !.published = copy.number])
     /\ End(r)
     /\ UNCHANGED <<draft, binding, running>>

\* A fault to detect: the draft is read again after the engine's answer.
PublishRereads(r) ==
  LET copy == request[r]
  IN /\ copy.stage = "numbered"
     /\ copy.number \notin Numbers
     /\ versions' = versions \cup {[number |-> copy.number, graph |-> draft.graph]}
     /\ workflow' = Flushed(workflow, copy.workflow,
                            [copy.workflow EXCEPT !.published = copy.number])
     /\ End(r)
     /\ UNCHANGED <<draft, binding, running>>

\* The rest of publish. uq_version_workflow_number refuses a number that is taken.
Publish(r) ==
  LET copy == request[r]
  IN /\ copy.stage = "numbered"
     /\ copy.number \notin Numbers
     /\ versions' = versions \cup {[number |-> copy.number, graph |-> copy.draft.graph]}
     /\ workflow' = Flushed(workflow, copy.workflow,
                            [copy.workflow EXCEPT !.published = copy.number])
     /\ End(r)
     /\ UNCHANGED <<draft, binding, running>>

\* A fault to detect: the binding gets the copy's published version, not the one checked.
ActivateUnchecked(r, v) ==
  LET copy == request[r]
      schedule == copy.binding.type = "SCHEDULE"
      object == [copy.binding EXCEPT !.enabled = TRUE, !.version = copy.workflow.published,
                                     !.armed = copy.binding.armed \/ schedule]
  IN /\ Ready(r)
     /\ v.graph \in Valid
     /\ binding' = Flushed(binding, copy.binding, object)
     /\ workflow' = Flushed(workflow, copy.workflow,
                            [copy.workflow EXCEPT !.active = v.number, !.status = "ACTIVE"])
     /\ End(r)
     /\ UNCHANGED <<draft, versions, running>>

\* activate, of the latest version its copy names or of any other.
Activate(r, v) ==
  LET copy == request[r]
      schedule == copy.binding.type = "SCHEDULE"
      object == [copy.binding EXCEPT !.enabled = TRUE, !.version = v.number,
                                     !.armed = copy.binding.armed \/ schedule]
  IN /\ Ready(r)
     /\ v.graph \in Valid
     /\ \E rearms \in {FALSE, schedule} :
          binding' = Rearmed(Flushed(binding, copy.binding, object), rearms)
     /\ workflow' = Flushed(workflow, copy.workflow,
                            [copy.workflow EXCEPT !.active = v.number, !.status = "ACTIVE"])
     /\ End(r)
     /\ UNCHANGED <<draft, versions, running>>

Off(b) == [b EXCEPT !.enabled = FALSE, !.armed = FALSE]

Deactivate(r) ==
  LET copy == request[r]
  IN /\ Ready(r)
     /\ binding' = Flushed(binding, copy.binding, Off(copy.binding))
     /\ workflow' = Flushed(workflow, copy.workflow,
                            [copy.workflow EXCEPT !.status = "INACTIVE"])
     /\ End(r)
     /\ UNCHANGED <<draft, versions, running>>

\* delete refuses while active, by its copy, and while a run has not ended.
CountNoRun(r) ==
  /\ Ready(r)
  /\ request[r].workflow.status # "ACTIVE"
  /\ ~running
  /\ request' = [request EXCEPT ![r].stage = "deleting"]
  /\ UNCHANGED <<workflow, draft, binding, versions, running>>

\* Then it writes, a soft delete; a run may have been started since.
Delete(r) ==
  LET copy == request[r]
  IN /\ copy.stage = "deleting"
     /\ workflow' = Flushed(workflow, copy.workflow,
                            [copy.workflow EXCEPT !.deleted = TRUE, !.status = "DELETED"])
     /\ binding' = Flushed(binding, copy.binding, Off(copy.binding))
     /\ End(r)
     /\ UNCHANGED <<draft, versions, running>>

\* executions.create of the draft, or of the active or else the published version,
\* with one run per workflow. ExecutionCreate opens it up.
Run(r) ==
  LET copy == request[r]
      pinned == IF copy.workflow.active # 0 THEN copy.workflow.active
                ELSE copy.workflow.published
  IN /\ Ready(r)
     /\ ~running
     /\ \/ copy.draft.graph \in Valid
        \/ \E v \in versions : v.number = pinned /\ v.graph \in Valid
     /\ running' = TRUE
     /\ End(r)
     /\ UNCHANGED <<workflow, draft, binding, versions>>

----------------------------------------------------------------------------
\* due_schedules: a binding whose time has come or will come.
Due == binding.enabled /\ binding.type = "SCHEDULE" /\ binding.armed

\* A fault to detect: the tick does not look at deleted_at.
TickBlind ==
  /\ Due
  /\ binding' = [binding EXCEPT !.enabled = running \/ binding.version # 0]
  /\ running' = \/ running
                \/ \E v \in versions : v.number = binding.version /\ v.graph \in Valid
  /\ UNCHANGED <<workflow, draft, versions, request>>

\* fire_schedule. The tick holds the binding's row lock from its SELECT to its commit.
\* A deleted workflow's binding is switched off; else a run is started unless one has
\* not ended, and the finally block sets the next time again in every case.
Tick ==
  /\ Due
  /\ binding' = [binding EXCEPT !.enabled = ~workflow.deleted /\ (running \/ binding.version # 0),
                                !.armed = ~workflow.deleted]
  /\ running' = \/ running
                \/ /\ ~workflow.deleted
                   /\ \E v \in versions : v.number = binding.version /\ v.graph \in Valid
  /\ UNCHANGED <<workflow, draft, versions, request>>

\* A worker records the end of the run (RunSaga).
RunEnds ==
  /\ running
  /\ running' = FALSE
  /\ UNCHANGED <<workflow, draft, binding, versions, request>>

Next ==
  \/ \E r \in Requests :
       \/ Load(r) \/ LoadDraft(r) \/ LoadTriggers(r) \/ Refuse(r)
       \/ \E graph \in Graphs : Save(r, graph)
       \/ Number(r) \/ Publish(r)
       \/ \E v \in versions : Activate(r, v)
       \/ Deactivate(r) \/ CountNoRun(r) \/ Delete(r) \/ Run(r)
  \/ Tick
  \/ RunEnds

\* READ COMMITTED allows torn loads; torn stays as it is so that it can be a premise.
Spec == Init /\ [][Next /\ UNCHANGED torn]_<<vars, torn>>

\* The schedule loop never stops, and a run ends (EveryRunSettles of RunSaga).
FairSpec == Spec /\ WF_vars(Tick) /\ WF_vars(RunEnds)

----------------------------------------------------------------------------
TypeOK ==
  /\ workflow \in WorkflowRows
  /\ draft \in DraftRows
  /\ binding \in BindingRows
  /\ versions \subseteq Versions
  /\ running \in BOOLEAN
  /\ request \in [Requests -> Loaded \cup {Idle}]
  /\ torn \in BOOLEAN

\* Versions are numbered 1, 2, ... with none missing and none twice, and the workflow
\* names the last one, however many publish at once (workflows.py, publish: max + 1 is
\* read without a lock and the pointer is written blindly).
VersionsInOrder ==
  /\ Numbers = 1 .. workflow.published
  /\ \A v, w \in versions : v.number = w.number => v = w

\* A version is a graph that passed validation, although the draft may have moved on
\* while the engine was asked (publish, SRS 27.2).
PublishedIsValid == \A v \in versions : v.graph \in Valid

\* A binding that fires names a version that was published (resolve_webhook,
\* fire_schedule: without one they refuse, or switch the schedule off).
EnabledCanFire == binding.enabled => binding.version \in Numbers

\* If every load sees one moment, the workflow and its binding agree whatever requests
\* overlap: on or off together, and pointing at one version (activate, deactivate and
\* the type change of _sync_trigger_from_graph write two rows from copies).
BindingFollowsWorkflow ==
  ~torn => /\ binding.version = workflow.active
           /\ ~workflow.deleted => (binding.enabled <=> workflow.status = "ACTIVE")

\* A deleted workflow comes to rest: requests that loaded it before may still switch it
\* on or run it, but in the end its schedule is not due and nothing runs (delete,
\* fire_schedule's check of deleted_at).
DeletedComesToRest == workflow.deleted ~> [](~Due /\ ~running)
=============================================================================
