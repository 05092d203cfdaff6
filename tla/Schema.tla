--------------------------------- MODULE Schema ---------------------------------
(***************************************************************************)
(* The database schema as backend/migrations writes it, revision by        *)
(* revision, and as backend/app/models declares it. An object is a table   *)
(* <<t>>, a part of a table <<t, name>> that some revision adds or drops   *)
(* by itself, or an enumerated type. The columns and indexes that live as  *)
(* long as their table are left out. PostgreSQL refuses to create what     *)
(* exists, to drop what is missing or still referenced, and a constraint   *)
(* that the rows break.                                                    *)
(***************************************************************************)
EXTENDS Integers, FiniteSets, Sequences, SequencesExt, Permissions

CONSTANT People   \* users

NoKey == "no key"
NoOrganization == "none"
DEFAULT_SLUG == "default"

\* The rows that a revision rewrites or a constraint is about: executions, in the order
\* they were queued, with their idempotency keys, and which of them are filed against a
\* workflow of another workspace; workspaces and their organisation; memberships, users,
\* the platform flag, and the role in the organisation; how many default engine instances
\* there are.
NoRows ==
  [runs |-> << >>, strays |-> {}, organization |-> << >>, member |-> << >>, users |-> {}, admins |-> {},
   orgMember |-> [u \in People |-> NoRole], engines |-> 0]

HasWorkspaces(rows) == rows.organization # << >>

\* What a user is to a workspace (effective_role).
Reach(rows, u, w) ==
  IF ~HasWorkspaces(rows) THEN NoRole
  ELSE EffectiveRole(rows.member[w][u], u \in rows.admins, rows.orgMember[u])

----------------------------------------------------------------------------
Type(name) == <<"type", name>>
Types(names) == {Type(name) : name \in names}

\* A table that refers to others, brings types and shares types made before.
Table(name, makes, shares, refers) ==
  [do |-> "create", object |-> <<name>>, types |-> Types(makes),
   needs |-> Types(shares) \cup {<<t>> : t \in refers}]

Part(table, name, needs) ==
  [do |-> "create", object |-> <<table, name>>, types |-> {},
   needs |-> needs \cup {<<table>>}]

Drop(object) == [do |-> "drop", object |-> object]
DropEach(objects) == [i \in DOMAIN objects |-> Drop(objects[i])]
DropTypes(names) == [do |-> "dropTypes", types |-> Types(names)]
Data(name) == [do |-> name]

----------------------------------------------------------------------------
(* df842f034dc0: the initial product schema *)

FirstTables == <<
  Table("audit_events", {"actor_type", "audit_result"}, {}, {}),
  Table("engine_instances", {"engine_type", "engine_instance_status"}, {}, {}),
  Table("node_definitions", {"node_category", "certification", "node_status"}, {}, {}),
  Table("notifications", {"alert_event_type", "notification_status"}, {}, {}),
  Table("secrets", {}, {}, {}),
  Table("users", {}, {}, {}),
  Table("workspaces", {"workspace_status"}, {}, {"engine_instances"})>>

WorkspaceTables == <<
  Table("credentials", {"credential_type", "credential_status"}, {}, {"users", "workspaces"}),
  Table("memberships", {"member_role"}, {}, {"users", "workspaces"}),
  Table("workflows", {"workflow_status", "trigger_type"}, {}, {"users", "workspaces"}),
  Table("alert_rules", {}, {"alert_event_type"}, {"workflows", "workspaces"}),
  Table("workflow_drafts", {}, {}, {"users", "workflows"}),
  Table("workflow_versions", {}, {}, {"users", "workflows"})>>

RunTables == <<
  Table("executions", {"version_kind", "execution_status"}, {"trigger_type"},
        {"engine_instances", "users", "workflows", "workflow_versions", "workspaces"}),
  Part("executions", "ix_executions_idempotency", {}),
  Table("trigger_bindings", {"overlap_policy"}, {"trigger_type"},
        {"users", "workflows", "workflow_versions"}),
  Table("execution_logs", {}, {}, {"executions"}),
  Table("execution_node_results", {"node_run_status"}, {}, {"executions"})>>

\* The circular pair: workflows and workflow_versions refer to each other.
CircularKeys == <<
  Part("workflows", "fk_workflows_published_version_id", {<<"workflow_versions">>}),
  Part("workflows", "fk_workflows_active_version_id", {<<"workflow_versions">>})>>

DropCircularKeys ==
  DropEach(<< <<"workflows", "fk_workflows_active_version_id">>,
              <<"workflows", "fk_workflows_published_version_id">> >>)

DropTables ==
  DropEach(<< <<"execution_node_results">>, <<"execution_logs">>, <<"trigger_bindings">>,
     <<"executions", "ix_executions_idempotency">>, <<"executions">>, <<"workflow_versions">>,
     <<"workflow_drafts">>, <<"alert_rules">>, <<"workflows">>, <<"memberships">>,
     <<"credentials">>, <<"workspaces">>, <<"users">>, <<"secrets">>, <<"notifications">>,
     <<"node_definitions">>, <<"engine_instances">>, <<"audit_events">> >>)

\* PostgreSQL keeps a type after the last table that uses it.
DropEnumTypes ==
  <<DropTypes({"actor_type", "alert_event_type", "audit_result", "certification",
     "credential_status", "credential_type", "engine_instance_status", "engine_type",
     "execution_status", "member_role", "node_category", "node_run_status", "node_status",
     "notification_status", "overlap_policy", "trigger_type", "version_kind",
     "workflow_status", "workspace_status"})>>

----------------------------------------------------------------------------
(* The revisions after it *)

IdempotencyUp == <<
  Data("collapse"),
  Drop(<<"executions", "ix_executions_idempotency">>),
  Part("executions", "uq_executions_idempotency", {}),
  Table("rate_limit_buckets", {}, {}, {}),
  Part("engine_instances", "uq_engine_instances_name", {})>>

IdempotencyDown == <<
  Drop(<<"engine_instances", "uq_engine_instances_name">>),
  Drop(<<"rate_limit_buckets">>),
  Drop(<<"executions", "uq_executions_idempotency">>),
  Part("executions", "ix_executions_idempotency", {})>>

SealedPayloadUp == <<Part("executions", "start_payload_sealed", {})>>
SealedPayloadDown == <<Drop(<<"executions", "start_payload_sealed">>)>>

WorkerBeatUp == <<Part("engine_instances", "last_worker_beat_at", {})>>
WorkerBeatDown == <<Drop(<<"engine_instances", "last_worker_beat_at">>)>>

TenantKeysUp == <<
  Part("workflows", "uq_workflows_workspace_id", {}),
  Part("executions", "fk_executions_workflow_same_workspace",
       {<<"workflows", "uq_workflows_workspace_id">>})>>

TenantKeysDown == <<
  Drop(<<"executions", "fk_executions_workflow_same_workspace">>),
  Drop(<<"workflows", "uq_workflows_workspace_id">>)>>

OrganizationsUp == <<
  [do |-> "create", object |-> Type("org_role"), types |-> {}, needs |-> {}],
  Table("organizations", {}, {"workspace_status"}, {}),
  Table("organization_memberships", {}, {"org_role"}, {"organizations", "users"}),
  Part("workspaces", "organization_id", {}),
  Data("backfill"),
  Part("workspaces", "organization_id not null", {<<"workspaces", "organization_id">>}),
  Part("workspaces", "fk_workspaces_organization_id",
       {<<"organizations">>, <<"workspaces", "organization_id">>}),
  Part("memberships", "permissions", {})>>

OrganizationsDown == <<
  Drop(<<"memberships", "permissions">>),
  Drop(<<"workspaces", "fk_workspaces_organization_id">>),
  Drop(<<"workspaces", "organization_id">>),
  Drop(<<"organization_memberships">>),
  Drop(<<"organizations">>),
  Drop(Type("org_role"))>>

\* The chain of revisions, by position; 0: before the first, or no version row.
Upgrade ==
  << FirstTables \o WorkspaceTables \o RunTables \o CircularKeys,
     IdempotencyUp, SealedPayloadUp, WorkerBeatUp, TenantKeysUp, OrganizationsUp >>

Downgrade ==
  << DropCircularKeys \o DropTables \o DropEnumTypes,
     IdempotencyDown, SealedPayloadDown, WorkerBeatDown, TenantKeysDown, OrganizationsDown >>

\* head_revision: the one that no other revises.
HeadRevision == Len(Upgrade)

----------------------------------------------------------------------------
(* The models *)

IdentityModels ==
  {<<"users">>, <<"organizations">>, <<"organization_memberships">>, <<"workspaces">>,
   <<"memberships">>, <<"memberships", "permissions">>, <<"workspaces", "organization_id">>,
   <<"workspaces", "organization_id not null">>,
   <<"workspaces", "fk_workspaces_organization_id">>}
  \cup Types({"workspace_status", "org_role", "member_role"})

WorkflowModels ==
  {<<"workflows">>, <<"workflow_drafts">>, <<"workflow_versions">>,
   <<"workflows", "uq_workflows_workspace_id">>,
   <<"workflows", "fk_workflows_published_version_id">>,
   <<"workflows", "fk_workflows_active_version_id">>}
  \cup Types({"workflow_status", "trigger_type"})

BindingModels ==
  {<<"trigger_bindings">>, <<"credentials">>}
  \cup Types({"trigger_type", "overlap_policy", "credential_type", "credential_status"})

ExecutionModels ==
  {<<"executions">>, <<"executions", "uq_executions_idempotency">>,
   <<"executions", "fk_executions_workflow_same_workspace">>,
   <<"executions", "start_payload_sealed">>}
  \cup Types({"execution_status", "version_kind", "trigger_type"})

ResultModels ==
  {<<"execution_node_results">>, <<"execution_logs">>} \cup Types({"node_run_status"})

OpsModels ==
  {<<"audit_events">>, <<"alert_rules">>, <<"notifications">>, <<"rate_limit_buckets">>}
  \cup Types({"actor_type", "audit_result", "alert_event_type", "notification_status"})

SecretModels == {<<"secrets">>}

CatalogModels ==
  {<<"node_definitions">>, <<"engine_instances">>,
   <<"engine_instances", "uq_engine_instances_name">>,
   <<"engine_instances", "last_worker_beat_at">>}
  \cup Types({"node_category", "certification", "node_status", "engine_type",
              "engine_instance_status"})

\* Base.metadata, which create_all builds and `alembic check` compares with.
Metadata ==
  IdentityModels \cup WorkflowModels \cup BindingModels \cup ExecutionModels
  \cup ResultModels \cup OpsModels \cup SecretModels \cup CatalogModels

----------------------------------------------------------------------------
(* Running a revision *)

\* What stands or falls with what: a table's types and what it refers to.
Requires ==
  UNION {({step.object} \X (step.needs \cup step.types)) :
           step \in {s \in UNION {ToSet(Upgrade[r]) : r \in 1..HeadRevision} : s.do = "create"}}

\* A column or constraint goes with its table, and a constraint with its column.
GoesWith(object) ==
  {object}
  \cup (IF Len(object) = 1 THEN {<<object[1], p[2]>> : p \in {q \in Metadata : Len(q) = 2}}
        ELSE {})
  \cup (IF object = <<"workspaces", "organization_id">>
        THEN {<<"workspaces", "organization_id not null">>} ELSE {})

\* The constraints that rows may break.
OneRunPerKey == <<"executions", "uq_executions_idempotency">>
OneEnginePerName == <<"engine_instances", "uq_engine_instances_name">>
OrganizationGiven == <<"workspaces", "organization_id not null">>
SameWorkspace == <<"executions", "fk_executions_workflow_same_workspace">>
Constraints == {OneRunPerKey, OneEnginePerName, OrganizationGiven, SameWorkspace}

Satisfied(object, rows) ==
  /\ object = OneRunPerKey =>
       \A i, j \in DOMAIN rows.runs :
         rows.runs[i] = rows.runs[j] /\ rows.runs[i] # NoKey => i = j
  /\ object = OneEnginePerName => rows.engines <= 1
  /\ object = OrganizationGiven =>
       \A w \in DOMAIN rows.organization : rows.organization[w] # NoOrganization
  /\ object = SameWorkspace => rows.strays = {}

\* A fault to detect: a workspace stays without an organisation.
BackfillMembersOnly(rows) ==
  [rows EXCEPT !.orgMember = [u \in People |-> IF u \in rows.admins THEN "ORG_OWNER" ELSE NoRole]]

\* A fault to detect: the duplicates are left for the unique index to find.
CollapseNothing(rows) == rows

KeepRuns(rows, kept) ==
  [rows EXCEPT !.runs = [i \in kept |-> @[i]], !.strays = @ \cap kept]

\* A fault to detect: the latest run of a key is the one that is kept.
CollapseKeepsLatest(rows) ==
  LET runs == rows.runs
  IN  KeepRuns(rows, {i \in DOMAIN runs :
        runs[i] = NoKey \/ ~\E j \in DOMAIN runs : j > i /\ runs[j] = runs[i]})

\* Of the runs with one key the earliest stays.
Collapse(rows) ==
  LET runs == rows.runs
  IN  KeepRuns(rows, {i \in DOMAIN runs :
        runs[i] = NoKey \/ ~\E j \in DOMAIN runs : j < i /\ runs[j] = runs[i]})

\* Every workspace joins one organisation: those who administer a workspace or the
\* deployment own it, everybody else with a membership joins it.
Backfill(rows) ==
  LET Administers(u) == u \in rows.admins \/ \E w \in DOMAIN rows.member : rows.member[w][u] = "OWNER"
      Member(u) == \E w \in DOMAIN rows.member : rows.member[w][u] # NoRole
  IN  IF ~HasWorkspaces(rows) THEN rows
      ELSE [rows EXCEPT
              !.organization = [w \in DOMAIN @ |-> DEFAULT_SLUG],
              !.orgMember = [u \in People |->
                 IF Administers(u) THEN "ORG_OWNER" ELSE IF Member(u) THEN "ORG_MEMBER" ELSE NoRole]]

\* What goes with an object that is dropped.
Erase(object, rows) ==
  CASE object = <<"executions">> -> [rows EXCEPT !.runs = << >>, !.strays = {}]
    [] object = <<"workspaces">> -> [rows EXCEPT !.organization = << >>, !.member = << >>]
    [] object = <<"users">> -> [rows EXCEPT !.users = {}, !.admins = {}]
    [] object = <<"engine_instances">> -> [rows EXCEPT !.engines = 0]
    [] object = <<"workspaces", "organization_id">> ->
         [rows EXCEPT !.organization = [w \in DOMAIN @ |-> NoOrganization]]
    [] object = <<"organization_memberships">> ->
         [rows EXCEPT !.orgMember = [u \in People |-> NoRole]]
    [] OTHER -> rows

\* Whether the objects let a step through, and what it makes of them ...
Allowed(objects, step) ==
  CASE step.do = "create"    -> /\ objects \cap (step.types \cup {step.object}) = {}
                                /\ step.needs \subseteq objects
    [] step.do = "drop"      -> /\ step.object \in objects
                                /\ \A x \in objects \ GoesWith(step.object) :
                                     <<x, step.object>> \notin Requires
    [] step.do = "dropTypes" -> \A x \in objects, t \in step.types : <<x, t>> \notin Requires
    [] OTHER                 -> TRUE

Changed(objects, step) ==
  CASE step.do = "create"    -> objects \cup step.types \cup {step.object}
    [] step.do = "drop"      -> objects \ GoesWith(step.object)
    [] step.do = "dropTypes" -> objects \ step.types
    [] OTHER                 -> objects

\* ... and the same of the rows.
Admits(rows, step) == step.do = "create" => Satisfied(step.object, rows)

Rewritten(rows, step) ==
  CASE step.do = "drop"     -> Erase(step.object, rows)
    [] step.do = "collapse" -> Collapse(rows)
    [] step.do = "backfill" -> Backfill(rows)
    [] OTHER                -> rows

Apply(d, step) ==
  [ok |-> d.ok /\ Allowed(d.objects, step) /\ Admits(d.rows, step),
   objects |-> Changed(d.objects, step),
   rows |-> Rewritten(d.rows, step)]

\* The steps of the revisions first..last, in order.
Chain(first, last) == FlattenSeq([i \in 1..(last - first + 1) |-> Upgrade[first + i - 1]])

\* One transaction: all the steps or, when one is refused (~ok), nothing.
Run(objects, rows, steps) ==
  LET after[i \in 0..Len(steps)] ==
        IF i = 0 THEN [ok |-> TRUE, objects |-> objects, rows |-> rows]
        ELSE Apply(after[i - 1], steps[i])
  IN  after[Len(steps)]

\* The objects alone, as on a database without rows.
Lay(d, step) ==
  [ok |-> d.ok /\ Allowed(d.objects, step), objects |-> Changed(d.objects, step)]

Layout(objects, steps) ==
  LET after[i \in 0..Len(steps)] ==
        IF i = 0 THEN [ok |-> TRUE, objects |-> objects] ELSE Lay(after[i - 1], steps[i])
  IN  after[Len(steps)]

\* The objects a version row stands for, by the revisions alone.
ObjectsAt == [r \in 0..HeadRevision |-> Layout({}, Chain(1, r)).objects]

----------------------------------------------------------------------------
(* What the text of the revisions says: no constant and no row is in it, so that TLC   *)
(* settles it by evaluation.                                                           *)

Does(steps, what) == \E i \in 1..Len(steps) : steps[i].do = what
Touches(steps, what, object) ==
  \E i \in 1..Len(steps) : steps[i].do = what /\ steps[i].object = object

\* A constraint is only created once the rows have been made to meet it; types are none.
Prepared(steps) ==
  /\ Len(steps) \in Nat
  /\ \A i \in 1..Len(steps) : steps[i].do = "create" =>
       /\ steps[i].object = OneRunPerKey => \E k \in 1..(i - 1) : steps[k].do = "collapse"
       /\ steps[i].object = OrganizationGiven =>
            /\ \E k \in 1..(i - 1) : steps[k].do = "backfill"
            /\ ~Touches(steps, "drop", <<"workspaces", "organization_id">>)
  /\ \A i \in 1..Len(steps) :
       steps[i].do \in {"create", "dropTypes"} => steps[i].types \cap Constraints = {}

\* What the rows are in.
Holders == {<<"executions">>, <<"workspaces">>, <<"users">>, <<"engine_instances">>,
            <<"workspaces", "organization_id">>, <<"organization_memberships">>}

\* The revisions lead from each one's objects to the next one's and back, and all of them
\* to those of the models; what create_all built they refuse.
ASSUME LayoutsAssumption ==
  /\ ObjectsAt[0] = {} /\ ObjectsAt[HeadRevision] = Metadata /\ Constraints \subseteq Metadata
  /\ ~Layout(Metadata, Chain(1, HeadRevision)).ok
  /\ \A r \in 0..HeadRevision :
       Layout(ObjectsAt[r], Chain(r + 1, HeadRevision)) = [ok |-> TRUE, objects |-> Metadata]
  /\ \A r \in 1..HeadRevision :
       /\ ObjectsAt[r] \notin {{}, Metadata} \/ r = HeadRevision
       /\ Layout(ObjectsAt[r], Downgrade[r]) = [ok |-> TRUE, objects |-> ObjectsAt[r - 1]]
       /\ Layout(ObjectsAt[r - 1], Upgrade[r]).ok

\* Each prepares its constraints. An upgrade erases no row; a downgrade rewrites none, and
\* the tables it drops are those whose rows it must not leave.
ASSUME StepsAssumption ==
  /\ \A r \in 0..HeadRevision :
       /\ Prepared(Chain(r + 1, HeadRevision))
       /\ \A object \in Holders : ~Touches(Chain(r + 1, HeadRevision), "drop", object)
  /\ \A r \in 1..HeadRevision :
       /\ Prepared(Upgrade[r]) /\ Prepared(Downgrade[r])
       /\ \A object \in {OneEnginePerName, SameWorkspace} :
            Touches(Upgrade[r], "create", object) => object \in ObjectsAt[r]
       /\ ~Does(Downgrade[r], "collapse") /\ ~Does(Downgrade[r], "backfill")
       /\ \A object \in Constraints : ~Touches(Downgrade[r], "create", object)
  /\ {<<"executions">>, <<"workspaces">>, <<"engine_instances">>} \subseteq
       {object \in Holders : Touches(Downgrade[1], "drop", object)}
  /\ Touches(Downgrade[HeadRevision], "drop", <<"organization_memberships">>)
=============================================================================
