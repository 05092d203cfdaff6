------------------------------ MODULE Permissions ------------------------------
(***************************************************************************)
(* Who may do what (backend/app/core/permissions.py and effective_role of  *)
(* services/access.py): the presets of the roles, what an override on a    *)
(* membership makes of them, and the organisation's own axis.              *)
(***************************************************************************)
EXTENDS FiniteSets

Modules == {"workflows", "credentials", "executions", "nodes", "monitoring", "alerts",
            "audit", "members", "settings"}
Actions == {"view", "view_data", "create", "edit", "execute", "publish", "use", "delete",
            "admin"}

AssignableRoles == {"OWNER", "AUTOMATION_ADMIN", "AUTOMATION_BUILDER", "OPERATOR",
                    "ANALYST", "AUDITOR"}
Roles == AssignableRoles \cup {"PLATFORM_ADMIN"}

ReadOnly == {"view"}

\* MATRIX: one row per role. A module that a row below does not name is read only.
MatrixRow(exceptions) ==
  [module \in Modules |-> IF module \in DOMAIN exceptions THEN exceptions[module]
                                                          ELSE ReadOnly]

Matrix ==
  [role \in Roles |->
     CASE role \in {"OWNER", "PLATFORM_ADMIN"} -> [module \in Modules |-> Actions]
       [] role = "AUTOMATION_ADMIN" -> MatrixRow(
            [workflows   |-> Actions \ {"use", "admin"},
             credentials |-> {"view", "create", "edit", "use", "delete"},
             executions  |-> {"view", "view_data", "execute"},
             monitoring  |-> {"view", "view_data"},
             alerts      |-> {"view", "create", "edit", "execute", "delete"},
             settings    |-> {"view", "edit"}])
       [] role = "AUTOMATION_BUILDER" -> MatrixRow(
            [workflows   |-> {"view", "view_data", "create", "edit", "execute"},
             credentials |-> {"view", "create", "edit", "use"},
             executions  |-> {"view", "view_data", "execute"},
             alerts      |-> {"view", "execute"},
             audit       |-> {},
             members     |-> {}])
       [] role = "OPERATOR" -> MatrixRow(
            [workflows   |-> {"view", "execute"},
             executions  |-> {"view", "view_data", "execute"},
             monitoring  |-> {"view", "view_data"},
             alerts      |-> {"view", "execute"},
             audit       |-> {},
             members     |-> {}])
       [] role = "ANALYST" -> MatrixRow(
            [executions  |-> {"view", "view_data"},
             audit       |-> {},
             members     |-> {}])
       [] role = "AUDITOR" -> MatrixRow(<< >>)]

\* _as_actions: a stored list may hold names that have gone stale.
Recognised(stored) == stored \cap Actions

\* effective: what a session may do.
Effective(role, overrides, platformAdmin) ==
  [module \in Modules |->
     IF platformAdmin THEN Actions
     ELSE IF module \in DOMAIN overrides THEN Recognised(overrides[module])
     ELSE Matrix[role][module]]

NoOverrides == << >>

\* parse_overrides: a submitted map is stored as it is or refused as a whole.
ParseOverrides(submitted) ==
  [valid |-> /\ DOMAIN submitted \subseteq Modules
             /\ \A module \in DOMAIN submitted : submitted[module] \subseteq Actions,
   stored |-> submitted]

----------------------------------------------------------------------------
OrgRoles == {"ORG_OWNER", "ORG_ADMIN", "ORG_MEMBER"}
NoRole == "none"

OrgMatrix ==
  [role \in OrgRoles \cup {NoRole} |->
     CASE role = "ORG_OWNER"  -> {"view", "create", "edit", "delete", "admin"}
       [] role = "ORG_ADMIN"  -> {"view", "create", "edit", "admin"}
       [] role = "ORG_MEMBER" -> {"view"}
       [] role = NoRole       -> {}]

\* ORG_ROLES_WITH_WORKSPACE_ACCESS
OrgAdministrators == {"ORG_OWNER", "ORG_ADMIN"}

\* _assignable_org_role: only an owner makes another owner.
AssignableBy(actingRole) ==
  IF actingRole = "ORG_OWNER" THEN OrgRoles ELSE OrgRoles \ {"ORG_OWNER"}

\* effective_role: a membership row first, then the platform flag, then the
\* organisation's grant. NoRole: no claim.
EffectiveRole(workspaceRole, platformAdmin, orgRole) ==
  CASE workspaceRole # NoRole         -> workspaceRole
    [] workspaceRole = NoRole /\ platformAdmin -> "PLATFORM_ADMIN"
    [] workspaceRole = NoRole /\ ~platformAdmin /\ orgRole \in OrgAdministrators -> "OWNER"
    [] OTHER                          -> NoRole
=============================================================================
