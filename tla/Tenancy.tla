-------------------------------- MODULE Tenancy --------------------------------
(***************************************************************************)
(* Organisations, workspaces and who belongs to them                       *)
(* (backend/app/services: access.py, organizations.py, provisioning.py).   *)
(* A request takes its authority and everything it checks from what it     *)
(* reads, and writes later: PostgreSQL runs it in READ COMMITTED and none  *)
(* of these reads takes a lock.                                            *)
(***************************************************************************)
EXTENDS Integers, FiniteSets, Permissions

CONSTANTS
  Users,          \* accounts, and the addresses that may get one
  Admins,         \* those with is_platform_admin, which only bootstrap sets
  Workspaces,     \* slugs of workspaces, ...
  Organizations,  \* ... and of organisations
  HomeOf,         \* the organisation provisioned together with a workspace
  First,          \* the workspace that bootstrap creates
  Requests,       \* API requests or commands in progress
  GivenRoles,     \* workspace roles that requests hand out
  GivenOverrides, \* overrides that requests store
  MaxChanges      \* bound on the number of requests that commit

ASSUME TenancyAssumption ==
  /\ Admins \subseteq Users /\ Admins # {}
  /\ HomeOf \in [Workspaces -> Organizations]
  /\ First \in Workspaces
  /\ "none" \notin Organizations
  /\ GivenRoles \subseteq AssignableRoles
  /\ NoOverrides \in GivenOverrides
  /\ MaxChanges \in Nat

VARIABLES
  account,      \* users: absent, invited (password_change_required) or ready
  workspace,    \* workspaces: absent, or the organisation and the status
  member,       \* memberships: role (NoRole: no row) and permissions
  orgMember,    \* organization_memberships: the role
  memberKey,    \* the primary key a membership has, or the last one had: the rows of the
  orgKey,       \* same workspace and user are counted. The same of organisations
  trail,        \* the role named by the last audit event about the role of a membership
  orgTrail,     \* ... about an organisation membership
  request,      \* per request: idle, or the write it has decided on
  overlap,      \* whether requests may be in progress together
  changes       \* requests committed so far

members == <<member, memberKey, trail>>
orgMembers == <<orgMember, orgKey, orgTrail>>
vars == <<account, workspace, members, orgMembers, request, overlap, changes>>

Absent == [organization |-> "none", status |-> "absent"]
Row(role, overrides) == [role |-> role, permissions |-> overrides]
NoRow == Row(NoRole, NoOverrides)
Idle == [kind |-> "idle"]

Rows == [role : AssignableRoles, permissions : GivenOverrides] \cup {NoRow}
MemberWrites ==
  [kind : {"add", "role", "permissions", "remove"}, place : Workspaces, user : Users,
   row : Rows, loaded : Rows, key : Nat, creates : BOOLEAN]
OrgWrites ==
  [kind : {"orgAdd", "orgRole", "orgRemove"}, place : Organizations, user : Users,
   row : OrgRoles \cup {NoRole}, loaded : OrgRoles \cup {NoRole}, key : Nat,
   creates : BOOLEAN]
WorkspaceWrites ==
  [kind : {"status"}, place : Workspaces, row : {"ACTIVE", "SUSPENDED"}]
  \cup [kind : {"department", "provision"}, place : Workspaces, user : Users,
        organization : Organizations, creates : BOOLEAN]

\* What app.bootstrap leaves: a workspace, its organisation and one account that owns
\* both. It has to change its password first.
Init ==
  \E admin \in Admins :
    /\ account = [u \in Users |-> IF u = admin THEN "invited" ELSE "absent"]
    /\ workspace = [w \in Workspaces |->
         IF w = First THEN [organization |-> HomeOf[w], status |-> "ACTIVE"] ELSE Absent]
    /\ member = [w \in Workspaces |-> [u \in Users |->
         IF w = First /\ u = admin THEN Row("OWNER", NoOverrides) ELSE NoRow]]
    /\ orgMember = [o \in Organizations |-> [u \in Users |->
         IF o = HomeOf[First] /\ u = admin THEN "ORG_OWNER" ELSE NoRole]]
    /\ memberKey = [w \in Workspaces |-> [u \in Users |-> IF member[w][u] = NoRow THEN 0 ELSE 1]]
    /\ orgKey = [o \in Organizations |-> [u \in Users |-> IF orgMember[o][u] = NoRole THEN 0 ELSE 1]]
    /\ trail = [w \in Workspaces |-> [u \in Users |-> member[w][u].role]]
    /\ orgTrail = orgMember
    /\ request = [r \in Requests |-> Idle]
    /\ overlap \in BOOLEAN
    /\ changes = 0

----------------------------------------------------------------------------
OrgRoleIn(u, w) ==
  IF workspace[w] = Absent THEN NoRole ELSE orgMember[workspace[w].organization][u]

\* reachable: a membership, the organisation's grant or the platform flag, in a
\* workspace that is active.
Reaches(u, w) ==
  /\ workspace[w].status = "ACTIVE"
  /\ EffectiveRole(member[w][u].role, u \in Admins, OrgRoleIn(u, w)) # NoRole

\* Overrides count only for those who are here by their membership alone.
OverridesIn(u, w) ==
  IF u \in Admins \/ OrgRoleIn(u, w) \in OrgAdministrators THEN NoOverrides
  ELSE member[w][u].permissions

\* request_context: the account has its own password and reaches the workspace.
HasContext(u, w) == account[u] = "ready" /\ Reaches(u, w)

\* ctx.require
Authorised(u, w, module, action) ==
  /\ HasContext(u, w)
  /\ action \in Effective(EffectiveRole(member[w][u].role, u \in Admins, OrgRoleIn(u, w)),
                          OverridesIn(u, w), u \in Admins)[module]

\* org_require, for the organisation of the workspace the request addresses.
OrgAuthorised(u, w, action) ==
  /\ HasContext(u, w)
  /\ action \in OrgMatrix[OrgRoleIn(u, w)]

\* require_platform_admin: by a request in any workspace, or by app.provision, which
\* looks neither at workspaces nor at the password flag.
PlatformAdmin(u) == u \in Admins /\ account[u] # "absent"

\* A fault to detect: the guard counts the row it is about to change.
LastOwnerCountsAll(w, u) == Cardinality({v \in Users : member[w][v].role = "OWNER"}) = 0

\* _guard_last_owner
LastOwner(w, u) == ~\E v \in Users \ {u} : member[w][v].role = "OWNER"

\* A fault to detect: the guard counts the row it is about to change.
LastOrgOwnerCountsAll(o, u) == \A v \in Users : orgMember[o][v] # "ORG_OWNER"

\* organizations._guard_last_owner
LastOrgOwner(o, u) == ~\E v \in Users \ {u} : orgMember[o][v] = "ORG_OWNER"

\* The request has made its checks and will make this write.
Decide(r, write) ==
  /\ ~overlap => \A s \in Requests : request[s] = Idle
  /\ request' = [request EXCEPT ![r] = write]
  /\ UNCHANGED <<account, workspace, members, orgMembers, overlap, changes>>

\* A write to a membership goes with the copy of the row it was decided on.
MemberWrite(kind, w, u, row) ==
  [kind |-> kind, place |-> w, user |-> u, row |-> row,
   loaded |-> member[w][u], key |-> memberKey[w][u],
   creates |-> kind = "add" /\ account[u] = "absent"]

OrgWrite(kind, o, u, role) ==
  [kind |-> kind, place |-> o, user |-> u, row |-> role,
   loaded |-> orgMember[o][u], key |-> orgKey[o][u],
   creates |-> kind = "orgAdd" /\ account[u] = "absent"]

----------------------------------------------------------------------------
\* invite_member: an address without an account gets one.
InviteMember(r, actor, w, u, role) ==
  /\ Authorised(actor, w, "members", "create")
  /\ member[w][u] = NoRow
  /\ Decide(r, MemberWrite("add", w, u, Row(role, NoOverrides)))

\* update_role
UpdateRole(r, actor, w, u, role) ==
  /\ Authorised(actor, w, "members", "edit")
  /\ member[w][u] # NoRow
  /\ member[w][u].role = "OWNER" /\ role # "OWNER" => ~LastOwner(w, u)
  /\ Decide(r, MemberWrite("role", w, u, Row(role, NoOverrides)))

\* update_permissions: NoOverrides clears what is stored.
UpdatePermissions(r, actor, w, u, overrides) ==
  /\ Authorised(actor, w, "members", "admin")
  /\ member[w][u] # NoRow
  /\ ParseOverrides(overrides).valid
  /\ Decide(r, MemberWrite("permissions", w, u,
                           Row(member[w][u].role, ParseOverrides(overrides).stored)))

\* remove_member
RemoveMember(r, actor, w, u) ==
  /\ Authorised(actor, w, "members", "delete")
  /\ member[w][u] # NoRow
  /\ member[w][u].role = "OWNER" => ~LastOwner(w, u)
  /\ Decide(r, MemberWrite("remove", w, u, NoRow))

\* organizations.invite_member
OrgInviteMember(r, actor, w, u, role) ==
  LET o == workspace[w].organization
  IN /\ OrgAuthorised(actor, w, "admin")
     /\ role \in AssignableBy(orgMember[o][actor])
     /\ orgMember[o][u] = NoRole
     /\ Decide(r, OrgWrite("orgAdd", o, u, role))

\* organizations.update_role
OrgUpdateRole(r, actor, w, u, role) ==
  LET o == workspace[w].organization
  IN /\ OrgAuthorised(actor, w, "admin")
     /\ role \in AssignableBy(orgMember[o][actor])
     /\ orgMember[o][u] # NoRole
     /\ orgMember[o][u] = "ORG_OWNER" /\ role # "ORG_OWNER" => ~LastOrgOwner(o, u)
     /\ Decide(r, OrgWrite("orgRole", o, u, role))

\* organizations.remove_member
OrgRemoveMember(r, actor, w, u) ==
  LET o == workspace[w].organization
  IN /\ OrgAuthorised(actor, w, "admin")
     /\ orgMember[o][u] # NoRole
     /\ orgMember[o][u] = "ORG_OWNER" => ~LastOrgOwner(o, u)
     /\ Decide(r, OrgWrite("orgRemove", o, u, NoRole))

\* provision_department_workspace: the organisation gets one more workspace, owned by
\* who asked for it. Slugs of workspaces are checked, and unique.
ProvisionDepartment(r, actor, w, new) ==
  /\ OrgAuthorised(actor, w, "create")
  /\ workspace[new] = Absent
  /\ Decide(r, [kind |-> "department", place |-> new, user |-> actor,
                organization |-> workspace[w].organization, creates |-> FALSE])

\* provision_workspace: a customer, with an organisation of its own.
OrganizationTaken(o) == \E w \in Workspaces : workspace[w].organization = o

ProvisionWorkspace(r, actor, new, owner) ==
  /\ PlatformAdmin(actor)
  /\ workspace[new] = Absent
  /\ ~OrganizationTaken(HomeOf[new])
  /\ Decide(r, [kind |-> "provision", place |-> new, user |-> owner,
                organization |-> HomeOf[new], creates |-> account[owner] = "absent"])

\* A fault to detect: the workspace is not looked up.
SetStatusBlind(r, actor, w, status) ==
  /\ PlatformAdmin(actor)
  /\ Decide(r, [kind |-> "status", place |-> w, row |-> status])

\* set_status
SetStatus(r, actor, w, status) ==
  /\ PlatformAdmin(actor)
  /\ workspace[w] # Absent
  /\ Decide(r, [kind |-> "status", place |-> w, row |-> status])

----------------------------------------------------------------------------
Ends(r) ==
  /\ changes < MaxChanges
  /\ request' = [request EXCEPT ![r] = Idle]
  /\ changes' = changes + 1
  /\ UNCHANGED overlap

\* audit.record writes its event in the transaction of the request. When that fails, the
\* error is swallowed but the session cannot commit any more: Fail.
Recorded(names, w, u, role) == names' = [names EXCEPT ![w][u] = role]

\* users.email is unique: of two requests that create the account one fails.
WithAccount(write) ==
  /\ write.creates => account[write.user] = "absent"
  /\ account' = IF write.creates THEN [account EXCEPT ![write.user] = "invited"] ELSE account

\* An INSERT: the row has a primary key of its own.
Inserted(keys, w, u) == keys' = [keys EXCEPT ![w][u] = @ + 1]

\* The row that was loaded is still in the table: a row of the same user that was inserted
\* in its place since has another primary key.
StillThere(write) ==
  /\ member[write.place][write.user] # NoRow
  /\ memberKey[write.place][write.user] = write.key

OrgStillThere(write) ==
  /\ orgMember[write.place][write.user] # NoRole
  /\ orgKey[write.place][write.user] = write.key

\* uq_membership_ws_user
CommitInvite(r) ==
  LET write == request[r]
  IN /\ write.kind = "add"
     /\ member[write.place][write.user] = NoRow
     /\ WithAccount(write)
     /\ member' = [member EXCEPT ![write.place][write.user] = write.row]
     /\ Inserted(memberKey, write.place, write.user)
     /\ Recorded(trail, write.place, write.user, write.row.role)
     /\ Ends(r)
     /\ UNCHANGED <<workspace, orgMembers>>

\* The UPDATE names the column whose value differs from the loaded copy and finds its row
\* by the primary key; without the row the ORM raises. When the value does not differ there
\* is no UPDATE, and the row is not looked at again. The event is recorded either way.
CommitRole(r) ==
  LET write == request[r]
  IN /\ write.kind = "role"
     /\ \/ /\ write.row.role # write.loaded.role
           /\ StillThere(write)
           /\ member' = [member EXCEPT ![write.place][write.user].role = write.row.role]
        \/ /\ write.row.role = write.loaded.role
           /\ UNCHANGED member
     /\ Recorded(trail, write.place, write.user, write.row.role)
     /\ Ends(r)
     /\ UNCHANGED <<account, workspace, memberKey, orgMembers>>

\* A fault to detect: the UPDATE writes every column of the copy.
CommitPermissionsWhole(r) ==
  LET write == request[r]
  IN /\ write.kind = "permissions"
     /\ StillThere(write)
     /\ member' = [member EXCEPT ![write.place][write.user] = write.row]
     /\ Ends(r)
     /\ UNCHANGED <<account, workspace, memberKey, trail, orgMembers>>

\* The same of the permissions. Its event names no role.
CommitPermissions(r) ==
  LET write == request[r]
  IN /\ write.kind = "permissions"
     /\ \/ /\ write.row.permissions # write.loaded.permissions
           /\ StillThere(write)
           /\ member' =
                [member EXCEPT ![write.place][write.user].permissions = write.row.permissions]
        \/ /\ write.row.permissions = write.loaded.permissions
           /\ UNCHANGED member
     /\ Ends(r)
     /\ UNCHANGED <<account, workspace, memberKey, trail, orgMembers>>

\* A DELETE that finds no row under its key is only warned about, and recorded as well.
CommitRemove(r) ==
  LET write == request[r]
  IN /\ write.kind = "remove"
     /\ member' = IF StillThere(write) THEN [member EXCEPT ![write.place][write.user] = NoRow]
                  ELSE member
     /\ Recorded(trail, write.place, write.user, NoRole)
     /\ Ends(r)
     /\ UNCHANGED <<account, workspace, memberKey, orgMembers>>

\* uq_org_membership_org_user
CommitOrgInvite(r) ==
  LET write == request[r]
  IN /\ write.kind = "orgAdd"
     /\ orgMember[write.place][write.user] = NoRole
     /\ WithAccount(write)
     /\ orgMember' = [orgMember EXCEPT ![write.place][write.user] = write.row]
     /\ Inserted(orgKey, write.place, write.user)
     /\ Recorded(orgTrail, write.place, write.user, write.row)
     /\ Ends(r)
     /\ UNCHANGED <<workspace, members>>

CommitOrgRole(r) ==
  LET write == request[r]
  IN /\ write.kind = "orgRole"
     /\ \/ /\ write.row # write.loaded
           /\ OrgStillThere(write)
           /\ orgMember' = [orgMember EXCEPT ![write.place][write.user] = write.row]
        \/ /\ write.row = write.loaded
           /\ UNCHANGED orgMember
     /\ Recorded(orgTrail, write.place, write.user, write.row)
     /\ Ends(r)
     /\ UNCHANGED <<account, workspace, orgKey, members>>

CommitOrgRemove(r) ==
  LET write == request[r]
  IN /\ write.kind = "orgRemove"
     /\ orgMember' =
          IF OrgStillThere(write) THEN [orgMember EXCEPT ![write.place][write.user] = NoRole]
          ELSE orgMember
     /\ Recorded(orgTrail, write.place, write.user, NoRole)
     /\ Ends(r)
     /\ UNCHANGED <<account, workspace, orgKey, members>>

\* The workspace, its owner's membership and the audit event are one transaction.
CommitDepartment(r) ==
  LET write == request[r]
  IN /\ write.kind = "department"
     /\ workspace[write.place] = Absent
     /\ workspace' = [workspace EXCEPT ![write.place] =
          [organization |-> write.organization, status |-> "ACTIVE"]]
     /\ member' = [member EXCEPT ![write.place][write.user] = Row("OWNER", NoOverrides)]
     /\ Inserted(memberKey, write.place, write.user)
     /\ Recorded(trail, write.place, write.user, "OWNER")
     /\ Ends(r)
     /\ UNCHANGED <<account, orgMembers>>

\* ... and so are a customer's organisation, workspace, owner and both memberships.
CommitProvision(r) ==
  LET write == request[r]
  IN /\ write.kind = "provision"
     /\ workspace[write.place] = Absent
     /\ ~OrganizationTaken(write.organization)
     /\ WithAccount(write)
     /\ workspace' = [workspace EXCEPT ![write.place] =
          [organization |-> write.organization, status |-> "ACTIVE"]]
     /\ member' = [member EXCEPT ![write.place][write.user] = Row("OWNER", NoOverrides)]
     /\ Inserted(memberKey, write.place, write.user)
     /\ orgMember' = [orgMember EXCEPT ![write.organization][write.user] = "ORG_OWNER"]
     /\ Inserted(orgKey, write.organization, write.user)
     /\ Recorded(trail, write.place, write.user, "OWNER")
     /\ Recorded(orgTrail, write.organization, write.user, "ORG_OWNER")
     /\ Ends(r)

CommitStatus(r) ==
  LET write == request[r]
  IN /\ write.kind = "status"
     /\ workspace' = [workspace EXCEPT ![write.place].status = write.row]
     /\ Ends(r)
     /\ UNCHANGED <<account, members, orgMembers>>

\* A constraint, an error or a lost connection: get_session rolls everything back.
Fail(r) ==
  /\ request[r] # Idle
  /\ request' = [request EXCEPT ![r] = Idle]
  /\ UNCHANGED <<account, workspace, members, orgMembers, overlap, changes>>

\* change_password by somebody who was invited (module Accounts).
FirstSignIn(u) ==
  /\ account[u] = "invited"
  /\ account' = [account EXCEPT ![u] = "ready"]
  /\ UNCHANGED <<workspace, members, orgMembers, request, overlap, changes>>

Free == {r \in Requests : request[r] = Idle /\ changes < MaxChanges}

Next ==
  \/ \E r \in Free, actor \in Users, w \in Workspaces, u \in Users :
       \/ \E role \in GivenRoles : InviteMember(r, actor, w, u, role)
       \/ \E role \in GivenRoles : UpdateRole(r, actor, w, u, role)
       \/ \E overrides \in GivenOverrides : UpdatePermissions(r, actor, w, u, overrides)
       \/ RemoveMember(r, actor, w, u)
       \/ \E role \in OrgRoles : OrgInviteMember(r, actor, w, u, role)
       \/ \E role \in OrgRoles : OrgUpdateRole(r, actor, w, u, role)
       \/ OrgRemoveMember(r, actor, w, u)
       \/ \E new \in Workspaces : ProvisionDepartment(r, actor, w, new)
       \/ ProvisionWorkspace(r, actor, w, u)
       \/ \E status \in {"ACTIVE", "SUSPENDED"} : SetStatus(r, actor, w, status)
  \/ \E r \in Requests :
       \/ CommitInvite(r) \/ CommitRole(r) \/ CommitPermissions(r) \/ CommitRemove(r)
       \/ CommitOrgInvite(r) \/ CommitOrgRole(r) \/ CommitOrgRemove(r)
       \/ CommitDepartment(r) \/ CommitProvision(r) \/ CommitStatus(r)
       \/ Fail(r)
  \/ \E u \in Users : FirstSignIn(u)

Spec == Init /\ [][Next]_vars

----------------------------------------------------------------------------
TypeOK ==
  /\ account \in [Users -> {"absent", "invited", "ready"}]
  /\ workspace \in [Workspaces ->
       [organization : Organizations, status : {"ACTIVE", "SUSPENDED"}] \cup {Absent}]
  /\ member \in [Workspaces -> [Users -> Rows]]
  /\ orgMember \in [Organizations -> [Users -> OrgRoles \cup {NoRole}]]
  /\ memberKey \in [Workspaces -> [Users -> Nat]]
  /\ orgKey \in [Organizations -> [Users -> Nat]]
  /\ trail \in [Workspaces -> [Users -> AssignableRoles \cup {NoRole}]]
  /\ orgTrail \in [Organizations -> [Users -> OrgRoles \cup {NoRole}]]
  /\ request \in [Requests -> MemberWrites \cup OrgWrites \cup WorkspaceWrites \cup {Idle}]
  /\ overlap \in BOOLEAN
  /\ changes \in 0 .. MaxChanges

\* While requests are served one by one, every workspace has an owner and every
\* organisation has one, through any sequence of invitations, demotions, removals and
\* provisioning ("A workspace with no owner cannot be administered by anyone").
HasOwner ==
  \A w \in Workspaces :
    workspace[w] # Absent => \E u \in Users : member[w][u].role = "OWNER"

HasOrgOwner ==
  \A o \in Organizations :
    OrganizationTaken(o) => \E u \in Users : orgMember[o][u] = "ORG_OWNER"

SerialOwners == ~overlap => HasOwner

SerialOrgOwners == ~overlap => HasOrgOwner

\* The last audit event about a membership names the role it has. It may not when requests
\* overlap: one that finds nothing to write, or no row to delete, is recorded all the same.
TrailIsTrue ==
  /\ \A w \in Workspaces, u \in Users : trail[w][u] = member[w][u].role
  /\ orgTrail = orgMember

\* Whatever requests overlap, fail, write from an old copy or find their row gone or replaced:
\* no role is given, changed or taken away but in the transaction of an event that names
\* the role it becomes. Requests served one by one leave the last event true, too
\* (audit.record in each request; CommitRole, CommitRemove and their like).
RolesOnRecord ==
  /\ [](~overlap => TrailIsTrue)
  /\ [][/\ \A w \in Workspaces, u \in Users :
             member'[w][u].role # member[w][u].role => trail'[w][u] = member'[w][u].role
        /\ \A o \in Organizations, u \in Users :
             orgMember'[o][u] # orgMember[o][u] => orgTrail'[o][u] = orgMember'[o][u]]_vars
=============================================================================
