------------------------------ MODULE AccessProofs ------------------------------
(***************************************************************************)
(* Proofs about Tenancy, for any number of accounts, workspaces,           *)
(* organisations and requests, and about Accounts, for any number of       *)
(* devices and changes of the password.  The latter assume what            *)
(* CurrentSessionsOnly is claimed for: no two changes of the password in   *)
(* progress together.                                                      *)
(***************************************************************************)
EXTENDS Tenancy, Accounts, TLAPS

----------------------------------------------------------------------------
(* Members, roles and the trail *)

Writes == MemberWrites \cup OrgWrites \cup WorkspaceWrites

\* What a request has found, and no other request can take back.
Decided(write) ==
  /\ write.kind \in {"add", "role", "permissions"} => write.row # NoRow
  /\ write.kind = "remove" => write.row = NoRow
  /\ write.kind = "orgRemove" => write.row = NoRole
  /\ write.kind = "status" => workspace[write.place] # Absent
  /\ write.kind = "department" =>
       \E w \in Workspaces : /\ workspace[w] # Absent
                             /\ workspace[w].organization = write.organization

\* What its guard has found: another owner.
Guarded(write) ==
  /\ /\ write.kind \in {"role", "remove"}
     /\ member[write.place][write.user].role = "OWNER"
     /\ write.row.role # "OWNER"
     => ~LastOwner(write.place, write.user)
  /\ /\ write.kind \in {"orgRole", "orgRemove"}
     /\ orgMember[write.place][write.user] = "ORG_OWNER"
     /\ write.row # "ORG_OWNER"
     => ~LastOrgOwner(write.place, write.user)

\* While it is alone, the row it has loaded is as it was.
AsLoaded(write) ==
  /\ write.kind \in {"role", "permissions", "remove"} =>
       /\ write.loaded = member[write.place][write.user]
       /\ write.key = memberKey[write.place][write.user]
  /\ write.kind \in {"orgRole", "orgRemove"} =>
       /\ write.loaded = orgMember[write.place][write.user]
       /\ write.key = orgKey[write.place][write.user]

AllDecided == \A r \in Requests : request[r] # Idle => Decided(request[r])

OneByOne ==
  ~overlap => /\ \A r, s \in Requests : request[r] # Idle /\ request[s] # Idle => r = s
              /\ \A r \in Requests : request[r] # Idle =>
                   Guarded(request[r]) /\ AsLoaded(request[r])

SerialTrail == ~overlap => TrailIsTrue

IInv == TypeOK /\ AllDecided /\ OneByOne /\ SerialTrail /\ SerialOwners /\ SerialOrgOwners

LEMMA KindsAreApart ==
  ASSUME NEW write \in Writes
  PROVE  /\ write.kind \in {"add", "role", "permissions", "remove"} => write \in MemberWrites
         /\ write.kind \in {"orgAdd", "orgRole", "orgRemove"} => write \in OrgWrites
         /\ write.kind = "status" => /\ write.place \in Workspaces
                                     /\ write.row \in {"ACTIVE", "SUSPENDED"}
         /\ write.kind \in {"department", "provision"} =>
              /\ write.place \in Workspaces /\ write.user \in Users
              /\ write.organization \in Organizations /\ write.creates \in BOOLEAN
         /\ write # Idle
  BY DEF Writes, MemberWrites, OrgWrites, WorkspaceWrites, Idle

LEMMA RowRoles ==
  /\ \A row \in Rows : /\ row.role \in AssignableRoles \cup {NoRole}
                       /\ row # NoRow => row.role \in AssignableRoles
                       /\ row # NoRow => row.permissions \in GivenOverrides
  /\ \A role \in AssignableRoles, p \in GivenOverrides : Row(role, p) \in Rows
  /\ \A role \in AssignableRoles, p \in GivenOverrides : Row(role, p) # NoRow
  /\ NoRow \in Rows
  /\ NoRow.role = NoRole
  BY DEF Rows, NoRow, Row, NoRole, AssignableRoles

----------------------------------------------------------------------------
\* A request that has made its checks.
LEMMA DecideKeeps ==
  ASSUME IInv, NEW r \in Requests, NEW write \in Writes, Decide(r, write),
         Decided(write), Guarded(write), AsLoaded(write)
  PROVE  IInv'
<1>1. /\ UNCHANGED <<account, workspace, member, memberKey, trail, orgMember, orgKey, orgTrail,
                     overlap, changes>>
      /\ \A s \in Requests : request'[s] = IF s = r THEN write ELSE request[s]
      /\ request' \in [Requests -> Writes \cup {Idle}]
  BY DEF Decide, IInv, TypeOK, Writes, members, orgMembers
<1>2. TypeOK'
  BY <1>1 DEF IInv, TypeOK, Writes
<1>3. AllDecided'
  BY <1>1 DEF IInv, AllDecided, Decided
<1>4. OneByOne'
  <2> SUFFICES ASSUME ~overlap
               PROVE  /\ \A s, t \in Requests : request'[s] # Idle /\ request'[t] # Idle => s = t
                      /\ \A s \in Requests : request'[s] # Idle =>
                           Guarded(request[s])' /\ AsLoaded(request[s])'
    BY <1>1 DEF OneByOne
  <2>1. \A s \in Requests : s # r => request'[s] = Idle
    BY <1>1 DEF Decide
  <2>2. \A s \in Requests : request'[s] # Idle => s = r /\ request'[s] = write
    BY <1>1, <2>1
  <2>3. ASSUME NEW s \in Requests, request'[s] = write PROVE Guarded(request[s])'
    BY <1>1, <2>3 DEF Guarded, LastOwner, LastOrgOwner
  <2>4. ASSUME NEW s \in Requests, request'[s] = write PROVE AsLoaded(request[s])'
    BY <1>1, <2>4 DEF AsLoaded
  <2> QED BY <2>2, <2>3, <2>4
<1>5. SerialTrail' /\ SerialOwners' /\ SerialOrgOwners'
  BY <1>1 DEF IInv, SerialTrail, TrailIsTrue, SerialOwners, SerialOrgOwners, HasOwner, HasOrgOwner,
              OrganizationTaken
<1> QED BY <1>2, <1>3, <1>4, <1>5 DEF IInv

\* A request that ends, given what its write did to the tables.
LEMMA EndKeeps ==
  ASSUME IInv, NEW r \in Requests, request[r] # Idle,
         request' = [request EXCEPT ![r] = Idle], overlap' = overlap,
         changes' \in 0 .. MaxChanges,
         account' \in [Users -> {"absent", "invited", "ready"}],
         workspace' \in [Workspaces ->
           [organization : Organizations, status : {"ACTIVE", "SUSPENDED"}] \cup {Absent}],
         member' \in [Workspaces -> [Users -> Rows]],
         orgMember' \in [Organizations -> [Users -> OrgRoles \cup {NoRole}]],
         memberKey' \in [Workspaces -> [Users -> Nat]],
         orgKey' \in [Organizations -> [Users -> Nat]],
         trail' \in [Workspaces -> [Users -> AssignableRoles \cup {NoRole}]],
         orgTrail' \in [Organizations -> [Users -> OrgRoles \cup {NoRole}]],
         ~overlap => TrailIsTrue',
         \A w \in Workspaces : workspace[w] # Absent =>
           workspace'[w] # Absent /\ workspace'[w].organization = workspace[w].organization,
         ~overlap => HasOwner' /\ HasOrgOwner'
  PROVE  IInv'
<1>1. \A s \in Requests : request'[s] = IF s = r THEN Idle ELSE request[s]
  BY DEF IInv, TypeOK
<1>2. TypeOK'
  BY DEF IInv, TypeOK
<1>3. AllDecided'
  <2> SUFFICES ASSUME NEW s \in Requests, request'[s] # Idle PROVE Decided(request[s])'
    BY DEF AllDecided
  <2>1. request'[s] = request[s] /\ request[s] \in Writes /\ Decided(request[s])
    BY <1>1 DEF IInv, TypeOK, AllDecided, Writes
  <2>2. request[s].kind = "status" => request[s].place \in Workspaces
    BY <2>1, KindsAreApart
  <2>3. request[s].kind = "status" => workspace'[request[s].place] # Absent
    BY <2>1, <2>2 DEF Decided
  <2>4. request[s].kind = "department" =>
          \E w \in Workspaces : /\ workspace'[w] # Absent
                                /\ workspace'[w].organization = request[s].organization
    <3> SUFFICES ASSUME request[s].kind = "department"
                 PROVE  \E w \in Workspaces :
                          /\ workspace'[w] # Absent
                          /\ workspace'[w].organization = request[s].organization
      OBVIOUS
    <3>1. PICK w \in Workspaces : /\ workspace[w] # Absent
                                  /\ workspace[w].organization = request[s].organization
      BY <2>1 DEF Decided
    <3> QED BY <3>1
  <2> QED BY <2>1, <2>3, <2>4 DEF Decided
<1>4. OneByOne'
  BY <1>1 DEF IInv, OneByOne
<1>5. SerialTrail' /\ SerialOwners' /\ SerialOrgOwners'
  BY DEF SerialTrail, SerialOwners, SerialOrgOwners
<1> QED BY <1>2, <1>3, <1>4, <1>5 DEF IInv

----------------------------------------------------------------------------
(* Each request: what its checks leave in the write *)

LEMMA HasContextSays ==
  ASSUME IInv, NEW u \in Users, NEW w \in Workspaces, HasContext(u, w)
  PROVE  workspace[w] # Absent /\ workspace[w].organization \in Organizations
<1>1. workspace[w].status = "ACTIVE"
  BY DEF HasContext, Reaches
<1> QED BY <1>1 DEF IInv, TypeOK, Absent

LEMMA MemberRequestsKeep ==
  ASSUME IInv, NEW r \in Requests, NEW actor \in Users, NEW w \in Workspaces, NEW u \in Users,
         \/ \E role \in GivenRoles : InviteMember(r, actor, w, u, role)
         \/ \E role \in GivenRoles : UpdateRole(r, actor, w, u, role)
         \/ \E overrides \in GivenOverrides : UpdatePermissions(r, actor, w, u, overrides)
         \/ RemoveMember(r, actor, w, u)
  PROVE  IInv'
<1> USE TenancyAssumption
<1>1. member[w][u] \in Rows /\ memberKey[w][u] \in Nat
  BY DEF IInv, TypeOK
<1>2. ASSUME NEW role \in GivenRoles, InviteMember(r, actor, w, u, role) PROVE IInv'
  <2> DEFINE write == MemberWrite("add", w, u, Row(role, NoOverrides))
  <2>1. Row(role, NoOverrides) \in Rows /\ Row(role, NoOverrides) # NoRow
    BY RowRoles
  <2>2. write \in Writes
    BY <1>1, <2>1 DEF Writes, MemberWrites, MemberWrite
  <2>3. Decided(write) /\ Guarded(write) /\ AsLoaded(write) /\ Decide(r, write)
    BY <1>2, <2>1 DEF InviteMember, Decided, Guarded, AsLoaded, MemberWrite
  <2> QED BY <2>2, <2>3, DecideKeeps
<1>3. ASSUME NEW role \in GivenRoles, UpdateRole(r, actor, w, u, role) PROVE IInv'
  <2> DEFINE write == MemberWrite("role", w, u, Row(role, NoOverrides))
  <2>1. Row(role, NoOverrides) \in Rows /\ Row(role, NoOverrides) # NoRow
    BY RowRoles
  <2>2. write \in Writes
    BY <1>1, <2>1 DEF Writes, MemberWrites, MemberWrite
  <2>3. Decided(write) /\ Guarded(write) /\ AsLoaded(write) /\ Decide(r, write)
    BY <1>3, <2>1 DEF UpdateRole, Decided, Guarded, AsLoaded, MemberWrite, Row
  <2> QED BY <2>2, <2>3, DecideKeeps
<1>4. ASSUME NEW overrides \in GivenOverrides, UpdatePermissions(r, actor, w, u, overrides)
      PROVE  IInv'
  <2> DEFINE row == Row(member[w][u].role, overrides)
             write == MemberWrite("permissions", w, u, row)
  <2>1. row \in Rows /\ row # NoRow
    BY <1>1, <1>4, RowRoles DEF UpdatePermissions
  <2>2. write \in Writes
    BY <1>1, <2>1 DEF Writes, MemberWrites, MemberWrite
  <2>3. Decide(r, write)
    BY <1>4 DEF UpdatePermissions, ParseOverrides
  <2>4. Decided(write) /\ Guarded(write) /\ AsLoaded(write)
    BY <2>1 DEF Decided, Guarded, AsLoaded, MemberWrite
  <2> QED BY <2>2, <2>3, <2>4, DecideKeeps
<1>5. CASE RemoveMember(r, actor, w, u)
  <2> DEFINE write == MemberWrite("remove", w, u, NoRow)
  <2>1. write \in Writes
    BY <1>1, RowRoles DEF Writes, MemberWrites, MemberWrite
  <2>2. Decided(write) /\ Guarded(write) /\ AsLoaded(write) /\ Decide(r, write)
    BY <1>5 DEF RemoveMember, Decided, Guarded, AsLoaded, MemberWrite
  <2> QED BY <2>1, <2>2, DecideKeeps
<1> QED BY <1>2, <1>3, <1>4, <1>5

LEMMA OrgRequestsKeep ==
  ASSUME IInv, NEW r \in Requests, NEW actor \in Users, NEW w \in Workspaces, NEW u \in Users,
         \/ \E role \in OrgRoles : OrgInviteMember(r, actor, w, u, role)
         \/ \E role \in OrgRoles : OrgUpdateRole(r, actor, w, u, role)
         \/ OrgRemoveMember(r, actor, w, u)
  PROVE  IInv'
<1> DEFINE o == workspace[w].organization
<1>1. o \in Organizations /\ orgMember[o][u] \in OrgRoles \cup {NoRole} /\ orgKey[o][u] \in Nat
  <2>1. HasContext(actor, w)
    BY DEF OrgInviteMember, OrgUpdateRole, OrgRemoveMember, OrgAuthorised
  <2> QED BY <2>1, HasContextSays DEF IInv, TypeOK
<1>2. ASSUME NEW role \in OrgRoles, OrgInviteMember(r, actor, w, u, role) PROVE IInv'
  <2> DEFINE write == OrgWrite("orgAdd", o, u, role)
  <2>1. write \in Writes
    BY <1>1 DEF Writes, OrgWrites, OrgWrite
  <2>2. Decided(write) /\ Guarded(write) /\ AsLoaded(write) /\ Decide(r, write)
    BY <1>2 DEF OrgInviteMember, Decided, Guarded, AsLoaded, OrgWrite
  <2> QED BY <2>1, <2>2, DecideKeeps
<1>3. ASSUME NEW role \in OrgRoles, OrgUpdateRole(r, actor, w, u, role) PROVE IInv'
  <2> DEFINE write == OrgWrite("orgRole", o, u, role)
  <2>1. write \in Writes
    BY <1>1 DEF Writes, OrgWrites, OrgWrite
  <2>2. Decided(write) /\ Guarded(write) /\ AsLoaded(write) /\ Decide(r, write)
    BY <1>3 DEF OrgUpdateRole, Decided, Guarded, AsLoaded, OrgWrite
  <2> QED BY <2>1, <2>2, DecideKeeps
<1>4. CASE OrgRemoveMember(r, actor, w, u)
  <2> DEFINE write == OrgWrite("orgRemove", o, u, NoRole)
  <2>1. write \in Writes
    BY <1>1 DEF Writes, OrgWrites, OrgWrite
  <2>2. Decided(write) /\ Guarded(write) /\ AsLoaded(write) /\ Decide(r, write)
    BY <1>4 DEF OrgRemoveMember, Decided, Guarded, AsLoaded, OrgWrite
  <2> QED BY <2>1, <2>2, DecideKeeps
<1> QED BY <1>2, <1>3, <1>4

LEMMA WorkspaceRequestsKeep ==
  ASSUME IInv, NEW r \in Requests, NEW actor \in Users, NEW w \in Workspaces, NEW u \in Users,
         \/ \E new \in Workspaces : ProvisionDepartment(r, actor, w, new)
         \/ ProvisionWorkspace(r, actor, w, u)
         \/ \E status \in {"ACTIVE", "SUSPENDED"} : SetStatus(r, actor, w, status)
  PROVE  IInv'
<1>1. ASSUME NEW new \in Workspaces, ProvisionDepartment(r, actor, w, new) PROVE IInv'
  <2> DEFINE write == [kind |-> "department", place |-> new, user |-> actor,
                       organization |-> workspace[w].organization, creates |-> FALSE]
  <2>1. workspace[w] # Absent /\ workspace[w].organization \in Organizations
    BY <1>1, HasContextSays DEF ProvisionDepartment, OrgAuthorised
  <2>2. write \in Writes
    BY <2>1 DEF Writes, WorkspaceWrites
  <2>3. Decided(write) /\ Guarded(write) /\ AsLoaded(write) /\ Decide(r, write)
    BY <1>1, <2>1 DEF ProvisionDepartment, Decided, Guarded, AsLoaded
  <2> QED BY <2>2, <2>3, DecideKeeps
<1>2. CASE ProvisionWorkspace(r, actor, w, u)
  <2> DEFINE write == [kind |-> "provision", place |-> w, user |-> u,
                       organization |-> HomeOf[w], creates |-> account[u] = "absent"]
  <2>1. write \in Writes
    BY TenancyAssumption DEF Writes, WorkspaceWrites
  <2>2. Decided(write) /\ Guarded(write) /\ AsLoaded(write) /\ Decide(r, write)
    BY <1>2 DEF ProvisionWorkspace, Decided, Guarded, AsLoaded
  <2> QED BY <2>1, <2>2, DecideKeeps
<1>3. ASSUME NEW status \in {"ACTIVE", "SUSPENDED"}, SetStatus(r, actor, w, status)
      PROVE  IInv'
  <2> DEFINE write == [kind |-> "status", place |-> w, row |-> status]
  <2>1. write \in Writes
    BY DEF Writes, WorkspaceWrites
  <2>2. Decided(write) /\ Guarded(write) /\ AsLoaded(write) /\ Decide(r, write)
    BY <1>3 DEF SetStatus, Decided, Guarded, AsLoaded
  <2> QED BY <2>1, <2>2, DecideKeeps
<1> QED BY <1>1, <1>2, <1>3

----------------------------------------------------------------------------
(* Each commit *)

LEMMA Known ==
  ASSUME IInv, NEW r \in Requests, request[r] # Idle
  PROVE  /\ request[r] \in Writes /\ Decided(request[r])
         /\ ~overlap => /\ Guarded(request[r]) /\ AsLoaded(request[r])
                        /\ TrailIsTrue /\ HasOwner /\ HasOrgOwner
  BY DEF IInv, TypeOK, Writes, AllDecided, OneByOne, SerialTrail, SerialOwners, SerialOrgOwners

\* A row of a workspace's members is replaced. The workspace keeps an owner if the row's user
\* is one afterwards, or was none before, or is not the only one.
LEMMA MemberChangeKeeps ==
  ASSUME IInv, NEW r \in Requests, request[r] # Idle, Ends(r),
         NEW w \in Workspaces, NEW u \in Users, NEW row \in Rows,
         NEW named \in AssignableRoles \cup {NoRole},
         member' = [member EXCEPT ![w][u] = row],
         memberKey' \in [Workspaces -> [Users -> Nat]],
         \/ /\ trail' = [trail EXCEPT ![w][u] = named]
            /\ ~overlap => named = row.role
         \/ trail' = trail /\ row.role = member[w][u].role,
         account' \in [Users -> {"absent", "invited", "ready"}],
         UNCHANGED <<workspace, orgMember, orgKey, orgTrail>>,
         ~overlap => \/ row.role = "OWNER"
                     \/ member[w][u].role # "OWNER"
                     \/ ~LastOwner(w, u)
  PROVE  IInv'
<1>1. /\ request' = [request EXCEPT ![r] = Idle] /\ overlap' = overlap
      /\ changes' \in 0 .. MaxChanges
  BY TenancyAssumption DEF Ends, IInv, TypeOK
<1>2. /\ member' \in [Workspaces -> [Users -> Rows]]
      /\ \A x \in Workspaces, v \in Users :
           member'[x][v] = IF x = w /\ v = u THEN row ELSE member[x][v]
  BY DEF IInv, TypeOK
<1>3. /\ trail' \in [Workspaces -> [Users -> AssignableRoles \cup {NoRole}]]
      /\ ~overlap => TrailIsTrue'
  <2>1. trail \in [Workspaces -> [Users -> AssignableRoles \cup {NoRole}]]
    BY DEF IInv, TypeOK
  <2>2. trail' \in [Workspaces -> [Users -> AssignableRoles \cup {NoRole}]]
    <3>1. trail[w] \in [Users -> AssignableRoles \cup {NoRole}]
      BY <2>1
    <3>2. [trail[w] EXCEPT ![u] = named] \in [Users -> AssignableRoles \cup {NoRole}]
      BY <3>1
    <3> QED BY <2>1, <3>2
  <2>3. ASSUME ~overlap PROVE TrailIsTrue'
    <3>1. TrailIsTrue
      BY <2>3 DEF IInv, SerialTrail
    <3>2. \A x \in Workspaces, v \in Users :
            trail'[x][v] = IF x = w /\ v = u THEN row.role ELSE trail[x][v]
      BY <2>1, <2>3, <3>1 DEF TrailIsTrue
    <3> QED BY <1>2, <3>1, <3>2 DEF TrailIsTrue
  <2> QED BY <2>2, <2>3
<1>4. ~overlap => HasOwner'
  <2> SUFFICES ASSUME ~overlap, NEW x \in Workspaces, workspace[x] # Absent
               PROVE  \E v \in Users : member'[x][v].role = "OWNER"
    BY DEF HasOwner
  <2>1. PICK v \in Users : member[x][v].role = "OWNER"
    BY DEF IInv, SerialOwners, HasOwner
  <2>2. CASE x # w \/ v # u \/ row.role = "OWNER"
    BY <1>2, <2>1, <2>2
  <2>3. CASE x = w /\ v = u /\ row.role # "OWNER"
    <3>1. PICK y \in Users \ {u} : member[w][y].role = "OWNER"
      BY <2>1, <2>3 DEF LastOwner
    <3> QED BY <1>2, <2>3, <3>1
  <2> QED BY <2>2, <2>3
<1>5. ~overlap => HasOrgOwner'
  BY DEF IInv, SerialOrgOwners, HasOrgOwner, OrganizationTaken
<1>6. /\ workspace' \in [Workspaces ->
           [organization : Organizations, status : {"ACTIVE", "SUSPENDED"}] \cup {Absent}]
      /\ orgMember' \in [Organizations -> [Users -> OrgRoles \cup {NoRole}]]
      /\ orgTrail' \in [Organizations -> [Users -> OrgRoles \cup {NoRole}]]
      /\ orgKey' \in [Organizations -> [Users -> Nat]]
      /\ workspace' = workspace
  BY DEF IInv, TypeOK
<1> QED
  BY <1>1, <1>2, <1>3, <1>4, <1>5, <1>6, EndKeeps

\* The same of an organisation.
LEMMA OrgChangeKeeps ==
  ASSUME IInv, NEW r \in Requests, request[r] # Idle, Ends(r),
         NEW o \in Organizations, NEW u \in Users, NEW role \in OrgRoles \cup {NoRole},
         NEW named \in OrgRoles \cup {NoRole},
         orgMember' = [orgMember EXCEPT ![o][u] = role],
         orgKey' \in [Organizations -> [Users -> Nat]],
         orgTrail' = [orgTrail EXCEPT ![o][u] = named],
         ~overlap => named = role,
         account' \in [Users -> {"absent", "invited", "ready"}],
         UNCHANGED <<workspace, member, memberKey, trail>>,
         ~overlap => \/ role = "ORG_OWNER"
                     \/ orgMember[o][u] # "ORG_OWNER"
                     \/ ~LastOrgOwner(o, u)
  PROVE  IInv'
<1>1. /\ request' = [request EXCEPT ![r] = Idle] /\ overlap' = overlap
      /\ changes' \in 0 .. MaxChanges
  BY TenancyAssumption DEF Ends, IInv, TypeOK
<1>2. /\ orgMember' \in [Organizations -> [Users -> OrgRoles \cup {NoRole}]]
      /\ \A p \in Organizations, v \in Users :
           orgMember'[p][v] = IF p = o /\ v = u THEN role ELSE orgMember[p][v]
      /\ orgTrail' \in [Organizations -> [Users -> OrgRoles \cup {NoRole}]]
  BY DEF IInv, TypeOK
<1>3. ~overlap => HasOwner'
  BY DEF IInv, SerialOwners, HasOwner
<1>4. ~overlap => HasOrgOwner'
  <2> SUFFICES ASSUME ~overlap, NEW p \in Organizations, OrganizationTaken(p)
               PROVE  \E v \in Users : orgMember'[p][v] = "ORG_OWNER"
    BY DEF HasOrgOwner, OrganizationTaken
  <2>1. PICK v \in Users : orgMember[p][v] = "ORG_OWNER"
    BY DEF IInv, SerialOrgOwners, HasOrgOwner
  <2>2. CASE p # o \/ v # u \/ role = "ORG_OWNER"
    BY <1>2, <2>1, <2>2
  <2>3. CASE p = o /\ v = u /\ role # "ORG_OWNER"
    <3>1. PICK y \in Users \ {u} : orgMember[o][y] = "ORG_OWNER"
      BY <2>1, <2>3 DEF LastOrgOwner
    <3> QED BY <1>2, <2>3, <3>1
  <2> QED BY <2>2, <2>3
<1>5. /\ workspace' \in [Workspaces ->
           [organization : Organizations, status : {"ACTIVE", "SUSPENDED"}] \cup {Absent}]
      /\ member' \in [Workspaces -> [Users -> Rows]]
      /\ trail' \in [Workspaces -> [Users -> AssignableRoles \cup {NoRole}]]
      /\ memberKey' \in [Workspaces -> [Users -> Nat]]
      /\ workspace' = workspace
  BY DEF IInv, TypeOK
<1>6. ~overlap => TrailIsTrue'
  BY DEF IInv, SerialTrail, TrailIsTrue
<1> QED
  BY <1>1, <1>2, <1>3, <1>4, <1>5, <1>6, EndKeeps

LEMMA AccountTyped ==
  ASSUME IInv, NEW write, WithAccount(write)
  PROVE  account' \in [Users -> {"absent", "invited", "ready"}]
  BY DEF WithAccount, IInv, TypeOK

LEMMA MemberCommitsKeep ==
  ASSUME IInv, NEW r \in Requests,
         CommitInvite(r) \/ CommitRole(r) \/ CommitPermissions(r) \/ CommitRemove(r)
  PROVE  IInv'
<1> DEFINE write == request[r]
           w == write.place
           u == write.user
<1>1. write # Idle /\ write.kind \in {"add", "role", "permissions", "remove"}
  <2>1. write.kind \in {"add", "role", "permissions", "remove"}
    <3>1. CommitInvite(r) => write.kind = "add"
      BY DEF CommitInvite
    <3>2. CommitRole(r) => write.kind = "role"
      BY DEF CommitRole
    <3>3. CommitPermissions(r) => write.kind = "permissions"
      BY DEF CommitPermissions
    <3>4. CommitRemove(r) => write.kind = "remove"
      BY DEF CommitRemove
    <3> HIDE DEF write
    <3> QED
      BY <3>1, <3>2, <3>3, <3>4
  <2>2. Idle.kind = "idle"
    BY DEF Idle
  <2> QED
    BY <2>1, <2>2
<1>2. /\ write \in Writes /\ Decided(write)
      /\ ~overlap => Guarded(write) /\ AsLoaded(write)
  BY <1>1, Known
<1>3. /\ w \in Workspaces /\ u \in Users /\ write.row \in Rows
      /\ member[w][u] \in Rows
  BY <1>1, <1>2, KindsAreApart DEF MemberWrites, IInv, TypeOK
<1>4. CASE CommitInvite(r)
  <2>1. account' \in [Users -> {"absent", "invited", "ready"}]
    BY <1>4, AccountTyped DEF CommitInvite
  <2>2. member[w][u].role # "OWNER"
    BY <1>4, RowRoles DEF CommitInvite, NoRole
  <2>3. memberKey' \in [Workspaces -> [Users -> Nat]]
    BY <1>3, <1>4 DEF CommitInvite, Inserted, IInv, TypeOK
  <2>4. /\ write.row.role \in AssignableRoles \cup {NoRole}
        /\ Ends(r) /\ UNCHANGED <<workspace, orgMember, orgKey, orgTrail>>
        /\ member' = [member EXCEPT ![w][u] = write.row]
        /\ trail' = [trail EXCEPT ![w][u] = write.row.role]
    BY <1>3, <1>4, RowRoles DEF CommitInvite, Recorded, orgMembers
  <2> HIDE DEF write, w, u
  <2> QED BY <1>1, <1>3, <2>1, <2>2, <2>3, <2>4, MemberChangeKeeps DEF write
<1>5. CASE CommitRole(r)
  <2> DEFINE row == IF write.row.role = write.loaded.role THEN member[w][u]
                    ELSE [member[w][u] EXCEPT !.role = write.row.role]
             named == write.row.role
  <2>1. write.kind = "role" /\ write.row # NoRow
    BY <1>2, <1>5 DEF CommitRole, Decided
  <2>2. named \in AssignableRoles
    BY <1>3, <2>1, RowRoles
  <2>3. write.row.role # write.loaded.role => member[w][u] # NoRow
    BY <1>5 DEF CommitRole, StillThere
  <2>4. row \in Rows /\ (row.role = named \/ row = member[w][u])
    BY <1>3, <2>2, <2>3 DEF Rows, NoRow, Row
  <2>5. member' = [member EXCEPT ![w][u] = row]
    <3>1. CASE write.row.role = write.loaded.role
      BY <1>3, <1>5, <3>1 DEF CommitRole, IInv, TypeOK
    <3>2. CASE write.row.role # write.loaded.role
      BY <1>5, <3>2 DEF CommitRole
    <3> QED BY <3>1, <3>2
  <2>6. ~overlap => named = row.role
    BY <1>2, <2>1, <2>4 DEF AsLoaded
  <2>7. ~overlap => row.role = "OWNER" \/ member[w][u].role # "OWNER" \/ ~LastOwner(w, u)
    BY <1>2, <2>1, <2>6 DEF Guarded
  <2>8. /\ account' \in [Users -> {"absent", "invited", "ready"}]
        /\ memberKey' \in [Workspaces -> [Users -> Nat]]
    BY <1>5 DEF CommitRole, IInv, TypeOK
  <2>9. /\ Ends(r) /\ UNCHANGED <<workspace, orgMember, orgKey, orgTrail>>
        /\ trail' = [trail EXCEPT ![w][u] = named]
    BY <1>5 DEF CommitRole, Recorded, orgMembers
  <2> HIDE DEF row, named, write, w, u
  <2> QED BY <1>1, <1>3, <2>2, <2>4, <2>5, <2>6, <2>7, <2>8, <2>9, MemberChangeKeeps DEF write
<1>6. CASE CommitPermissions(r)
  <2> DEFINE row == IF write.row.permissions = write.loaded.permissions THEN member[w][u]
                    ELSE [member[w][u] EXCEPT !.permissions = write.row.permissions]
  <2>1. write.row # NoRow
    BY <1>2, <1>6 DEF CommitPermissions, Decided
  <2>2. write.row.permissions # write.loaded.permissions => member[w][u] # NoRow
    BY <1>6 DEF CommitPermissions, StillThere
  <2>3. row \in Rows /\ row.role = member[w][u].role
    BY <1>3, <2>1, <2>2, RowRoles DEF Rows, NoRow, Row
  <2>4. member' = [member EXCEPT ![w][u] = row]
    <3>1. CASE write.row.permissions = write.loaded.permissions
      BY <1>3, <1>6, <3>1 DEF CommitPermissions, IInv, TypeOK
    <3>2. CASE write.row.permissions # write.loaded.permissions
      BY <1>6, <3>2 DEF CommitPermissions
    <3> QED BY <3>1, <3>2
  <2>5. /\ Ends(r) /\ UNCHANGED <<workspace, orgMember, orgKey, orgTrail>>
        /\ trail' = trail
    BY <1>6 DEF CommitPermissions, orgMembers
  <2>6. /\ account' \in [Users -> {"absent", "invited", "ready"}]
        /\ memberKey' \in [Workspaces -> [Users -> Nat]]
    BY <1>6 DEF CommitPermissions, IInv, TypeOK
  <2>7. row.role = "OWNER" \/ member[w][u].role # "OWNER" \/ ~LastOwner(w, u)
    BY <2>3
  <2>8. NoRole \in AssignableRoles \cup {NoRole}
    OBVIOUS
  <2> HIDE DEF row, write, w, u
  <2> QED BY <1>1, <1>3, <2>3, <2>4, <2>5, <2>6, <2>7, <2>8, MemberChangeKeeps DEF write
<1>7. CASE CommitRemove(r)
  <2> DEFINE row == IF StillThere(write) THEN NoRow ELSE member[w][u]
  <2>1. NoRow \in Rows /\ NoRow.role = NoRole
    BY RowRoles
  <2>2. row \in Rows
    BY <1>3, <2>1
  <2>3. member' = [member EXCEPT ![w][u] = row]
    <3>1. CASE StillThere(write)
      BY <1>7, <3>1 DEF CommitRemove
    <3>2. CASE ~StillThere(write)
      BY <1>3, <1>7, <3>2 DEF CommitRemove, IInv, TypeOK
    <3> QED BY <3>1, <3>2
  <2>4. write.kind = "remove" /\ write.row.role # "OWNER"
    BY <1>2, <1>7, <2>1 DEF CommitRemove, Decided, NoRole
  <2>5. ~overlap => row.role = NoRole
    BY <1>2, <2>1, <2>4 DEF AsLoaded, StillThere
  <2>6. ~overlap => member[w][u].role # "OWNER" \/ ~LastOwner(w, u)
    BY <1>2, <2>4 DEF Guarded
  <2>7. /\ account' \in [Users -> {"absent", "invited", "ready"}]
        /\ memberKey' \in [Workspaces -> [Users -> Nat]]
    BY <1>7 DEF CommitRemove, IInv, TypeOK
  <2>8. /\ Ends(r) /\ UNCHANGED <<workspace, orgMember, orgKey, orgTrail>>
        /\ trail' = [trail EXCEPT ![w][u] = NoRole]
    BY <1>7 DEF CommitRemove, Recorded, orgMembers
  <2>9. NoRole \in AssignableRoles \cup {NoRole}
    OBVIOUS
  <2> HIDE DEF row, write, w, u
  <2> QED BY <1>1, <1>3, <2>2, <2>3, <2>5, <2>6, <2>7, <2>8, <2>9, MemberChangeKeeps DEF write
<1> QED BY <1>4, <1>5, <1>6, <1>7

LEMMA OrgCommitsKeep ==
  ASSUME IInv, NEW r \in Requests,
         CommitOrgInvite(r) \/ CommitOrgRole(r) \/ CommitOrgRemove(r)
  PROVE  IInv'
<1> DEFINE write == request[r]
           o == write.place
           u == write.user
<1>1. write # Idle /\ write.kind \in {"orgAdd", "orgRole", "orgRemove"}
  BY DEF CommitOrgInvite, CommitOrgRole, CommitOrgRemove, Idle
<1>2. /\ write \in Writes /\ Decided(write)
      /\ ~overlap => Guarded(write) /\ AsLoaded(write)
  BY <1>1, Known
<1>3. /\ o \in Organizations /\ u \in Users /\ write.row \in OrgRoles \cup {NoRole}
      /\ orgMember[o][u] \in OrgRoles \cup {NoRole}
  BY <1>1, <1>2, KindsAreApart DEF OrgWrites, IInv, TypeOK
<1>4. /\ Ends(r) /\ UNCHANGED <<workspace, member, memberKey, trail>>
      /\ orgTrail' = [orgTrail EXCEPT ![o][u] = write.row]
  BY <1>2 DEF CommitOrgInvite, CommitOrgRole, CommitOrgRemove, Recorded, Decided, members
<1>5. /\ account' \in [Users -> {"absent", "invited", "ready"}]
      /\ orgKey' \in [Organizations -> [Users -> Nat]]
  <2>1. orgKey \in [Organizations -> [Users -> Nat]]
    BY DEF IInv, TypeOK
  <2>2. CASE CommitOrgInvite(r)
    <3>1. orgKey' = [orgKey EXCEPT ![o][u] = @ + 1]
      BY <2>2 DEF CommitOrgInvite, Inserted
    <3>2. [orgKey[o] EXCEPT ![u] = @ + 1] \in [Users -> Nat]
      BY <1>3, <2>1
    <3>3. orgKey' \in [Organizations -> [Users -> Nat]]
      <4> HIDE DEF o, u
      <4> QED BY <1>3, <2>1, <3>1, <3>2
    <3>4. WithAccount(write)
      BY <2>2 DEF CommitOrgInvite
    <3> QED BY <3>3, <3>4, AccountTyped
  <2>3. CASE CommitOrgRole(r) \/ CommitOrgRemove(r)
    BY <2>1, <2>3 DEF CommitOrgRole, CommitOrgRemove, IInv, TypeOK
  <2> QED BY <2>2, <2>3
<1>6. PICK role \in {write.row, orgMember[o][u]} :
        /\ orgMember' = [orgMember EXCEPT ![o][u] = role]
        /\ ~overlap => role = write.row
  <2>1. CASE CommitOrgInvite(r)
    BY <2>1 DEF CommitOrgInvite
  <2>2. CASE CommitOrgRole(r)
    <3>1. CASE write.row = write.loaded
      BY <1>2, <1>3, <2>2, <3>1 DEF CommitOrgRole, AsLoaded, IInv, TypeOK
    <3>2. CASE write.row # write.loaded
      BY <2>2, <3>2 DEF CommitOrgRole
    <3> QED BY <3>1, <3>2
  <2>3. CASE CommitOrgRemove(r)
    <3>1. write.row = NoRole /\ write.kind = "orgRemove"
      BY <1>2, <2>3 DEF CommitOrgRemove, Decided
    <3>2. CASE OrgStillThere(write)
      BY <2>3, <3>1, <3>2 DEF CommitOrgRemove
    <3>3. CASE ~OrgStillThere(write)
      BY <1>2, <1>3, <2>3, <3>1, <3>3 DEF CommitOrgRemove, AsLoaded, OrgStillThere, IInv, TypeOK
    <3> QED BY <3>2, <3>3
  <2> QED BY <2>1, <2>2, <2>3
<1>7. role \in OrgRoles \cup {NoRole} /\ (~overlap => write.row = role)
  BY <1>3, <1>6
<1>8. ~overlap => \/ role = "ORG_OWNER"
                  \/ orgMember[o][u] # "ORG_OWNER"
                  \/ ~LastOrgOwner(o, u)
  <2>1. CASE CommitOrgInvite(r)
    BY <2>1 DEF CommitOrgInvite, NoRole
  <2>2. CASE CommitOrgRole(r) \/ CommitOrgRemove(r)
    BY <1>2, <1>7, <2>2 DEF CommitOrgRole, CommitOrgRemove, Guarded
  <2> QED BY <2>1, <2>2
<1> HIDE DEF write, o, u
<1> QED BY <1>1, <1>3, <1>4, <1>5, <1>6, <1>7, <1>8, OrgChangeKeeps DEF write

\* A workspace that is created comes with its owner; its organisation has one, or gets it.
LEMMA WorkspaceCommitsKeep ==
  ASSUME IInv, NEW r \in Requests,
         CommitDepartment(r) \/ CommitProvision(r) \/ CommitStatus(r)
  PROVE  IInv'
<1> DEFINE write == request[r]
           w == write.place
           u == write.user
           o == write.organization
           row == Row("OWNER", NoOverrides)
           opened == [organization |-> o, status |-> "ACTIVE"]
<1>1. write # Idle /\ write.kind \in {"department", "provision", "status"}
  BY DEF CommitDepartment, CommitProvision, CommitStatus, Idle
<1>2. /\ write \in Writes /\ Decided(write) /\ w \in Workspaces
      /\ ~overlap => TrailIsTrue /\ HasOwner /\ HasOrgOwner
  BY <1>1, Known, KindsAreApart
<1>3. /\ request' = [request EXCEPT ![r] = Idle] /\ overlap' = overlap
      /\ changes' \in 0 .. MaxChanges
  BY TenancyAssumption DEF CommitDepartment, CommitProvision, CommitStatus, Ends, IInv, TypeOK
<1>4. account' \in [Users -> {"absent", "invited", "ready"}]
  BY AccountTyped DEF CommitDepartment, CommitProvision, CommitStatus, IInv, TypeOK
<1>5. CASE CommitStatus(r)
  <2>1. workspace[w] # Absent /\ write.row \in {"ACTIVE", "SUSPENDED"}
    BY <1>2, <1>5, KindsAreApart DEF CommitStatus, Decided
  <2>2. workspace' = [workspace EXCEPT ![w].status = write.row]
    BY <1>5 DEF CommitStatus
  <2>3. workspace[w] \in [organization : Organizations, status : {"ACTIVE", "SUSPENDED"}]
    BY <1>2, <2>1 DEF IInv, TypeOK
  <2>4. /\ workspace' \in [Workspaces ->
             [organization : Organizations, status : {"ACTIVE", "SUSPENDED"}] \cup {Absent}]
        /\ \A x \in Workspaces : /\ workspace'[x] # Absent <=> workspace[x] # Absent
                                 /\ workspace'[x].organization = workspace[x].organization
    BY <1>2, <2>1, <2>2, <2>3, TenancyAssumption DEF IInv, TypeOK, Absent
  <2>5. UNCHANGED <<member, memberKey, trail, orgMember, orgKey, orgTrail>>
    BY <1>5 DEF CommitStatus, members, orgMembers
  <2>6. ~overlap => HasOwner' /\ HasOrgOwner'
    BY <1>2, <2>4, <2>5 DEF HasOwner, HasOrgOwner, OrganizationTaken
  <2>7. /\ member' \in [Workspaces -> [Users -> Rows]]
        /\ orgMember' \in [Organizations -> [Users -> OrgRoles \cup {NoRole}]]
        /\ trail' \in [Workspaces -> [Users -> AssignableRoles \cup {NoRole}]]
        /\ orgTrail' \in [Organizations -> [Users -> OrgRoles \cup {NoRole}]]
        /\ memberKey' \in [Workspaces -> [Users -> Nat]]
        /\ orgKey' \in [Organizations -> [Users -> Nat]]
    BY <2>5 DEF IInv, TypeOK
  <2>8. ~overlap => TrailIsTrue'
    BY <1>2, <2>5 DEF TrailIsTrue
  <2> QED BY <1>1, <1>3, <1>4, <2>4, <2>6, <2>7, <2>8, EndKeeps
<1>6. CASE CommitDepartment(r) \/ CommitProvision(r)
  <2>1. /\ u \in Users /\ o \in Organizations /\ workspace[w] = Absent
        /\ workspace' = [workspace EXCEPT ![w] = opened]
        /\ member' = [member EXCEPT ![w][u] = row]
        /\ trail' = [trail EXCEPT ![w][u] = "OWNER"]
    BY <1>2, <1>6, KindsAreApart DEF CommitDepartment, CommitProvision, Recorded
  <2>2. row \in Rows /\ row.role = "OWNER"
    BY RowRoles, TenancyAssumption DEF Row, AssignableRoles
  <2>3. opened \in [organization : Organizations, status : {"ACTIVE", "SUSPENDED"}]
    BY <2>1
  <2>4. /\ workspace' \in [Workspaces ->
             [organization : Organizations, status : {"ACTIVE", "SUSPENDED"}] \cup {Absent}]
        /\ \A x \in Workspaces : workspace'[x] = IF x = w THEN opened ELSE workspace[x]
    BY <1>2, <2>1, <2>3 DEF IInv, TypeOK
  <2> HIDE DEF row
  <2>5. /\ member' \in [Workspaces -> [Users -> Rows]]
        /\ \A x \in Workspaces, v \in Users :
             member'[x][v] = IF x = w /\ v = u THEN row ELSE member[x][v]
    BY <1>2, <2>1, <2>2 DEF IInv, TypeOK
  <2>6. /\ trail' \in [Workspaces -> [Users -> AssignableRoles \cup {NoRole}]]
        /\ memberKey' \in [Workspaces -> [Users -> Nat]]
        /\ ~overlap =>
             \A x \in Workspaces, v \in Users : trail'[x][v] = member'[x][v].role
    <3>1. "OWNER" \in AssignableRoles
      BY DEF AssignableRoles
    <3>2. trail \in [Workspaces -> [Users -> AssignableRoles \cup {NoRole}]]
      BY DEF IInv, TypeOK
    <3>3. [trail[w] EXCEPT ![u] = "OWNER"] \in [Users -> AssignableRoles \cup {NoRole}]
      BY <1>2, <3>1, <3>2
    <3>4. \A x \in Workspaces, v \in Users :
            trail'[x][v] = IF x = w /\ v = u THEN "OWNER" ELSE trail[x][v]
      BY <1>2, <2>1, <3>2
    <3>5. trail' \in [Workspaces -> [Users -> AssignableRoles \cup {NoRole}]]
      BY <1>2, <2>1, <3>2, <3>3
    <3>6. memberKey' \in [Workspaces -> [Users -> Nat]]
      <4>1. memberKey' = [memberKey EXCEPT ![w][u] = @ + 1]
        BY <1>6 DEF CommitDepartment, CommitProvision, Inserted
      <4>2. memberKey \in [Workspaces -> [Users -> Nat]]
        BY DEF IInv, TypeOK
      <4>3. [memberKey[w] EXCEPT ![u] = @ + 1] \in [Users -> Nat]
        BY <1>2, <2>1, <4>2
      <4> HIDE DEF w, u
      <4> QED BY <1>2, <4>1, <4>2, <4>3
    <3> QED BY <1>2, <2>2, <2>5, <3>4, <3>5, <3>6 DEF TrailIsTrue
  <2>7. /\ orgMember' \in [Organizations -> [Users -> OrgRoles \cup {NoRole}]]
        /\ orgTrail' \in [Organizations -> [Users -> OrgRoles \cup {NoRole}]]
        /\ orgKey' \in [Organizations -> [Users -> Nat]]
        /\ orgTrail = orgMember => orgTrail' = orgMember'
        /\ \A p \in Organizations, v \in Users :
             orgMember[p][v] = "ORG_OWNER" => orgMember'[p][v] = "ORG_OWNER"
        /\ CommitProvision(r) => orgMember'[o][u] = "ORG_OWNER"
    <3>1. CASE CommitDepartment(r)
      <4>1. UNCHANGED <<orgMember, orgKey, orgTrail>> /\ write.kind # "provision"
        BY <3>1 DEF CommitDepartment, orgMembers
      <4> QED BY <4>1 DEF IInv, TypeOK, CommitProvision
    <3>2. CASE CommitProvision(r)
      <4>1. /\ orgMember' = [orgMember EXCEPT ![o][u] = "ORG_OWNER"]
            /\ orgTrail' = [orgTrail EXCEPT ![o][u] = "ORG_OWNER"]
            /\ orgKey' = [orgKey EXCEPT ![o][u] = @ + 1]
        BY <3>2 DEF CommitProvision, Recorded, Inserted
      <4>2. orgKey' \in [Organizations -> [Users -> Nat]]
        BY <2>1, <4>1 DEF IInv, TypeOK
      <4> QED BY <2>1, <4>1, <4>2 DEF IInv, TypeOK, OrgRoles
    <3> QED BY <1>6, <3>1, <3>2
  <2>8. ~overlap => HasOwner'
    <3> SUFFICES ASSUME ~overlap, NEW x \in Workspaces, workspace'[x] # Absent
                 PROVE  \E v \in Users : member'[x][v].role = "OWNER"
      BY DEF HasOwner
    <3>1. CASE x = w
      BY <2>1, <2>2, <2>5, <3>1
    <3>2. CASE x # w
      BY <1>2, <2>4, <2>5, <3>2 DEF HasOwner
    <3> QED BY <3>1, <3>2
  <2>9. ~overlap => HasOrgOwner'
    <3> SUFFICES ASSUME ~overlap, NEW p \in Organizations,
                        NEW x \in Workspaces, workspace'[x].organization = p
                 PROVE  \E v \in Users : orgMember'[p][v] = "ORG_OWNER"
      BY DEF HasOrgOwner, OrganizationTaken
    <3>1. CASE CommitProvision(r) /\ p = o
      BY <2>1, <2>7, <3>1
    <3>2. CASE ~(CommitProvision(r) /\ p = o)
      <4>1. OrganizationTaken(p)
        <5>1. CASE x # w
          BY <2>4, <5>1 DEF OrganizationTaken
        <5>2. CASE x = w
          <6>1. p = o /\ CommitDepartment(r)
            BY <1>6, <2>4, <3>2, <5>2
          <6>2. \E y \in Workspaces : workspace[y].organization = o
            BY <1>2, <6>1 DEF CommitDepartment, Decided
          <6> QED BY <6>1, <6>2 DEF OrganizationTaken
        <5> QED BY <5>1, <5>2
      <4>2. PICK v \in Users : orgMember[p][v] = "ORG_OWNER"
        BY <1>2, <4>1 DEF HasOrgOwner
      <4> QED BY <2>7, <4>2
    <3> QED BY <3>1, <3>2
  <2>10. \A x \in Workspaces : workspace[x] # Absent =>
           workspace'[x] # Absent /\ workspace'[x].organization = workspace[x].organization
    BY <2>1, <2>4
  <2>11. ~overlap => TrailIsTrue'
    BY <1>2, <2>6, <2>7 DEF TrailIsTrue
  <2> QED BY <1>1, <1>3, <1>4, <2>4, <2>5, <2>6, <2>7, <2>8, <2>9, <2>10, <2>11, EndKeeps
<1> QED BY <1>5, <1>6

----------------------------------------------------------------------------
LEMMA OthersKeep ==
  ASSUME IInv, \/ \E r \in Requests : Fail(r)
               \/ \E u \in Users : FirstSignIn(u)
               \/ UNCHANGED vars
  PROVE  IInv'
<1>1. ASSUME NEW r \in Requests, Fail(r) PROVE IInv'
  <2>1. /\ request[r] # Idle /\ request' = [request EXCEPT ![r] = Idle]
        /\ UNCHANGED <<account, workspace, member, memberKey, trail, orgMember, orgKey,
                       orgTrail, overlap, changes>>
    BY <1>1 DEF Fail, members, orgMembers
  <2>2. ~overlap => HasOwner' /\ HasOrgOwner'
    BY <2>1 DEF IInv, SerialOwners, SerialOrgOwners, HasOwner, HasOrgOwner, OrganizationTaken
  <2>3. /\ changes' \in 0 .. MaxChanges
        /\ account' \in [Users -> {"absent", "invited", "ready"}]
        /\ workspace' \in [Workspaces ->
             [organization : Organizations, status : {"ACTIVE", "SUSPENDED"}] \cup {Absent}]
        /\ member' \in [Workspaces -> [Users -> Rows]]
        /\ orgMember' \in [Organizations -> [Users -> OrgRoles \cup {NoRole}]]
        /\ memberKey' \in [Workspaces -> [Users -> Nat]]
        /\ orgKey' \in [Organizations -> [Users -> Nat]]
        /\ trail' \in [Workspaces -> [Users -> AssignableRoles \cup {NoRole}]]
        /\ orgTrail' \in [Organizations -> [Users -> OrgRoles \cup {NoRole}]]
    BY <2>1 DEF IInv, TypeOK
  <2>4. ~overlap => TrailIsTrue'
    BY <2>1 DEF IInv, SerialTrail, TrailIsTrue
  <2> QED BY <2>1, <2>2, <2>3, <2>4, EndKeeps
<1>2. ASSUME /\ account' \in [Users -> {"absent", "invited", "ready"}]
             /\ UNCHANGED <<workspace, member, memberKey, trail, orgMember, orgKey, orgTrail,
                            request, overlap, changes>>
      PROVE  IInv'
  BY <1>2 DEF IInv, TypeOK, AllDecided, Decided, OneByOne, Guarded, AsLoaded, LastOwner,
              LastOrgOwner, SerialTrail, TrailIsTrue, SerialOwners, SerialOrgOwners, HasOwner, HasOrgOwner,
              OrganizationTaken
<1>3. ASSUME NEW u \in Users, FirstSignIn(u) PROVE IInv'
  BY <1>2, <1>3 DEF FirstSignIn, members, orgMembers, IInv, TypeOK
<1>4. CASE UNCHANGED vars
  BY <1>2, <1>4 DEF vars, members, orgMembers, IInv, TypeOK
<1> QED BY <1>1, <1>3, <1>4

LEMMA InitIsGood == Init => IInv
<1> SUFFICES ASSUME NEW admin \in Admins,
                    account = [u \in Users |-> IF u = admin THEN "invited" ELSE "absent"],
                    workspace = [w \in Workspaces |->
                      IF w = First THEN [organization |-> HomeOf[w], status |-> "ACTIVE"]
                      ELSE Absent],
                    member = [w \in Workspaces |-> [u \in Users |->
                      IF w = First /\ u = admin THEN Row("OWNER", NoOverrides) ELSE NoRow]],
                    orgMember = [o \in Organizations |-> [u \in Users |->
                      IF o = HomeOf[First] /\ u = admin THEN "ORG_OWNER" ELSE NoRole]],
                    memberKey = [w \in Workspaces |-> [u \in Users |->
                      IF member[w][u] = NoRow THEN 0 ELSE 1]],
                    orgKey = [o \in Organizations |-> [u \in Users |->
                      IF orgMember[o][u] = NoRole THEN 0 ELSE 1]],
                    trail = [w \in Workspaces |-> [u \in Users |-> member[w][u].role]],
                    orgTrail = orgMember,
                    request = [r \in Requests |-> Idle],
                    overlap \in BOOLEAN, changes = 0
             PROVE  IInv
  BY DEF Init
<1> USE TenancyAssumption
<1>1. Row("OWNER", NoOverrides) \in Rows /\ Row("OWNER", NoOverrides).role = "OWNER"
  BY RowRoles DEF Row, AssignableRoles
<1>2. NoRow \in Rows
  BY RowRoles
<1>3. TypeOK
  <2>1. member \in [Workspaces -> [Users -> Rows]]
    BY <1>1, <1>2
  <2>2. trail \in [Workspaces -> [Users -> AssignableRoles \cup {NoRole}]]
    BY <2>1, RowRoles
  <2>3. /\ orgMember \in [Organizations -> [Users -> OrgRoles \cup {NoRole}]]
        /\ orgTrail \in [Organizations -> [Users -> OrgRoles \cup {NoRole}]]
    BY DEF OrgRoles
  <2>4. workspace \in [Workspaces ->
          [organization : Organizations, status : {"ACTIVE", "SUSPENDED"}] \cup {Absent}]
    OBVIOUS
  <2>5. account \in [Users -> {"absent", "invited", "ready"}]
    OBVIOUS
  <2>6. changes \in 0 .. MaxChanges
    OBVIOUS
  <2>7. /\ memberKey \in [Workspaces -> [Users -> Nat]]
        /\ orgKey \in [Organizations -> [Users -> Nat]]
    OBVIOUS
  <2> QED BY <2>1, <2>2, <2>3, <2>4, <2>5, <2>6, <2>7 DEF TypeOK
<1>4. AllDecided /\ OneByOne
  BY DEF AllDecided, OneByOne
<1>5. TrailIsTrue
  BY DEF TrailIsTrue
<1>6. HasOwner
  BY <1>1 DEF HasOwner
<1>7. HasOrgOwner
  <2> SUFFICES ASSUME NEW o \in Organizations, NEW w \in Workspaces,
                      workspace[w].organization = o
               PROVE  \E u \in Users : orgMember[o][u] = "ORG_OWNER"
    BY DEF HasOrgOwner, OrganizationTaken
  <2>1. w = First /\ o = HomeOf[First]
    BY DEF Absent
  <2> QED BY <2>1
<1> QED BY <1>3, <1>4, <1>5, <1>6, <1>7 DEF IInv, SerialTrail, SerialOwners, SerialOrgOwners

LEMMA StepKeeps ==
  ASSUME IInv, [Next]_vars
  PROVE  IInv'
<1>1. ASSUME NEW r \in Free, NEW actor \in Users, NEW w \in Workspaces, NEW u \in Users,
             \/ \E role \in GivenRoles : InviteMember(r, actor, w, u, role)
             \/ \E role \in GivenRoles : UpdateRole(r, actor, w, u, role)
             \/ \E overrides \in GivenOverrides : UpdatePermissions(r, actor, w, u, overrides)
             \/ RemoveMember(r, actor, w, u)
      PROVE  IInv'
  BY <1>1, MemberRequestsKeep DEF Free
<1>2. ASSUME NEW r \in Free, NEW actor \in Users, NEW w \in Workspaces, NEW u \in Users,
             \/ \E role \in OrgRoles : OrgInviteMember(r, actor, w, u, role)
             \/ \E role \in OrgRoles : OrgUpdateRole(r, actor, w, u, role)
             \/ OrgRemoveMember(r, actor, w, u)
      PROVE  IInv'
  BY <1>2, OrgRequestsKeep DEF Free
<1>3. ASSUME NEW r \in Free, NEW actor \in Users, NEW w \in Workspaces, NEW u \in Users,
             \/ \E new \in Workspaces : ProvisionDepartment(r, actor, w, new)
             \/ ProvisionWorkspace(r, actor, w, u)
             \/ \E status \in {"ACTIVE", "SUSPENDED"} : SetStatus(r, actor, w, status)
      PROVE  IInv'
  BY <1>3, WorkspaceRequestsKeep DEF Free
<1>4. ASSUME NEW r \in Requests,
             CommitInvite(r) \/ CommitRole(r) \/ CommitPermissions(r) \/ CommitRemove(r)
      PROVE  IInv'
  BY <1>4, MemberCommitsKeep
<1>5. ASSUME NEW r \in Requests, CommitOrgInvite(r) \/ CommitOrgRole(r) \/ CommitOrgRemove(r)
      PROVE  IInv'
  BY <1>5, OrgCommitsKeep
<1>6. ASSUME NEW r \in Requests, CommitDepartment(r) \/ CommitProvision(r) \/ CommitStatus(r)
      PROVE  IInv'
  BY <1>6, WorkspaceCommitsKeep
<1> QED BY <1>1, <1>2, <1>3, <1>4, <1>5, <1>6, OthersKeep DEF Next

LEMMA Inductive == Spec => []IInv
<1>1. IInv /\ [Next]_vars => IInv'
  BY StepKeeps
<1> QED BY <1>1, InitIsGood, PTL DEF Spec

\* All state keeps its type for any numbers of accounts, workspaces, organisations and
\* requests, overlapping or not: no row without a role, no status of an absent workspace.
THEOREM TenancyIsTyped == Spec => []TypeOK
<1>1. IInv => TypeOK
  BY DEF IInv
<1> QED BY <1>1, Inductive, PTL

RolesChangeOnRecord ==
  /\ \A w \in Workspaces, u \in Users :
       member'[w][u].role # member[w][u].role => trail'[w][u] = member'[w][u].role
  /\ \A o \in Organizations, u \in Users :
       orgMember'[o][u] # orgMember[o][u] => orgTrail'[o][u] = orgMember'[o][u]

LEMMA MemberCommitsOnRecord ==
  ASSUME IInv, NEW r \in Requests,
         CommitInvite(r) \/ CommitRole(r) \/ CommitPermissions(r) \/ CommitRemove(r)
  PROVE  RolesChangeOnRecord
<1> DEFINE write == request[r]
           named == [trail EXCEPT ![write.place][write.user] = write.row.role]
<1>1. /\ member \in [Workspaces -> [Users -> Rows]]
      /\ trail \in [Workspaces -> [Users -> AssignableRoles \cup {NoRole}]]
  BY DEF IInv, TypeOK
<1>2. orgMember' = orgMember
  BY DEF CommitInvite, CommitRole, CommitPermissions, CommitRemove, orgMembers
<1>3. ASSUME NEW w \in Workspaces, NEW u \in Users, member'[w][u].role # member[w][u].role
      PROVE  trail'[w][u] = member'[w][u].role
  <2>1. CASE CommitInvite(r)
    BY <1>1, <1>3, <2>1 DEF CommitInvite, Recorded
  <2>2. CASE CommitRole(r)
    <3>1. /\ member' = [member EXCEPT ![write.place][write.user].role = write.row.role]
          /\ trail' = named
      BY <1>3, <2>2 DEF CommitRole, Recorded
    <3>2. w = write.place /\ u = write.user
      BY <1>1, <1>3, <3>1
    <3> QED BY <1>1, <3>1, <3>2 DEF Rows, NoRow, Row
  <2>3. CASE CommitPermissions(r)
    <3>1. member' = [member EXCEPT ![write.place][write.user].permissions = write.row.permissions]
      BY <1>3, <2>3 DEF CommitPermissions
    <3>2. w = write.place /\ u = write.user
      BY <1>1, <1>3, <3>1
    <3> QED BY <1>1, <1>3, <3>1, <3>2 DEF Rows, NoRow, Row
  <2>4. CASE CommitRemove(r)
    <3>1. /\ member' = [member EXCEPT ![write.place][write.user] = NoRow]
          /\ trail' = [trail EXCEPT ![write.place][write.user] = NoRole]
      BY <1>3, <2>4 DEF CommitRemove, Recorded
    <3>2. w = write.place /\ u = write.user
      BY <1>1, <1>3, <3>1
    <3> QED BY <1>1, <3>1, <3>2, RowRoles
  <2> QED BY <2>1, <2>2, <2>3, <2>4
<1> QED BY <1>2, <1>3 DEF RolesChangeOnRecord

LEMMA OrgCommitsOnRecord ==
  ASSUME IInv, NEW r \in Requests,
         CommitOrgInvite(r) \/ CommitOrgRole(r) \/ CommitOrgRemove(r)
  PROVE  RolesChangeOnRecord
<1> DEFINE write == request[r]
<1>1. /\ orgMember \in [Organizations -> [Users -> OrgRoles \cup {NoRole}]]
      /\ orgTrail \in [Organizations -> [Users -> OrgRoles \cup {NoRole}]]
  BY DEF IInv, TypeOK
<1>2. member' = member
  BY DEF CommitOrgInvite, CommitOrgRole, CommitOrgRemove, members
<1>3. ASSUME NEW o \in Organizations, NEW u \in Users, orgMember'[o][u] # orgMember[o][u]
      PROVE  orgTrail'[o][u] = orgMember'[o][u]
  <2>1. \E role :
          /\ orgMember' = [orgMember EXCEPT ![write.place][write.user] = role]
          /\ orgTrail' = [orgTrail EXCEPT ![write.place][write.user] = role]
    BY <1>3 DEF CommitOrgInvite, CommitOrgRole, CommitOrgRemove, Recorded
  <2> QED BY <1>1, <1>3, <2>1
<1> QED BY <1>2, <1>3 DEF RolesChangeOnRecord

LEMMA StepsOnRecord ==
  ASSUME IInv, [Next]_vars
  PROVE  RolesChangeOnRecord
<1>1. ASSUME UNCHANGED <<member, orgMember>> PROVE RolesChangeOnRecord
  BY <1>1 DEF RolesChangeOnRecord
<1>2. ASSUME NEW r \in Requests, NEW write, Decide(r, write) PROVE RolesChangeOnRecord
  BY <1>1, <1>2 DEF Decide, members, orgMembers
<1>3. ASSUME NEW r \in Free, NEW actor \in Users, NEW w \in Workspaces, NEW u \in Users,
             \/ \E role \in GivenRoles : InviteMember(r, actor, w, u, role)
             \/ \E role \in GivenRoles : UpdateRole(r, actor, w, u, role)
             \/ \E overrides \in GivenOverrides : UpdatePermissions(r, actor, w, u, overrides)
             \/ RemoveMember(r, actor, w, u)
             \/ \E role \in OrgRoles : OrgInviteMember(r, actor, w, u, role)
             \/ \E role \in OrgRoles : OrgUpdateRole(r, actor, w, u, role)
             \/ OrgRemoveMember(r, actor, w, u)
             \/ \E new \in Workspaces : ProvisionDepartment(r, actor, w, new)
             \/ ProvisionWorkspace(r, actor, w, u)
             \/ \E status \in {"ACTIVE", "SUSPENDED"} : SetStatus(r, actor, w, status)
      PROVE  RolesChangeOnRecord
  <2>1. \E write : Decide(r, write)
    BY <1>3 DEF InviteMember, UpdateRole, UpdatePermissions, RemoveMember, OrgInviteMember,
                OrgUpdateRole, OrgRemoveMember, ProvisionDepartment, ProvisionWorkspace, SetStatus
  <2> QED BY <1>2, <2>1 DEF Free
<1>4. ASSUME NEW r \in Requests, CommitDepartment(r) \/ CommitProvision(r)
      PROVE  RolesChangeOnRecord
  <2> DEFINE write == request[r]
  <2>1. /\ member \in [Workspaces -> [Users -> Rows]]
        /\ trail \in [Workspaces -> [Users -> AssignableRoles \cup {NoRole}]]
        /\ orgMember \in [Organizations -> [Users -> OrgRoles \cup {NoRole}]]
        /\ orgTrail \in [Organizations -> [Users -> OrgRoles \cup {NoRole}]]
    BY DEF IInv, TypeOK
  <2>2. /\ member' = [member EXCEPT ![write.place][write.user] = Row("OWNER", NoOverrides)]
        /\ trail' = [trail EXCEPT ![write.place][write.user] = "OWNER"]
    BY <1>4 DEF CommitDepartment, CommitProvision, Recorded
  <2>3. \/ orgMember' = orgMember
        \/ /\ orgMember' = [orgMember EXCEPT ![write.organization][write.user] = "ORG_OWNER"]
           /\ orgTrail' = [orgTrail EXCEPT ![write.organization][write.user] = "ORG_OWNER"]
    BY <1>4 DEF CommitDepartment, CommitProvision, Recorded, orgMembers
  <2>4. ASSUME NEW w \in Workspaces, NEW u \in Users, member'[w][u].role # member[w][u].role
        PROVE  trail'[w][u] = member'[w][u].role
    BY <2>1, <2>2, <2>4 DEF Row
  <2>5. ASSUME NEW o \in Organizations, NEW u \in Users, orgMember'[o][u] # orgMember[o][u]
        PROVE  orgTrail'[o][u] = orgMember'[o][u]
    BY <2>1, <2>3, <2>5
  <2> QED BY <2>4, <2>5 DEF RolesChangeOnRecord
<1>5. ASSUME \/ \E r \in Requests : CommitStatus(r) \/ Fail(r)
             \/ \E u \in Users : FirstSignIn(u)
             \/ UNCHANGED vars
      PROVE  RolesChangeOnRecord
  BY <1>1, <1>5 DEF CommitStatus, Fail, FirstSignIn, vars, members, orgMembers
<1> QED
  BY <1>3, <1>4, <1>5, MemberCommitsOnRecord, OrgCommitsOnRecord DEF Next

\* However requests overlap, no role changes but with an event that names what it becomes;
\* and the last event is true of requests served one by one (audit.record).
THEOREM RolesStayOnRecord == Spec => RolesOnRecord
<1>1. IInv => (~overlap => TrailIsTrue)
  BY DEF IInv, SerialTrail
<1>2. IInv /\ [Next]_vars => [RolesChangeOnRecord]_vars
  BY StepsOnRecord
<1>3. RolesOnRecord <=> [](~overlap => TrailIsTrue) /\ [][RolesChangeOnRecord]_vars
  BY PTL DEF RolesOnRecord, RolesChangeOnRecord
<1> QED BY <1>1, <1>2, <1>3, Inductive, PTL DEF Spec

\* Served one by one, requests never leave a workspace without an owner
\* (_guard_last_owner of services/access.py).
THEOREM WorkspacesKeepOwners == Spec => []SerialOwners
<1>1. IInv => SerialOwners
  BY DEF IInv
<1> QED BY <1>1, Inductive, PTL

\* Nor an organisation (_guard_last_owner of services/organizations.py).
THEOREM OrganisationsKeepOwners == Spec => []SerialOrgOwners
<1>1. IInv => SerialOrgOwners
  BY DEF IInv
<1> QED BY <1>1, Inductive, PTL

----------------------------------------------------------------------------
(* One account and its sessions *)

\* Versions count the changes, in the row, in every copy and in every token.
VersionsCountChanges ==
  /\ user.session_version = user.password
  /\ \A token \in sessions : token.sv = token.password
  /\ \A d \in Devices : call[d] # NoCall =>
       call[d].copy.session_version = call[d].copy.password

\* The one change that is in progress has read the row as it is.
ChangeIsCurrent ==
  /\ \A d \in Devices : call[d].kind = "change" => call[d].copy.password = user.password
  /\ \A d, e \in Devices : call[d].kind = "change" /\ call[e].kind = "change" => d = e

AccountInv == AccountsTypeOK /\ VersionsCountChanges /\ ChangeIsCurrent

\* A call that reads the row.
LEMMA BeginKeeps ==
  ASSUME AccountInv, NEW d \in Devices, NEW kind \in {"login", "switch", "change"}, Begin(d, kind),
         kind = "change" => \A e \in Devices : call[e].kind # "change"
  PROVE  AccountInv'
<1>1. /\ call' = [call EXCEPT ![d] = [kind |-> kind, copy |-> user]]
      /\ user' = user /\ sessions' = sessions /\ failures' = failures
  BY DEF Begin
<1>2. [kind |-> kind, copy |-> user] \in Calls
  BY DEF AccountInv, AccountsTypeOK, Calls
<1>3. AccountsTypeOK'
  BY <1>1, <1>2 DEF AccountInv, AccountsTypeOK
<1>4. \A e \in Devices : call'[e] = IF e = d THEN [kind |-> kind, copy |-> user] ELSE call[e]
  BY <1>1 DEF AccountInv, AccountsTypeOK
<1>5. VersionsCountChanges'
  BY <1>1, <1>4 DEF AccountInv, VersionsCountChanges
<1>6. ChangeIsCurrent'
  BY <1>1, <1>4 DEF AccountInv, ChangeIsCurrent
<1> QED BY <1>3, <1>5, <1>6 DEF AccountInv

\* A call that ends, with a token of what its copy says or with none.
LEMMA ReturnKeeps ==
  ASSUME AccountInv, NEW d \in Devices, Return(d), call[d] # NoCall,
         user' = user \/ \E n \in 0 .. MaxAttempts : user' = [user EXCEPT !.failed = n],
         \/ sessions' = sessions
         \/ Issue(call[d].copy.session_version, call[d].copy.password),
         failures' \in {0, failures}
  PROVE  AccountInv'
<1>1. \A e \in Devices : call'[e] = IF e = d THEN NoCall ELSE call[e]
  BY DEF AccountInv, AccountsTypeOK, Return
<1>2. call[d] \in Calls
  BY DEF AccountInv, AccountsTypeOK
<1>3. /\ user'.session_version = user.session_version
      /\ user'.password = user.password
      /\ user' \in UserRows
  BY DEF AccountInv, AccountsTypeOK, UserRows
<1>4. /\ sessions' \subseteq Sessions
      /\ \A token \in sessions' : token.sv = token.password
  <2>1. [sv |-> call[d].copy.session_version, password |-> call[d].copy.password] \in Sessions
    BY <1>2 DEF Calls, UserRows, Sessions
  <2>2. call[d].copy.session_version = call[d].copy.password
    BY DEF AccountInv, VersionsCountChanges
  <2> QED BY <2>1, <2>2 DEF AccountInv, AccountsTypeOK, VersionsCountChanges, Issue
<1>5. AccountsTypeOK'
  <2>1. call' \in [Devices -> Calls \cup {NoCall}]
    BY DEF AccountInv, AccountsTypeOK, Return
  <2>2. failures' \in 0 .. MaxAttempts
    BY AccountsAssumption DEF AccountInv, AccountsTypeOK
  <2> QED BY <1>3, <1>4, <2>1, <2>2 DEF AccountsTypeOK
<1>6. VersionsCountChanges'
  BY <1>1, <1>3, <1>4 DEF AccountInv, VersionsCountChanges
<1>7. ChangeIsCurrent'
  BY <1>1, <1>3 DEF AccountInv, ChangeIsCurrent, NoCall
<1> QED BY <1>5, <1>6, <1>7 DEF AccountInv

\* The commit of a change of the password.
LEMMA ChangeKeeps ==
  ASSUME AccountInv, NEW d \in Devices, NEW new \in {user.password + 1} \cap Passwords,
         ChangeCommits(d, new)
  PROVE  AccountInv'
<1> DEFINE copy == call[d].copy
<1>1. /\ call[d].kind = "change" /\ Return(d) /\ failures' = failures
      /\ user' = [user EXCEPT !.password = new, !.required = FALSE,
                              !.session_version = copy.session_version + 1]
      /\ sessions' = sessions \cup {[sv |-> copy.session_version + 1, password |-> new]}
  BY DEF ChangeCommits, NextVersion, Issue
<1>2. \A e \in Devices : call'[e] = IF e = d THEN NoCall ELSE call[e]
  BY <1>1 DEF AccountInv, AccountsTypeOK, Return
<1>3. call[d] \in Calls /\ call[d] # NoCall
  BY <1>1 DEF AccountInv, AccountsTypeOK, NoCall
<1>4. copy.session_version + 1 = new
  BY <1>1, <1>3 DEF AccountInv, VersionsCountChanges, ChangeIsCurrent
<1>5. /\ user' \in UserRows
      /\ user'.password = new /\ user'.session_version = new
  BY <1>1, <1>4 DEF AccountInv, AccountsTypeOK, UserRows, Passwords
<1>6. AccountsTypeOK'
  <2>1. call' \in [Devices -> Calls \cup {NoCall}]
    BY <1>1 DEF AccountInv, AccountsTypeOK, Return
  <2>2. sessions' \subseteq Sessions
    BY <1>1, <1>4 DEF AccountInv, AccountsTypeOK, Sessions
  <2> QED BY <1>1, <1>5, <2>1, <2>2 DEF AccountInv, AccountsTypeOK
<1>7. VersionsCountChanges'
  BY <1>1, <1>2, <1>4, <1>5 DEF AccountInv, VersionsCountChanges
<1>8. ChangeIsCurrent'
  BY <1>1, <1>2 DEF AccountInv, ChangeIsCurrent, NoCall
<1> QED BY <1>6, <1>7, <1>8 DEF AccountInv

LEMMA AccountInitHolds == AccountsInit => AccountInv
<1> SUFFICES ASSUME AccountsInit PROVE AccountInv
  OBVIOUS
<1>1. AccountsTypeOK
  BY AccountsAssumption DEF AccountsInit, AccountsTypeOK, UserRows, Passwords
<1>2. VersionsCountChanges /\ ChangeIsCurrent
  BY DEF AccountsInit, VersionsCountChanges, ChangeIsCurrent, NoCall
<1> QED BY <1>1, <1>2 DEF AccountInv

LEMMA AccountStepKeeps ==
  ASSUME ~ChangesOverlap, AccountInv, [AccountsNext]_accountVars
  PROVE  AccountInv'
<1>1. ASSUME NEW d \in Devices, LoginReads(d) PROVE AccountInv'
  BY <1>1, BeginKeeps DEF LoginReads
<1>2. ASSUME NEW d \in Devices, SwitchReads(d) PROVE AccountInv'
  BY <1>2, BeginKeeps DEF SwitchReads
<1>3. ASSUME NEW d \in Devices, ChangeReads(d) PROVE AccountInv'
  <2>1. \A e \in Devices : call[e].kind # "change"
    BY <1>3 DEF ChangeReads, NoCall
  <2> QED BY <1>3, <2>1, BeginKeeps DEF ChangeReads
<1>4. ASSUME NEW d \in Devices, LoginCommits(d) PROVE AccountInv'
  <2>1. \E n \in 0 .. MaxAttempts : user' = [user EXCEPT !.failed = n]
    <3>1. user.failed \in 0 .. MaxAttempts /\ 0 \in 0 .. MaxAttempts
      BY AccountsAssumption DEF AccountInv, AccountsTypeOK, UserRows
    <3> QED BY <1>4, <3>1 DEF LoginCommits
  <2>2. /\ call[d] # NoCall /\ Return(d) /\ failures' = 0
        /\ Issue(call[d].copy.session_version, call[d].copy.password)
    BY <1>4 DEF LoginCommits, NoCall
  <2> QED BY <2>1, <2>2, ReturnKeeps
<1>5. ASSUME NEW d \in Devices, SwitchReturns(d) PROVE AccountInv'
  <2>1. /\ call[d] # NoCall /\ Return(d) /\ user' = user /\ failures' = failures
        /\ Issue(call[d].copy.session_version, call[d].copy.password)
    BY <1>5 DEF SwitchReturns, NoCall
  <2> QED BY <2>1, ReturnKeeps
<1>6. ASSUME NEW d \in Devices, NEW new \in {user.password + 1} \cap Passwords,
             ChangeCommits(d, new)
      PROVE  AccountInv'
  BY <1>6, ChangeKeeps
<1>7. ASSUME NEW d \in Devices, CallFails(d) PROVE AccountInv'
  BY <1>7, ReturnKeeps DEF CallFails
<1>8. CASE WrongPassword
  <2>1. user' = user /\ sessions' = sessions /\ call' = call /\ failures' \in 0 .. MaxAttempts
    BY <1>8, AccountsAssumption DEF WrongPassword, AfterRaise, AccountInv, AccountsTypeOK
  <2> QED BY <2>1 DEF AccountInv, AccountsTypeOK, VersionsCountChanges, ChangeIsCurrent
<1>9. CASE UNCHANGED accountVars
  BY <1>9 DEF accountVars, AccountInv, AccountsTypeOK, VersionsCountChanges, ChangeIsCurrent
<1> QED
  BY <1>1, <1>2, <1>3, <1>4, <1>5, <1>6, <1>7, <1>8, <1>9 DEF AccountsNext

LEMMA AccountInductive ==
  ASSUME ~ChangesOverlap
  PROVE  AccountsSpec => []AccountInv
<1>1. AccountInv /\ [AccountsNext]_accountVars => AccountInv'
  BY AccountStepKeeps
<1> QED BY <1>1, AccountInitHolds, PTL DEF AccountsSpec

\* The account keeps its type: in particular a session version is never counted past the
\* number of changes.
THEOREM AccountIsTyped ==
  ASSUME ~ChangesOverlap
  PROVE  AccountsSpec => []AccountsTypeOK
<1>1. AccountInv => AccountsTypeOK
  BY DEF AccountInv
<1> QED BY <1>1, AccountInductive, PTL

\* With one change of the password at a time, a session that still authenticates was opened
\* with the password now in force (change_password, session_version).
THEOREM OldSessionsEnd ==
  ASSUME ~ChangesOverlap
  PROVE  AccountsSpec => []CurrentSessionsOnly
<1>1. AccountInv => CurrentSessionsOnly
  BY DEF AccountInv, VersionsCountChanges, CurrentSessionsOnly, Authenticates
<1> QED BY <1>1, AccountInductive, PTL
=============================================================================
