------------------------------ MODULE Tenants ------------------------------
(***************************************************************************)
(* The accounts of one company: its members and administrators, the seats  *)
(* its plan grants, and its roles (tenants/tenant_views.py,                *)
(* tenants/user_accounts.py, tenants/roles.py).                            *)
(*                                                                         *)
(* The company's own screens admit its administrators and count seats; the *)
(* panel of the superusers (tenants/views.py) does neither.  Nothing is    *)
(* locked and nothing is one transaction: a handler reads and checks, then *)
(* saves account, role and membership one after the other.                 *)
(***************************************************************************)
EXTENDS Integers, FiniteSets

CONSTANTS
  Users,           \* accounts that are no superusers
  Elsewhere,       \* those that are active members of another company
  BaseRoles,       \* BASE_ROLE_CHOICES
  AdminRole,       \* the base role "admin"
  OwnRoles,        \* roles that the company may define
  Caps,            \* values of Plan.max_users
  NoMember,        \* "no membership"
  TenantRequests   \* requests at once: a bound

ASSUME TenantsAssumption ==
  /\ AdminRole \in BaseRoles
  /\ BaseRoles \intersect OwnRoles = {}
  /\ Elsewhere \subseteq Users
  /\ Caps \subseteq Nat
  /\ NoMember \notin [admin : BOOLEAN, active : BOOLEAN]

VARIABLES
  member,       \* [Users -> TenantMembership of the user, or NoMember]
  holds,        \* [Users -> roles: the user's groups]
  groups,       \* OwnRoles that exist
  cap,          \* Client.max_users
  past,         \* history: "DISTURBED" once two requests were under way at once or a
                \* superuser acted, before that "INTERRUPTED" once a request died
  tenantReq     \* what each request is about to do

tenantVars == <<member, holds, groups, cap, past, tenantReq>>

Roles == BaseRoles \union OwnRoles
Membership == [admin : BOOLEAN, active : BOOLEAN]

NoTenantReq == [does |-> "nothing"]
TenantRequest ==
  [does : {"regroup", "add_role"}, user : Users, role : Roles,
   next : {"join", "join_as_admin", "make_admin", "end"}]
    \union [does : {"join"}, user : Users, admin : BOOLEAN]
    \union [does : {"make_admin", "delete"}, user : Users]
    \union [does : {"toggle"}, user : Users, active : BOOLEAN]
    \union [does : {"delete_role"}, role : OwnRoles]

TenantsTypeOK ==
  /\ member \in [Users -> Membership \union {NoMember}]
  /\ holds \in [Users -> SUBSET Roles]
  /\ groups \subseteq OwnRoles
  /\ cap \in Caps
  /\ past \in {"ORDERLY", "INTERRUPTED", "DISTURBED"}
  /\ tenantReq \in [TenantRequests -> TenantRequest \union {NoTenantReq}]

\* A company with one administrator, for whom its plan has a seat (the form of the plans
\* accepts 0 as well); others are no members, or were and are not active.
TenantsInit ==
  /\ \E u \in Users, former \in SUBSET Users, role \in BaseRoles :
       /\ u \notin former
       /\ member = [v \in Users |-> CASE v = u -> [admin |-> TRUE, active |-> TRUE]
                                     [] v \in former -> [admin |-> FALSE, active |-> FALSE]
                                     [] OTHER -> NoMember]
       /\ holds = [v \in Users |-> CASE v = u -> {AdminRole} [] v \in former -> {role} [] OTHER -> {}]
  /\ groups = {}
  /\ cap \in Caps \ {0}
  /\ past = "ORDERLY"
  /\ tenantReq = [r \in TenantRequests |-> NoTenantReq]

Active == {u \in Users : member[u] # NoMember /\ member[u].active}
Admins == {u \in Active : member[u].admin}
Idle == \A r \in TenantRequests : tenantReq[r] = NoTenantReq

\* Where request r goes on to
Goes(r, request) == tenantReq' = [tenantReq EXCEPT ![r] = request]

Asks(r, request) ==
  /\ tenantReq[r] = NoTenantReq
  /\ Goes(r, request)
  /\ UNCHANGED <<member, holds, groups, cap>>

\* TenantAdminRequiredMixin: an administrator of the company, who leaves himself alone,
\* asks for something of user u; a superuser may as well.
Asker(u) == \/ Admins \ {u} # {} /\ past' = IF Idle THEN past ELSE "DISTURBED"
            \/ past' = "DISTURBED"

SeatFree == Cardinality(Active) < cap

\* _tenant_users_context and the forms: the roles one may choose
RoleChoices == BaseRoles \union groups

(***************************************************************************)
(* The company's own screens                                               *)
(***************************************************************************)
\* TenantUserCreateView: a new account or an existing one, which may be his own
AskAccount(r, u, role, admin) ==
  /\ Asker(NoMember)
  /\ role \in RoleChoices
  /\ u \in Active \/ SeatFree
  /\ Asks(r, [does |-> "regroup", user |-> u, role |-> role,
              next |-> IF admin THEN "join_as_admin" ELSE "join"])

\* TenantUserRoleUpdateView
AskRole(r, u, role) ==
  /\ member[u] # NoMember
  /\ Asker(u)
  /\ role \in RoleChoices
  /\ Asks(r, [does |-> "regroup", user |-> u, role |-> role,
              next |-> IF role = AdminRole /\ ~ member[u].admin THEN "make_admin" ELSE "end"])

\* assign_role_to_user, until it adds the group, which it has created if it was gone.  A
\* base role replaces another only for users that are nowhere else.
Regroup(r) ==
  LET q == tenantReq[r]
      dropped == OwnRoles \union (IF q.role \in BaseRoles /\ q.user \notin Elsewhere
                                  THEN BaseRoles ELSE {})
  IN /\ q.does = "regroup"
     /\ groups' = groups \union ({q.role} \intersect OwnRoles)
     /\ holds' = [holds EXCEPT ![q.user] = @ \ (dropped \ {q.role})]
     /\ Goes(r, [q EXCEPT !.does = "add_role"])
     /\ UNCHANGED <<member, cap, past>>

\* The role is added, unless its group was deleted: then the request ends in an error.
AddRole(r) ==
  LET q == tenantReq[r]
      exists == q.role \in RoleChoices
  IN /\ q.does = "add_role"
     /\ holds' = [holds EXCEPT ![q.user] = IF exists THEN @ \union {q.role} ELSE @]
     /\ Goes(r, CASE ~ exists \/ q.next = "end" -> NoTenantReq
                  [] exists /\ q.next = "make_admin" -> [does |-> "make_admin", user |-> q.user]
                  [] OTHER -> [does |-> "join", user |-> q.user,
                               admin |-> q.next = "join_as_admin"])
     /\ UNCHANGED <<member, groups, cap, past>>

\* save_tenant_user_account: the membership is created, or made active and, if asked for,
\* an administrator's; it never ceases to be one.
Join(r) ==
  LET q == tenantReq[r]
  IN /\ q.does = "join"
     /\ member' = [member EXCEPT ![q.user] =
          [admin |-> q.admin \/ (@ # NoMember /\ @.admin), active |-> TRUE]]
     /\ Goes(r, NoTenantReq)
     /\ UNCHANGED <<holds, groups, cap, past>>

MakeAdmin(r) ==
  LET q == tenantReq[r]
  IN /\ q.does = "make_admin"
     /\ member' = [member EXCEPT ![q.user].admin = TRUE]
     /\ Goes(r, NoTenantReq)
     /\ UNCHANGED <<holds, groups, cap, past>>

\* TenantUserToggleView without the count of the seats
AskToggleFreely(r, u) ==
  /\ member[u] # NoMember
  /\ Asker(u)
  /\ Asks(r, [does |-> "toggle", user |-> u, active |-> ~ member[u].active])

\* TenantUserToggleView: what is saved is the opposite of what was read.
AskToggle(r, u) ==
  /\ member[u] # NoMember
  /\ Asker(u)
  /\ u \in Active \/ SeatFree
  /\ Asks(r, [does |-> "toggle", user |-> u, active |-> ~ member[u].active])

Toggle(r) ==
  LET q == tenantReq[r]
  IN /\ q.does = "toggle"
     /\ member' = [member EXCEPT ![q.user].active = q.active]
     /\ Goes(r, NoTenantReq)
     /\ UNCHANGED <<holds, groups, cap, past>>

\* TenantUserDeleteView of any member
AskDeleteAny(r, u) ==
  /\ member[u] # NoMember
  /\ Asker(NoMember)
  /\ Asks(r, [does |-> "delete", user |-> u])

\* TenantUserDeleteView
AskDelete(r, u) ==
  /\ member[u] # NoMember
  /\ Asker(u)
  /\ Asks(r, [does |-> "delete", user |-> u])

\* The user keeps his roles.  Another request that has read the membership has no row to
\* write to any more.
Delete(r) ==
  LET u == tenantReq[r].user
      Spared(q) == q = NoTenantReq \/ q.does \in {"delete_role", "join"} \/ q.user # u
      Rest(q) == IF Spared(q) THEN q
                 ELSE IF q.does \in {"regroup", "add_role"}
                 THEN [q EXCEPT !.next = IF @ = "make_admin" THEN "end" ELSE @]
                 ELSE NoTenantReq
  IN /\ tenantReq[r].does = "delete"
     /\ member' = [member EXCEPT ![u] = NoMember]
     /\ tenantReq' = [s \in TenantRequests |->
                        IF s = r THEN NoTenantReq ELSE Rest(tenantReq[s])]
     /\ UNCHANGED <<holds, groups, cap, past>>

\* TenantRoleCreateView: the name of a group is unique.
CreateRole(g) ==
  /\ Asker(NoMember)
  /\ g \in OwnRoles \ groups
  /\ groups' = groups \union {g}
  /\ UNCHANGED <<member, holds, cap, tenantReq>>

\* TenantRoleDeleteView that does not look at the users
AskDeleteRoleAnyway(r, g) ==
  /\ Asker(NoMember)
  /\ g \in groups
  /\ Asks(r, [does |-> "delete_role", role |-> g])

\* TenantRoleDeleteView: somebody may get the role before it is deleted.
AskDeleteRole(r, g) ==
  /\ Asker(NoMember)
  /\ g \in groups
  /\ \A u \in Users : g \notin holds[u]
  /\ Asks(r, [does |-> "delete_role", role |-> g])

DeleteRole(r) ==
  LET g == tenantReq[r].role
  IN /\ tenantReq[r].does = "delete_role"
     /\ groups' = groups \ {g}
     /\ holds' = [u \in Users |-> holds[u] \ {g}]
     /\ Goes(r, NoTenantReq)
     /\ UNCHANGED <<member, cap, past>>

TenantReqDies(r) ==
  /\ tenantReq[r] # NoTenantReq
  /\ Goes(r, NoTenantReq)
  /\ past' = IF past = "ORDERLY" THEN "INTERRUPTED" ELSE past
  /\ UNCHANGED <<member, holds, groups, cap>>

(***************************************************************************)
(* The superusers' panel: no seats are counted, nobody is spared.  Today   *)
(* config/urls.py gives its screens no address; a superuser does the same  *)
(* with the rows themselves, in the admin site (tenants/admin.py).         *)
(***************************************************************************)
\* TenantDetailView.post: an existing account, and no role
PanelAdds(r, u, admin) ==
  /\ past' = "DISTURBED"
  /\ Asks(r, [does |-> "join", user |-> u, admin |-> admin])

\* MembershipToggleView and MembershipDeleteView
PanelChanges(r, u) ==
  /\ member[u] # NoMember
  /\ past' = "DISTURBED"
  /\ \/ Asks(r, [does |-> "toggle", user |-> u, active |-> ~ member[u].active])
     \/ Asks(r, [does |-> "delete", user |-> u])

\* TenantEditView gives the company another plan, PlanEditView the plan another size.
ChangePlan(c) ==
  /\ cap # c
  /\ cap' = c
  /\ past' = "DISTURBED"
  /\ UNCHANGED <<member, holds, groups, tenantReq>>

TenantsNext ==
  \/ \E g \in OwnRoles : CreateRole(g)
  \/ \E c \in Caps : ChangePlan(c)
  \/ \E r \in TenantRequests :
       \/ \E u \in Users :
            \/ \E role \in Roles :
                 \/ AskRole(r, u, role)
                 \/ \E admin \in BOOLEAN : AskAccount(r, u, role, admin)
            \/ \E admin \in BOOLEAN : PanelAdds(r, u, admin)
            \/ AskToggle(r, u) \/ AskDelete(r, u) \/ PanelChanges(r, u)
       \/ \E g \in OwnRoles : AskDeleteRole(r, g)
       \/ Regroup(r) \/ AddRole(r) \/ Join(r) \/ MakeAdmin(r)
       \/ Toggle(r) \/ Delete(r) \/ DeleteRole(r) \/ TenantReqDies(r)

TenantsSpec == TenantsInit /\ [][TenantsNext]_tenantVars

(***************************************************************************)
(* Properties that hold.                                                   *)
(***************************************************************************)
\* While its administrators manage the company one request at a time, whichever of them
\* dies halfway, the plan's seats are never exceeded and one of them is left: the one that
\* acts spares himself.
CompanyIsManaged ==
  past # "DISTURBED" => Admins # {} /\ Cardinality(Active) <= cap

\* As long as no request overlapped another or died and no superuser acted, every member
\* has a role: deleting a role leaves nobody without, and a role is taken only for another.
EverybodyHasRole ==
  past = "ORDERLY" /\ Idle => \A u \in Users : member[u] # NoMember => holds[u] # {}
=============================================================================
