------------------------------ MODULE Directory ------------------------------
(***************************************************************************)
(* The departments, the roles with their data scopes and the tenants of    *)
(* the user service, beside its users; and what a user is shown of them.   *)
(*                                                                         *)
(* ancestors, a string of comma-separated ids, is a sequence.              *)
(***************************************************************************)
EXTENDS UserProfiles, Sequences

CONSTANTS
  RoleKey,
  Member   \* Member[u]: the rows of user_roles (module Permissions changes them)

ALL == 1
DEPT == 2
SELF == 3
CUSTOM == 4
DataScope == {ALL, DEPT, SELF, CUSTOM}

Department == [deleted : BOOLEAN, tenant : Tenant, parent : Dept \cup {Null},
               ancestors : Seq(Dept)]
RoleRow == [deleted : BOOLEAN, tenant : Tenant, key : RoleKey, scope : DataScope]
TenantRow == [deleted : BOOLEAN, status : Status]

Operation == {"create_user", "create_registration_profile", "update_user_profile",
              "activate_user", "enable_user", "disable_user", "delete_user",
              "update_user_admin", "get_user", "get_user_by_email",
              "create_department", "update_department", "delete_department",
              "create_role", "update_role", "delete_role",
              "create_tenant", "update_tenant", "delete_tenant"}

ASSUME DirectoryAssumption ==
  Person # {} /\ IsFiniteSet(Dept) /\ Member \in [Person -> SUBSET Role] /\ Null \notin Username
ASSUME EnvironmentAssumption ==
  Environment \subseteq [calls : SUBSET Operation, overlap : BOOLEAN, faults : BOOLEAN]

vars == <<env, row, slot, copy>>

RowOf(x) == CASE x \in Person -> User [] x \in Dept -> Department
              [] x \in Role -> RoleRow [] x \in Tenant -> TenantRow

TypeOK ==
  /\ env \in Environment
  /\ \A x \in Id : row[x] = NoRow \/ row[x] \in RowOf(x)
  /\ \A u \in Person : copy[u] = NoRow \/ copy[u] \in User
  /\ \A p \in Slot : ~At(p, "idle") =>
       /\ slot[p].stage \in {"save", "commit", "flush", "set", "drop"}
       /\ slot[p].op \in env.calls
       /\ slot[p].new \in RowOf(slot[p].id)
       /\ {slot[p].loaded, slot[p].base} \subseteq RowOf(slot[p].id) \cup {NoRow}

\* Tenants that somebody put in the table (create_tenant never does, and the
\* seed scripts only use their ids), and one active user of seed_demo_data.
Init ==
  /\ env \in Environment
  /\ row = [x \in Id |->
       IF x \in Tenant THEN [deleted |-> FALSE, status |-> "active"]
       ELSE IF x = (CHOOSE u \in Person : TRUE) THEN CreateDomain(Null, "active", Null)
       ELSE NoRow]
  /\ slot = [p \in Slot |-> Idle]
  /\ copy = [u \in Person |-> NoRow]

-----------------------------------------------------------------------------
(* Departments.                                                            *)

Live(S) == {x \in S : GetById(x)}

\* Mutant: the children of the same tenant.
GetChildrenOfTenant(d) == {c \in Live(Dept) : row[c].parent = d /\ row[c].tenant = row[d].tenant}

GetChildren(d) == {c \in Live(Dept) : row[c].parent = d}
GetDescendants(d) == {c \in Live(Dept) : \E i \in DOMAIN row[c].ancestors : row[c].ancestors[i] = d}

\* Mutant: the path of the parent, without the parent.
ParentPath(parent) == IF parent = Null THEN <<>> ELSE row[parent].ancestors

\* Mutant: the path of a root is the name of nothing.
PathFromNull(parent) ==
  IF parent = Null THEN <<Null>> ELSE Append(row[parent].ancestors, parent)

\* Department.create: the path of the parent, and the parent
ChildPath(parent) ==
  IF parent = Null THEN <<>> ELSE Append(row[parent].ancestors, parent)

\* The parent may be a department of another tenant.
CreateDepartmentService(p, d, parent, t) ==
  Add(p, "create_department", d, [deleted |-> FALSE, tenant |-> t, parent |-> parent,
                                  ancestors |-> ChildPath(parent)])

\* Only the name and the order change (not modelled); save compares the
\* other columns too.
UpdateDepartmentService(p, d) == Load(p, "update_department", d, row[d])

DeleteDepartmentService(p, d) == GetChildren(d) = {} /\ Mark(p, "delete_department", d)

CreateDepartment(p) ==
  /\ \E d \in Dept, parent \in Live(Dept) \cup {Null}, t \in Tenant :
       CreateDepartmentService(p, d, parent, t)
  /\ UNCHANGED <<env, row, copy>>
UpdateDepartment(p) ==
  (\E d \in Dept : UpdateDepartmentService(p, d)) /\ UNCHANGED <<env, row, copy>>
DeleteDepartment(p) ==
  (\E d \in Dept : DeleteDepartmentService(p, d)) /\ UNCHANGED <<env, row, copy>>

-----------------------------------------------------------------------------
(* Roles.                                                                  *)

GetRolesByTenantId(t) == {r \in Live(Role) : row[r].tenant = t}

\* 409 when the key is there; no index says so again.
CreateRoleService(p, r, t, k, s) ==
  /\ k \notin {row[q].key : q \in GetRolesByTenantId(t)}
  /\ Add(p, "create_role", r, [deleted |-> FALSE, tenant |-> t, key |-> k, scope |-> s])

\* 409 when another role of the tenant has the new key.  The repository has
\* no save for roles: the request fails there.
UpdateRoleService(p, r, k, s) ==
  /\ Load(p, "update_role", r, [row[r] EXCEPT !.key = k, !.scope = s])
  /\ k # row[r].key => k \notin {row[q].key : q \in GetRolesByTenantId(row[r].tenant)}

DeleteRoleService(p, r) == Mark(p, "delete_role", r)

CreateRole(p) ==
  /\ \E r \in Role, t \in Tenant, k \in RoleKey, s \in DataScope : CreateRoleService(p, r, t, k, s)
  /\ UNCHANGED <<env, row, copy>>
UpdateRole(p) ==
  /\ \E r \in Role, k \in RoleKey, s \in DataScope : UpdateRoleService(p, r, k, s)
  /\ UNCHANGED <<env, row, copy>>
DeleteRole(p) == (\E r \in Role : DeleteRoleService(p, r)) /\ UNCHANGED <<env, row, copy>>

-----------------------------------------------------------------------------
(* Tenants.                                                                *)

\* Everything is added to the session, then the unit of work has no flush:
\* the request fails there, before the password is bound.
CreateTenantService(p, t) ==
  /\ Begin(p, "create_tenant")
  /\ slot' = [slot EXCEPT ![p] = [stage |-> "flush", op |-> "create_tenant", id |-> t,
                loaded |-> NoRow, base |-> NoRow,
                new |-> [deleted |-> FALSE, status |-> "active"]]]

\* The status may become DELETED; the queries look at deleted_at.
UpdateTenantService(p, t, s) == Load(p, "update_tenant", t, [row[t] EXCEPT !.status = s])

DeleteTenantService(p, t) ==
  /\ Begin(p, "delete_tenant") /\ GetById(t)
  /\ slot' = [slot EXCEPT ![p] = [stage |-> "commit", op |-> "delete_tenant", id |-> t,
                loaded |-> row[t], base |-> row[t],
                new |-> [deleted |-> TRUE, status |-> "deleted"]]]

CreateTenant(p) == (\E t \in Tenant : CreateTenantService(p, t)) /\ UNCHANGED <<env, row, copy>>
UpdateTenant(p) ==
  (\E t \in Tenant, s \in Status : UpdateTenantService(p, t, s)) /\ UNCHANGED <<env, row, copy>>
DeleteTenant(p) == (\E t \in Tenant : DeleteTenantService(p, t)) /\ UNCHANGED <<env, row, copy>>

-----------------------------------------------------------------------------
(* The ends of the transactions.                                           *)

\* AttributeError, and a rollback
Fails(p) ==
  /\ \/ At(p, "flush")
     \/ At(p, "save") /\ slot[p].id \in Role
  /\ End(p)
  /\ UNCHANGED <<env, row, copy>>

SaveRow(p) ==
  /\ At(p, "save") /\ slot[p].id \in Dept \cup Tenant /\ Save(p)
  /\ UNCHANGED <<env, row, copy>>

CommitRow(p) ==
  /\ At(p, "commit") /\ slot[p].id \notin Person /\ Commit(p, Written(p), "idle")
  /\ UNCHANGED <<env, copy>>

-----------------------------------------------------------------------------
(* What a user is shown.                                                   *)

\* Mutant: the highest value.
WidestScopeHigh(u, scopes) ==
  IF scopes = {} THEN SELF ELSE CHOOSE s \in scopes : \A t \in scopes : t <= s /\ u \in Person

\* get_user_data_scope, for a user who is not an administrator
WidestScope(u, scopes) ==
  IF scopes = {} THEN SELF ELSE CHOOSE s \in scopes : \A t \in scopes : s <= t /\ u \in Person

ScopesOf(u) == {row[r].scope : r \in Live(Member[u])}

\* get_all of the users, to u with a scope; a department is null or not
VisibleUsers(u, scope) ==
  {v \in Live(Person) :
     CASE scope = DEPT /\ row[u].dept # Null -> row[v].dept = row[u].dept
       [] scope = DEPT /\ row[u].dept = Null -> v = u
       [] scope = SELF -> v = u
       [] OTHER -> TRUE}

\* get_by_tenant_id of the departments
VisibleDepts(u, scope, t) ==
  {d \in Live(Dept) : row[d].tenant = t /\ (scope \in {DEPT, SELF} => d = row[u].dept)}

\* Mutant: a root has no parent.
RootsWithoutParent(listed) == {d \in listed : row[d].parent = Null}

\* _build_tree: the departments whose parent is not listed are roots, the
\* others children of their parents.
Roots(listed) == {d \in listed : row[d].parent \notin listed}
Children(listed, d) == {c \in listed : row[c].parent = d}

\* The departments n levels or less below the roots
Shown(listed) ==
  LET shown[n \in Nat] ==
        IF n = 0 THEN Roots(listed)
        ELSE shown[n - 1] \cup UNION {Children(listed, d) : d \in shown[n - 1]}
  IN shown[Cardinality(listed)]

\* get_all_users and get_department_tree, for a user with the scopes
GetAllUsers(u, scopes) == VisibleUsers(u, WidestScope(u, scopes))
GetDepartmentTree(u, scopes, t) == Shown(VisibleDepts(u, WidestScope(u, scopes), t))

-----------------------------------------------------------------------------

DirectoryNext(p) ==
  \/ CreateDepartment(p) \/ UpdateDepartment(p) \/ DeleteDepartment(p)
  \/ CreateRole(p) \/ UpdateRole(p) \/ DeleteRole(p)
  \/ CreateTenant(p) \/ UpdateTenant(p) \/ DeleteTenant(p)
  \/ Fails(p) \/ SaveRow(p) \/ CommitRow(p)
  \/ Dies(p) /\ UNCHANGED copy

Next ==
  \/ \E p \in Slot : UserNext(p) \/ DirectoryNext(p)
  \/ \E u \in Person : Expire(u)

Spec == Init /\ [][Next]_vars

-----------------------------------------------------------------------------
(* Properties.                                                             *)

\* A row that was deleted comes back in one way only: by the save of a
\* request that overlaps the deletion and had loaded the row before it.
DeletedStaysDeleted ==
  [][\A x \in Id : (row[x].deleted /\ ~row[x].deleted') =>
       /\ env.overlap
       /\ \E p \in Slot : At(p, "commit") /\ slot[p].id = x /\ ~slot[p].loaded.deleted]_vars

\* When no requests overlap and Redis works, a copy is the row of a user who
\* is not deleted, or about to be dropped.
UserCacheIsExact ==
  (~env.overlap /\ ~env.faults) =>
    \A u \in Person :
      \/ copy[u] = NoRow
      \/ GetById(u) /\ copy[u] = row[u]
      \/ \E p \in Slot : At(p, "drop") /\ slot[p].id = u

\* When no requests overlap, what the requests check before they write is so
\* afterwards: no department below a deleted one, no role key twice in a
\* tenant.
ChecksSuffice ==
  ~env.overlap =>
    /\ \A d \in Live(Dept) : row[d].parent # Null => GetById(row[d].parent)
    /\ \A q, r \in Live(Role) : (row[q].tenant = row[r].tenant /\ row[q].key = row[r].key) => q = r

\* The departments above d, by the column parent
Above(d) ==
  LET up[n \in Nat] ==
        IF n = 0 THEN {}
        ELSE {row[c].parent : c \in up[n - 1] \cup {d}} \ {Null}
  IN UNION {up[n] : n \in 1 .. Cardinality(Dept)}

\* The departments found by their paths are those below, and the path of one
\* names every department above it once, whatever was deleted or updated
\* since it was made.
PathsAreTrue ==
  /\ \A a \in Dept : GetDescendants(a) = {d \in Live(Dept) : a \in Above(d)}
  /\ \A d \in Live(Dept) : Len(row[d].ancestors) = Cardinality(Above(d))

\* Every department a user may see is in the tree the user is shown, also
\* below a parent that was deleted, is of another tenant or out of scope.
TreesAreComplete ==
  \A u \in Live(Person), scope \in DataScope, t \in Tenant :
    GetDepartmentTree(u, {scope}, t) = VisibleDepts(u, scope, t)

\* What create_department, delete_department and the tree endpoint rely on:
\* both of the above.
DepartmentsFormTrees == PathsAreTrue /\ TreesAreComplete

\* With the scopes of several roles, those a user has and any others, the
\* user sees whatever one of them shows, unless a custom one is among them:
\* CUSTOM, the highest number, shows everything, and any other narrows it.
ScopeIsWidest ==
  \A u \in Live(Person), more \in SUBSET (DataScope \ {CUSTOM}) :
    LET scopes == ScopesOf(u) \cup more
    IN CUSTOM \notin scopes =>
         \A s \in scopes :
           /\ GetAllUsers(u, {s}) \subseteq GetAllUsers(u, scopes)
           /\ \A t \in Tenant : GetDepartmentTree(u, {s}, t) \subseteq GetDepartmentTree(u, scopes, t)
=============================================================================
