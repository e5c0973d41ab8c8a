---------------------------- MODULE Permissions ----------------------------
(***************************************************************************)
(* Who may do what: the role tables of the user service, and the key       *)
(* permission:user:{id} in Redis that both the user service and the        *)
(* gateway fill from them, each in round trips of its own, and that only   *)
(* some changes of the tables clear.                                       *)
(*                                                                         *)
(* A slot is a request: it passes the check of the gateway, then the check *)
(* of the user service, and may then change the tables, clear keys and     *)
(* leave an entry in the audit log.  What a transaction reads before its   *)
(* only write is in one step with its commit; the two that replace rows    *)
(* have a step for their statements and one for the commit.                *)
(*                                                                         *)
(* A key holds the time it has left, a request the time it has taken.      *)
(***************************************************************************)
EXTENDS Naturals, FiniteSets

CONSTANTS
  User,
  Administrator,\* users seeded with the role admin
  Tenantless,   \* users without a tenant, as registration creates them
  Role,
  Bundle,       \* the lists of menus clients send
  Slot,         \* requests in progress at the same time
  Ttl,          \* PERMISSION_CACHE_TTL and PERMISSION_TTL
  Patience,     \* the longest a request takes
  MaxChanges,   \* bound on the changes of the tables
  Environment,  \* the kinds of environment a behaviour may have
  Nobody

Endpoint == {"assign_role", "update_user_roles", "remove_role", "delete_role",
             "update_role_permissions", "assign_menu_to_role",
             "remove_menu_from_role", "update_user_admin", "delete_user",
             "seed_rbac"}

\* perms of the menus of type F that guard the endpoints of this module
Permission == {"user:list", "user:edit", "user:delete", "role:list",
               "role:assign", "role:edit", "role:delete"}

\* The roles the seed script creates and the menus it binds to them.
Seeded == {"admin", "user"}
Bindings == [r \in Seeded |-> IF r = "admin" THEN Permission ELSE {"user:list"}]

\* The permission the gateway asks for, per route.
Route == {"users", "roles"}
RequiresPermission == [r \in Route |-> IF r = "users" THEN "user:list" ELSE "role:list"]

ASSUME UserAssumption == /\ Administrator \subseteq User /\ Tenantless \subseteq User
                         /\ Nobody \notin User \cup Role /\ User \cap Role = {}
ASSUME RoleAssumption == Seeded \subseteq Role /\ Bundle \subseteq SUBSET Permission
\* A request ends (calls take ten seconds at most) before a key it set does.
ASSUME TimeAssumption == /\ Ttl \in Nat \ {0} /\ Patience \in Nat /\ MaxChanges \in Nat
                         /\ Patience < Ttl
ASSUME EnvironmentAssumption ==
  Environment \subseteq [calls : SUBSET Endpoint, routes : SUBSET Route, limit : 0 .. MaxChanges,
                         superusers : SUBSET User, overlap : BOOLEAN, faults : BOOLEAN]

VARIABLES
  env,       \* endpoints clients call and their routes, a bound on their
             \* changes, the users seeded with is_admin, whether requests
             \* overlap, and whether Redis, the database or a process may
             \* fail; never changes
  db,        \* the tables: user_roles, role_menus, the roles with deleted_at,
             \* the users with is_admin, the users with status deleted
  key,       \* key[u]: permission:user:{u}
  slot,      \* slot[p]: the request in slot p
  changes,   \* changes so far
  since,     \* since[u][x]: the time since u last held x (history)
  trail      \* trail[i]: who called what in change number i, and whether it
             \* was committed, entered in the audit log, answered (history)

vars == <<env, db, key, slot, changes, since, trail>>

NoKey == [perms |-> {}, ttl |-> 0]
Idle == [stage |-> "idle"]

\* A request that is checked, and one that changes something.
Check == [stage : {"fetch", "read", "fill", "store", "service", "admitted"},
          leg : {"gateway", "service", "nobody"}, route : Route, user : User,
          perms : SUBSET Permission, age : 0 .. Patience]
Change == [stage : {"commit", "clear"}, actor : User, id : 1 .. MaxChanges,
           subject : User \cup Role, seen : SUBSET (Role \cup Permission),
           new : SUBSET (Role \cup Permission), todo : SUBSET User, age : 0 .. Patience]

\* A key does not outlast a revocation longer than this: the request that
\* read before it and one that found the key missing while the answer was
\* under way each hand it on, and so does one more for every time the key is
\* cleared meanwhile; then the key lives on for its Ttl.
MaxStale == Ttl + (2 + env.limit) * Patience
Horizon == MaxStale + Patience + 1  \* where the history stops counting

TypeOK ==
  /\ env \in Environment
  /\ db \in [assigned : [User -> SUBSET Role], bound : [Role -> SUBSET Permission],
             deleted : SUBSET Role, admin : SUBSET User, gone : SUBSET User]
  /\ key \in [User -> [perms : SUBSET Permission, ttl : 0 .. Ttl]]
  /\ slot \in [Slot -> Check \cup Change \cup {Idle}]
  /\ changes \in 0 .. MaxChanges
  /\ since \in [User -> [Permission -> 0 .. Horizon]]
  /\ trail \in [1 .. MaxChanges -> [call : Endpoint \cup {Nobody}, actor : User \cup {Nobody},
                                    subject : User \cup Role \cup {Nobody},
                                    done : SUBSET {"committed", "logged", "answered"}]]

-----------------------------------------------------------------------------
(* The repositories: what they select, and the tables after they write.    *)

GetUserById(u) == u \notin db.gone
GetRoleById(r) == r \notin db.deleted
GetUserIdsByRole(r) == {u \in User : r \in db.assigned[u]}
\* The roles with deleted_at are not left out.
GetMenusByUserId(d, u) == UNION {d.bound[r] : r \in d.assigned[u]}

AssignRoleToUser(u, r) == [db EXCEPT !.assigned[u] = @ \cup {r}]
RemoveRoleFromUser(u, r) == [db EXCEPT !.assigned[u] = @ \ {r}]
DeleteRole(r) == [db EXCEPT !.deleted = @ \cup {r}]
AssignMenuToRole(r, x) == [db EXCEPT !.bound[r] = @ \cup {x}]
RemoveMenuFromRole(r, x) == [db EXCEPT !.bound[r] = @ \ {x}]
SetAdmin(u, flag) == [db EXCEPT !.admin = IF flag THEN @ \cup {u} ELSE @ \ {u}]
SetDeleted(u) == [db EXCEPT !.gone = @ \cup {u}]

\* What get_user_permissions computes from the tables.
HeldIn(d, u) ==
  IF u \in d.gone THEN {}
  ELSE IF u \in d.admin THEN Permission
  ELSE GetMenusByUserId(d, u)

Held(u) == HeldIn(db, u)

\* What somebody holds is held since now.
Stamp(d, u, x) == IF x \in HeldIn(d, u) THEN 0 ELSE since[u][x]

Init ==
  /\ env \in Environment
  /\ db = [assigned |-> [u \in User |-> IF u \in Administrator THEN {"admin"} ELSE {"user"}],
           bound |-> [r \in Role |-> IF r \in Seeded THEN Bindings[r] ELSE {}],
           deleted |-> {}, admin |-> env.superusers, gone |-> {}]
  /\ key = [u \in User |-> NoKey]
  /\ slot = [p \in Slot |-> Idle]
  /\ changes = 0
  /\ since = [u \in User |-> [x \in Permission |-> IF x \in Held(u) THEN 0 ELSE Horizon]]
  /\ trail = [i \in 1 .. MaxChanges |->
                [call |-> Nobody, actor |-> Nobody, subject |-> Nobody, done |-> {}]]

-----------------------------------------------------------------------------
(* The key of a user.                                                      *)

\* GET finds the key; or it is missing, and an error counts as missing.
Hit(u) == key[u].ttl > 0
Miss(u) == key[u].ttl = 0 \/ env.faults

\* Mutant: one of the two caches has a longer time to live.
SetPermissionsLonger(u, perms) ==
  \/ key' = [key EXCEPT ![u] = [perms |-> perms, ttl |-> Ttl]]
  \/ key' = [key EXCEPT ![u] = [perms |-> perms, ttl |-> Ttl + 1]]

\* SETEX, whose errors are swallowed
SetPermissions(u, perms) ==
  \/ key' = [key EXCEPT ![u] = [perms |-> perms, ttl |-> Ttl]]
  \/ env.faults /\ UNCHANGED key

\* Mutant: nothing is cleared.
DeletePermissionsNever(u) == u \in User /\ UNCHANGED key

\* DEL, whose errors are swallowed
DeletePermissions(u) ==
  \/ key' = [key EXCEPT ![u] = NoKey]
  \/ env.faults /\ UNCHANGED key

-----------------------------------------------------------------------------
(* The two checks.                                                         *)

At(p, stage) == slot[p].stage = stage
Goto(p, stage) == slot' = [slot EXCEPT ![p].stage = stage]
Return(p, stage, perms) == slot' = [slot EXCEPT ![p].stage = stage, ![p].perms = perms]
End(p) == slot' = [slot EXCEPT ![p] = Idle]

\* Mutant: looking at the key renews its time to live.
ArriveRenewing(p, u, route) ==
  LET to(stage) ==
        slot' = [slot EXCEPT ![p] = [stage |-> stage, leg |-> "gateway", route |-> route,
                                     user |-> u, perms |-> {}, age |-> 0]]
  IN /\ At(p, "idle") /\ route \in env.routes
     /\ env.overlap \/ \A q \in Slot : At(q, "idle")
     /\ \/ /\ Hit(u) /\ RequiresPermission[route] \in key[u].perms /\ to("service")
           /\ key' = [key EXCEPT ![u].ttl = Ttl]
        \/ Miss(u) /\ to("fetch") /\ UNCHANGED key
     /\ UNCHANGED <<env, db, changes, since, trail>>

\* A request arrives at the gateway, which looks at the key: 403, on to the
\* user service, or a call to the user service first.
Arrive(p, u, route) ==
  LET to(stage) ==
        slot' = [slot EXCEPT ![p] = [stage |-> stage, leg |-> "gateway", route |-> route,
                                     user |-> u, perms |-> {}, age |-> 0]]
  IN /\ At(p, "idle") /\ route \in env.routes
     /\ env.overlap \/ \A q \in Slot : At(q, "idle")
     /\ \/ Hit(u) /\ RequiresPermission[route] \in key[u].perms /\ to("service")
        \/ Miss(u) /\ to("fetch")
     /\ UNCHANGED <<env, db, key, changes, since, trail>>

\* Where the permissions get_user_permissions returns go.
Resume(p, perms) ==
  CASE slot[p].leg = "gateway" -> Return(p, "store", perms)
    [] slot[p].leg = "service" -> Return(p, "admitted", perms)
    [] slot[p].leg = "nobody"  -> End(p)

\* GET /users/me/permissions for the gateway, and the same look at the key
\* in the check of the user service, which needs a user that is not deleted
\* or whose cached copy is older than the deletion.
LookUp(p) ==
  /\ At(p, "fetch") \/ At(p, "service")
  /\ LET leg == IF At(p, "service") THEN "service" ELSE slot[p].leg
         u == slot[p].user
     IN \/ /\ Hit(u)
           /\ CASE leg = "nobody"  -> End(p)
                [] leg = "gateway" -> Return(p, "store", key[u].perms)
                [] leg = "service" -> slot' = [slot EXCEPT ![p].stage = "admitted", ![p].leg = leg,
                                                           ![p].perms = key[u].perms]
        \/ /\ Miss(u)
           /\ slot' = [slot EXCEPT ![p].stage = "read", ![p].leg = leg]
        \/ leg = "service" /\ ~GetUserById(u) /\ End(p)
  /\ UNCHANGED <<env, db, key, changes, since, trail>>

\* The transaction of get_user_permissions.
Read(p) ==
  /\ At(p, "read")
  /\ IF GetUserById(slot[p].user) THEN Return(p, "fill", Held(slot[p].user)) ELSE End(p)
  /\ UNCHANGED <<env, db, key, changes, since, trail>>

\* It caches what it read.
Fill(p) ==
  /\ At(p, "fill")
  /\ SetPermissions(slot[p].user, slot[p].perms)
  /\ Resume(p, slot[p].perms)
  /\ UNCHANGED <<env, db, changes, since, trail>>

\* The call of the gateway times out; the user service goes on with it.
FetchTimesOut(p) ==
  /\ slot[p].stage \in {"fetch", "read", "fill"} /\ slot[p].leg = "gateway"
  /\ slot' = [slot EXCEPT ![p].leg = "nobody"]
  /\ UNCHANGED <<env, db, key, changes, since, trail>>

\* The gateway caches the answer a second time, then compares.
Store(p) ==
  /\ At(p, "store")
  /\ SetPermissions(slot[p].user, slot[p].perms)
  /\ IF RequiresPermission[slot[p].route] \in slot[p].perms
     THEN Return(p, "service", {})
     ELSE End(p)
  /\ UNCHANGED <<env, db, changes, since, trail>>

\* 403 of the user service, or an endpoint that changes nothing here.
Finish(p) ==
  /\ At(p, "admitted")
  /\ End(p)
  /\ UNCHANGED <<env, db, key, changes, since, trail>>

\* The answer about a user holds the permissions of that user.
MakeUserResponse(p, u) ==
  /\ At(p, "admitted") /\ slot[p].route = "users" /\ "user:list" \in slot[p].perms
  /\ slot' = [slot EXCEPT ![p].stage = "fetch", ![p].leg = "nobody", ![p].user = u]
  /\ UNCHANGED <<env, db, key, changes, since, trail>>

-----------------------------------------------------------------------------
(* Changes.  With the commit the tables become d; then the keys of todo    *)
(* are cleared and, of an audited change, the entry written.               *)

\* A statement on rows S of x waits for a transaction that deleted some.
Locked(x, S) ==
  \E q \in Slot : At(q, "commit") /\ slot[q].subject = x /\ slot[q].seen \cap S # {}

Become(d) ==
  /\ db' = d
  /\ since' = [u \in User |-> [x \in Permission |-> Stamp(d, u, x)]]

\* Change number changes + 1 is of call name and subject x.
NewChange(p, name, x, done) ==
  /\ changes' = changes + 1
  /\ trail' = [trail EXCEPT ![changes + 1] =
                 [call |-> name, actor |-> slot[p].user, subject |-> x, done |-> done]]

\* What the request still has to do about it.
GoOn(p, stage, x, seen, new, todo) ==
  slot' = [slot EXCEPT ![p] = [stage |-> stage, actor |-> @.user, id |-> changes + 1,
                               subject |-> x, seen |-> seen, new |-> new,
                               todo |-> todo, age |-> @.age]]

\* One change and its commit, followed by the keys to clear and the entry.
Audited(p, name, x, d, todo) ==
  /\ Become(d)
  /\ NewChange(p, name, x, {"committed"})
  /\ GoOn(p, "clear", x, {}, {}, todo)
  /\ UNCHANGED <<env, key>>

\* One change and its commit, and no more.
Plain(p, name, x, d) ==
  /\ Become(d)
  /\ NewChange(p, name, x, {"committed", "answered"})
  /\ End(p)
  /\ UNCHANGED <<env, key>>

\* The statements of a transaction that replaces the rows seen of x by new.
Replacing(p, name, x, seen, new, todo) ==
  /\ NewChange(p, name, x, {})
  /\ GoOn(p, "commit", x, seen, new, todo)
  /\ UNCHANGED <<env, db, key, since>>

\* READ COMMITTED: it deletes the rows it saw and not those committed since.
Replaced(x, seen, new) ==
  IF x \in User THEN [db EXCEPT !.assigned[x] = (@ \ seen) \cup new]
                ELSE [db EXCEPT !.bound[x] = (@ \ seen) \cup new]

\* The rows it deleted are not there for a replacement that waited.
Commit(p) ==
  LET c == slot[p]
  IN /\ At(p, "commit")
     /\ Become(Replaced(c.subject, c.seen, c.new))
     /\ slot' = [q \in Slot |->
          IF q = p THEN [c EXCEPT !.stage = "clear"]
          ELSE IF At(q, "commit") /\ slot[q].subject = c.subject
          THEN [slot[q] EXCEPT !.seen = @ \ c.seen]
          ELSE slot[q]]
     /\ trail' = [trail EXCEPT ![c.id].done = {"committed"}]
     /\ UNCHANGED <<env, key, changes>>

\* _delete_permission_cache, one user after the other
Clear(p, u) ==
  /\ At(p, "clear") /\ u \in slot[p].todo
  /\ DeletePermissions(u)
  /\ slot' = [slot EXCEPT ![p].todo = @ \ {u}]
  /\ UNCHANGED <<env, db, changes, since, trail>>

\* Mutant: the tenant of the subject only.
HasOwnTenant(actor, x) == actor \in User /\ x \notin Tenantless

\* An entry needs a tenant: that of the subject (a role has one), or else
\* that of the actor, which the check of the user service has set.
HasTenant(actor, x) == x \in Role \/ {actor, x} \ Tenantless # {}

\* _add_audit_log: a transaction of its own, skipped without a tenant
AddAuditLog(p) ==
  LET c == slot[p]
      logged == IF HasTenant(c.actor, c.subject) THEN {"logged"} ELSE {}
  IN /\ At(p, "clear") /\ c.todo = {}
     /\ End(p)
     /\ trail' = [trail EXCEPT ![c.id].done = @ \cup logged \cup {"answered"}]
     /\ UNCHANGED <<env, db, key, changes, since>>

\* The process dies, or the database refuses a transaction: nothing more of
\* the request happens.
Dies(p) ==
  /\ env.faults /\ ~At(p, "idle")
  /\ End(p)
  /\ UNCHANGED <<env, db, key, changes, since, trail>>

-----------------------------------------------------------------------------
(* The service operations that change the tables.                          *)

AssignRoleToUserService(p, u, r) ==
  /\ GetUserById(u) /\ GetRoleById(r) /\ ~Locked(u, {r})
  /\ Audited(p, "assign_role", u, AssignRoleToUser(u, r), {u})

UpdateUserRolesService(p, u, roles) ==
  /\ GetUserById(u)
  /\ Replacing(p, "update_user_roles", u, db.assigned[u], roles, {u})

RemoveRoleFromUserService(p, u, r) ==
  /\ GetUserById(u) /\ ~Locked(u, {r})
  /\ Audited(p, "remove_role", u, RemoveRoleFromUser(u, r), {u})

\* The users whose keys will be cleared are read before the commit.
UpdateRolePermissionsService(p, r, menus) ==
  /\ GetRoleById(r)
  /\ Replacing(p, "update_role_permissions", r, db.bound[r], menus, GetUserIdsByRole(r))

DeleteRoleService(p, r) ==
  /\ GetRoleById(r)
  /\ Plain(p, "delete_role", r, DeleteRole(r))

AssignMenuToRoleService(p, r, x) ==
  /\ GetRoleById(r) /\ ~Locked(r, {x})
  /\ Plain(p, "assign_menu_to_role", r, AssignMenuToRole(r, x))

RemoveMenuFromRoleService(p, r, x) ==
  /\ GetRoleById(r) /\ ~Locked(r, {x})
  /\ Plain(p, "remove_menu_from_role", r, RemoveMenuFromRole(r, x))

\* Of what it may change, is_admin is what permissions depend on.
UpdateUserAdminService(p, u, flag) ==
  /\ GetUserById(u)
  /\ Plain(p, "update_user_admin", u, SetAdmin(u, flag))

DeleteUserService(p, u) ==
  /\ GetUserById(u)
  /\ Plain(p, "delete_user", u, SetDeleted(u))

-----------------------------------------------------------------------------
(* The endpoints, each behind the permission the user service asks for.    *)

Permitted(p, name, route, permission) ==
  /\ name \in env.calls /\ changes < env.limit
  /\ At(p, "admitted") /\ slot[p].route = route /\ permission \in slot[p].perms

AssignRole(p) ==
  /\ Permitted(p, "assign_role", "users", "role:assign")
  /\ \E u \in User, r \in Role : AssignRoleToUserService(p, u, r)

UpdateUserRoles(p) ==
  /\ Permitted(p, "update_user_roles", "users", "role:assign")
  /\ \E u \in User, roles \in SUBSET Role : UpdateUserRolesService(p, u, roles)

RemoveRole(p) ==
  /\ Permitted(p, "remove_role", "users", "role:assign")
  /\ \E u \in User, r \in Role : RemoveRoleFromUserService(p, u, r)

UpdateRolePermissions(p) ==
  /\ Permitted(p, "update_role_permissions", "roles", "role:edit")
  /\ \E r \in Role, menus \in Bundle : UpdateRolePermissionsService(p, r, menus)

DeleteRoleEndpoint(p) ==
  /\ Permitted(p, "delete_role", "roles", "role:delete")
  /\ \E r \in Role : DeleteRoleService(p, r)

AssignMenu(p) ==
  /\ Permitted(p, "assign_menu_to_role", "roles", "role:edit")
  /\ \E r \in Role, x \in Permission : AssignMenuToRoleService(p, r, x)

RemoveMenu(p) ==
  /\ Permitted(p, "remove_menu_from_role", "roles", "role:edit")
  /\ \E r \in Role, x \in Permission : RemoveMenuFromRoleService(p, r, x)

UpdateUserAdmin(p) ==
  /\ Permitted(p, "update_user_admin", "users", "user:edit")
  /\ \E u \in User, flag \in BOOLEAN : UpdateUserAdminService(p, u, flag)

DeleteUser(p) ==
  /\ Permitted(p, "delete_user", "users", "user:delete")
  /\ \E u \in User : DeleteUserService(p, u)

\* The seed script, run again, binds what is missing and removes nothing.
SeedRbac ==
  /\ "seed_rbac" \in env.calls /\ changes < env.limit
  /\ Become([db EXCEPT !.bound = [r \in Role |->
               IF r \in Seeded THEN @[r] \cup Bindings[r] ELSE @[r]]])
  /\ changes' = changes + 1
  /\ UNCHANGED <<env, key, slot, trail>>

\* Time passes: no request takes longer than Patience, keys expire.
Tick ==
  /\ \A p \in Slot : ~At(p, "idle") => slot[p].age < Patience
  /\ slot' = [p \in Slot |-> IF At(p, "idle") THEN Idle ELSE [slot[p] EXCEPT !.age = @ + 1]]
  /\ key' = [u \in User |-> IF key[u].ttl <= 1 THEN NoKey ELSE [key[u] EXCEPT !.ttl = @ - 1]]
  /\ since' = [u \in User |-> [x \in Permission |->
                 IF x \in Held(u) \/ since[u][x] = Horizon THEN since[u][x] ELSE since[u][x] + 1]]
  /\ UNCHANGED <<env, db, changes, trail>>

\* What a request does once it is there
Proceed(p) ==
  \/ LookUp(p) \/ Read(p) \/ Fill(p) \/ Store(p) \/ Finish(p)
  \/ Commit(p) \/ AddAuditLog(p) \/ \E u \in User : Clear(p, u)

Write(p) ==
  \/ AssignRole(p) \/ UpdateUserRoles(p) \/ RemoveRole(p)
  \/ UpdateRolePermissions(p) \/ DeleteRoleEndpoint(p)
  \/ AssignMenu(p) \/ RemoveMenu(p)
  \/ UpdateUserAdmin(p) \/ DeleteUser(p)

Next ==
  \/ Tick \/ SeedRbac
  \/ \E p \in Slot :
       \/ \E u \in User, route \in Route : Arrive(p, u, route)
       \/ \E u \in User : MakeUserResponse(p, u)
       \/ Proceed(p) \/ Write(p) \/ FetchTimesOut(p) \/ Dies(p)

\* Time passes, and every request that is there comes to an end.
Fairness == WF_vars(Tick) /\ \A p \in Slot : WF_vars(Proceed(p))

Spec == Init /\ [][Next]_vars /\ Fairness

-----------------------------------------------------------------------------
(* Properties.                                                             *)

\* Whatever overlaps (a fill with a clear, a store of the gateway with
\* either), a permission stays in a key no longer than MaxStale after it was
\* taken away and admits no request later than one request after that,
\* unless Redis fails.
StalenessIsBounded ==
  ~env.faults =>
    /\ \A u \in User : \A x \in key[u].perms : since[u][x] <= MaxStale
    /\ \A p \in Slot : At(p, "admitted") =>
         \A x \in slot[p].perms : since[slot[p].user][x] <= MaxStale + Patience

\* A change of roles is in effect at the next request: rbac.py says so of
\* the assignment.  A key is missing or right, but for those a change that
\* has committed is about to clear.
NextRequestReflects ==
  \A u \in User :
    \/ key[u].ttl = 0 \/ key[u].perms = Held(u)
    \/ \E p \in Slot : At(p, "clear") /\ u \in slot[p].todo

\* So it is of the four changes that clear keys when no requests overlap and
\* Redis works.
Clearing == {"assign_role", "update_user_roles", "remove_role", "update_role_permissions"}
SerialRequestsReflect ==
  (~env.overlap /\ ~env.faults /\ env.calls \subseteq Clearing) => NextRequestReflects

\* The four that clear keys are also the four that are audited, each entry in
\* a transaction after the change and the keys.  Once such a change is in the
\* tables its entry is there or its request is still at work on it, unless
\* neither the subject nor the actor has a tenant, or the request died before
\* it answered; and no entry is without its change.  No entry is written of the
\* other five, although api-reference.md has the log cover changes of
\* permissions and of the status of users.
AuditFollows ==
  \A i \in 1 .. MaxChanges :
    LET t == trail[i]
    IN /\ "logged" \in t.done => "committed" \in t.done /\ t.call \in Clearing
       /\ ("committed" \in t.done /\ t.call \in Clearing) =>
            \/ "logged" \in t.done \/ {t.actor, t.subject} \subseteq Tenantless
            \/ \E p \in Slot : At(p, "clear") /\ slot[p].id = i
            \/ env.faults /\ "answered" \notin t.done

\* Once the tables stop changing, every key becomes missing or right for
\* good, unless Redis fails.
Converges ==
  ~env.faults => <>[](\A u \in User : key[u].ttl = 0 \/ key[u].perms = Held(u))
=============================================================================
