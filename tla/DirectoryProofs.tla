-------------------------- MODULE DirectoryProofs --------------------------
(***************************************************************************)
(* The rows of Directory, for any numbers of users, departments, roles and *)
(* tenants and of requests in progress: a deleted one comes back only by a *)
(* save that overlaps its deletion, and without overlap what the requests  *)
(* check before they write is so afterwards and the copies of users in     *)
(* Redis are their rows.                                                   *)
(***************************************************************************)
EXTENDS Directory, TLAPS

USE IdAssumption

-----------------------------------------------------------------------------
(* What the actions do to rows and requests.                               *)

Fields == {"stage", "op", "id", "loaded", "base", "new"}

IsRow(f) == f = [y \in DOMAIN f |-> f[y]] /\ "deleted" \in DOMAIN f

\* ChecksSuffice, of any rows: the parents of live departments are live, the
\* keys of live roles differ.
LiveIn(rows, x) == rows[x] # NoRow /\ ~rows[x].deleted
Fine(rows) ==
  /\ \A d \in Dept : (LiveIn(rows, d) /\ rows[d].parent # Null) =>
       rows[d].parent \in Dept /\ LiveIn(rows, rows[d].parent)
  /\ \A q, r \in Role :
       (/\ LiveIn(rows, q) /\ LiveIn(rows, r)
        /\ rows[q].tenant = rows[r].tenant /\ rows[q].key = rows[r].key) => q = r

\* Nothing is wrong with the rows once the row of x is new.
Sound(x, new) == IsRow(new) /\ (~env.overlap => Fine([row EXCEPT ![x] = new]))

\* A request begins; what it loaded is there and, if it will write, the row.
\* The save of a role is never reached.
Writes(r) == r.stage = "commit" \/ (r.stage = "save" /\ r.id \notin Role)
Starts(p, r) ==
  /\ At(p, "idle")
  /\ env.overlap \/ \A q \in Slot : At(q, "idle")
  /\ slot' = [slot EXCEPT ![p] = r]
  /\ DOMAIN r = Fields /\ r.stage # "idle" /\ r.id \in Id
  /\ ~r.loaded.deleted
  /\ r.stage \in {"save", "commit"} => row[r.id] = r.loaded
  /\ r.stage = "commit" => r.base = r.loaded
  /\ Writes(r) => Sound(r.id, r.new)
  /\ UNCHANGED row

\* One ends without writing.
Ends(p) == End(p) /\ UNCHANGED row

\* One has read its row again.
Saves(p) == slot[p].id \notin Role /\ Save(p) /\ UNCHANGED row

\* One commits what is Written, or the row of a user.
Commits(p) ==
  \E r, stage :
    /\ stage \in {"idle", "set", "drop"} /\ Commit(p, r, stage)
    /\ IsRow(r) /\ (slot[p].id \in Person \/ r = Written(p))

Effect(p) == (\E r : Starts(p, r)) \/ Ends(p) \/ Saves(p) \/ Commits(p)

\* A request that loaded a row it will save.
LEMMA LoadStarts ==
  ASSUME NEW p \in Slot, NEW op, NEW x \in Id, NEW new, Load(p, op, x, new), UNCHANGED row,
         x \notin Role => Sound(x, new)
  PROVE  \E r : Starts(p, r)
<1> DEFINE r == [stage |-> "save", op |-> op, id |-> x, loaded |-> row[x],
                 base |-> row[x], new |-> new]
<1>1. Starts(p, r)
  BY DEF Load, Begin, GetById, Starts, Fields, Writes
<1> QED
  BY <1>1

LEMMA AddStarts ==
  ASSUME NEW p \in Slot, NEW op, NEW x \in Id, NEW new, Add(p, op, x, new), UNCHANGED row,
         Sound(x, new)
  PROVE  \E r : Starts(p, r)
<1> DEFINE r == [stage |-> "commit", op |-> op, id |-> x, loaded |-> NoRow,
                 base |-> NoRow, new |-> new]
<1>1. Starts(p, r)
  BY DEF Add, Begin, Starts, Fields, NoRow
<1> QED
  BY <1>1

LEMMA MarkStarts ==
  ASSUME NEW p \in Slot, NEW op, NEW x \in Id, Mark(p, op, x), UNCHANGED row,
         Sound(x, [row[x] EXCEPT !.deleted = TRUE])
  PROVE  \E r : Starts(p, r)
<1> DEFINE r == [stage |-> "commit", op |-> op, id |-> x, loaded |-> row[x],
                 base |-> row[x], new |-> [row[x] EXCEPT !.deleted = TRUE]]
<1>1. Starts(p, r)
  BY DEF Mark, Begin, GetById, Starts, Fields
<1> QED
  BY <1>1

LEMMA FetchedStarts ==
  ASSUME NEW p \in Slot, NEW op, NEW u \in Person, Fetched(p, op, u), UNCHANGED row
  PROVE  \E r : Starts(p, r)
<1> DEFINE r == [stage |-> "set", op |-> op, id |-> u, loaded |-> row[u],
                 base |-> row[u], new |-> row[u]]
<1>1. Starts(p, r)
  BY DEF Fetched, Begin, GetById, Starts, Fields, Id, Writes
<1> QED
  BY <1>1

-----------------------------------------------------------------------------
(* The inductive invariant.  When no requests overlap, the row a request   *)
(* loaded is still the same when it commits, and nothing was wrong with    *)
(* the rows when it checked them.                                          *)

Shape ==
  /\ DOMAIN slot = Slot /\ DOMAIN row = Id /\ row = [x \in Id |-> row[x]]
  /\ \A x \in Id : IsRow(row[x])
  /\ \A p \in Slot : ~At(p, "idle") => DOMAIN slot[p] = Fields /\ slot[p].id \in Id

LoadedLive == \A p \in Slot : ~At(p, "idle") => ~slot[p].loaded.deleted

OneAtATime == ~env.overlap => \A p, q \in Slot : At(p, "idle") \/ At(q, "idle") \/ p = q

Unmoved ==
  /\ ~env.overlap =>
       \A p \in Slot :
         /\ slot[p].stage \in {"save", "commit"} => row[slot[p].id] = slot[p].loaded
         /\ slot[p].stage = "commit" => slot[p].base = slot[p].loaded

FineWhenWritten ==
  /\ ~env.overlap => Fine(row)
  /\ \A p \in Slot : Writes(slot[p]) => Sound(slot[p].id, slot[p].new)

IInv == Shape /\ LoadedLive /\ OneAtATime /\ Unmoved /\ FineWhenWritten

-----------------------------------------------------------------------------
(* What the requests check is enough for what they write.                  *)

LEMMA OtherSound ==
  ASSUME IInv, NEW x \in Person \cup Tenant, NEW new, IsRow(new)
  PROVE  Sound(x, new)
<1> DEFINE rows == [row EXCEPT ![x] = new]
<1>1. \A y \in Dept \cup Role : rows[y] = row[y]
  BY DEF IInv, Shape, Id
<1>2. Fine(row) => Fine(rows)
  BY <1>1 DEF Fine, LiveIn
<1> QED
  BY <1>2 DEF Sound, IInv, FineWhenWritten

LEMMA CreateDepartmentSound ==
  ASSUME IInv, NEW p \in Slot, NEW d \in Dept, NEW t, NEW parent \in Live(Dept) \cup {Null},
         CreateDepartmentService(p, d, parent, t)
  PROVE  Sound(d, [deleted |-> FALSE, tenant |-> t, parent |-> parent,
                   ancestors |-> ChildPath(parent)])
<1> DEFINE new == [deleted |-> FALSE, tenant |-> t, parent |-> parent,
                   ancestors |-> ChildPath(parent)]
           rows == [row EXCEPT ![d] = new]
<1>1. rows[d] = new /\ \A y \in (Dept \cup Role) \ {d} : rows[y] = row[y]
  BY DEF IInv, Shape, Id
<1>2. ~LiveIn(row, d)
  BY DEF CreateDepartmentService, Add, LiveIn
<1>3. parent # Null => parent \in Dept /\ LiveIn(row, parent)
  BY DEF Live, GetById, LiveIn
<1>4. ASSUME Fine(row), NEW c \in Dept, LiveIn(rows, c), rows[c].parent # Null
      PROVE  rows[c].parent \in Dept /\ LiveIn(rows, rows[c].parent)
<2>1. CASE c = d
<3>1. rows[c].parent = parent /\ parent # Null
  BY <1>1, <1>4, <2>1
<3>2. parent \in Dept /\ LiveIn(row, parent) /\ parent # d
  BY <1>2, <1>3, <3>1
<3>3. rows[parent] = row[parent]
  BY <1>1, <3>2
<3> QED
  BY <3>1, <3>2, <3>3 DEF LiveIn
<2>2. CASE c # d
<3>1. row[c].parent \in Dept /\ LiveIn(row, row[c].parent) /\ rows[c] = row[c]
  BY <1>1, <1>4, <2>2 DEF Fine, LiveIn
<3> QED
  BY <1>1, <1>2, <3>1 DEF LiveIn
<2> QED
  BY <2>1, <2>2
<1>5. ASSUME Fine(row)
      PROVE  Fine(rows)
<2>1. \A r \in Role : rows[r] = row[r]
  BY <1>1
<2> HIDE DEF rows
<2> QED
  BY <1>4, <1>5, <2>1 DEF Fine, LiveIn
<1>6. IsRow(new)
  BY DEF IsRow
<1> QED
  BY <1>5, <1>6 DEF Sound, IInv, FineWhenWritten

LEMMA DeleteDepartmentSound ==
  ASSUME IInv, NEW p \in Slot, NEW d \in Dept, DeleteDepartmentService(p, d)
  PROVE  Sound(d, [row[d] EXCEPT !.deleted = TRUE])
<1> DEFINE new == [row[d] EXCEPT !.deleted = TRUE]
           rows == [row EXCEPT ![d] = new]
<1>1. rows[d] = new /\ \A y \in (Dept \cup Role) \ {d} : rows[y] = row[y]
  BY DEF IInv, Shape, Id
<1>2. ~LiveIn(rows, d) /\ IsRow(new)
<2>1. IsRow(row[d])
  BY DEF IInv, Shape, Id
<2>2. IsRow(new) /\ new.deleted
  BY <2>1 DEF IsRow
<2> QED
  BY <1>1, <2>2 DEF LiveIn
<1>3. \A c \in Dept : LiveIn(row, c) => row[c].parent # d
  BY DEF DeleteDepartmentService, GetChildren, Live, GetById, LiveIn
<1>4. ASSUME Fine(row)
      PROVE  Fine(rows)
<2> HIDE DEF rows, new
<2>1. ASSUME NEW c \in Dept, LiveIn(rows, c), rows[c].parent # Null
      PROVE  rows[c].parent \in Dept /\ LiveIn(rows, rows[c].parent)
<3>1. c # d /\ rows[c] = row[c] /\ LiveIn(row, c)
  BY <1>1, <1>2, <2>1 DEF LiveIn
<3>2. row[c].parent \in Dept \ {d} /\ LiveIn(row, row[c].parent)
  BY <1>3, <1>4, <2>1, <3>1 DEF Fine
<3> QED
  BY <1>1, <3>1, <3>2 DEF LiveIn
<2>2. \A r \in Role : rows[r] = row[r]
  BY <1>1
<2> QED
  BY <1>4, <2>1, <2>2 DEF Fine, LiveIn
<1> QED
  BY <1>2, <1>4 DEF Sound, IInv, FineWhenWritten

LEMMA CreateRoleSound ==
  ASSUME IInv, NEW p \in Slot, NEW r \in Role, NEW t, NEW k, NEW s, CreateRoleService(p, r, t, k, s)
  PROVE  Sound(r, [deleted |-> FALSE, tenant |-> t, key |-> k, scope |-> s])
<1> DEFINE new == [deleted |-> FALSE, tenant |-> t, key |-> k, scope |-> s]
           rows == [row EXCEPT ![r] = new]
<1>1. rows[r] = new /\ \A y \in (Dept \cup Role) \ {r} : rows[y] = row[y]
  BY DEF IInv, Shape, Id
<1>2. \A q \in Role : LiveIn(row, q) => ~(row[q].tenant = t /\ row[q].key = k)
  BY DEF CreateRoleService, GetRolesByTenantId, Live, GetById, LiveIn
<1>3. new.tenant = t /\ new.key = k /\ IsRow(new)
  BY DEF IsRow
<1>4. ASSUME Fine(row)
      PROVE  Fine(rows)
<2> HIDE DEF rows, new
<2>1. \A d \in Dept : rows[d] = row[d]
  BY <1>1
<2> QED
  BY <1>1, <1>2, <1>3, <1>4, <2>1 DEF Fine, LiveIn
<1> QED
  BY <1>3, <1>4 DEF Sound, IInv, FineWhenWritten

LEMMA DeleteRoleSound ==
  ASSUME IInv, NEW r \in Role
  PROVE  Sound(r, [row[r] EXCEPT !.deleted = TRUE])
<1> DEFINE new == [row[r] EXCEPT !.deleted = TRUE]
           rows == [row EXCEPT ![r] = new]
<1>1. rows[r] = new /\ \A y \in (Dept \cup Role) \ {r} : rows[y] = row[y]
  BY DEF IInv, Shape, Id
<1>2. IsRow(new) /\ new.deleted
<2>1. IsRow(row[r])
  BY DEF IInv, Shape, Id
<2> QED
  BY <2>1 DEF IsRow
<1>3. ASSUME Fine(row)
      PROVE  Fine(rows)
<2> HIDE DEF rows, new
<2>1. \A d \in Dept : rows[d] = row[d]
  BY <1>1
<2> QED
  BY <1>1, <1>2, <1>3, <2>1 DEF Fine, LiveIn
<1> QED
  BY <1>2, <1>3 DEF Sound, IInv, FineWhenWritten

\* A row as it is, and a user changed by the domain object.
LEMMA SameSound ==
  ASSUME IInv, NEW x \in Id
  PROVE  Sound(x, row[x])
<1>1. [row EXCEPT ![x] = row[x]] = row
  BY DEF IInv, Shape
<1> QED
  BY <1>1 DEF Sound, IInv, Shape, FineWhenWritten

LEMMA UserRows ==
  ASSUME IInv, NEW u \in Person
  PROVE  /\ \A s : IsRow(WithStatus(row[u], s))
         /\ \A x : IsRow(UpdateProfile(row[u], x))
         /\ \A x, s, d : IsRow([WithStatus(UpdateProfile(row[u], x), s) EXCEPT !.dept = d])
<1>1. IsRow(row[u])
  BY DEF IInv, Shape, Id
<1>2. \A f : IsRow(f) =>
        /\ \A s : IsRow(WithStatus(f, s))
        /\ \A x : IsRow(UpdateProfile(f, x))
        /\ \A d : IsRow([f EXCEPT !.dept = d])
  BY DEF WithStatus, UpdateProfile, IsRow
<1>3. \A x, s : IsRow(WithStatus(UpdateProfile(row[u], x), s))
  BY <1>1, <1>2
<1> QED
  BY <1>1, <1>2, <1>3

\* What is written is the copy, when no requests overlap.
LEMMA WrittenIsNew ==
  ASSUME IInv, NEW p \in Slot, At(p, "commit"), slot[p].id \notin Person
  PROVE  /\ IsRow(Written(p))
         /\ ~env.overlap => Written(p) = slot[p].new
<1> DEFINE c == slot[p]
<1>1. IsRow(c.new)
  BY DEF IInv, FineWhenWritten, Writes, At, Sound
<1>2. c.base # NoRow =>
        Written(p) = [f \in DOMAIN c.new |-> IF c.new[f] # c.base[f] THEN c.new[f] ELSE row[c.id][f]]
  BY DEF Written
<1>3. c.base = NoRow => Written(p) = c.new
  BY DEF Written
<1>4. ~env.overlap => c.base = row[c.id]
  BY DEF IInv, Unmoved, At
<1>5. IsRow(Written(p))
<2>1. CASE c.base = NoRow
  BY <1>1, <1>3, <2>1
<2>2. CASE c.base # NoRow
<3> DEFINE w == [f \in DOMAIN c.new |-> IF c.new[f] # c.base[f] THEN c.new[f] ELSE row[c.id][f]]
<3>1. Written(p) = w
  BY <1>2, <2>2
<3>2. IsRow(w)
  BY <1>1 DEF IsRow
<3> HIDE DEF w
<3> QED
  BY <3>1, <3>2
<2> QED
  BY <2>1, <2>2
<1>6. ASSUME ~env.overlap
      PROVE  Written(p) = c.new
<2>1. CASE c.base = NoRow
  BY <1>3, <2>1
<2>2. CASE c.base # NoRow
<3>1. \A f \in DOMAIN c.new :
        (IF c.new[f] # c.base[f] THEN c.new[f] ELSE row[c.id][f]) = c.new[f]
  BY <1>4, <1>6
<3>2. Written(p) = [f \in DOMAIN c.new |-> c.new[f]]
  BY <1>2, <2>2, <3>1
<3> QED
  BY <1>1, <3>2 DEF IsRow
<2> QED
  BY <2>1, <2>2
<1> QED
  BY <1>5, <1>6

-----------------------------------------------------------------------------
(* Every step of a request has one of these effects.                       *)

LEMMA UserEffect ==
  ASSUME IInv, NEW p \in Slot, UserNext(p)
  PROVE  Effect(p)
<1>0. \A u \in Person : \A new : u \in Id /\ (IsRow(new) => Sound(u, new))
  BY OtherSound DEF Id
<1>1. CASE CreateUser(p)
<2> PICK u \in Person, x \in Username \cup {Null}, d \in Dept \cup {Null} : CreateUserService(p, u, x, d)
  BY <1>1 DEF CreateUser
<2>1. IsRow(CreateDomain(x, "active", d))
  BY DEF CreateDomain, IsRow
<2> QED
  BY <1>0, <1>1, <2>1, AddStarts DEF CreateUser, CreateUserService, Effect
<1>2. CASE CreateRegistrationProfile(p)
<2> PICK u \in Person, x \in Username \cup {Null} : CreateRegistrationProfileService(p, u, x)
  BY <1>2 DEF CreateRegistrationProfile
<2>1. IsRow(CreateDomain(x, "pending", Null))
  BY DEF CreateDomain, IsRow
<2> QED
  BY <1>0, <1>2, <2>1, AddStarts DEF CreateRegistrationProfile, CreateRegistrationProfileService, Effect
<1>3. CASE UpdateUser(p)
  BY <1>0, <1>3, LoadStarts, UserRows DEF UpdateUser, UpdateUserProfileService, Effect
<1>4. CASE ActivateUser(p)
  BY <1>0, <1>4, LoadStarts, UserRows DEF ActivateUser, ActivateUserService, Enable, Effect
<1>5. CASE EnableUser(p)
  BY <1>0, <1>5, LoadStarts, UserRows DEF EnableUser, ChangeStatus, Effect
<1>6. CASE DisableUser(p)
  BY <1>0, <1>6, LoadStarts, UserRows DEF DisableUser, ChangeStatus, Effect
<1>7. CASE DeleteUser(p)
  BY <1>0, <1>7, LoadStarts, UserRows DEF DeleteUser, DeleteUserService, Delete, Effect
<1>8. CASE UpdateUserAdmin(p)
  BY <1>0, <1>8, LoadStarts, UserRows DEF UpdateUserAdmin, UpdateUserAdminService, Effect
<1>9. CASE GetUser(p)
  BY <1>9, FetchedStarts DEF GetUser, GetUserService, Effect
<1>10. CASE GetUserByEmail(p)
  BY <1>10, FetchedStarts DEF GetUserByEmail, GetUserByEmailService, Effect
<1>11. CASE SaveUser(p)
  BY <1>11 DEF SaveUser, Effect, Ends, Saves
<1>12. CASE CommitUser(p)
<2> DEFINE r == WithStatus(Written(p), Written(p).status)
<2>1. CASE Taken(slot[p].id, r.username)
  BY <1>12, <2>1 DEF CommitUser, Effect, Ends
<2>2. CASE ~Taken(slot[p].id, r.username)
<3>1. IsRow(slot[p].new)
  BY <1>12 DEF IInv, FineWhenWritten, Writes, At, Sound, CommitUser
<3>2. IsRow(Written(p))
  BY <3>1 DEF Written, IsRow
<3>3. IsRow(r)
  BY <3>2 DEF WithStatus, IsRow
<3>4. \E stage \in {"set", "drop"} : Commit(p, r, stage)
  BY <1>12, <2>2 DEF CommitUser
<3> HIDE DEF r
<3> QED
  BY <1>12, <3>3, <3>4 DEF CommitUser, Effect, Commits
<2> QED
  BY <2>1, <2>2
<1>13. CASE SetCache(p)
  BY <1>13 DEF SetCache, Effect, Ends
<1>14. CASE DeleteCache(p)
  BY <1>14 DEF DeleteCache, Effect, Ends
<1> QED
  BY <1>1, <1>2, <1>3, <1>4, <1>5, <1>6, <1>7, <1>8, <1>9, <1>10, <1>11, <1>12, <1>13, <1>14
     DEF UserNext

LEMMA DirectoryEffect ==
  ASSUME IInv, NEW p \in Slot, DirectoryNext(p)
  PROVE  Effect(p)
<1>1. CASE CreateDepartment(p)
<2> PICK d \in Dept, parent \in Live(Dept) \cup {Null}, t \in Tenant :
           CreateDepartmentService(p, d, parent, t)
  BY <1>1 DEF CreateDepartment
<2>1. Sound(d, [deleted |-> FALSE, tenant |-> t, parent |-> parent, ancestors |-> ChildPath(parent)])
  BY CreateDepartmentSound
<2> QED
  BY <1>1, <2>1, AddStarts DEF CreateDepartment, CreateDepartmentService, Effect, Id
<1>2. CASE UpdateDepartment(p)
  BY <1>2, LoadStarts, SameSound DEF UpdateDepartment, UpdateDepartmentService, Effect, Id
<1>3. CASE DeleteDepartment(p)
  BY <1>3, MarkStarts, DeleteDepartmentSound DEF DeleteDepartment, DeleteDepartmentService, Effect, Id
<1>4. CASE CreateRole(p)
<2> PICK r \in Role, t \in Tenant, k \in RoleKey, s \in DataScope : CreateRoleService(p, r, t, k, s)
  BY <1>4 DEF CreateRole
<2>1. Sound(r, [deleted |-> FALSE, tenant |-> t, key |-> k, scope |-> s])
  BY CreateRoleSound
<2> QED
  BY <1>4, <2>1, AddStarts DEF CreateRole, CreateRoleService, Effect, Id
<1>5. CASE UpdateRole(p)
  BY <1>5, LoadStarts DEF UpdateRole, UpdateRoleService, Effect, Id
<1>6. CASE DeleteRole(p)
  BY <1>6, MarkStarts, DeleteRoleSound DEF DeleteRole, DeleteRoleService, Effect, Id
<1>7. CASE CreateTenant(p)
<2> PICK t \in Tenant : CreateTenantService(p, t)
  BY <1>7 DEF CreateTenant
<2> DEFINE r == [stage |-> "flush", op |-> "create_tenant", id |-> t, loaded |-> NoRow,
                 base |-> NoRow, new |-> [deleted |-> FALSE, status |-> "active"]]
<2>1. Starts(p, r)
  BY <1>7 DEF CreateTenant, CreateTenantService, Begin, Starts, Fields, NoRow, Id, Writes
<2> QED
  BY <2>1 DEF Effect
<1>8. CASE UpdateTenant(p)
<2> PICK t \in Tenant, s \in Status : UpdateTenantService(p, t, s)
  BY <1>8 DEF UpdateTenant
<2>1. IsRow([row[t] EXCEPT !.status = s])
  BY DEF IInv, Shape, IsRow, Id
<2> QED
  BY <1>8, <2>1, LoadStarts, OtherSound DEF UpdateTenant, UpdateTenantService, Effect, Id
<1>9. CASE DeleteTenant(p)
<2> PICK t \in Tenant : DeleteTenantService(p, t)
  BY <1>9 DEF DeleteTenant
<2> DEFINE r == [stage |-> "commit", op |-> "delete_tenant", id |-> t, loaded |-> row[t],
                 base |-> row[t], new |-> [deleted |-> TRUE, status |-> "deleted"]]
<2>1. IsRow([deleted |-> TRUE, status |-> "deleted"])
  BY DEF IsRow
<2>2. Sound(t, [deleted |-> TRUE, status |-> "deleted"])
  BY <2>1, OtherSound
<2>3. Starts(p, r)
  BY <1>9, <2>2 DEF DeleteTenant, DeleteTenantService, Begin, GetById, Starts, Fields, Id
<2> QED
  BY <2>3 DEF Effect
<1>10. CASE Fails(p)
  BY <1>10 DEF Fails, Effect, Ends
<1>11. CASE SaveRow(p)
  BY <1>11 DEF SaveRow, Effect, Saves
<1>12. CASE CommitRow(p)
  BY <1>12, WrittenIsNew DEF CommitRow, Effect, Commits
<1>13. CASE Dies(p)
  BY <1>13 DEF Dies, Effect, Ends
<1> QED
  BY <1>1, <1>2, <1>3, <1>4, <1>5, <1>6, <1>7, <1>8, <1>9, <1>10, <1>11, <1>12, <1>13
     DEF DirectoryNext

\* A step is a request's, or changes no row and no request.
LEMMA NextEffect ==
  ASSUME IInv, [Next]_vars
  PROVE  /\ env' = env
         /\ (\E p \in Slot : Effect(p)) \/ UNCHANGED <<row, slot>>
<1>1. CASE \E p \in Slot : UserNext(p) \/ DirectoryNext(p)
<2> PICK p \in Slot : UserNext(p) \/ DirectoryNext(p)
  BY <1>1
<2>1. Effect(p)
  BY UserEffect, DirectoryEffect
<2>2. env' = env
  BY DEF UserNext, CreateUser, CreateRegistrationProfile, UpdateUser, ActivateUser, EnableUser,
         DisableUser, DeleteUser, UpdateUserAdmin, SaveUser, CommitUser, GetUser,
         GetUserByEmail, SetCache, DeleteCache, DirectoryNext, CreateDepartment,
         UpdateDepartment, DeleteDepartment, CreateRole, UpdateRole, DeleteRole,
         CreateTenant, UpdateTenant, DeleteTenant, Fails, SaveRow, CommitRow, Dies
<2> QED
  BY <2>1, <2>2
<1>2. CASE \E u \in Person : Expire(u)
  BY <1>2 DEF Expire
<1>3. CASE UNCHANGED vars
  BY <1>3 DEF vars
<1> QED
  BY <1>1, <1>2, <1>3 DEF Next

-----------------------------------------------------------------------------
(* Every step keeps the invariant.                                         *)

LEMMA InitIInv == Init => IInv
<1> SUFFICES ASSUME Init
             PROVE  IInv
  OBVIOUS
<1>1. \A p \in Slot : slot[p].stage = "idle"
  BY DEF Init, Idle
<1>2. \A x \in Dept \cup Role : row[x] = NoRow
<2> DEFINE u == CHOOSE v \in Person : TRUE
<2>1. u \in Person
  BY DirectoryAssumption
<2> HIDE DEF u
<2>2. \A x \in Id : row[x] = IF x \in Tenant THEN [deleted |-> FALSE, status |-> "active"]
                            ELSE IF x = u THEN CreateDomain(Null, "active", Null) ELSE NoRow
  BY DEF Init, u
<2> QED
  BY <2>1, <2>2 DEF Id
<1>3. Fine(row)
  BY <1>2 DEF Fine, LiveIn
<1>4. \A x \in Id : IsRow(row[x])
<2> SUFFICES ASSUME NEW x \in Id
             PROVE  IsRow(row[x])
  OBVIOUS
<2> DEFINE u == CHOOSE v \in Person : TRUE
<2>1. CASE x \in Tenant
<3>1. row[x] = [deleted |-> FALSE, status |-> "active"]
  BY <2>1 DEF Init
<3> QED
  BY <3>1 DEF IsRow
<2>2. CASE x \notin Tenant /\ x = u
<3>1. row[x] = CreateDomain(Null, "active", Null)
  BY <2>2 DEF Init
<3> QED
  BY <3>1 DEF IsRow, CreateDomain
<2>3. CASE x \notin Tenant /\ x # u
<3>1. row[x] = NoRow
  BY <2>3 DEF Init
<3> QED
  BY <3>1 DEF IsRow, NoRow
<2> QED
  BY <2>1, <2>2, <2>3
<1>5. Shape
  BY <1>1, <1>4 DEF Init, Shape, At
<1> QED
  BY <1>1, <1>3, <1>5 DEF IInv, LoadedLive, OneAtATime, Unmoved, FineWhenWritten, Writes, At

\* The parts that read the requests only through those that are not idle or
\* about to write.
LEMMA SameRows ==
  ASSUME IInv, env' = env, row' = row, NEW p \in Slot,
         \A q \in Slot \ {p} : slot'[q] = slot[q],
         Writes(slot'[p]) => Sound(slot'[p].id, slot'[p].new)
  PROVE  FineWhenWritten'
<1>1. ~env'.overlap => Fine(row')
  BY DEF IInv, FineWhenWritten
<1>2. ASSUME NEW q \in Slot, Writes(slot'[q])
      PROVE  Sound(slot'[q].id, slot'[q].new)
<2>1. CASE q = p
  BY <1>2, <2>1
<2>2. CASE q # p
  BY <1>2, <2>2 DEF IInv, FineWhenWritten
<2> QED
  BY <2>1, <2>2
<1>3. \A x, new : Sound(x, new) => Sound(x, new)'
  BY DEF Sound
<1> QED
  BY <1>1, <1>2, <1>3 DEF FineWhenWritten, Writes

LEMMA StartsStep ==
  ASSUME IInv, env' = env, NEW p \in Slot, NEW r, Starts(p, r)
  PROVE  IInv'
<1>1. /\ slot'[p] = r /\ \A q \in Slot \ {p} : slot'[q] = slot[q]
      /\ DOMAIN slot' = Slot /\ row' = row
  BY DEF Starts, IInv, Shape
<1>2. Shape'
  BY <1>1 DEF IInv, Shape, Starts, At
<1>3. LoadedLive'
  BY <1>1 DEF IInv, LoadedLive, Starts, At
<1>4. OneAtATime'
  BY <1>1 DEF IInv, OneAtATime, Starts, At
<1>5. Unmoved'
  BY <1>1 DEF IInv, Unmoved, Starts, At
<1>6. FineWhenWritten'
  BY <1>1, SameRows DEF Starts
<1> QED
  BY <1>2, <1>3, <1>4, <1>5, <1>6 DEF IInv

LEMMA EndsStep ==
  ASSUME IInv, env' = env, NEW p \in Slot, Ends(p)
  PROVE  IInv'
<1>1. /\ slot'[p] = Idle /\ Idle.stage = "idle" /\ \A q \in Slot \ {p} : slot'[q] = slot[q]
      /\ DOMAIN slot' = Slot /\ row' = row
  BY DEF Ends, End, Idle, IInv, Shape
<1>2. FineWhenWritten'
  BY <1>1, SameRows DEF Writes
<1> QED
  BY <1>1, <1>2 DEF IInv, Shape, LoadedLive, OneAtATime, Unmoved, At

LEMMA SavesStep ==
  ASSUME IInv, env' = env, NEW p \in Slot, Saves(p)
  PROVE  IInv'
<1> PICK base \in {slot[p].loaded, row[slot[p].id]} :
           slot' = [slot EXCEPT ![p].stage = "commit", ![p].base = base]
  BY DEF Saves, Save
<1>0. At(p, "save") /\ slot[p].id \notin Role /\ DOMAIN slot[p] = Fields /\ row' = row
  BY DEF Saves, Save, At, IInv, Shape
<1>1. /\ slot'[p].stage = "commit" /\ slot'[p].id = slot[p].id /\ slot'[p].new = slot[p].new
      /\ slot'[p].loaded = slot[p].loaded /\ slot'[p].base = base /\ DOMAIN slot'[p] = Fields
      /\ \A q \in Slot \ {p} : slot'[q] = slot[q]
      /\ DOMAIN slot' = Slot
  BY <1>0 DEF IInv, Shape, Fields
<1>2. FineWhenWritten'
<2>1. Sound(slot[p].id, slot[p].new)
  BY <1>0 DEF IInv, FineWhenWritten, Writes, At
<2> QED
  BY <1>0, <1>1, <2>1, SameRows
<1>3. Unmoved'
  BY <1>0, <1>1 DEF IInv, Unmoved, At
<1>4. Shape'
  BY <1>0, <1>1 DEF IInv, Shape, At
<1>5. LoadedLive' /\ OneAtATime'
  BY <1>0, <1>1 DEF IInv, LoadedLive, OneAtATime, At
<1> QED
  BY <1>2, <1>3, <1>4, <1>5 DEF IInv

LEMMA CommitsStep ==
  ASSUME IInv, env' = env, NEW p \in Slot, Commits(p)
  PROVE  IInv'
<1> PICK r, stage : /\ stage \in {"idle", "set", "drop"} /\ Commit(p, r, stage)
                    /\ IsRow(r) /\ (slot[p].id \in Person \/ r = Written(p))
  BY DEF Commits
<1>0. At(p, "commit") /\ DOMAIN slot[p] = Fields /\ slot[p].id \in Id
  BY DEF Commit, At, IInv, Shape
<1>1. /\ slot'[p].stage = stage /\ \A q \in Slot \ {p} : slot'[q] = slot[q]
      /\ stage # "idle" => /\ slot'[p].id = slot[p].id /\ slot'[p].loaded = slot[p].loaded
                           /\ DOMAIN slot'[p] = Fields
      /\ DOMAIN slot' = Slot
<2>1. CASE stage = "idle"
  BY <2>1 DEF Commit, IInv, Shape, Idle
<2>2. CASE stage # "idle"
<3>1. slot' = [slot EXCEPT ![p] = [slot[p] EXCEPT !.stage = stage]]
  BY <2>2 DEF Commit
<3> QED
  BY <3>1, <1>0, <2>2 DEF Commit, IInv, Shape, Fields
<2> QED
  BY <2>1, <2>2
<1>a. row' = [row EXCEPT ![slot[p].id] = r]
  BY DEF Commit
<1>b. \A x \in Id : row'[x] = IF x = slot[p].id THEN r ELSE row[x]
  BY <1>0, <1>a DEF IInv, Shape
<1>c. ~env.overlap => \A q \in Slot \ {p} : slot[q].stage = "idle"
  BY <1>0 DEF IInv, OneAtATime, At
<1>2. Shape'
<2>1. DOMAIN row' = Id /\ row' = [x \in Id |-> row'[x]]
  BY <1>a DEF IInv, Shape
<2>2. \A x \in Id : IsRow(row'[x])
  BY <1>b DEF IInv, Shape
<2>3. \A q \in Slot : slot'[q].stage # "idle" => DOMAIN slot'[q] = Fields /\ slot'[q].id \in Id
  BY <1>0, <1>1 DEF IInv, Shape, At
<2> QED
  BY <1>1, <2>1, <2>2, <2>3 DEF Shape, IsRow, At
<1>3. LoadedLive'
  BY <1>0, <1>1 DEF IInv, LoadedLive, At
<1>4. OneAtATime'
  BY <1>0, <1>1 DEF IInv, OneAtATime, At
<1>5. Unmoved'
  BY <1>0, <1>1, <1>c DEF Unmoved
<1>6. FineWhenWritten'
<2>1. ASSUME ~env.overlap
      PROVE  Fine(row')
<3>1. CASE slot[p].id \in Person
<4>1. Sound(slot[p].id, r)
  BY <3>1, OtherSound
<4> QED
  BY <2>1, <4>1, <1>a DEF Sound
<3>2. CASE slot[p].id \notin Person
<4>1. r = slot[p].new
  BY <1>0, <2>1, <3>2, WrittenIsNew
<4>2. Sound(slot[p].id, r)
  BY <1>0, <4>1 DEF IInv, FineWhenWritten, Writes, At
<4> QED
  BY <2>1, <4>2, <1>a DEF Sound
<3> QED
  BY <3>1, <3>2
<2>2. ASSUME NEW q \in Slot, Writes(slot'[q])
      PROVE  env.overlap /\ IsRow(slot'[q].new)
<3>1. q # p
  BY <1>1, <2>2 DEF Writes
<3>2. slot'[q] = slot[q]
  BY <1>1, <3>1
<3>3. Writes(slot[q])
  BY <2>2, <3>2
<3>4. env.overlap
  BY <1>c, <3>1, <3>3 DEF Writes
<3> QED
  BY <3>2, <3>3, <3>4 DEF IInv, FineWhenWritten, Sound
<2>3. Fine(row') <=> Fine(row)'
  BY DEF Fine, LiveIn
<2> QED
  BY <2>1, <2>2, <2>3 DEF FineWhenWritten, Sound, Writes, IsRow
<1> QED
  BY <1>2, <1>3, <1>4, <1>5, <1>6 DEF IInv

LEMMA IInvStep == IInv /\ [Next]_vars => IInv'
<1> SUFFICES ASSUME IInv, [Next]_vars
             PROVE  IInv'
  OBVIOUS
<1>1. CASE \E p \in Slot : Effect(p)
  BY <1>1, NextEffect, StartsStep, EndsStep, SavesStep, CommitsStep DEF Effect
<1>2. CASE UNCHANGED <<row, slot>>
<2>0. env' = env
  BY NextEffect
<2>1. row' = row /\ slot' = slot
  BY <1>2
<2>2. Shape' /\ LoadedLive' /\ OneAtATime' /\ Unmoved'
  BY <2>0, <2>1 DEF IInv, Shape, LoadedLive, OneAtATime, Unmoved, IsRow, At
<2>3. FineWhenWritten'
  BY <2>0, <2>1 DEF IInv, FineWhenWritten, Sound, Fine, LiveIn, Writes
<2> QED
  BY <2>2, <2>3 DEF IInv
<1> QED
  BY <1>1, <1>2, NextEffect

-----------------------------------------------------------------------------
(* The types, with what the requests rely on: a row is never removed, a    *)
(* user who is marked as deleted has that status, only users are cached.   *)

Agrees(user) == user.deleted <=> user.status = "deleted"

Typed(r) ==
  /\ DOMAIN r = Fields /\ r.stage \in {"save", "commit", "flush", "set", "drop"}
  /\ r.op \in env.calls /\ r.id \in Id
  /\ r.new \in RowOf(r.id) /\ r.loaded \in RowOf(r.id) \cup {NoRow} /\ r.base \in RowOf(r.id) \cup {NoRow}
  /\ r.stage \in {"set", "drop"} => r.id \in Person
  /\ (r.stage = "save" \/ r.loaded # NoRow \/ r.base # NoRow) => row[r.id] # NoRow
  /\ r.stage = "save" => r.loaded # NoRow
  /\ r.id \in Person => Agrees(r.new) /\ ((r.stage = "commit" /\ r.base = NoRow) => ~r.new.deleted)

Rows ==
  /\ DOMAIN row = Id /\ DOMAIN slot = Slot /\ env \in Environment
  /\ \A x \in Id : row[x] = NoRow \/ row[x] \in RowOf(x)
  /\ \A u \in Person : row[u] = NoRow \/ Agrees(row[u])
Requests == \A p \in Slot : slot[p] = Idle \/ Typed(slot[p])
Copies == DOMAIN copy = Person /\ \A u \in Person : copy[u] = NoRow \/ copy[u] \in User

TInv == Rows /\ Requests /\ Copies

LEMMA RowTypes ==
  /\ \A x \in Person : x \in Id /\ RowOf(x) = User
  /\ \A x \in Dept : x \in Id /\ RowOf(x) = Department
  /\ \A x \in Role : x \in Id /\ RowOf(x) = RoleRow
  /\ \A x \in Tenant : x \in Id /\ RowOf(x) = TenantRow
  /\ \A x \in Id : NoRow \notin RowOf(x)
<1>1. \A x \in Person : x \in Id /\ RowOf(x) = User
  BY DEF RowOf, Id
<1>2. \A x \in Dept : x \in Id /\ RowOf(x) = Department
  BY DEF RowOf, Id
<1>3. \A x \in Role : x \in Id /\ RowOf(x) = RoleRow
  BY DEF RowOf, Id
<1>4. \A x \in Tenant : x \in Id /\ RowOf(x) = TenantRow
  BY DEF RowOf, Id
<1>5. ASSUME NEW x \in Id
      PROVE  NoRow \notin RowOf(x)
<2>1. "status" \notin DOMAIN NoRow /\ "tenant" \notin DOMAIN NoRow
  BY DEF NoRow
<2>2. \A r \in User \cup TenantRow : "status" \in DOMAIN r
  BY DEF User, TenantRow
<2>3. \A r \in Department \cup RoleRow : "tenant" \in DOMAIN r
  BY DEF Department, RoleRow
<2> QED
  BY <1>1, <1>2, <1>3, <1>4, <2>1, <2>2, <2>3 DEF Id
<1> QED
  BY <1>1, <1>2, <1>3, <1>4, <1>5

\* What a commit writes is a row again.
LEMMA MixedRow ==
  ASSUME NEW x \in Id, NEW a \in RowOf(x), NEW b \in RowOf(x), NEW S
  PROVE  [f \in DOMAIN a |-> IF f \in S THEN a[f] ELSE b[f]] \in RowOf(x)
<1> DEFINE m == [f \in DOMAIN a |-> IF f \in S THEN a[f] ELSE b[f]]
<1>1. CASE x \in Person
<2>1. a \in User /\ b \in User /\ RowOf(x) = User
  BY <1>1, RowTypes
<2> QED
  BY <2>1 DEF User
<1>2. CASE x \in Dept
<2>1. a \in Department /\ b \in Department /\ RowOf(x) = Department
  BY <1>2, RowTypes
<2> QED
  BY <2>1 DEF Department
<1>3. CASE x \in Role
<2>1. a \in RoleRow /\ b \in RoleRow /\ RowOf(x) = RoleRow
  BY <1>3, RowTypes
<2> QED
  BY <2>1 DEF RoleRow
<1>4. CASE x \in Tenant
<2>1. a \in TenantRow /\ b \in TenantRow /\ RowOf(x) = TenantRow
  BY <1>4, RowTypes
<2> QED
  BY <2>1 DEF TenantRow
<1> QED
  BY <1>1, <1>2, <1>3, <1>4 DEF Id

LEMMA WrittenType ==
  ASSUME TInv, NEW p \in Slot, At(p, "commit")
  PROVE  Written(p) \in RowOf(slot[p].id)
<1> DEFINE c == slot[p]
<1>1. Typed(c)
  BY DEF TInv, Requests, At, Idle
<1>2. CASE c.base = NoRow
  BY <1>1, <1>2 DEF Written, Typed
<1>3. CASE c.base # NoRow
<2>1. row[c.id] \in RowOf(c.id)
  BY <1>1, <1>3 DEF TInv, Rows, Typed
<2> DEFINE S == {f \in DOMAIN c.new : c.new[f] # c.base[f]}
           m == [f \in DOMAIN c.new |-> IF f \in S THEN c.new[f] ELSE row[c.id][f]]
<2>2. c.id \in Id /\ c.new \in RowOf(c.id)
  BY <1>1 DEF Typed
<2>3. m \in RowOf(c.id)
<3> HIDE DEF S, c
<3> QED
  BY <2>1, <2>2, MixedRow
<2>4. Written(p) = m
  BY <1>3 DEF Written
<2> QED
  BY <2>3, <2>4
<1> QED
  BY <1>2, <1>3

-----------------------------------------------------------------------------
(* What the steps do to requests of these types.                           *)

Begins(p) ==
  /\ At(p, "idle") /\ (env.overlap \/ \A q \in Slot : At(q, "idle"))
  /\ UNCHANGED <<env, row, copy>>
  /\ \E r : /\ slot' = [slot EXCEPT ![p] = r] /\ Typed(r) /\ r.stage # "drop"
            /\ r.stage = "set" => GetById(r.id) /\ r.new = row[r.id]
Stops(p) == End(p) /\ UNCHANGED <<env, row, copy>> /\ (At(p, "drop") => env.faults)
Rereads(p) == Save(p) /\ UNCHANGED <<env, row, copy>>

LEMMA LoadBegins ==
  ASSUME TInv, NEW p \in Slot, NEW op, NEW x \in Id, NEW new \in RowOf(x),
         x \in Person => Agrees(new), Load(p, op, x, new), UNCHANGED <<env, row, copy>>
  PROVE  Begins(p)
<1> DEFINE r == [stage |-> "save", op |-> op, id |-> x, loaded |-> row[x],
                 base |-> row[x], new |-> new]
<1>1. row[x] # NoRow /\ row[x] \in RowOf(x) /\ op \in env.calls
  BY DEF Load, Begin, GetById, TInv, Rows
<1>2. Typed(r)
  BY <1>1 DEF Typed, Fields
<1>3. slot' = [slot EXCEPT ![p] = r] /\ r.stage = "save"
  BY DEF Load
<1> HIDE DEF r
<1> QED
  BY <1>2, <1>3 DEF Begins, Load, Begin

LEMMA AddBegins ==
  ASSUME TInv, NEW p \in Slot, NEW op, NEW x \in Id, NEW new \in RowOf(x),
         x \in Person => Agrees(new) /\ ~new.deleted, Add(p, op, x, new),
         UNCHANGED <<env, row, copy>>
  PROVE  Begins(p)
<1> DEFINE r == [stage |-> "commit", op |-> op, id |-> x, loaded |-> NoRow,
                 base |-> NoRow, new |-> new]
<1>1. Typed(r)
  BY DEF Typed, Fields, Add, Begin
<1>2. slot' = [slot EXCEPT ![p] = r] /\ r.stage = "commit"
  BY DEF Add
<1> HIDE DEF r
<1> QED
  BY <1>1, <1>2 DEF Begins, Add, Begin

LEMMA MarkBegins ==
  ASSUME TInv, NEW p \in Slot, NEW op, NEW x \in Dept \cup Role, Mark(p, op, x),
         UNCHANGED <<env, row, copy>>
  PROVE  Begins(p)
<1> DEFINE new == [row[x] EXCEPT !.deleted = TRUE]
           r == [stage |-> "commit", op |-> op, id |-> x, loaded |-> row[x],
                 base |-> row[x], new |-> new]
<1>1. row[x] # NoRow /\ row[x] \in RowOf(x) /\ op \in env.calls /\ x \in Id /\ x \notin Person
  BY DEF Mark, Begin, GetById, TInv, Rows, Id
<1>2. new \in RowOf(x)
<2>1. CASE x \in Dept
<3>1. RowOf(x) = Department /\ row[x] \in Department
  BY <1>1, <2>1, RowTypes
<3> QED
  BY <3>1 DEF Department
<2>2. CASE x \in Role
<3>1. RowOf(x) = RoleRow /\ row[x] \in RoleRow
  BY <1>1, <2>2, RowTypes
<3> QED
  BY <3>1 DEF RoleRow
<2> QED
  BY <2>1, <2>2
<1> HIDE DEF new
<1>3. Typed(r)
  BY <1>1, <1>2 DEF Typed, Fields
<1>4. slot' = [slot EXCEPT ![p] = r] /\ r.stage = "commit"
  BY DEF Mark, new
<1> HIDE DEF r
<1> QED
  BY <1>3, <1>4 DEF Begins, Mark, Begin

LEMMA FetchedBegins ==
  ASSUME TInv, NEW p \in Slot, NEW op, NEW u \in Person, Fetched(p, op, u),
         UNCHANGED <<env, row, copy>>
  PROVE  Begins(p)
<1> DEFINE r == [stage |-> "set", op |-> op, id |-> u, loaded |-> row[u],
                 base |-> row[u], new |-> row[u]]
<1>1. row[u] # NoRow /\ row[u] \in RowOf(u) /\ op \in env.calls /\ u \in Id /\ Agrees(row[u])
  BY DEF Fetched, Begin, GetById, TInv, Rows, Id
<1>2. Typed(r)
  BY <1>1 DEF Typed, Fields
<1>3. /\ slot' = [slot EXCEPT ![p] = r] /\ r.stage = "set" /\ GetById(r.id)
      /\ r.new = row[r.id]
  BY DEF Fetched
<1> HIDE DEF r
<1> QED
  BY <1>2, <1>3 DEF Begins, Fetched, Begin

\* The domain object keeps the types.
LEMMA DomainTypes ==
  /\ \A x \in Username \cup {Null}, d \in Dept \cup {Null}, s \in {"active", "pending"} :
       LET new == CreateDomain(x, s, d) IN new \in User /\ Agrees(new) /\ ~new.deleted
  /\ \A user \in User, s \in Status :
       WithStatus(user, s) \in User /\ Agrees(WithStatus(user, s))
  /\ \A user \in User : Agrees(user) =>
       /\ \A x \in Username \cup {Null} :
            UpdateProfile(user, x) \in User /\ Agrees(UpdateProfile(user, x))
       /\ \A d \in Dept : [user EXCEPT !.dept = d] \in User /\ Agrees([user EXCEPT !.dept = d])
<1>1. \A x \in Username \cup {Null}, d \in Dept \cup {Null}, s \in {"active", "pending"} :
       LET new == CreateDomain(x, s, d) IN new \in User /\ Agrees(new) /\ ~new.deleted
  BY DEF CreateDomain, User, Agrees, Status
<1>2. ASSUME NEW user \in User, NEW s \in Status
      PROVE  WithStatus(user, s) \in User /\ Agrees(WithStatus(user, s))
  BY DEF WithStatus, User, Agrees
<1>3. ASSUME NEW user \in User, Agrees(user), NEW x \in Username \cup {Null}
      PROVE  UpdateProfile(user, x) \in User /\ Agrees(UpdateProfile(user, x))
  BY <1>3 DEF UpdateProfile, User, Agrees
<1>4. ASSUME NEW user \in User, Agrees(user), NEW d \in Dept
      PROVE  [user EXCEPT !.dept = d] \in User /\ Agrees([user EXCEPT !.dept = d])
  BY <1>4 DEF User, Agrees
<1> QED
  BY <1>1, <1>2, <1>3, <1>4

LEMMA UserSteps ==
  ASSUME TInv, NEW p \in Slot, UserNext(p)
  PROVE  \/ Begins(p) \/ Stops(p) \/ Rereads(p)
         \/ CommitUser(p) \/ SetCache(p) \/ DeleteCache(p)
<1>0. \A u \in Person : u \in Id /\ RowOf(u) = User /\ (row[u] # NoRow => row[u] \in User /\ Agrees(row[u]))
  BY RowTypes DEF TInv, Rows
<1>1. ASSUME NEW u \in Person, NEW op, NEW new \in User, Agrees(new), Load(p, op, u, new),
             UNCHANGED <<env, row, copy>>
      PROVE  Begins(p)
  BY <1>0, <1>1, LoadBegins
<1>2. ASSUME NEW u \in Person, NEW op, NEW new \in User, Agrees(new), ~new.deleted,
             Add(p, op, u, new), UNCHANGED <<env, row, copy>>
      PROVE  Begins(p)
  BY <1>0, <1>2, AddBegins
<1>3. \A op, u, new : Load(p, op, u, new) => row[u] # NoRow
  BY DEF Load, GetById
<1>s. {"active", "disabled", "deleted"} \subseteq Status
  BY DEF Status
<1>4. CASE CreateUser(p)
<2> PICK u \in Person, x \in Username \cup {Null}, d \in Dept \cup {Null} : CreateUserService(p, u, x, d)
  BY <1>4 DEF CreateUser
<2>1. Add(p, "create_user", u, CreateDomain(x, "active", d)) /\ UNCHANGED <<env, row, copy>>
  BY <1>4 DEF CreateUserService, CreateUser
<2> QED
  BY <1>2, <2>1, DomainTypes
<1>5. CASE CreateRegistrationProfile(p)
<2> PICK u \in Person, x \in Username \cup {Null} : CreateRegistrationProfileService(p, u, x)
  BY <1>5 DEF CreateRegistrationProfile
<2>1. /\ Add(p, "create_registration_profile", u, CreateDomain(x, "pending", Null))
      /\ UNCHANGED <<env, row, copy>>
  BY <1>5 DEF CreateRegistrationProfileService, CreateRegistrationProfile
<2> QED
  BY <1>2, <2>1, DomainTypes
<1>6. CASE UpdateUser(p)
<2> PICK u \in Person, x \in Username \cup {Null} : UpdateUserProfileService(p, u, x)
  BY <1>6 DEF UpdateUser
<2> QED
  BY <1>0, <1>1, <1>3, <1>6, DomainTypes DEF UpdateUserProfileService, UpdateUser
<1>7. CASE ActivateUser(p)
<2> PICK u \in Person : ActivateUserService(p, u)
  BY <1>7 DEF ActivateUser
<2> QED
  BY <1>0, <1>1, <1>3, <1>7, <1>s, DomainTypes DEF ActivateUserService, Enable, ActivateUser
<1>8. CASE EnableUser(p)
  BY <1>0, <1>1, <1>3, <1>8, <1>s, DomainTypes DEF ChangeStatus, EnableUser
<1>9. CASE DisableUser(p)
  BY <1>0, <1>1, <1>3, <1>9, <1>s, DomainTypes DEF ChangeStatus, DisableUser
<1>10. CASE DeleteUser(p)
  BY <1>0, <1>1, <1>3, <1>10, <1>s, DomainTypes DEF DeleteUserService, Delete, DeleteUser
<1>11. CASE UpdateUserAdmin(p)
<2>1. PICK u \in Person : UpdateUserAdminService(p, u)
  BY <1>11 DEF UpdateUserAdmin
<2>2. UNCHANGED <<env, row, copy>>
  BY <1>11 DEF UpdateUserAdmin
<2>3. GetById(u) /\ row[u] \in User /\ Agrees(row[u])
  BY <1>0, <1>1, <1>3, <2>1 DEF UpdateUserAdminService, GetById
<2>4. PICK s \in Status, x \in Username \cup {Null}, d \in Dept \cup {Null} :
        Load(p, "update_user_admin", u, [WithStatus(UpdateProfile(row[u], x), s) EXCEPT !.dept = d])
  BY <2>1, <2>3 DEF UpdateUserAdminService, User
<2> DEFINE new == WithStatus(UpdateProfile(row[u], x), s)
<2>5. new \in User /\ Agrees(new)
  BY <2>3, DomainTypes
<2>6. [new EXCEPT !.dept = d] \in User /\ Agrees([new EXCEPT !.dept = d])
  BY <2>5 DEF User, Agrees
<2> QED
  BY <1>0, <1>1, <1>3, <2>2, <2>4, <2>6
<1>12. CASE GetUser(p)
  BY <1>12, FetchedBegins DEF GetUser, GetUserService
<1>13. CASE GetUserByEmail(p)
  BY <1>13, FetchedBegins DEF GetUserByEmail, GetUserByEmailService
<1>14. CASE SaveUser(p)
  BY <1>14 DEF SaveUser, Stops, Rereads, At
<1> QED
  BY <1>4, <1>5, <1>6, <1>7, <1>8, <1>9, <1>10, <1>11, <1>12, <1>13, <1>14 DEF UserNext

LEMMA PathType ==
  ASSUME TInv, NEW parent \in Live(Dept) \cup {Null}
  PROVE  ChildPath(parent) \in Seq(Dept) /\ parent \in Dept \cup {Null}
<1>1. CASE parent = Null
  BY <1>1 DEF ChildPath
<1>2. CASE parent # Null
<2>1. parent \in Dept /\ row[parent] # NoRow
  BY <1>2 DEF Live, GetById
<2>2. row[parent] \in Department
  BY <2>1, RowTypes DEF TInv, Rows
<2>3. row[parent].ancestors \in Seq(Dept)
  BY <2>2 DEF Department
<2> QED
  BY <1>2, <2>1, <2>3 DEF ChildPath
<1> QED
  BY <1>1, <1>2

LEMMA DirectorySteps ==
  ASSUME TInv, NEW p \in Slot, DirectoryNext(p)
  PROVE  Begins(p) \/ Stops(p) \/ Rereads(p) \/ CommitRow(p)
<1>0. \A x \in Id : row[x] # NoRow => row[x] \in RowOf(x)
  BY DEF TInv, Rows
<1>d. \A x \in Dept \cup Role \cup Tenant : x \in Id /\ x \notin Person
  BY DEF Id
<1>l. \A op, x, new : Load(p, op, x, new) => row[x] # NoRow
  BY DEF Load, GetById
<1>1. CASE CreateDepartment(p)
<2> PICK d \in Dept, parent \in Live(Dept) \cup {Null}, t \in Tenant :
           CreateDepartmentService(p, d, parent, t)
  BY <1>1 DEF CreateDepartment
<2> DEFINE new == [deleted |-> FALSE, tenant |-> t, parent |-> parent,
                   ancestors |-> ChildPath(parent)]
<2>1. new \in RowOf(d)
<3>1. new \in Department
  BY PathType DEF Department
<3> QED
  BY <3>1, RowTypes
<2>2. Add(p, "create_department", d, new) /\ UNCHANGED <<env, row, copy>>
  BY <1>1 DEF CreateDepartment, CreateDepartmentService
<2> HIDE DEF new
<2> QED
  BY <1>d, <2>1, <2>2, AddBegins
<1>2. CASE UpdateDepartment(p)
  BY <1>0, <1>d, <1>l, <1>2, LoadBegins DEF UpdateDepartment, UpdateDepartmentService
<1>3. CASE DeleteDepartment(p)
  BY <1>3, MarkBegins DEF DeleteDepartment, DeleteDepartmentService
<1>4. CASE CreateRole(p)
<2> PICK r \in Role, t \in Tenant, k \in RoleKey, s \in DataScope : CreateRoleService(p, r, t, k, s)
  BY <1>4 DEF CreateRole
<2> DEFINE new == [deleted |-> FALSE, tenant |-> t, key |-> k, scope |-> s]
<2>1. new \in RowOf(r)
<3>1. new \in RoleRow
  BY DEF RoleRow
<3> QED
  BY <3>1, RowTypes
<2>2. Add(p, "create_role", r, new) /\ UNCHANGED <<env, row, copy>>
  BY <1>4 DEF CreateRole, CreateRoleService
<2> HIDE DEF new
<2> QED
  BY <1>d, <2>1, <2>2, AddBegins
<1>5. CASE UpdateRole(p)
<2> PICK r \in Role, k \in RoleKey, s \in DataScope : UpdateRoleService(p, r, k, s)
  BY <1>5 DEF UpdateRole
<2> DEFINE new == [row[r] EXCEPT !.key = k, !.scope = s]
<2>1. Load(p, "update_role", r, new) /\ UNCHANGED <<env, row, copy>>
  BY <1>5 DEF UpdateRole, UpdateRoleService
<2>2. row[r] \in RoleRow
  BY <1>0, <1>l, <2>1, RowTypes
<2>3. new \in RowOf(r)
<3>1. new \in RoleRow
  BY <2>2 DEF RoleRow
<3> QED
  BY <3>1, RowTypes
<2> HIDE DEF new
<2> QED
  BY <1>d, <2>1, <2>3, LoadBegins
<1>6. CASE DeleteRole(p)
  BY <1>6, MarkBegins DEF DeleteRole, DeleteRoleService
<1>7. CASE CreateTenant(p)
<2> PICK t \in Tenant : CreateTenantService(p, t)
  BY <1>7 DEF CreateTenant
<2> DEFINE new == [deleted |-> FALSE, status |-> "active"]
           r == [stage |-> "flush", op |-> "create_tenant", id |-> t, loaded |-> NoRow,
                 base |-> NoRow, new |-> new]
<2>1. new \in RowOf(t) /\ t \in Id /\ t \notin Person
<3>1. new \in TenantRow
  BY DEF TenantRow, Status
<3> QED
  BY <1>d, <3>1, RowTypes
<2>2. /\ slot' = [slot EXCEPT ![p] = r] /\ Begin(p, "create_tenant")
      /\ UNCHANGED <<env, row, copy>>
  BY <1>7 DEF CreateTenant, CreateTenantService
<2> HIDE DEF new
<2>3. Typed(r) /\ r.stage = "flush"
  BY <2>1, <2>2 DEF Typed, Fields, Begin
<2> HIDE DEF r
<2> QED
  BY <2>2, <2>3 DEF Begins, Begin
<1>8. CASE UpdateTenant(p)
<2> PICK t \in Tenant, s \in Status : UpdateTenantService(p, t, s)
  BY <1>8 DEF UpdateTenant
<2> DEFINE new == [row[t] EXCEPT !.status = s]
<2>1. Load(p, "update_tenant", t, new) /\ UNCHANGED <<env, row, copy>>
  BY <1>8 DEF UpdateTenant, UpdateTenantService
<2>2. row[t] \in TenantRow
  BY <1>0, <1>l, <2>1, RowTypes
<2>3. new \in RowOf(t)
<3>1. new \in TenantRow
  BY <2>2 DEF TenantRow
<3> QED
  BY <3>1, RowTypes
<2> HIDE DEF new
<2> QED
  BY <1>d, <2>1, <2>3, LoadBegins
<1>9. CASE DeleteTenant(p)
<2> PICK t \in Tenant : DeleteTenantService(p, t)
  BY <1>9 DEF DeleteTenant
<2> DEFINE new == [deleted |-> TRUE, status |-> "deleted"]
           r == [stage |-> "commit", op |-> "delete_tenant", id |-> t, loaded |-> row[t],
                 base |-> row[t], new |-> new]
<2>1. new \in RowOf(t) /\ t \in Id /\ t \notin Person
<3>1. new \in TenantRow
  BY DEF TenantRow, Status
<3> QED
  BY <1>d, <3>1, RowTypes
<2>2. /\ slot' = [slot EXCEPT ![p] = r] /\ Begin(p, "delete_tenant") /\ row[t] # NoRow
      /\ UNCHANGED <<env, row, copy>>
  BY <1>9 DEF DeleteTenant, DeleteTenantService, GetById
<2> HIDE DEF new
<2>3. Typed(r) /\ r.stage = "commit"
  BY <1>0, <2>1, <2>2 DEF Typed, Fields, Begin
<2> HIDE DEF r
<2> QED
  BY <2>2, <2>3 DEF Begins, Begin
<1>10. CASE Fails(p)
  BY <1>10 DEF Fails, Stops, At
<1>11. CASE SaveRow(p)
  BY <1>11 DEF SaveRow, Rereads
<1>12. CASE Dies(p) /\ UNCHANGED copy
  BY <1>12 DEF Dies, Stops
<1> QED
  BY <1>1, <1>2, <1>3, <1>4, <1>5, <1>6, <1>7, <1>8, <1>9, <1>10, <1>11, <1>12
     DEF DirectoryNext

\* One request moves on; rows are only ever put in.
LEMMA Moves ==
  ASSUME TInv, NEW p \in Slot, NEW r, slot' = [slot EXCEPT ![p] = r], env' = env,
         \A x \in Id : row[x] # NoRow => row'[x] # NoRow,
         r = Idle \/ Typed(r)'
  PROVE  Requests' /\ DOMAIN slot' = Slot
<1>1. DOMAIN slot' = Slot /\ \A q \in Slot : slot'[q] = IF q = p THEN r ELSE slot[q]
  BY DEF TInv, Rows
<1>2. ASSUME NEW q \in Slot, slot'[q] # Idle
      PROVE  Typed(slot[q])'
<2>1. CASE q = p
  BY <1>1, <1>2, <2>1 DEF Typed
<2>2. CASE q # p
<3>1. slot'[q] = slot[q] /\ Typed(slot[q])
  BY <1>1, <1>2, <2>2 DEF TInv, Requests
<3> QED
  BY <3>1 DEF Typed
<2> QED
  BY <2>1, <2>2
<1> QED
  BY <1>1, <1>2 DEF Requests

LEMMA BeginsTypes ==
  ASSUME TInv, NEW p \in Slot, Begins(p)
  PROVE  TInv'
<1> PICK r : slot' = [slot EXCEPT ![p] = r] /\ Typed(r)
  BY DEF Begins
<1>1. UNCHANGED <<env, row, copy>>
  BY DEF Begins
<1>2. Typed(r)'
  BY <1>1 DEF Typed
<1> QED
  BY <1>1, <1>2, Moves DEF TInv, Rows, Copies

LEMMA StopsTypes ==
  ASSUME TInv, NEW p \in Slot, End(p), UNCHANGED <<env, row>>, Copies'
  PROVE  TInv'
<1>1. Requests' /\ DOMAIN slot' = Slot
<2>1. Idle = Idle \/ Typed(Idle)'
  OBVIOUS
<2> QED
  BY <2>1, Moves DEF End
<1> QED
  BY <1>1 DEF TInv, Rows

LEMMA RereadsTypes ==
  ASSUME TInv, NEW p \in Slot, Rereads(p)
  PROVE  TInv'
<1> PICK base \in {slot[p].loaded, row[slot[p].id]} :
         slot' = [slot EXCEPT ![p].stage = "commit", ![p].base = base]
  BY DEF Rereads, Save
<1> DEFINE r == [slot[p] EXCEPT !.stage = "commit", !.base = base]
<1>1. UNCHANGED <<env, row, copy>> /\ Typed(slot[p]) /\ slot[p].stage = "save"
  BY DEF Rereads, Save, TInv, Requests, At, Idle
<1>2. slot' = [slot EXCEPT ![p] = r]
  OBVIOUS
<1>3. /\ DOMAIN r = Fields /\ r.stage = "commit" /\ r.base = base /\ r.op = slot[p].op
      /\ r.id = slot[p].id /\ r.new = slot[p].new /\ r.loaded = slot[p].loaded
  BY <1>1 DEF Typed, Fields
<1>4. row[r.id] # NoRow /\ row[r.id] \in RowOf(r.id) /\ r.loaded # NoRow
  BY <1>1, <1>3 DEF Typed, TInv, Rows
<1>5. PICK c : c = r
  OBVIOUS
<1> HIDE DEF r
<1>6. Typed(c)'
  BY <1>1, <1>3, <1>4, <1>5 DEF Typed
<1> QED
  BY <1>1, <1>2, <1>5, <1>6, Moves DEF TInv, Rows, Copies

\* The commit of a row of the right type; the request ends or goes on.
LEMMA CommitTypes ==
  ASSUME TInv, NEW p \in Slot, NEW w, NEW stage \in {"idle", "set", "drop"}, Commit(p, w, stage),
         UNCHANGED <<env, copy>>, w \in RowOf(slot[p].id), slot[p].id \in Person => Agrees(w),
         stage # "idle" => slot[p].id \in Person
  PROVE  TInv'
<1>1. Typed(slot[p]) /\ slot[p].id \in Id /\ w # NoRow
  BY RowTypes DEF Commit, TInv, Requests, At, Idle, Typed
<1>2. \A x \in Id : row'[x] = IF x = slot[p].id THEN w ELSE row[x]
  BY DEF Commit, TInv, Rows
<1>3. /\ \A x \in Id : row[x] # NoRow => row'[x] # NoRow
      /\ row'[slot[p].id] # NoRow
  BY <1>1, <1>2
<1>4. PICK c : c = IF stage = "idle" THEN Idle ELSE [slot[p] EXCEPT !.stage = stage]
  OBVIOUS
<1>5. slot' = [slot EXCEPT ![p] = c]
  BY <1>4 DEF Commit
<1>6. CASE stage = "idle"
<2>1. Requests' /\ DOMAIN slot' = Slot
  BY <1>3, <1>4, <1>5, <1>6, Moves
<2> QED
  BY <1>2, <2>1 DEF TInv, Rows, Copies, Commit
<1>7. CASE stage # "idle"
<2>1. /\ DOMAIN c = Fields /\ c.stage = stage /\ c.base = slot[p].base /\ c.op = slot[p].op
      /\ c.id = slot[p].id /\ c.new = slot[p].new /\ c.loaded = slot[p].loaded
  BY <1>1, <1>4, <1>7 DEF Typed, Fields
<2>2. Typed(c)'
  BY <1>1, <1>3, <1>7, <2>1 DEF Typed
<2>3. Requests' /\ DOMAIN slot' = Slot
  BY <1>3, <1>5, <2>2, Moves
<2> QED
  BY <1>2, <2>3 DEF TInv, Rows, Copies, Commit
<1> QED
  BY <1>6, <1>7

LEMMA CommitUserTypes ==
  ASSUME TInv, NEW p \in Slot, CommitUser(p)
  PROVE  TInv'
<1> DEFINE w == WithStatus(Written(p), Written(p).status)
<1>1. At(p, "commit") /\ slot[p].id \in Person /\ UNCHANGED <<env, copy>>
  BY DEF CommitUser
<1>2. w \in User /\ Agrees(w) /\ RowOf(slot[p].id) = User
<2>1. Written(p) \in User /\ RowOf(slot[p].id) = User
  BY <1>1, WrittenType, RowTypes
<2>2. Written(p).status \in Status
  BY <2>1 DEF User
<2> QED
  BY <2>1, <2>2, DomainTypes
<1>3. CASE End(p) /\ UNCHANGED row
  BY <1>1, <1>3, StopsTypes DEF TInv, Copies
<1>4. CASE \E stage \in {"set", "drop"} : Commit(p, w, stage)
<2> HIDE DEF w
<2> QED
  BY <1>1, <1>2, <1>4, CommitTypes
<1> QED
  BY <1>3, <1>4 DEF CommitUser

LEMMA CommitRowTypes ==
  ASSUME TInv, NEW p \in Slot, CommitRow(p)
  PROVE  TInv'
<1>1. /\ slot[p].id \notin Person /\ UNCHANGED <<env, copy>> /\ At(p, "commit")
      /\ Commit(p, Written(p), "idle")
  BY DEF CommitRow
<1>2. Written(p) \in RowOf(slot[p].id)
  BY <1>1, WrittenType
<1>3. PICK w : w = Written(p)
  OBVIOUS
<1> QED
  BY <1>1, <1>2, <1>3, CommitTypes

LEMMA TInvStep == TInv /\ [Next]_vars => TInv'
<1> SUFFICES ASSUME TInv, [Next]_vars PROVE TInv'
  OBVIOUS
<1>1. ASSUME NEW p \in Slot, UserNext(p)
      PROVE  TInv'
<2>1. CASE Stops(p)
  BY <2>1, StopsTypes DEF Stops, TInv, Copies
<2>2. CASE SetCache(p)
<3>1. slot[p].id \in Person /\ slot[p].new \in User
<4>1. Typed(slot[p]) /\ At(p, "set")
  BY <2>2 DEF SetCache, TInv, Requests, At, Idle
<4> QED
  BY <4>1, RowTypes DEF Typed, At
<3>2. Copies'
  BY <2>2, <3>1 DEF SetCache, TInv, Copies
<3> QED
  BY <2>2, <3>2, StopsTypes DEF SetCache
<2>3. CASE DeleteCache(p)
<3>1. Copies'
  BY <2>3 DEF DeleteCache, TInv, Copies
<3> QED
  BY <2>3, <3>1, StopsTypes DEF DeleteCache
<2> QED
  BY <1>1, <2>1, <2>2, <2>3, UserSteps, BeginsTypes, RereadsTypes, CommitUserTypes
<1>2. ASSUME NEW p \in Slot, DirectoryNext(p)
      PROVE  TInv'
<2>1. CASE Stops(p)
  BY <2>1, StopsTypes DEF Stops, TInv, Copies
<2> QED
  BY <1>2, <2>1, DirectorySteps, BeginsTypes, RereadsTypes, CommitRowTypes
<1>3. CASE \E u \in Person : Expire(u)
<2>1. UNCHANGED <<env, row, slot>> /\ Copies'
  BY <1>3 DEF Expire, TInv, Copies
<2> QED
  BY <2>1 DEF TInv, Rows, Requests, Typed
<1>4. CASE UNCHANGED vars
  BY <1>4 DEF vars, TInv, Rows, Requests, Copies, Typed
<1> QED
  BY <1>1, <1>2, <1>3, <1>4 DEF Next

LEMMA InitTInv == Init => TInv
<1> SUFFICES ASSUME Init PROVE TInv
  OBVIOUS
<1> DEFINE u == CHOOSE v \in Person : TRUE
<1>0. u \in Person
  BY DirectoryAssumption
<1> HIDE DEF u
<1>1. \A x \in Id : row[x] = IF x \in Tenant THEN [deleted |-> FALSE, status |-> "active"]
                            ELSE IF x = u THEN CreateDomain(Null, "active", Null) ELSE NoRow
  BY DEF Init, u
<1>2. /\ DOMAIN row = Id /\ DOMAIN slot = Slot /\ env \in Environment
      /\ Requests /\ Copies
  BY DEF Init, Requests, Copies
<1>3. [deleted |-> FALSE, status |-> "active"] \in TenantRow
  BY DEF TenantRow, Status
<1>4. CreateDomain(Null, "active", Null) \in User /\ Agrees(CreateDomain(Null, "active", Null))
  BY DomainTypes
<1>5. \A x \in Id : row[x] = NoRow \/ row[x] \in RowOf(x)
  BY <1>0, <1>1, <1>3, <1>4, RowTypes
<1>6. \A v \in Person : row[v] = NoRow \/ Agrees(row[v])
<2> SUFFICES ASSUME NEW v \in Person PROVE row[v] = NoRow \/ Agrees(row[v])
  OBVIOUS
<2>1. v \in Id /\ v \notin Tenant
  BY DEF Id
<2> QED
  BY <1>1, <1>4, <2>1
<1> QED
  BY <1>2, <1>5, <1>6 DEF TInv, Rows

-----------------------------------------------------------------------------
(* The copies of the users, when requests come one by one and nothing      *)
(* fails: what is about to be cached is the row as it is now.              *)

Calm == ~env.overlap /\ ~env.faults
ExactCopy(u) ==
  \/ copy[u] = NoRow
  \/ GetById(u) /\ copy[u] = row[u]
  \/ \E p \in Slot : At(p, "drop") /\ slot[p].id = u
Fresh(r) == r.stage = "set" => GetById(r.id) /\ r.new = row[r.id]

CacheInv ==
  /\ IInv /\ TInv
  /\ Calm => (\A u \in Person : ExactCopy(u)) /\ (\A p \in Slot : Fresh(slot[p]))

\* A step that changes no row of a user and no copy, and is not a drop.
LEMMA QuietCache ==
  ASSUME CacheInv, Calm, NEW p \in Slot, NEW r, slot' = [slot EXCEPT ![p] = r], ~At(p, "drop"),
         \A u \in Person : row'[u] = row[u] /\ copy'[u] = copy[u],
         r.stage = "set" => r.id \in Person /\ GetById(r.id) /\ r.new = row[r.id]
  PROVE  (\A u \in Person : ExactCopy(u)') /\ (\A q \in Slot : Fresh(slot[q])')
<1>1. \A q \in Slot : slot'[q] = IF q = p THEN r ELSE slot[q]
  BY DEF CacheInv, TInv, Rows
<1>2. \A u \in Person : GetById(u)' <=> GetById(u)
  BY DEF GetById
<1>3. ASSUME NEW u \in Person
      PROVE  ExactCopy(u)'
<2>1. ExactCopy(u)
  BY DEF CacheInv
<2>2. ASSUME NEW q \in Slot, At(q, "drop"), slot[q].id = u
      PROVE  At(q, "drop")' /\ slot'[q].id = u
  BY <1>1, <2>2 DEF At
<2> QED
  BY <1>2, <2>1, <2>2 DEF ExactCopy
<1>4. ASSUME NEW q \in Slot
      PROVE  Fresh(slot[q])'
<2>1. CASE q = p
  BY <1>1, <1>2, <2>1 DEF Fresh
<2>2. CASE q # p /\ slot[q].stage = "set"
<3>1. Typed(slot[q]) /\ slot'[q] = slot[q] /\ Fresh(slot[q])
  BY <1>1, <2>2 DEF CacheInv, TInv, Requests, Idle
<3>2. slot[q].id \in Person
  BY <2>2, <3>1 DEF Typed
<3> QED
  BY <1>2, <2>2, <3>1, <3>2 DEF Fresh
<2>3. CASE q # p /\ slot[q].stage # "set"
  BY <1>1, <2>3 DEF Fresh
<2> QED
  BY <2>1, <2>2, <2>3
<1> QED
  BY <1>3, <1>4

\* A copy is written or dropped, as the request ends.
LEMMA WrittenCache ==
  ASSUME CacheInv, Calm, NEW p \in Slot, NEW u \in Person, NEW c, End(p),
         row' = row, copy' = [copy EXCEPT ![u] = c],
         At(p, "drop") => slot[p].id = u, c = NoRow \/ (GetById(u) /\ c = row[u])
  PROVE  (\A v \in Person : ExactCopy(v)') /\ (\A q \in Slot : Fresh(slot[q])')
<1>1. \A q \in Slot : slot'[q] = IF q = p THEN Idle ELSE slot[q]
  BY DEF CacheInv, TInv, Rows, End
<1>2. \A v \in Person : copy'[v] = IF v = u THEN c ELSE copy[v]
  BY DEF CacheInv, TInv, Copies
<1>3. ASSUME NEW v \in Person
      PROVE  ExactCopy(v)'
<2>1. CASE v = u
  BY <1>2, <2>1 DEF ExactCopy, GetById
<2>2. CASE v # u
<3>1. ExactCopy(v)
  BY DEF CacheInv
<3>2. ASSUME NEW q \in Slot, At(q, "drop"), slot[q].id = v
      PROVE  At(q, "drop")' /\ slot'[q].id = v
  BY <1>1, <2>2, <3>2 DEF At
<3> QED
  BY <1>2, <2>2, <3>1, <3>2 DEF ExactCopy, GetById
<2> QED
  BY <2>1, <2>2
<1>4. \A q \in Slot : Fresh(slot[q])'
  BY <1>1 DEF CacheInv, Fresh, Idle, GetById
<1> QED
  BY <1>3, <1>4

LEMMA CommitUserCache ==
  ASSUME CacheInv, Calm, NEW p \in Slot, CommitUser(p)
  PROVE  (\A u \in Person : ExactCopy(u)') /\ (\A q \in Slot : Fresh(slot[q])')
<1> DEFINE w == WithStatus(Written(p), Written(p).status)
           x == slot[p].id
<1>1. /\ At(p, "commit") /\ x \in Person /\ copy' = copy /\ x \in Id
      /\ Typed(slot[p]) /\ DOMAIN slot = Slot /\ DOMAIN row = Id /\ IInv
  BY DEF CommitUser, CacheInv, TInv, Rows, Requests, At, Idle, Id
<1>2. CASE End(p) /\ UNCHANGED row
  BY <1>1, <1>2, QuietCache DEF End, At, Idle
<1>3. \A q \in Slot \ {p} : slot[q].stage = "idle"
  BY <1>1 DEF Calm, IInv, OneAtATime, At
<1>4. \A u \in Person : copy[u] = NoRow \/ (GetById(u) /\ copy[u] = row[u])
  BY <1>1, <1>3 DEF CacheInv, ExactCopy, At
<1>5. CASE Commit(p, w, "drop")
<2>1. /\ row' = [row EXCEPT ![x] = w]
      /\ slot' = [slot EXCEPT ![p] = [slot[p] EXCEPT !.stage = "drop"]]
  BY <1>5 DEF Commit
<2>2. slot'[p].stage = "drop" /\ slot'[p].id = x /\ \A q \in Slot \ {p} : slot'[q] = slot[q]
  BY <1>1, <2>1 DEF Typed, Fields
<2>3. ASSUME NEW u \in Person
      PROVE  ExactCopy(u)'
<3>1. CASE u = x
  BY <2>2, <3>1 DEF ExactCopy, At
<3>2. CASE u # x
<4>1. row'[u] = row[u]
  BY <1>1, <2>1, <3>2
<4> QED
  BY <1>1, <1>4, <4>1 DEF ExactCopy, GetById
<3> QED
  BY <3>1, <3>2
<2> QED
  BY <1>3, <2>2, <2>3 DEF Fresh
<1>6. CASE slot[p].base = NoRow /\ Commit(p, w, "set")
<2>1. /\ row' = [row EXCEPT ![x] = w]
      /\ slot' = [slot EXCEPT ![p] = [slot[p] EXCEPT !.stage = "set"]]
  BY <1>6 DEF Commit
<2>2. /\ slot'[p].id = x /\ slot'[p].new = slot[p].new
      /\ \A q \in Slot \ {p} : slot'[q] = slot[q]
  BY <1>1, <2>1 DEF Typed, Fields
<2>3. w = slot[p].new /\ w # NoRow /\ ~w.deleted
<3>1. slot[p].new \in User /\ Agrees(slot[p].new) /\ ~slot[p].new.deleted
  BY <1>1, <1>6, RowTypes DEF Typed, At
<3>2. Written(p) = slot[p].new
  BY <1>6 DEF Written
<3>3. \A user \in User : Agrees(user) => WithStatus(user, user.status) = user
  BY DEF User, Agrees, WithStatus
<3>4. slot[p].new # NoRow
  BY <1>1, <3>1, RowTypes
<3> QED
  BY <3>1, <3>2, <3>3, <3>4
<2>4. row'[x] = w /\ \A u \in Person \ {x} : row'[u] = row[u]
  BY <1>1, <2>1
<2> HIDE DEF w
<2>5. row[x] = NoRow
  BY <1>1, <1>6 DEF IInv, Unmoved, Calm, At
<2>6. ASSUME NEW u \in Person
      PROVE  ExactCopy(u)'
<3>1. CASE u = x
<4>1. copy[u] = NoRow
  BY <1>4, <2>5, <3>1 DEF GetById
<4> QED
  BY <1>1, <4>1 DEF ExactCopy
<3>2. CASE u # x
  BY <1>1, <1>4, <2>4, <3>2 DEF ExactCopy, GetById
<3> QED
  BY <3>1, <3>2
<2> QED
  BY <1>3, <2>2, <2>3, <2>4, <2>6 DEF Fresh, GetById
<1> HIDE DEF w, x
<1> QED
  BY <1>2, <1>5, <1>6 DEF CommitUser, w, x

LEMMA CacheStep == CacheInv /\ [Next]_vars => CacheInv'
<1> SUFFICES ASSUME CacheInv, [Next]_vars PROVE CacheInv'
  OBVIOUS
<1>0. IInv' /\ TInv' /\ IInv /\ TInv
  BY IInvStep, TInvStep DEF CacheInv
<1>1. Calm' <=> Calm
  BY <1>0, NextEffect DEF Calm
<1> SUFFICES ASSUME Calm
             PROVE  (\A u \in Person : ExactCopy(u)') /\ (\A q \in Slot : Fresh(slot[q])')
  BY <1>0, <1>1 DEF CacheInv
<1>2. ASSUME NEW p \in Slot, Begins(p) \/ Stops(p) \/ Rereads(p)
      PROVE  (\A u \in Person : ExactCopy(u)') /\ (\A q \in Slot : Fresh(slot[q])')
<2>1. CASE Begins(p)
<3> PICK r : /\ slot' = [slot EXCEPT ![p] = r] /\ Typed(r) /\ r.stage # "drop"
             /\ r.stage = "set" => GetById(r.id) /\ r.new = row[r.id]
  BY <2>1 DEF Begins
<3> QED
  BY <2>1, QuietCache DEF Begins, Typed, At
<2>2. CASE Stops(p)
<3>1. /\ slot' = [slot EXCEPT ![p] = Idle] /\ ~At(p, "drop") /\ row' = row /\ copy' = copy
      /\ Idle.stage # "set"
  BY <2>2 DEF Stops, End, Calm, Idle
<3> QED
  BY <3>1, QuietCache
<2>3. CASE Rereads(p)
<3> PICK base \in {slot[p].loaded, row[slot[p].id]} :
         slot' = [slot EXCEPT ![p].stage = "commit", ![p].base = base]
  BY <2>3 DEF Rereads, Save
<3>1. PICK r : r = [slot[p] EXCEPT !.stage = "commit", !.base = base]
  OBVIOUS
<3>2. At(p, "save") /\ row' = row /\ copy' = copy /\ DOMAIN slot[p] = Fields
  BY <1>0, <2>3 DEF Rereads, Save, IInv, Shape, At
<3>3. slot' = [slot EXCEPT ![p] = r] /\ r.stage = "commit"
  BY <3>1, <3>2 DEF Fields
<3> QED
  BY <3>2, <3>3, QuietCache DEF At
<2> QED
  BY <1>2, <2>1, <2>2, <2>3
<1>3. ASSUME NEW p \in Slot, SetCache(p) \/ DeleteCache(p)
      PROVE  (\A u \in Person : ExactCopy(u)') /\ (\A q \in Slot : Fresh(slot[q])')
<2>1. slot[p].id \in Person
  BY <1>0, <1>3 DEF SetCache, DeleteCache, TInv, Requests, Typed, At, Idle
<2>2. CASE SetCache(p)
<3>1. End(p) /\ row' = row /\ copy' = [copy EXCEPT ![slot[p].id] = slot[p].new] /\ At(p, "set")
  BY <2>2 DEF SetCache, Calm
<3>2. GetById(slot[p].id) /\ slot[p].new = row[slot[p].id]
  BY <3>1 DEF CacheInv, Fresh, At
<3> QED
  BY <2>1, <3>1, <3>2, WrittenCache DEF At
<2>3. CASE DeleteCache(p)
<3>1. End(p) /\ row' = row /\ copy' = [copy EXCEPT ![slot[p].id] = NoRow]
  BY <2>3 DEF DeleteCache, Calm
<3> QED
  BY <2>1, <3>1, WrittenCache
<2> QED
  BY <1>3, <2>2, <2>3
<1>4. ASSUME NEW p \in Slot, CommitRow(p)
      PROVE  (\A u \in Person : ExactCopy(u)') /\ (\A q \in Slot : Fresh(slot[q])')
<2>1. /\ At(p, "commit") /\ slot' = [slot EXCEPT ![p] = Idle] /\ copy' = copy
      /\ row' = [row EXCEPT ![slot[p].id] = Written(p)] /\ slot[p].id \notin Person
  BY <1>4 DEF CommitRow, Commit
<2>2. \A u \in Person : row'[u] = row[u]
  BY <1>0, <2>1 DEF TInv, Rows, Id
<2> QED
  BY <2>1, <2>2, QuietCache DEF At, Idle
<1>5. ASSUME NEW v \in Person, Expire(v)
      PROVE  (\A u \in Person : ExactCopy(u)') /\ (\A q \in Slot : Fresh(slot[q])')
<2>1. \A u \in Person : copy'[u] = IF u = v THEN NoRow ELSE copy[u]
  BY <1>0, <1>5 DEF Expire, TInv, Copies
<2> QED
  BY <1>5, <2>1 DEF Expire, CacheInv, ExactCopy, Fresh, GetById, At
<1>6. CASE UNCHANGED vars
  BY <1>6 DEF vars, CacheInv, ExactCopy, Fresh, GetById, At
<1> QED
  BY <1>0, <1>2, <1>3, <1>4, <1>5, <1>6, UserSteps, DirectorySteps, CommitUserCache DEF Next

-----------------------------------------------------------------------------
(* The theorems.                                                           *)

\* The rows of users, departments, roles and tenants have the columns of their
\* tables whatever requests do to them, with the columns each save writes and
\* those it leaves to others; and no copy but of a user is ever cached.
THEOREM TypeCorrect == Spec => []TypeOK
<1>1. TInv => TypeOK
<2> SUFFICES ASSUME TInv PROVE TypeOK
  OBVIOUS
<2>1. ASSUME NEW p \in Slot, ~At(p, "idle")
      PROVE  Typed(slot[p])
  BY <2>1 DEF TInv, Requests, At, Idle
<2> QED
  BY <2>1 DEF TypeOK, Typed, TInv, Rows, Copies
<1> QED
  BY <1>1, InitTInv, TInvStep, PTL DEF Spec

\* get_user answers from the copy: with one request at a time and a Redis that
\* works, a copy is the row of a user who is not deleted, or the request that
\* changed the row is about to drop it, whatever request wrote the copy.
THEOREM CopiesAreExact == Spec => []UserCacheIsExact
<1>1. Init => CacheInv
<2> SUFFICES ASSUME Init PROVE CacheInv
  OBVIOUS
<2>1. (\A u \in Person : copy[u] = NoRow) /\ (\A p \in Slot : slot[p] = Idle)
  BY DEF Init
<2> QED
  BY <2>1, InitIInv, InitTInv DEF CacheInv, ExactCopy, Fresh, Idle
<1>2. CacheInv => UserCacheIsExact
  BY DEF CacheInv, Calm, ExactCopy, UserCacheIsExact
<1> QED
  BY <1>1, <1>2, CacheStep, PTL DEF Spec

\* save and commit of the repositories: a deleted row comes back only by the
\* commit of a request that had loaded it before and overlaps others.
THEOREM DeletionsLast == Spec => DeletedStaysDeleted
<1> DEFINE Last == \A x \in Id : (row[x].deleted /\ ~row[x].deleted') =>
                     /\ env.overlap
                     /\ \E p \in Slot : At(p, "commit") /\ slot[p].id = x /\ ~slot[p].loaded.deleted
<1>1. ASSUME IInv, [Next]_vars, NEW x \in Id, row[x].deleted, ~row[x].deleted'
      PROVE  /\ env.overlap
             /\ \E p \in Slot : At(p, "commit") /\ slot[p].id = x /\ ~slot[p].loaded.deleted
<2>1. row' # row
  BY <1>1
<2>2. PICK p \in Slot : Commits(p)
  BY <1>1, <2>1, NextEffect DEF Effect, Starts, Ends, Saves
<2>3. At(p, "commit") /\ slot[p].id = x
  BY <1>1, <2>2 DEF Commits, Commit, IInv, Shape
<2>4. ~slot[p].loaded.deleted
  BY <1>1, <2>3 DEF IInv, LoadedLive, At
<2>5. env.overlap
  BY <1>1, <2>3, <2>4 DEF IInv, Unmoved, At
<2> QED
  BY <2>3, <2>4, <2>5
<1>2. IInv /\ [Next]_vars => [Last]_vars
  BY <1>1
<1>3. DeletedStaysDeleted <=> [][Last]_vars
  BY DEF DeletedStaysDeleted
<1> HIDE DEF Last
<1> QED
  BY <1>2, <1>3, InitIInv, IInvStep, PTL DEF Spec

\* create_department, delete_department and create_role: with one request at
\* a time, no live department is below a deleted one and no tenant has two
\* live roles with one key.
THEOREM ChecksHold == Spec => []ChecksSuffice
<1>1. IInv => ChecksSuffice
<2> SUFFICES ASSUME IInv, ~env.overlap
             PROVE  /\ \A d \in Live(Dept) : row[d].parent # Null => GetById(row[d].parent)
                    /\ \A q, r \in Live(Role) :
                         (row[q].tenant = row[r].tenant /\ row[q].key = row[r].key) => q = r
  BY DEF ChecksSuffice
<2>1. Fine(row)
  BY DEF IInv, FineWhenWritten
<2> QED
  BY <2>1 DEF Fine, LiveIn, Live, GetById
<1> QED
  BY <1>1, InitIInv, IInvStep, PTL DEF Spec
=============================================================================
