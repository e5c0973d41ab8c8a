------------------------- MODULE DepartmentProofs -------------------------
(***************************************************************************)
(* The paths of the departments, and what is built from them: the          *)
(* departments below one, the tree a user is shown, and what several roles *)
(* show together.  For any number of departments, tenants and requests,    *)
(* also where requests overlap.                                            *)
(***************************************************************************)
EXTENDS DirectoryProofs, FiniteSetTheorems, WellFoundedInduction

USE IdAssumption

-----------------------------------------------------------------------------
(* Numbers: induction, stated of sets.                                     *)

LEMMA LeastNumber ==
  ASSUME NEW T \in SUBSET Nat, T # {}
  PROVE  \E n \in T : \A m \in T : n <= m
<1>1. PICK R : R = {ss \in Nat \X Nat : ss[1] < ss[2]}
  OBVIOUS
<1>2. IsWellFoundedOn(R, Nat)
<2>1. OpToRel(<, Nat) = {ss \in Nat \X Nat : ss[1] < ss[2]}
  BY Zenon DEF OpToRel
<2> QED
  BY <1>1, <2>1, NatLessThanWellFounded, Zenon
<1>3. T \subseteq Nat
  OBVIOUS
<1>4. PICK n \in T : \A m \in T : ~ (<<m, n>> \in R)
  BY <1>2, <1>3, WFMin, Zenon
<1>5. ASSUME NEW m \in T, m < n
      PROVE  FALSE
<2>1. PICK x : x = <<m, n>>
  OBVIOUS
<2>2. x \in Nat \X Nat /\ x[1] < x[2]
  BY <1>5, <2>1
<2>3. x \in R
  BY <1>1, <2>2
<2> QED
  BY <1>4, <2>1, <2>3
<1> QED
  BY <1>5

LEMMA AllNumbers ==
  ASSUME NEW T \in SUBSET Nat, 0 \in T, \A n \in Nat : n \in T => n + 1 \in T
  PROVE  T = Nat
<1> SUFFICES ASSUME Nat \ T # {} PROVE FALSE
  OBVIOUS
<1>1. PICK n \in Nat \ T : \A m \in Nat \ T : n <= m
  BY LeastNumber
<1>2. n - 1 \in Nat /\ n - 1 \in T
  BY <1>1
<1> QED
  BY <1>1, <1>2

-----------------------------------------------------------------------------
(* The inductive invariant.  A path is true when every department on it is *)
(* there and has the path up to it; the two columns never change.          *)

TruePath(r) ==
  LET a == r.ancestors
  IN /\ r.parent = IF Len(a) = 0 THEN Null ELSE a[Len(a)]
     /\ \A i \in 1 .. Len(a) :
          /\ row[a[i]] # NoRow /\ Len(row[a[i]].ancestors) = i - 1
          /\ \A j \in 1 .. i - 1 : row[a[i]].ancestors[j] = a[j]

SamePath(r, s) == r.parent = s.parent /\ r.ancestors = s.ancestors

\* What a request on a department has read and will write.
Bears(r) ==
  (r.stage # "idle" /\ r.id \in Dept) =>
    /\ row[r.id] = NoRow => TruePath(r.new)
    /\ row[r.id] # NoRow => SamePath(r.new, row[r.id])
    /\ r.loaded # NoRow => SamePath(r.loaded, row[r.id])
    /\ r.base # NoRow => SamePath(r.base, row[r.id])

Alone(p) ==
  (~At(p, "idle") /\ slot[p].id \in Dept /\ row[slot[p].id] = NoRow) =>
    \A q \in Slot \ {p} : ~At(q, "idle") => slot[q].id # slot[p].id

PathInv ==
  /\ TInv
  /\ \A d \in Dept : row[d] # NoRow => TruePath(row[d])
  /\ \A p \in Slot : Bears(slot[p]) /\ Alone(p)

\* What is known of a department that is there.
LEMMA PathFacts ==
  ASSUME PathInv, NEW d \in Dept, row[d] # NoRow
  PROVE  /\ row[d] \in Department /\ row[d].ancestors \in Seq(Dept)
         /\ Len(row[d].ancestors) \in Nat /\ TruePath(row[d])
         /\ \A i \in 1 .. Len(row[d].ancestors) : row[d].ancestors[i] \in Dept
<1>1. row[d] \in Department
  BY RowTypes DEF PathInv, TInv, Rows
<1> QED
  BY <1>1 DEF PathInv, Department

\* A path stays true as rows are added.
LEMMA TruePathLasts ==
  ASSUME NEW r, r.ancestors \in Seq(Dept), TruePath(r),
         \A d \in Dept : row[d] # NoRow => row'[d] # NoRow /\ SamePath(row'[d], row[d])
  PROVE  r.parent = (IF Len(r.ancestors) = 0 THEN Null ELSE r.ancestors[Len(r.ancestors)])
         /\ \A i \in 1 .. Len(r.ancestors) :
              /\ row'[r.ancestors[i]] # NoRow /\ Len(row'[r.ancestors[i]].ancestors) = i - 1
              /\ \A j \in 1 .. i - 1 : row'[r.ancestors[i]].ancestors[j] = r.ancestors[j]
<1> PICK a : a = r.ancestors
  OBVIOUS
<1>1. a \in Seq(Dept) /\ Len(a) \in Nat
  OBVIOUS
<1>2. ASSUME NEW i \in 1 .. Len(a)
      PROVE  /\ row'[a[i]] # NoRow /\ Len(row'[a[i]].ancestors) = i - 1
             /\ \A j \in 1 .. i - 1 : row'[a[i]].ancestors[j] = a[j]
<2>1. PICK c \in Dept : c = a[i]
  BY <1>1
<2>2. /\ row[c] # NoRow /\ Len(row[c].ancestors) = i - 1
      /\ \A j \in 1 .. i - 1 : row[c].ancestors[j] = a[j]
  BY <2>1 DEF TruePath
<2>3. row'[c] # NoRow /\ row'[c].ancestors = row[c].ancestors
  BY <2>2 DEF SamePath
<2> QED
  BY <2>1, <2>2, <2>3
<1> QED
  BY <1>2 DEF TruePath

\* Department.create: the path of a new department.
LEMMA ChildPathTrue ==
  ASSUME PathInv, NEW parent \in Live(Dept) \cup {Null},
         NEW r, r.parent = parent, r.ancestors = ChildPath(parent)
  PROVE  TruePath(r)
<1>1. CASE parent = Null
  BY <1>1 DEF ChildPath, TruePath
<1>2. CASE parent # Null
<2> DEFINE a == row[parent].ancestors
<2>1. /\ parent \in Dept /\ row[parent] # NoRow /\ a \in Seq(Dept) /\ Len(a) \in Nat
      /\ TruePath(row[parent])
  BY <1>2, PathFacts DEF Live, GetById
<2>2. r.ancestors = Append(a, parent)
  BY <1>2 DEF ChildPath
<2>3. PICK b : b = Append(a, parent)
  OBVIOUS
<2>4. /\ Len(b) = Len(a) + 1 /\ b[Len(a) + 1] = parent
      /\ \A i \in 1 .. Len(a) : b[i] = a[i]
  BY <2>1, <2>3
<2>5. ASSUME NEW i \in 1 .. Len(b)
      PROVE  /\ row[b[i]] # NoRow /\ Len(row[b[i]].ancestors) = i - 1
             /\ \A j \in 1 .. i - 1 : row[b[i]].ancestors[j] = b[j]
<3>1. CASE i = Len(a) + 1
<4>1. b[i] = parent /\ i - 1 = Len(a)
  BY <2>1, <2>4, <3>1
<4> QED
  BY <2>1, <2>4, <4>1
<3>2. CASE i # Len(a) + 1
<4>1. i \in 1 .. Len(a) /\ b[i] = a[i] /\ \A j \in 1 .. i - 1 : j \in 1 .. Len(a)
  BY <2>1, <2>4, <3>2
<4>2. /\ row[a[i]] # NoRow /\ Len(row[a[i]].ancestors) = i - 1
      /\ \A j \in 1 .. i - 1 : row[a[i]].ancestors[j] = a[j]
  BY <2>1, <4>1 DEF TruePath
<4> QED
  BY <2>4, <4>1, <4>2
<3> QED
  BY <3>1, <3>2
<2>6. b[Len(b)] = parent /\ Len(b) # 0 /\ r.ancestors = b
  BY <2>1, <2>2, <2>3, <2>4
<2> HIDE DEF a
<2> QED
  BY <2>5, <2>6 DEF TruePath
<1> QED
  BY <1>1, <1>2

-----------------------------------------------------------------------------
(* What the steps do to departments.                                       *)

\* A request begins on a department, or something happens elsewhere.
Takes(p) ==
  /\ row' = row
  /\ \E r : /\ slot' = [slot EXCEPT ![p] = r] /\ Typed(r) /\ r.id \in Dept /\ Bears(r)
            /\ row[r.id] = NoRow => \A q \in Slot : ~At(q, "idle") => slot[q].id # r.id

Elsewhere(p) ==
  /\ \E r : slot' = [slot EXCEPT ![p] = r] /\ (r.stage # "idle" => r.id \notin Dept)
  /\ \A d \in Dept : row'[d] = row[d]

LEMMA UserElsewhere ==
  ASSUME TInv, NEW p \in Slot, UserNext(p)
  PROVE  Elsewhere(p)
<1>0. \A u \in Person : u \notin Dept
  OBVIOUS
<1>1. ASSUME NEW u \in Person, NEW op, NEW new, Load(p, op, u, new), row' = row
      PROVE  Elsewhere(p)
<2> DEFINE r == [stage |-> "save", op |-> op, id |-> u, loaded |-> row[u],
                 base |-> row[u], new |-> new]
<2>1. slot' = [slot EXCEPT ![p] = r] /\ r.id = u
  BY <1>1 DEF Load
<2> HIDE DEF r
<2> QED
  BY <1>0, <1>1, <2>1 DEF Elsewhere
<1>2. ASSUME NEW u \in Person, NEW op, NEW new, Add(p, op, u, new), row' = row
      PROVE  Elsewhere(p)
<2> DEFINE r == [stage |-> "commit", op |-> op, id |-> u, loaded |-> NoRow,
                 base |-> NoRow, new |-> new]
<2>1. slot' = [slot EXCEPT ![p] = r] /\ r.id = u
  BY <1>2 DEF Add
<2> HIDE DEF r
<2> QED
  BY <1>0, <1>2, <2>1 DEF Elsewhere
<1>3. ASSUME NEW u \in Person, NEW op, Fetched(p, op, u), row' = row
      PROVE  Elsewhere(p)
<2> DEFINE r == [stage |-> "set", op |-> op, id |-> u, loaded |-> row[u],
                 base |-> row[u], new |-> row[u]]
<2>1. slot' = [slot EXCEPT ![p] = r] /\ r.id = u
  BY <1>3 DEF Fetched
<2> HIDE DEF r
<2> QED
  BY <1>0, <1>3, <2>1 DEF Elsewhere
<1>4. ASSUME End(p), row' = row PROVE Elsewhere(p)
<2>1. slot' = [slot EXCEPT ![p] = Idle] /\ Idle.stage = "idle"
  BY <1>4 DEF End, Idle
<2> QED
  BY <1>4, <2>1 DEF Elsewhere
<1>5. CASE CreateUser(p) \/ CreateRegistrationProfile(p)
  BY <1>2, <1>5 DEF CreateUser, CreateRegistrationProfile, CreateUserService,
                    CreateRegistrationProfileService
<1>6. CASE UpdateUser(p) \/ ActivateUser(p) \/ DeleteUser(p)
  BY <1>1, <1>6 DEF UpdateUser, ActivateUser, DeleteUser, UpdateUserProfileService,
                    ActivateUserService, DeleteUserService
<1>7. CASE EnableUser(p) \/ DisableUser(p)
  BY <1>1, <1>7 DEF EnableUser, DisableUser, ChangeStatus
<1>8. CASE UpdateUserAdmin(p)
  BY <1>1, <1>8 DEF UpdateUserAdmin, UpdateUserAdminService
<1>9. CASE GetUser(p) \/ GetUserByEmail(p)
  BY <1>3, <1>9 DEF GetUser, GetUserService, GetUserByEmail, GetUserByEmailService
<1>10. CASE SaveUser(p)
<2>1. At(p, "save") /\ slot[p].id \in Person /\ row' = row /\ (End(p) \/ Save(p))
  BY <1>10 DEF SaveUser
<2>2. CASE Save(p)
<3> PICK base : slot' = [slot EXCEPT ![p].stage = "commit", ![p].base = base]
  BY <2>2 DEF Save
<3>1. DOMAIN slot[p] = Fields
  BY <2>1 DEF TInv, Requests, Typed, At, Idle
<3>2. PICK r : r = [slot[p] EXCEPT !.stage = "commit", !.base = base]
  OBVIOUS
<3>3. slot' = [slot EXCEPT ![p] = r] /\ r.id = slot[p].id
  BY <3>1, <3>2 DEF Fields
<3> QED
  BY <1>0, <2>1, <3>3 DEF Elsewhere
<2> QED
  BY <1>4, <2>1, <2>2
<1>11. CASE CommitUser(p)
<2>1. /\ At(p, "commit") /\ slot[p].id \in Person
      /\ (End(p) /\ row' = row) \/ \E w : \E stage \in {"set", "drop"} : Commit(p, w, stage)
  BY <1>11 DEF CommitUser
<2>2. ASSUME NEW w, NEW stage \in {"set", "drop"}, Commit(p, w, stage)
      PROVE  Elsewhere(p)
<3>1. DOMAIN slot[p] = Fields
  BY <2>1 DEF TInv, Requests, Typed, At, Idle
<3>2. PICK r : r = [slot[p] EXCEPT !.stage = stage]
  OBVIOUS
<3>3. slot' = [slot EXCEPT ![p] = r] /\ r.id = slot[p].id
  BY <2>2, <3>1, <3>2 DEF Fields, Commit
<3>4. \A d \in Dept : row'[d] = row[d]
  BY <1>0, <2>1, <2>2 DEF Commit, TInv, Rows, Id
<3> QED
  BY <1>0, <2>1, <3>3, <3>4 DEF Elsewhere
<2> QED
  BY <1>4, <2>1, <2>2
<1>12. CASE SetCache(p) \/ DeleteCache(p)
  BY <1>4, <1>12 DEF SetCache, DeleteCache
<1> QED
  BY <1>5, <1>6, <1>7, <1>8, <1>9, <1>10, <1>11, <1>12 DEF UserNext

LEMMA DirectoryTakes ==
  ASSUME PathInv, NEW p \in Slot, DirectoryNext(p)
  PROVE  Takes(p) \/ Elsewhere(p) \/ SaveRow(p) \/ CommitRow(p)
<1>0. TInv /\ \A x \in Role \cup Tenant : x \notin Dept
  BY DEF PathInv
<1>b. ASSUME Begins(p), NEW d \in Dept, NEW r, slot' = [slot EXCEPT ![p] = r], r.id = d,
             Bears(r), row[d] = NoRow => \A q \in Slot : ~At(q, "idle") => slot[q].id # d,
             r.stage # "idle"
      PROVE  Takes(p)
<2> PICK s : slot' = [slot EXCEPT ![p] = s] /\ Typed(s)
  BY <1>b DEF Begins
<2>1. s = r
  BY <1>b, <1>0 DEF TInv, Rows
<2>2. row' = row /\ Typed(r)
  BY <1>b, <2>1 DEF Begins
<2> QED
  BY <1>b, <2>2 DEF Takes
<1>e. ASSUME NEW r, slot' = [slot EXCEPT ![p] = r], r.stage # "idle" => r.id \notin Dept, row' = row
      PROVE  Elsewhere(p)
  BY <1>e DEF Elsewhere
<1>1. CASE CreateDepartment(p)
<2> PICK d \in Dept, parent \in Live(Dept) \cup {Null}, t \in Tenant :
           CreateDepartmentService(p, d, parent, t)
  BY <1>1 DEF CreateDepartment
<2> DEFINE new == [deleted |-> FALSE, tenant |-> t, parent |-> parent,
                   ancestors |-> ChildPath(parent)]
           r == [stage |-> "commit", op |-> "create_department", id |-> d, loaded |-> NoRow,
                 base |-> NoRow, new |-> new]
<2>1. TruePath(new)
<3>1. new.parent = parent /\ new.ancestors = ChildPath(parent)
  OBVIOUS
<3> HIDE DEF new
<3> QED
  BY <3>1, ChildPathTrue
<2>2. Add(p, "create_department", d, new) /\ UNCHANGED <<env, row, copy>>
  BY <1>1 DEF CreateDepartment, CreateDepartmentService
<2>3. Begins(p)
<3>1. new \in Department
  BY PathType, <1>0 DEF Department
<3>2. d \notin Person
  OBVIOUS
<3> HIDE DEF new
<3> QED
  BY <1>0, <2>2, <3>1, <3>2, RowTypes, AddBegins
<2> HIDE DEF new
<2>4. /\ slot' = [slot EXCEPT ![p] = r] /\ row[d] = NoRow
      /\ \A q \in Slot : ~At(q, "idle") => slot[q].id # d
  BY <2>2 DEF Add
<2>5. Bears(r) /\ r.id = d /\ r.stage # "idle"
  BY <2>1, <2>4 DEF Bears
<2> HIDE DEF r
<2> QED
  BY <1>b, <2>3, <2>4, <2>5
<1>2. CASE UpdateDepartment(p)
<2> PICK d \in Dept : Load(p, "update_department", d, row[d])
  BY <1>2 DEF UpdateDepartment, UpdateDepartmentService
<2> DEFINE r == [stage |-> "save", op |-> "update_department", id |-> d, loaded |-> row[d],
                 base |-> row[d], new |-> row[d]]
<2>1. row[d] # NoRow /\ slot' = [slot EXCEPT ![p] = r] /\ UNCHANGED <<env, row, copy>>
  BY <1>2 DEF Load, GetById, UpdateDepartment
<2>2. Begins(p)
<3>1. row[d] \in RowOf(d) /\ d \in Id /\ d \notin Person
  BY <1>0, <2>1 DEF TInv, Rows, Id
<3> QED
  BY <1>0, <2>1, <3>1, LoadBegins
<2>3. Bears(r) /\ r.id = d /\ r.stage # "idle"
  BY <2>1 DEF Bears, SamePath
<2> HIDE DEF r
<2> QED
  BY <1>b, <2>1, <2>2, <2>3
<1>3. CASE DeleteDepartment(p)
<2> PICK d \in Dept : Mark(p, "delete_department", d)
  BY <1>3 DEF DeleteDepartment, DeleteDepartmentService
<2> DEFINE new == [row[d] EXCEPT !.deleted = TRUE]
           r == [stage |-> "commit", op |-> "delete_department", id |-> d, loaded |-> row[d],
                 base |-> row[d], new |-> new]
<2>1. row[d] # NoRow /\ slot' = [slot EXCEPT ![p] = r] /\ UNCHANGED <<env, row, copy>>
  BY <1>3 DEF Mark, GetById, DeleteDepartment
<2>2. Begins(p)
  BY <1>0, <2>1, MarkBegins
<2>3. SamePath(new, row[d])
<3>1. row[d] \in Department
  BY <2>1, PathFacts
<3> QED
  BY <3>1 DEF Department, SamePath
<2> HIDE DEF new
<2>4. Bears(r) /\ r.id = d /\ r.stage # "idle"
  BY <2>1, <2>3 DEF Bears, SamePath
<2> HIDE DEF r
<2> QED
  BY <1>b, <2>1, <2>2, <2>4
<1>4. CASE CreateRole(p)
<2> PICK r \in Role, t \in Tenant, k \in RoleKey, s \in DataScope : CreateRoleService(p, r, t, k, s)
  BY <1>4 DEF CreateRole
<2> QED
  BY <1>0, <1>4, <1>e DEF CreateRole, CreateRoleService, Add
<1>5. CASE UpdateRole(p)
  BY <1>0, <1>5, <1>e DEF UpdateRole, UpdateRoleService, Load
<1>6. CASE DeleteRole(p)
  BY <1>0, <1>6, <1>e DEF DeleteRole, DeleteRoleService, Mark
<1>7. CASE CreateTenant(p)
  BY <1>0, <1>7, <1>e DEF CreateTenant, CreateTenantService
<1>8. CASE UpdateTenant(p)
  BY <1>0, <1>8, <1>e DEF UpdateTenant, UpdateTenantService, Load
<1>9. CASE DeleteTenant(p)
  BY <1>0, <1>9, <1>e DEF DeleteTenant, DeleteTenantService
<1>10. CASE Fails(p) \/ Dies(p)
  BY <1>10, <1>e DEF Fails, Dies, End, Idle
<1> QED
  BY <1>1, <1>2, <1>3, <1>4, <1>5, <1>6, <1>7, <1>8, <1>9, <1>10 DEF DirectoryNext

-----------------------------------------------------------------------------
(* Every step keeps the invariant.                                         *)

LEMMA SamePathTrue ==
  ASSUME NEW s, NEW r, TruePath(s), SamePath(r, s)
  PROVE  TruePath(r)
<1> PICK a, b : a = s.ancestors /\ b = s.parent
  OBVIOUS
<1>1. /\ b = IF Len(a) = 0 THEN Null ELSE a[Len(a)]
      /\ \A i \in 1 .. Len(a) :
           /\ row[a[i]] # NoRow /\ Len(row[a[i]].ancestors) = i - 1
           /\ \A j \in 1 .. i - 1 : row[a[i]].ancestors[j] = a[j]
  BY DEF TruePath
<1>2. r.ancestors = a /\ r.parent = b
  BY DEF SamePath
<1> QED
  BY <1>1, <1>2 DEF TruePath

\* Rows that are there keep their path, those that are put in have a true one.
LEMMA PathsLast ==
  ASSUME PathInv, TInv',
         \A d \in Dept : \/ row'[d] = row[d]
                         \/ row[d] # NoRow /\ row'[d] # NoRow /\ SamePath(row'[d], row[d])
                         \/ row[d] = NoRow /\ TruePath(row'[d])
  PROVE  /\ \A d \in Dept : row[d] # NoRow => row'[d] # NoRow /\ SamePath(row'[d], row[d])
         /\ \A r : (r.ancestors \in Seq(Dept) /\ TruePath(r)) => TruePath(r)'
         /\ \A d \in Dept : row'[d] # NoRow => TruePath(row[d])'
<1>1. \A d \in Dept : row[d] # NoRow => row'[d] # NoRow /\ SamePath(row'[d], row[d])
  BY DEF SamePath
<1>2. ASSUME NEW r, r.ancestors \in Seq(Dept), TruePath(r)
      PROVE  TruePath(r)'
<2>1. /\ r.parent = (IF Len(r.ancestors) = 0 THEN Null ELSE r.ancestors[Len(r.ancestors)])
      /\ \A i \in 1 .. Len(r.ancestors) :
           /\ row'[r.ancestors[i]] # NoRow /\ Len(row'[r.ancestors[i]].ancestors) = i - 1
           /\ \A j \in 1 .. i - 1 : row'[r.ancestors[i]].ancestors[j] = r.ancestors[j]
  BY <1>1, <1>2, TruePathLasts
<2> QED
  BY <2>1 DEF TruePath
<1>3. ASSUME NEW d \in Dept, row'[d] # NoRow
      PROVE  TruePath(row[d])'
<2> PICK r : r = row'[d]
  OBVIOUS
<2>1. r.ancestors \in Seq(Dept)
<3>1. r \in Department
  BY <1>3, RowTypes DEF TInv, Rows
<3> QED
  BY <3>1 DEF Department
<2>2. TruePath(r)
<3>1. CASE row[d] # NoRow
<4>1. TruePath(row[d]) /\ SamePath(r, row[d])
  BY <1>1, <3>1 DEF PathInv
<4> QED
  BY <4>1, SamePathTrue
<3>2. CASE row[d] = NoRow
  BY <1>3, <3>2
<3> QED
  BY <3>1, <3>2
<2>3. TruePath(r)'
  BY <1>2, <2>1, <2>2
<2> QED
  BY <2>3, SMTT(20) DEF TruePath
<1> QED
  BY <1>1, <1>2, <1>3

LEMMA BearsNext ==
  ASSUME NEW q \in Slot, NEW r, slot'[q] = r, Bears(r)'
  PROVE  Bears(slot[q])'
  BY DEF Bears, SamePath, TruePath

\* A request that is not the one that moves bears what it bore.
LEMMA BearsLasts ==
  ASSUME PathInv, NEW q \in Slot,
         \A d \in Dept : row[d] # NoRow => row'[d] # NoRow /\ SamePath(row'[d], row[d]),
         \A r : (r.ancestors \in Seq(Dept) /\ TruePath(r)) => TruePath(r)',
         (~At(q, "idle") /\ slot[q].id \in Dept /\ row[slot[q].id] = NoRow) => row'[slot[q].id] = NoRow,
         slot'[q] = slot[q]
  PROVE  Bears(slot[q])'
<1> SUFFICES ASSUME slot[q].stage # "idle", slot[q].id \in Dept
             PROVE  Bears(slot[q])'
  BY DEF Bears
<1> PICK r : r = slot[q]
  OBVIOUS
<1>1. Typed(r) /\ Bears(r)
  BY DEF PathInv, TInv, Requests, Idle
<1>2. r.new.ancestors \in Seq(Dept)
<2>1. r.new \in Department
  BY <1>1, RowTypes DEF Typed
<2> QED
  BY <2>1 DEF Department
<1>3. row'[r.id] = NoRow => TruePath(r.new)'
  BY <1>1, <1>2 DEF Bears
<1>4. row'[r.id] # NoRow => SamePath(r.new, row'[r.id])
  BY <1>1 DEF Bears, SamePath, At
<1>5. /\ r.loaded # NoRow => SamePath(r.loaded, row'[r.id])
      /\ r.base # NoRow => SamePath(r.base, row'[r.id])
  BY <1>1 DEF Bears, SamePath, Typed
<1>6. Bears(r)'
  BY <1>3, <1>4, <1>5 DEF Bears, SamePath
<1> QED
  BY <1>6, BearsNext

\* What a commit makes of the row of a department.
LEMMA WrittenPath ==
  ASSUME PathInv, NEW p \in Slot, At(p, "commit"), slot[p].id \in Dept
  PROVE  /\ row[slot[p].id] # NoRow => SamePath(Written(p), row[slot[p].id])
         /\ row[slot[p].id] = NoRow => TruePath(Written(p))
         /\ Written(p) # NoRow
<1> PICK r : r = slot[p]
  OBVIOUS
<1>0. Typed(r) /\ Bears(r) /\ r.stage # "idle"
  BY DEF PathInv, TInv, Requests, Idle, At
<1>1. Written(p) # NoRow
<2>1. Written(p) \in RowOf(slot[p].id)
  BY WrittenType DEF PathInv
<2> QED
  BY <1>0, <2>1, RowTypes DEF Typed
<1>2. CASE r.base = NoRow
<2>1. Written(p) = r.new
  BY <1>2 DEF Written
<2> QED
  BY <1>0, <1>1, <2>1 DEF Bears
<1>3. CASE r.base # NoRow
<2>1. row[r.id] # NoRow /\ SamePath(r.base, row[r.id]) /\ SamePath(r.new, row[r.id])
  BY <1>0, <1>3 DEF Bears, Typed
<2>2. r.new \in Department
  BY <1>0, RowTypes DEF Typed
<2>3. {"parent", "ancestors"} \subseteq DOMAIN r.new
  BY <2>2 DEF Department
<2>4. PICK w : w = [f \in DOMAIN r.new |-> IF r.new[f] # r.base[f] THEN r.new[f] ELSE row[r.id][f]]
  OBVIOUS
<2>5. Written(p) = w
  BY <1>3, <2>4 DEF Written
<2>6. w.parent = row[r.id].parent /\ w.ancestors = row[r.id].ancestors
  BY <2>1, <2>3, <2>4 DEF SamePath
<2> QED
  BY <1>1, <2>1, <2>5, <2>6 DEF SamePath
<1> QED
  BY <1>2, <1>3

\* One request moves and no row of a department changes.
LEMMA MovesPath ==
  ASSUME PathInv, TInv', NEW p \in Slot, NEW r, slot' = [slot EXCEPT ![p] = r],
         \A d \in Dept : row'[d] = row[d],
         Bears(r),
         (r.stage # "idle" /\ r.id \in Dept /\ row[r.id] = NoRow) =>
           \A q \in Slot \ {p} : ~At(q, "idle") => slot[q].id # r.id
  PROVE  PathInv'
<1>1. \A q \in Slot : slot'[q] = IF q = p THEN r ELSE slot[q]
  BY DEF PathInv, TInv, Rows
<1>2. /\ \A d \in Dept : row[d] # NoRow => row'[d] # NoRow /\ SamePath(row'[d], row[d])
      /\ \A s : (s.ancestors \in Seq(Dept) /\ TruePath(s)) => TruePath(s)'
      /\ \A d \in Dept : row'[d] # NoRow => TruePath(row[d])'
  BY PathsLast
<1>3. ASSUME NEW q \in Slot
      PROVE  Bears(slot[q])'
<2>1. CASE q # p
  BY <1>1, <1>2, <2>1, BearsLasts
<2>2. CASE q = p /\ r.stage # "idle" /\ r.id \in Dept
<3>1. r = Idle \/ Typed(r)'
  BY <1>1, <2>2 DEF TInv, Requests, Typed
<3>2. r.new.ancestors \in Seq(Dept)
<4>1. r.new \in Department
  BY <2>2, <3>1, RowTypes DEF Typed, Idle
<4> QED
  BY <4>1 DEF Department
<3>3. Bears(r)'
  BY <1>2, <2>2, <3>2 DEF Bears, SamePath
<3>4. slot'[q] = r
  BY <1>1, <2>2
<3> QED
  BY <3>3, <3>4, BearsNext
<2>3. CASE q = p /\ ~(r.stage # "idle" /\ r.id \in Dept)
  BY <1>1, <2>3 DEF Bears
<2> QED
  BY <2>1, <2>2, <2>3
<1>4. ASSUME NEW q \in Slot
      PROVE  Alone(q)'
<2> SUFFICES ASSUME slot'[q].stage # "idle", slot'[q].id \in Dept, row'[slot'[q].id] = NoRow,
                    NEW o \in Slot \ {q}, slot'[o].stage # "idle"
             PROVE  slot'[o].id # slot'[q].id
  BY DEF Alone, At
<2>1. row[slot'[q].id] = NoRow
  OBVIOUS
<2>2. CASE q = p
  BY <1>1, <2>1, <2>2 DEF At
<2>3. CASE o = p
  BY <1>1, <2>1, <2>3 DEF At
<2>4. CASE q # p /\ o # p
  BY <1>1, <2>1, <2>4 DEF PathInv, Alone, At
<2> QED
  BY <2>2, <2>3, <2>4
<1> QED
  BY <1>2, <1>3, <1>4 DEF PathInv

LEMMA SaveRowPath ==
  ASSUME PathInv, TInv', NEW p \in Slot, SaveRow(p)
  PROVE  PathInv'
<1> PICK base \in {slot[p].loaded, row[slot[p].id]} :
         slot' = [slot EXCEPT ![p].stage = "commit", ![p].base = base]
  BY DEF SaveRow, Save
<1>1. row' = row /\ Typed(slot[p]) /\ slot[p].stage = "save"
  BY DEF SaveRow, Save, PathInv, TInv, Requests, At, Idle
<1>2. PICK r : r = [slot[p] EXCEPT !.stage = "commit", !.base = base]
  OBVIOUS
<1>3. /\ slot' = [slot EXCEPT ![p] = r]
      /\ r.stage = "commit" /\ r.base = base
      /\ r.id = slot[p].id /\ r.new = slot[p].new /\ r.loaded = slot[p].loaded
  BY <1>1, <1>2 DEF Typed, Fields
<1>4. Bears(r)
<2>1. Bears(slot[p]) /\ row[slot[p].id] # NoRow
  BY <1>1 DEF PathInv, Typed
<2> QED
  BY <1>1, <1>3, <2>1 DEF Bears, SamePath
<1>5. (r.id \in Dept /\ row[r.id] = NoRow) => \A q \in Slot \ {p} : ~At(q, "idle") => slot[q].id # r.id
  BY <1>1, <1>3 DEF Typed
<1> QED
  BY <1>1, <1>3, <1>4, <1>5, MovesPath

LEMMA CommitRowPath ==
  ASSUME PathInv, TInv', NEW p \in Slot, CommitRow(p)
  PROVE  PathInv'
<1>1. /\ At(p, "commit") /\ Typed(slot[p])
      /\ slot' = [slot EXCEPT ![p] = Idle] /\ row' = [row EXCEPT ![slot[p].id] = Written(p)]
  BY DEF CommitRow, Commit, PathInv, TInv, Requests, At, Idle
<1>2. PICK w : w = Written(p)
  OBVIOUS
<1>3. \A x \in Id : row'[x] = IF x = slot[p].id THEN w ELSE row[x]
  BY <1>1, <1>2 DEF PathInv, TInv, Rows
<1>4. \A q \in Slot : slot'[q] = IF q = p THEN Idle ELSE slot[q]
  BY <1>1 DEF PathInv, TInv, Rows
<1>5. CASE slot[p].id \notin Dept
<2>1. \A d \in Dept : row'[d] = row[d]
  BY <1>3, <1>5 DEF Id
<2>2. Bears(Idle) /\ Idle.stage = "idle"
  BY DEF Bears, Idle
<2> QED
  BY <1>1, <2>1, <2>2, MovesPath
<1>6. CASE slot[p].id \in Dept
<2>1. /\ row[slot[p].id] # NoRow => SamePath(w, row[slot[p].id])
      /\ row[slot[p].id] = NoRow => TruePath(w)
      /\ w # NoRow
  BY <1>1, <1>2, <1>6, WrittenPath
<2>2. \A d \in Dept : \/ row'[d] = row[d]
                      \/ row[d] # NoRow /\ row'[d] # NoRow /\ SamePath(row'[d], row[d])
                      \/ row[d] = NoRow /\ TruePath(row'[d])
  BY <1>3, <2>1 DEF Id
<2>3. /\ \A d \in Dept : row[d] # NoRow => row'[d] # NoRow /\ SamePath(row'[d], row[d])
      /\ \A r : (r.ancestors \in Seq(Dept) /\ TruePath(r)) => TruePath(r)'
      /\ \A d \in Dept : row'[d] # NoRow => TruePath(row[d])'
  BY <2>2, PathsLast
<2>4. ASSUME NEW q \in Slot
      PROVE  Bears(slot[q])'
<3>1. CASE q = p
  BY <1>4, <3>1 DEF Bears, Idle
<3>2. CASE q # p
<4>1. (~At(q, "idle") /\ slot[q].id \in Dept /\ row[slot[q].id] = NoRow) => row'[slot[q].id] = NoRow
<5> SUFFICES ASSUME ~At(q, "idle"), slot[q].id \in Dept, row[slot[q].id] = NoRow
             PROVE  slot[q].id # slot[p].id
  BY <1>3 DEF Id
<5>1. Alone(q) /\ ~At(p, "idle")
  BY <1>1 DEF PathInv, At
<5> QED
  BY <3>2, <5>1 DEF Alone
<4> QED
  BY <1>4, <2>3, <3>2, <4>1, BearsLasts
<3> QED
  BY <3>1, <3>2
<2>5. ASSUME NEW q \in Slot
      PROVE  Alone(q)'
<3> SUFFICES ASSUME slot'[q].stage # "idle", slot'[q].id \in Dept, row'[slot'[q].id] = NoRow,
                    NEW o \in Slot \ {q}, slot'[o].stage # "idle"
             PROVE  slot'[o].id # slot'[q].id
  BY DEF Alone, At
<3>1. q # p /\ o # p /\ Idle.stage = "idle"
  BY <1>4 DEF Idle
<3>2. row[slot[q].id] = NoRow
  BY <1>3, <1>4, <2>1, <3>1 DEF Id
<3> QED
  BY <1>4, <3>1, <3>2 DEF PathInv, Alone, At
<2> QED
  BY <2>3, <2>4, <2>5 DEF PathInv
<1> QED
  BY <1>5, <1>6

LEMMA PathStep == PathInv /\ [Next]_vars => PathInv'
<1> SUFFICES ASSUME PathInv, [Next]_vars PROVE PathInv'
  OBVIOUS
<1>0. TInv /\ TInv'
  BY TInvStep DEF PathInv
<1>1. ASSUME NEW p \in Slot, Takes(p) PROVE PathInv'
<2> PICK r : /\ slot' = [slot EXCEPT ![p] = r] /\ Typed(r) /\ r.id \in Dept /\ Bears(r)
             /\ row[r.id] = NoRow => \A q \in Slot : ~At(q, "idle") => slot[q].id # r.id
  BY <1>1 DEF Takes
<2> QED
  BY <1>0, <1>1, MovesPath DEF Takes
<1>2. ASSUME NEW p \in Slot, Elsewhere(p) PROVE PathInv'
<2> PICK r : slot' = [slot EXCEPT ![p] = r] /\ (r.stage # "idle" => r.id \notin Dept)
  BY <1>2 DEF Elsewhere
<2>1. Bears(r)
  BY DEF Bears
<2> QED
  BY <1>0, <1>2, <2>1, MovesPath DEF Elsewhere
<1>3. CASE UNCHANGED <<row, slot>>
<2>1. row' = row /\ slot' = slot
  BY <1>3
<2>2. /\ \A d \in Dept : row[d] # NoRow => row'[d] # NoRow /\ SamePath(row'[d], row[d])
      /\ \A r : (r.ancestors \in Seq(Dept) /\ TruePath(r)) => TruePath(r)'
      /\ \A d \in Dept : row'[d] # NoRow => TruePath(row[d])'
  BY <1>0, <2>1, PathsLast
<2>3. \A p \in Slot : Bears(slot[p])'
  BY <2>1, <2>2, BearsLasts
<2>4. \A p \in Slot : Alone(p)'
  BY <2>1 DEF PathInv, Alone, At
<2> QED
  BY <1>0, <2>2, <2>3, <2>4 DEF PathInv
<1> QED
  BY <1>0, <1>1, <1>2, <1>3, UserElsewhere, DirectoryTakes, SaveRowPath, CommitRowPath
     DEF Next, Expire, vars

LEMMA InitPath == Init => PathInv
<1> SUFFICES ASSUME Init PROVE PathInv
  OBVIOUS
<1>1. \A p \in Slot : slot[p] = Idle /\ Idle.stage = "idle"
  BY DEF Init, Idle
<1>2. \A d \in Dept : row[d] = NoRow
<2> DEFINE u == CHOOSE v \in Person : TRUE
<2>1. u \in Person
  BY DirectoryAssumption
<2> HIDE DEF u
<2>2. \A x \in Id : row[x] = IF x \in Tenant THEN [deleted |-> FALSE, status |-> "active"]
                            ELSE IF x = u THEN CreateDomain(Null, "active", Null) ELSE NoRow
  BY DEF Init, u
<2> QED
  BY <2>1, <2>2 DEF Id
<1> QED
  BY <1>1, <1>2, InitTInv DEF PathInv, Bears, Alone, At

-----------------------------------------------------------------------------
(* The departments above one, by the column parent, are those on its path. *)

LEMMA Chain ==
  ASSUME PathInv, NEW d \in Dept, row[d] # NoRow, NEW a, a = row[d].ancestors
  PROVE  /\ a \in Seq(Dept) /\ Len(a) \in Nat
         /\ row[d].parent = IF Len(a) = 0 THEN Null ELSE a[Len(a)]
         /\ \A i \in 1 .. Len(a) :
              /\ a[i] \in Dept /\ row[a[i]] # NoRow /\ Len(row[a[i]].ancestors) = i - 1
              /\ row[a[i]].parent = IF i = 1 THEN Null ELSE a[i - 1]
              /\ \A j \in 1 .. i - 1 : row[a[i]].ancestors[j] = a[j]
         /\ \A i, j \in 1 .. Len(a) : a[i] = a[j] => i = j
         /\ \A i \in 1 .. Len(a) : a[i] # d
<1>1. a \in Seq(Dept) /\ Len(a) \in Nat /\ TruePath(row[d]) /\ \A i \in 1 .. Len(a) : a[i] \in Dept
  BY PathFacts
<1>2. ASSUME NEW i \in 1 .. Len(a)
      PROVE  /\ row[a[i]] # NoRow /\ Len(row[a[i]].ancestors) = i - 1
             /\ \A j \in 1 .. i - 1 : row[a[i]].ancestors[j] = a[j]
  BY <1>1 DEF TruePath
<1>3. ASSUME NEW i \in 1 .. Len(a)
      PROVE  row[a[i]].parent = IF i = 1 THEN Null ELSE a[i - 1]
<2>1. PICK c \in Dept : c = a[i]
  BY <1>1
<2>2. row[c].parent = IF Len(row[c].ancestors) = 0 THEN Null ELSE row[c].ancestors[Len(row[c].ancestors)]
  BY <1>2, <2>1, PathFacts DEF TruePath
<2>3. i = 1 \/ i - 1 \in 1 .. i - 1
  BY <1>1
<2> QED
  BY <1>1, <1>2, <2>1, <2>2, <2>3, SMTT(20)
<1>4. \A i, j \in 1 .. Len(a) : a[i] = a[j] => i = j
  BY <1>1, <1>2
<1>5. \A i \in 1 .. Len(a) : a[i] # d
  BY <1>1, <1>2
<1> QED
  BY <1>1, <1>2, <1>3, <1>4, <1>5 DEF TruePath

\* A path names as many departments as it is long, and no more than there are.
LEMMA PathLength ==
  ASSUME PathInv, NEW d \in Dept, row[d] # NoRow, NEW a, a = row[d].ancestors
  PROVE  /\ Cardinality(Dept) \in Nat /\ Len(a) <= Cardinality(Dept)
         /\ Cardinality({a[i] : i \in 1 .. Len(a)}) = Len(a)
<1> DEFINE S == {a[i] : i \in 1 .. Len(a)}
           f == [i \in 1 .. Len(a) |-> a[i]]
<1>1. /\ Len(a) \in Nat /\ \A i \in 1 .. Len(a) : a[i] \in Dept
      /\ \A i, j \in 1 .. Len(a) : a[i] = a[j] => i = j
  BY Chain
<1>2. f \in Bijection(1 .. Len(a), S)
  BY <1>1 DEF Bijection, Injection, Surjection, IsInjective
<1>3. Cardinality(S) = Len(a)
<2> HIDE DEF f, S
<2> QED
  BY <1>1, <1>2, FS_CountingElements DEF ExistsBijection
<1>4. IsFiniteSet(Dept) /\ S \in SUBSET Dept
  BY <1>1, DirectoryAssumption
<1>5. Cardinality(S) <= Cardinality(Dept) /\ Cardinality(Dept) \in Nat
<2> HIDE DEF S
<2> QED
  BY <1>4, FS_Subset, FS_CardinalityType
<1> QED
  BY <1>3, <1>5

LEMMA AboveIsPath ==
  ASSUME PathInv, NEW d \in Dept, row[d] # NoRow, NEW a, a = row[d].ancestors
  PROVE  Above(d) = {a[i] : i \in 1 .. Len(a)}
<1> DEFINE Part(n) == {a[i] : i \in {j \in 1 .. Len(a) : j > Len(a) - n}}
           Next1(S) == {row[c].parent : c \in S \cup {d}} \ {Null}
<1>0. /\ Len(a) \in Nat /\ Null \notin Dept
      /\ row[d].parent = IF Len(a) = 0 THEN Null ELSE a[Len(a)]
      /\ \A i \in 1 .. Len(a) : a[i] \in Dept /\ row[a[i]].parent = IF i = 1 THEN Null ELSE a[i - 1]
  BY Chain DEF Id
<1>1. Part(0) = {}
  BY <1>0
<1>2. ASSUME NEW n \in Nat
      PROVE  Part(n + 1) = Next1(Part(n))
<2>1. ASSUME NEW x \in Part(n + 1)
      PROVE  x \in Next1(Part(n))
<3>1. PICK i \in 1 .. Len(a) : i > Len(a) - (n + 1) /\ x = a[i]
  BY <2>1
<3>2. x # Null
  BY <1>0, <3>1
<3>3. CASE i = Len(a)
  BY <1>0, <3>1, <3>2, <3>3
<3>4. CASE i # Len(a)
<4>1. i + 1 \in 1 .. Len(a) /\ i + 1 > Len(a) - n /\ i + 1 # 1 /\ (i + 1) - 1 = i
  BY <1>0, <3>1, <3>4
<4>2. a[i + 1] \in Part(n) /\ row[a[i + 1]].parent = x
  BY <1>0, <3>1, <4>1
<4> QED
  BY <3>2, <4>2
<3> QED
  BY <3>3, <3>4
<2>2. ASSUME NEW x \in Next1(Part(n))
      PROVE  x \in Part(n + 1)
<3>1. PICK c \in Part(n) \cup {d} : x = row[c].parent /\ x # Null
  BY <2>2
<3>2. CASE c = d
<4>1. Len(a) # 0 /\ x = a[Len(a)] /\ Len(a) \in 1 .. Len(a) /\ Len(a) > Len(a) - (n + 1)
  BY <1>0, <3>1, <3>2
<4> QED
  BY <4>1
<3>3. CASE c \in Part(n)
<4>1. PICK i \in 1 .. Len(a) : i > Len(a) - n /\ c = a[i]
  BY <3>3
<4>2. i # 1 /\ x = a[i - 1]
  BY <1>0, <3>1, <4>1
<4>3. i - 1 \in 1 .. Len(a) /\ i - 1 > Len(a) - (n + 1)
  BY <1>0, <4>1, <4>2
<4> QED
  BY <4>2, <4>3
<3> QED
  BY <3>1, <3>2, <3>3
<2> HIDE DEF Part, Next1
<2> QED
  BY <2>1, <2>2
<1> DEFINE g == [n \in Nat |-> Part(n)]
           up == CHOOSE f : f = [n \in Nat |->
                   IF n = 0 THEN {} ELSE {row[c].parent : c \in f[n - 1] \cup {d}} \ {Null}]
<1>3. Above(d) = UNION {up[n] : n \in 1 .. Cardinality(Dept)}
  BY DEF Above
<1> HIDE DEF Part
<1>4. g = [n \in Nat |-> IF n = 0 THEN {} ELSE {row[c].parent : c \in g[n - 1] \cup {d}} \ {Null}]
<2>1. ASSUME NEW n \in Nat
      PROVE  g[n] = IF n = 0 THEN {} ELSE {row[c].parent : c \in g[n - 1] \cup {d}} \ {Null}
<3>1. CASE n = 0
  BY <1>1, <3>1
<3>2. CASE n # 0
<4>1. n - 1 \in Nat /\ (n - 1) + 1 = n
  BY <3>2
<4>2. g[n] = Part((n - 1) + 1) /\ g[n - 1] = Part(n - 1)
  BY <4>1
<4>3. g[n] = Next1(g[n - 1])
  BY <1>2, <4>1, <4>2
<4> QED
  BY <3>2, <4>3
<3> QED
  BY <3>1, <3>2
<2>2. g = [n \in Nat |-> g[n]]
  OBVIOUS
<2> HIDE DEF g
<2> QED
  BY <2>1, <2>2
<1>5. up = [n \in Nat |-> IF n = 0 THEN {} ELSE {row[c].parent : c \in up[n - 1] \cup {d}} \ {Null}]
<2> HIDE DEF g
<2> QED
  BY <1>4
<1>6. \A n \in Nat : up[n] = Part(n)
<2> HIDE DEF up
<2> DEFINE T == {n \in Nat : up[n] = Part(n)}
<2>1. 0 \in T
  BY <1>1, <1>5
<2>2. ASSUME NEW n \in Nat, n \in T
      PROVE  n + 1 \in T
<3>1. n + 1 \in Nat /\ n + 1 # 0 /\ (n + 1) - 1 = n
  OBVIOUS
<3>2. PICK m, S : m = n + 1 /\ S = up[m - 1]
  OBVIOUS
<3>3. up[m] = {row[c].parent : c \in S \cup {d}} \ {Null}
  BY <1>5, <3>1, <3>2
<3>4. up[n + 1] = Next1(up[n])
  BY <3>1, <3>2, <3>3
<3>5. up[n] = Part(n)
  BY <2>2
<3> HIDE DEF Next1
<3>6. up[n + 1] = Part(n + 1)
  BY <1>2, <3>4, <3>5
<3> QED
  BY <3>6
<2>3. T \in SUBSET Nat
  OBVIOUS
<2> HIDE DEF T
<2>4. T = Nat
  BY <2>1, <2>2, <2>3, AllNumbers
<2> QED
  BY <2>4 DEF T
<1> HIDE DEF up
<1>7. Len(a) <= Cardinality(Dept) /\ Cardinality(Dept) \in Nat
  BY PathLength
<1>8. \A n \in Nat : Part(n) \subseteq {a[i] : i \in 1 .. Len(a)}
  BY DEF Part
<1>9. Part(Len(a)) = {a[i] : i \in 1 .. Len(a)}
<2>1. \A j \in 1 .. Len(a) : j > Len(a) - Len(a)
  BY <1>0
<2> QED
  BY <2>1 DEF Part
<1>10. Above(d) \subseteq {a[i] : i \in 1 .. Len(a)}
  BY <1>3, <1>6, <1>7, <1>8
<1>11. CASE Len(a) = 0
<2>1. {a[i] : i \in 1 .. Len(a)} = {}
  BY <1>11
<2> QED
  BY <1>10, <2>1
<1>12. CASE Len(a) # 0
<2>1. Len(a) \in 1 .. Cardinality(Dept) /\ up[Len(a)] = {a[i] : i \in 1 .. Len(a)}
  BY <1>0, <1>6, <1>7, <1>9, <1>12
<2> QED
  BY <1>3, <1>10, <2>1
<1> QED
  BY <1>11, <1>12

LEMMA PathsTrue == PathInv => PathsAreTrue
<1> SUFFICES ASSUME PathInv PROVE PathsAreTrue
  OBVIOUS
<1>1. ASSUME NEW d \in Live(Dept)
      PROVE  /\ d \in Dept /\ row[d] # NoRow
             /\ \A x : x \in Above(d) <=> \E i \in DOMAIN row[d].ancestors : row[d].ancestors[i] = x
             /\ Len(row[d].ancestors) = Cardinality(Above(d))
<2>1. d \in Dept /\ row[d] # NoRow
  BY DEF Live, GetById
<2> PICK a : a = row[d].ancestors
  OBVIOUS
<2>2. Above(d) = {a[i] : i \in 1 .. Len(a)}
  BY <2>1, AboveIsPath
<2>3. Cardinality({a[i] : i \in 1 .. Len(a)}) = Len(a)
  BY <2>1, PathLength
<2>4. DOMAIN a = 1 .. Len(a)
  BY <2>1, PathFacts
<2> QED
  BY <2>1, <2>2, <2>3, <2>4
<1>2. \A x \in Dept : GetDescendants(x) = {d \in Live(Dept) : x \in Above(d)}
  BY <1>1 DEF GetDescendants
<1> QED
  BY <1>1, <1>2 DEF PathsAreTrue

-----------------------------------------------------------------------------
(* Trees.  A department is shown at the level k when the k departments     *)
(* above it are listed and the one above those is not.                     *)

AtLevel(L, d, k) ==
  LET a == row[d].ancestors
  IN /\ k <= Len(a) /\ (k = Len(a) \/ a[Len(a) - k] \notin L)
     /\ \A i \in 1 .. k : a[Len(a) + 1 - i] \in L

LEMMA Shift == \A l, i \in Int : l + 1 - (i + 1) = l - i
  OBVIOUS

LEMMA Levels ==
  ASSUME PathInv, NEW L \in SUBSET Live(Dept), NEW d \in L, NEW a, a = row[d].ancestors,
         NEW n \in Nat
  PROVE  /\ AtLevel(L, d, 0) <=> row[d].parent \notin L
         /\ AtLevel(L, d, n + 1) <=> row[d].parent \in L /\ AtLevel(L, row[d].parent, n)
<1>1. d \in Dept /\ row[d] # NoRow /\ Null \notin L
  BY DEF Live, GetById, Id
<1>2. /\ Len(a) \in Nat /\ row[d].parent = IF Len(a) = 0 THEN Null ELSE a[Len(a)]
      /\ \A i \in 1 .. Len(a) : a[i] \in Dept /\ Len(row[a[i]].ancestors) = i - 1
      /\ \A i \in 1 .. Len(a) : \A j \in 1 .. i - 1 : row[a[i]].ancestors[j] = a[j]
<2>1. a \in Seq(Dept) /\ Len(a) \in Nat /\ row[d].parent = IF Len(a) = 0 THEN Null ELSE a[Len(a)]
  BY <1>1, Chain
<2>2. \A i \in 1 .. Len(a) : a[i] \in Dept /\ Len(row[a[i]].ancestors) = i - 1
  BY <1>1, Chain
<2>3. TruePath(row[d])
  BY <1>1, PathFacts
<2>4. \A i \in 1 .. Len(a) : \A j \in 1 .. i - 1 : row[a[i]].ancestors[j] = a[j]
  BY <2>3 DEF TruePath
<2> QED
  BY <2>1, <2>2, <2>4
<1>3. AtLevel(L, d, 0) <=> row[d].parent \notin L
  BY <1>1, <1>2 DEF AtLevel
<1>4. CASE Len(a) = 0
  BY <1>1, <1>2, <1>4 DEF AtLevel
<1>5. CASE Len(a) # 0
<2> PICK b, q, l : b = row[q].ancestors /\ q = row[d].parent /\ l = Len(a)
  OBVIOUS
<2>1. l \in Nat /\ l # 0 /\ l \in 1 .. Len(a)
  BY <1>2, <1>5
<2>2. q = a[l]
  BY <1>2, <2>1
<2>3. Len(b) = l - 1
  BY <1>2, <2>1, <2>2
<2>4. \A j \in 1 .. l - 1 : b[j] = a[j]
<3>1. \A j \in 1 .. l - 1 : row[a[l]].ancestors[j] = a[j]
  BY <1>2, <2>1, Zenon
<3> QED
  BY <2>2, <3>1
<2>5. AtLevel(L, q, n) <=> /\ n <= l - 1 /\ (n = l - 1 \/ b[(l - 1) - n] \notin L)
                           /\ \A i \in 1 .. n : b[(l - 1) + 1 - i] \in L
  BY <2>3 DEF AtLevel
<2>6. AtLevel(L, d, n + 1) <=> /\ n + 1 <= l /\ (n + 1 = l \/ a[l - (n + 1)] \notin L)
                               /\ \A i \in 1 .. n + 1 : a[l + 1 - i] \in L
  BY DEF AtLevel
<2>7. (n + 1 <= l <=> n <= l - 1) /\ (n + 1 = l <=> n = l - 1)
  BY <2>1
<2>8. CASE n <= l - 1
<3>1. /\ n # l - 1 => b[(l - 1) - n] = a[l - (n + 1)]
      /\ (\A i \in 1 .. n + 1 : a[l + 1 - i] \in L)
           <=> (a[l] \in L /\ \A i \in 1 .. n : b[(l - 1) + 1 - i] \in L)
<4>0. l \in Nat /\ l # 0 /\ n \in Nat /\ n <= l - 1 /\ \A j \in 1 .. l - 1 : b[j] = a[j]
  BY <2>1, <2>4, <2>8
<4>1. n # l - 1 => b[(l - 1) - n] = a[l - (n + 1)]
<5>1. (l - 1) - n = l - (n + 1) /\ (n # l - 1 => (l - 1) - n \in 1 .. l - 1)
  BY <4>0
<5> QED
  BY <4>0, <5>1
<4>2. ASSUME NEW i \in 1 .. n
      PROVE  b[(l - 1) + 1 - i] = a[l - i]
<5>1. (l - 1) + 1 - i = l - i /\ l - i \in 1 .. l - 1
  BY <4>0
<5> QED
  BY <4>0, <5>1
<4>3. ASSUME \A i \in 1 .. n + 1 : a[l + 1 - i] \in L
      PROVE  a[l] \in L /\ \A i \in 1 .. n : b[(l - 1) + 1 - i] \in L
<5>1. 1 \in 1 .. n + 1 /\ l + 1 - 1 = l
  BY <4>0
<5>2. a[l] \in L
  BY <4>3, <5>1
<5>3. ASSUME NEW i \in 1 .. n PROVE a[l - i] \in L
<6>1. PICK m \in 1 .. n + 1 : a[l + 1 - m] = a[l - i]
<7>1. i + 1 \in 1 .. n + 1 /\ l \in Int /\ i \in Int
  BY <2>1
<7>2. l + 1 - (i + 1) = l - i
  BY <7>1, Shift, Zenon
<7> QED
  BY <7>1, <7>2, Zenon
<6> QED
  BY <4>3, <6>1
<5> QED
  BY <4>2, <5>2, <5>3
<4>4. ASSUME a[l] \in L, \A i \in 1 .. n : b[(l - 1) + 1 - i] \in L, NEW i \in 1 .. n + 1
      PROVE  a[l + 1 - i] \in L
<5>1. CASE i = 1
<6>1. l + 1 - i = l
  BY <4>0, <5>1
<6> QED
  BY <4>4, <6>1
<5>2. CASE i # 1
<6>1. i - 1 \in 1 .. n /\ l - (i - 1) = l + 1 - i
  BY <4>0, <5>2
<6> QED
  BY <4>2, <4>4, <6>1
<5> QED
  BY <5>1, <5>2
<4> QED
  BY <4>1, <4>3, <4>4
<3>2. AtLevel(L, d, n + 1) <=> a[l] \in L /\ AtLevel(L, q, n)
  BY <2>5, <2>6, <2>7, <2>8, <3>1, Zenon
<3>3. AtLevel(L, d, n + 1) <=> q \in L /\ AtLevel(L, q, n)
  BY <2>2, <3>2, Zenon
<3>4. q = row[d].parent
  OBVIOUS
<3> QED
  BY <1>3, <3>3, <3>4
<2>9. CASE ~(n <= l - 1)
  BY <1>3, <2>5, <2>6, <2>7, <2>9, Zenon
<2> QED
  BY <2>8, <2>9
<1> QED
  BY <1>4, <1>5

\* No level is deeper than there are departments listed.
LEMMA SomeLevel ==
  ASSUME PathInv, NEW L \in SUBSET Live(Dept), NEW d \in L
  PROVE  Cardinality(L) \in Nat /\ \E k \in 0 .. Cardinality(L) : AtLevel(L, d, k)
<1>1. d \in Dept /\ row[d] # NoRow /\ L \subseteq Dept
  BY DEF Live, GetById
<1> PICK a, l : a = row[d].ancestors /\ l = Len(a)
  OBVIOUS
<1>2. l \in Nat /\ \A i, j \in 1 .. l : a[i] = a[j] => i = j
  BY <1>1, Chain
<1>3. IsFiniteSet(L)
  BY <1>1, FS_Subset, DirectoryAssumption
<1> DEFINE T == {k \in 0 .. l : k = l \/ a[l - k] \notin L}
<1>4. T \in SUBSET Nat /\ l \in T
  BY <1>2
<1>5. PICK k \in T : \A m \in T : k <= m
<2> HIDE DEF T
<2> QED
  BY <1>4, LeastNumber
<1>6. k \in 0 .. l /\ (k = l \/ a[l - k] \notin L)
  OBVIOUS
<1>7. ASSUME NEW i \in 1 .. k
      PROVE  a[l + 1 - i] \in L
<2>1. i - 1 \in 0 .. l /\ i - 1 # l /\ l - (i - 1) = l + 1 - i /\ ~(k <= i - 1)
  BY <1>2, <1>6
<2>2. i - 1 \notin T
  BY <1>5, <2>1
<2> QED
  BY <2>1, <2>2
<1> HIDE DEF T
<1>8. AtLevel(L, d, k)
  BY <1>2, <1>6, <1>7 DEF AtLevel
<1> DEFINE f == [i \in 1 .. k |-> a[l + 1 - i]]
<1>9. f \in Injection(1 .. k, L)
<2>1. \A i \in 1 .. k : l + 1 - i \in 1 .. l
  BY <1>2, <1>6
<2>2. \A i, j \in 1 .. k : a[l + 1 - i] = a[l + 1 - j] => i = j
  BY <1>2, <1>6, <2>1
<2> QED
  BY <1>7, <2>2 DEF Injection, IsInjective
<1> HIDE DEF f
<1>10. Cardinality(L) \in Nat
  BY <1>3, FS_CardinalityType
<1>11. Cardinality(1 .. k) = k
<2>1. k \in Nat /\ k \in Int /\ 1 \in Int
  BY <1>2, <1>6
<2> QED
  BY <2>1, FS_Interval
<1>12. Cardinality(1 .. k) <= Cardinality(L)
  BY <1>3, <1>9, FS_Injection
<1> QED
  BY <1>2, <1>6, <1>8, <1>10, <1>11, <1>12

\* The tree leaves out nothing of what is listed.
LEMMA ShownAll ==
  ASSUME PathInv, NEW L \in SUBSET Live(Dept)
  PROVE  Shown(L) = L
<1> DEFINE Upto(n) == {d \in L : \E k \in 0 .. n : AtLevel(L, d, k)}
           Next1(S) == S \cup UNION {Children(L, d) : d \in S}
<1>1. Upto(0) = Roots(L)
<2>1. \A d \in L : AtLevel(L, d, 0) <=> row[d].parent \notin L
  BY Levels
<2>2. 0 .. 0 = {0}
  OBVIOUS
<2> QED
  BY <2>1, <2>2, Zenon DEF Roots
<1>2. ASSUME NEW n \in Nat
      PROVE  Upto(n + 1) = Next1(Upto(n))
<2>0. \A d \in L : \A k \in Nat : /\ AtLevel(L, d, 0) <=> row[d].parent \notin L
                                  /\ AtLevel(L, d, k + 1) <=> row[d].parent \in L /\ AtLevel(L, row[d].parent, k)
  BY Levels, Zenon
<2>1. ASSUME NEW c \in Upto(n + 1)
      PROVE  c \in Next1(Upto(n))
<3>1. PICK k \in 0 .. n + 1 : AtLevel(L, c, k)
  OBVIOUS
<3>2. CASE k \in 0 .. n
  BY <3>1, <3>2
<3>3. CASE k \notin 0 .. n
<4>1. k = n + 1
  BY <3>3
<4>2. row[c].parent \in L /\ AtLevel(L, row[c].parent, n)
  BY <2>0, <3>1, <4>1
<4>3. n \in 0 .. n
  OBVIOUS
<4>4. row[c].parent \in Upto(n)
  BY <4>2, <4>3
<4>5. c \in Children(L, row[c].parent)
  BY DEF Children
<4> HIDE DEF Upto
<4> QED
  BY <4>4, <4>5
<3> QED
  BY <3>2, <3>3
<2>2. ASSUME NEW c \in Next1(Upto(n))
      PROVE  c \in Upto(n + 1)
<3>1. CASE c \in Upto(n)
<4>1. PICK k \in 0 .. n : AtLevel(L, c, k)
  BY <3>1
<4>2. k \in 0 .. n + 1
  OBVIOUS
<4> QED
  BY <3>1, <4>1, <4>2
<3>2. CASE c \notin Upto(n)
<4>1. PICK d \in Upto(n) : c \in Children(L, d)
<5> HIDE DEF Upto
<5> QED
  BY <3>2
<4>2. PICK k \in 0 .. n : AtLevel(L, d, k)
  BY <4>1
<4>3. c \in L /\ row[c].parent = d /\ d \in L
  BY <4>1 DEF Children
<4>4. k \in Nat /\ k + 1 \in 0 .. n + 1
  OBVIOUS
<4>5. AtLevel(L, c, k + 1)
  BY <2>0, <4>2, <4>3, <4>4
<4> QED
  BY <4>3, <4>4, <4>5
<3> QED
  BY <3>1, <3>2
<2> HIDE DEF Upto, Next1
<2> QED
  BY <2>1, <2>2
<1> DEFINE g == [n \in Nat |-> Upto(n)]
           shown == CHOOSE f : f = [n \in Nat |->
                      IF n = 0 THEN Roots(L)
                      ELSE f[n - 1] \cup UNION {Children(L, d) : d \in f[n - 1]}]
<1>3. Shown(L) = shown[Cardinality(L)]
  BY DEF Shown
<1> HIDE DEF Upto
<1>4. g = [n \in Nat |-> IF n = 0 THEN Roots(L) ELSE g[n - 1] \cup UNION {Children(L, d) : d \in g[n - 1]}]
<2>1. ASSUME NEW n \in Nat
      PROVE  g[n] = IF n = 0 THEN Roots(L) ELSE g[n - 1] \cup UNION {Children(L, d) : d \in g[n - 1]}
<3>1. CASE n = 0
  BY <1>1, <3>1
<3>2. CASE n # 0
<4>1. n - 1 \in Nat /\ (n - 1) + 1 = n
  BY <3>2
<4>2. g[n] = Upto((n - 1) + 1) /\ g[n - 1] = Upto(n - 1)
  BY <4>1
<4>3. g[n] = Next1(g[n - 1])
  BY <1>2, <4>1, <4>2
<4> QED
  BY <3>2, <4>3
<3> QED
  BY <3>1, <3>2
<2>2. g = [n \in Nat |-> g[n]]
  OBVIOUS
<2> HIDE DEF g
<2> QED
  BY <2>1, <2>2
<1>5. shown = [n \in Nat |-> IF n = 0 THEN Roots(L) ELSE shown[n - 1] \cup UNION {Children(L, d) : d \in shown[n - 1]}]
<2> HIDE DEF g
<2> QED
  BY <1>4
<1>6. \A n \in Nat : shown[n] = Upto(n)
<2> HIDE DEF shown
<2> DEFINE T == {n \in Nat : shown[n] = Upto(n)}
<2>1. 0 \in T
  BY <1>1, <1>5
<2>2. ASSUME NEW n \in Nat, n \in T
      PROVE  n + 1 \in T
<3>1. n + 1 \in Nat /\ n + 1 # 0 /\ (n + 1) - 1 = n
  OBVIOUS
<3>2. PICK m, S : m = n + 1 /\ S = shown[m - 1]
  OBVIOUS
<3>3. shown[m] = S \cup UNION {Children(L, d) : d \in S}
  BY <1>5, <3>1, <3>2
<3>4. shown[n + 1] = Next1(shown[n])
  BY <3>1, <3>2, <3>3
<3>5. shown[n] = Upto(n)
  BY <2>2
<3> HIDE DEF Next1
<3>6. shown[n + 1] = Upto(n + 1)
  BY <1>2, <3>4, <3>5
<3> QED
  BY <3>6
<2>3. T \in SUBSET Nat
  OBVIOUS
<2> HIDE DEF T
<2>4. T = Nat
  BY <2>1, <2>2, <2>3, AllNumbers
<2> QED
  BY <2>4 DEF T
<1> HIDE DEF shown
<1>7. Cardinality(L) \in Nat
<2>1. L \in SUBSET Dept
  BY DEF Live
<2> QED
  BY <2>1, FS_Subset, FS_CardinalityType, DirectoryAssumption
<1>8. Upto(Cardinality(L)) = L
  BY SomeLevel DEF Upto
<1> QED
  BY <1>3, <1>6, <1>7, <1>8

LEMMA TreesComplete == PathInv => TreesAreComplete
<1> SUFFICES ASSUME PathInv, NEW u \in Live(Person), NEW scope \in DataScope, NEW t \in Tenant
             PROVE  GetDepartmentTree(u, {scope}, t) = VisibleDepts(u, scope, t)
  BY DEF TreesAreComplete
<1>1. WidestScope(u, {scope}) = scope
<2>1. u \in Person /\ scope <= scope
  BY DEF Live, DataScope, ALL, DEPT, SELF, CUSTOM
<2> QED
  BY <2>1 DEF WidestScope
<1>2. VisibleDepts(u, scope, t) \in SUBSET Live(Dept)
  BY DEF VisibleDepts
<1> QED
  BY <1>1, <1>2, ShownAll DEF GetDepartmentTree

\* The scopes of the roles of a user are among the four.
LEMMA ScopesTyped ==
  ASSUME PathInv, NEW u \in Live(Person)
  PROVE  ScopesOf(u) \subseteq DataScope
<1>1. u \in Person /\ Member[u] \subseteq Role
  BY DirectoryAssumption DEF Live
<1>2. ASSUME NEW r \in Live(Member[u])
      PROVE  row[r].scope \in DataScope
<2>1. r \in Role /\ row[r] # NoRow
  BY <1>1 DEF Live, GetById
<2>2. row[r] \in RoleRow
  BY <2>1, RowTypes DEF PathInv, TInv, Rows
<2> QED
  BY <2>2 DEF RoleRow
<1> QED
  BY <1>2 DEF ScopesOf

\* get_user_data_scope returns the least value of the scopes.
LEMMA WidestIsLeast ==
  ASSUME NEW u \in Person, NEW scopes \in SUBSET {ALL, DEPT, SELF}, NEW s \in scopes
  PROVE  WidestScope(u, scopes) \in scopes /\ WidestScope(u, scopes) <= s
<1>1. scopes \in SUBSET Nat /\ scopes # {}
  BY DEF ALL, DEPT, SELF
<1>2. PICK w \in scopes : \A t \in scopes : w <= t
  BY <1>1, LeastNumber
<1> QED
  BY <1>1, <1>2 DEF WidestScope

LEMMA WiderShowsMore ==
  ASSUME NEW u \in Live(Person), NEW s \in {ALL, DEPT, SELF}, NEW w \in {ALL, DEPT, SELF}, w <= s
  PROVE  /\ VisibleUsers(u, s) \subseteq VisibleUsers(u, w)
         /\ \A t \in Tenant : VisibleDepts(u, s, t) \subseteq VisibleDepts(u, w, t)
<1>1. \/ w = ALL /\ w # DEPT /\ w # SELF
      \/ w = DEPT /\ w # SELF /\ s # ALL /\ s \in {DEPT, SELF}
      \/ w = SELF /\ s = SELF
  BY DEF ALL, DEPT, SELF
<1>2. VisibleUsers(u, s) \subseteq VisibleUsers(u, w)
<2>1. CASE w = ALL
  BY <1>1, <2>1 DEF VisibleUsers
<2>2. CASE w = DEPT /\ s = DEPT
  BY <2>2
<2>3. CASE w = DEPT /\ s = SELF
<3>1. s # DEPT /\ w # SELF
  BY <2>3 DEF DEPT, SELF
<3>2. \A v \in VisibleUsers(u, s) : v \in Live(Person) /\ v = u
  BY <2>3, <3>1 DEF VisibleUsers
<3> QED
  BY <2>3, <3>1, <3>2 DEF VisibleUsers
<2>4. CASE w = SELF
  BY <1>1, <2>4
<2> QED
  BY <1>1, <2>1, <2>2, <2>3, <2>4
<1>3. \A t \in Tenant : VisibleDepts(u, s, t) \subseteq VisibleDepts(u, w, t)
  BY <1>1 DEF VisibleDepts
<1> QED
  BY <1>2, <1>3

LEMMA ScopesWiden == PathInv => ScopeIsWidest
<1> SUFFICES ASSUME PathInv, NEW u \in Live(Person), NEW more \in SUBSET (DataScope \ {CUSTOM}),
                    CUSTOM \notin ScopesOf(u) \cup more, NEW s \in ScopesOf(u) \cup more
             PROVE  /\ GetAllUsers(u, {s}) \subseteq GetAllUsers(u, ScopesOf(u) \cup more)
                    /\ \A t \in Tenant : GetDepartmentTree(u, {s}, t)
                                           \subseteq GetDepartmentTree(u, ScopesOf(u) \cup more, t)
  BY DEF ScopeIsWidest
<1> PICK scopes, w : scopes = ScopesOf(u) \cup more /\ w = WidestScope(u, scopes)
  OBVIOUS
<1>1. u \in Person /\ scopes \in SUBSET {ALL, DEPT, SELF} /\ s \in scopes
  BY ScopesTyped DEF DataScope, Live
<1>2. w \in {ALL, DEPT, SELF} /\ s \in {ALL, DEPT, SELF} /\ w <= s
  BY <1>1, WidestIsLeast
<1>3. WidestScope(u, {s}) = s
<2>1. {s} \in SUBSET {ALL, DEPT, SELF}
  BY <1>2
<2> QED
  BY <1>1, <2>1, WidestIsLeast
<1>4. GetAllUsers(u, {s}) \subseteq GetAllUsers(u, scopes)
  BY <1>2, <1>3, WiderShowsMore DEF GetAllUsers
<1>5. ASSUME NEW t \in Tenant
      PROVE  GetDepartmentTree(u, {s}, t) \subseteq GetDepartmentTree(u, scopes, t)
<2>1. VisibleDepts(u, s, t) \subseteq VisibleDepts(u, w, t)
  BY <1>2, WiderShowsMore
<2>2. /\ VisibleDepts(u, s, t) \in SUBSET Live(Dept)
      /\ VisibleDepts(u, w, t) \in SUBSET Live(Dept)
  BY DEF VisibleDepts
<2>3. /\ Shown(VisibleDepts(u, s, t)) = VisibleDepts(u, s, t)
      /\ Shown(VisibleDepts(u, w, t)) = VisibleDepts(u, w, t)
  BY <2>2, ShownAll
<2> QED
  BY <1>3, <2>1, <2>3 DEF GetDepartmentTree
<1> QED
  BY <1>4, <1>5

-----------------------------------------------------------------------------

LEMMA PathInvariant == Spec => []PathInv
  BY InitPath, PathStep, PTL DEF Spec

\* Whatever the departments that Department.create, update_department and
\* delete_department have left behind, of whatever tenants, get_descendants
\* finds by the paths the departments that are below by the column parent_id,
\* a path names each department above once, and _build_tree shows every
\* department it is given, below a deleted or a hidden parent too.
THEOREM DepartmentsAreTrees == Spec => []DepartmentsFormTrees
<1>1. PathInv => DepartmentsFormTrees
  BY PathsTrue, TreesComplete DEF DepartmentsFormTrees
<1> QED
  BY <1>1, PathInvariant, PTL

\* get_user_data_scope: what get_all_users and get_department_tree show to a
\* user with several roles contains what they show for each of the scopes
\* alone, unless one is custom, by which the repositories filter nothing.
THEOREM RolesAddToTheScope == Spec => []ScopeIsWidest
  BY ScopesWiden, PathInvariant, PTL
=============================================================================
