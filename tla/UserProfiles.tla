---------------------------- MODULE UserProfiles ----------------------------
(***************************************************************************)
(* The profiles of the users and the copies user:{id} that Redis keeps of  *)
(* them.  A copy is written after a creation or a read that missed, and    *)
(* dropped after every change, each in a round trip after the transaction. *)
(*                                                                         *)
(* username stands for the unique columns of a user, email, username and   *)
(* phone; dept_id for the others that an administrator sets.  The column   *)
(* deleted is status = DELETED, which is what the queries look at.         *)
(***************************************************************************)
EXTENDS UnitOfWork

CONSTANT Username

Status == {"active", "disabled", "pending", "deleted"}
User == [status : Status, deleted : BOOLEAN, username : Username \cup {Null},
         dept : Dept \cup {Null}]

VARIABLE copy  \* copy[u]: the value of user:{u}

-----------------------------------------------------------------------------
(* The domain object.                                                      *)

WithStatus(user, status) ==
  [user EXCEPT !.status = status, !.deleted = status = "deleted"]

CreateDomain(username, status, dept) ==
  [status |-> status, deleted |-> FALSE, username |-> username, dept |-> dept]
UpdateProfile(user, username) == [user EXCEPT !.username = username]
Enable(user) == WithStatus(user, "active")
Delete(user) == WithStatus(user, "deleted")
MayActivate(user) == user.status \in {"pending", "disabled"}

-----------------------------------------------------------------------------
(* The queries, and the unique indexes, which count deleted rows.          *)

GetByUsername(x) == {u \in Person : GetById(u) /\ row[u].username = x}
Taken(u, x) == x # Null /\ \E v \in Person \ {u} : row[v] # NoRow /\ row[v].username = x

-----------------------------------------------------------------------------
(* The operations of the service, up to their save.                        *)

\* A department is found by its foreign key, deleted or not.
CreateUserService(p, u, x, d) ==
  /\ x # Null => GetByUsername(x) = {}
  /\ d # Null => row[d] # NoRow
  /\ Add(p, "create_user", u, CreateDomain(x, "active", d))

CreateRegistrationProfileService(p, u, x) ==
  /\ x # Null => GetByUsername(x) = {}
  /\ Add(p, "create_registration_profile", u, CreateDomain(x, "pending", Null))

UpdateUserProfileService(p, u, x) ==
  Load(p, "update_user_profile", u, UpdateProfile(row[u], x))

ActivateUserService(p, u) ==
  /\ row[u] # NoRow /\ MayActivate(row[u])
  /\ Load(p, "activate_user", u, Enable(row[u]))

ChangeStatus(p, op, u, status) == Load(p, op, u, WithStatus(row[u], status))

DeleteUserService(p, u) == Load(p, "delete_user", u, Delete(row[u]))

\* Nothing is checked: any status, any username, any department, at once.
UpdateUserAdminService(p, u) ==
  /\ GetById(u)
  /\ \E s \in Status, x \in Username \cup {Null},
        d \in {row[u].dept} \cup {c \in Dept : row[c] # NoRow} :
       Load(p, "update_user_admin", u, [WithStatus(UpdateProfile(row[u], x), s) EXCEPT !.dept = d])

\* The user was read and is about to be put in the cache.
Fetched(p, op, u) ==
  /\ Begin(p, op) /\ GetById(u)
  /\ slot' = [slot EXCEPT ![p] = [stage |-> "set", op |-> op, id |-> u, loaded |-> row[u],
                                  base |-> row[u], new |-> row[u]]]

\* Of get_user, when there is no copy: a copy would be the answer.
GetUserService(p, u) == (copy[u] = NoRow \/ env.faults) /\ Fetched(p, "get_user", u)

\* get_user_by_email does not look for a copy.
GetUserByEmailService(p, u) == Fetched(p, "get_user_by_email", u)

-----------------------------------------------------------------------------
(* The endpoints, public and internal.                                     *)

CreateUser(p) ==
  /\ \E u \in Person, x \in Username \cup {Null}, d \in Dept \cup {Null} :
       CreateUserService(p, u, x, d)
  /\ UNCHANGED <<env, row, copy>>
CreateRegistrationProfile(p) ==
  /\ \E u \in Person, x \in Username \cup {Null} : CreateRegistrationProfileService(p, u, x)
  /\ UNCHANGED <<env, row, copy>>
UpdateUser(p) ==
  /\ \E u \in Person, x \in Username \cup {Null} : UpdateUserProfileService(p, u, x)
  /\ UNCHANGED <<env, row, copy>>
ActivateUser(p) == (\E u \in Person : ActivateUserService(p, u)) /\ UNCHANGED <<env, row, copy>>
EnableUser(p) ==
  /\ \E u \in Person : ChangeStatus(p, "enable_user", u, "active")
  /\ UNCHANGED <<env, row, copy>>
DisableUser(p) ==
  /\ \E u \in Person : ChangeStatus(p, "disable_user", u, "disabled")
  /\ UNCHANGED <<env, row, copy>>
DeleteUser(p) == (\E u \in Person : DeleteUserService(p, u)) /\ UNCHANGED <<env, row, copy>>
UpdateUserAdmin(p) ==
  (\E u \in Person : UpdateUserAdminService(p, u)) /\ UNCHANGED <<env, row, copy>>
GetUser(p) == (\E u \in Person : GetUserService(p, u)) /\ UNCHANGED <<env, row, copy>>
GetUserByEmail(p) ==
  (\E u \in Person : GetUserByEmailService(p, u)) /\ UNCHANGED <<env, row, copy>>

-----------------------------------------------------------------------------
(* The ends of the transactions, and the copies.                           *)

\* 409 when somebody else has the username, or on to save
SaveUser(p) ==
  /\ At(p, "save") /\ slot[p].id \in Person
  /\ IF /\ slot[p].op = "update_user_profile"
        /\ GetByUsername(slot[p].new.username) \ {slot[p].id} # {}
        /\ slot[p].new.username # Null
     THEN End(p)
     ELSE Save(p)
  /\ UNCHANGED <<env, row, copy>>

CommitUser(p) ==
  /\ At(p, "commit") /\ slot[p].id \in Person
  /\ LET r == WithStatus(Written(p), Written(p).status)
     IN IF Taken(slot[p].id, r.username)
        THEN End(p) /\ UNCHANGED row
        ELSE Commit(p, r, IF slot[p].base = NoRow THEN "set" ELSE "drop")
  /\ UNCHANGED <<env, copy>>

\* SETEX and DEL, whose errors are swallowed
SetCache(p) ==
  /\ At(p, "set") /\ End(p)
  /\ \/ copy' = [copy EXCEPT ![slot[p].id] = slot[p].new]
     \/ env.faults /\ UNCHANGED copy
  /\ UNCHANGED <<env, row>>

\* Mutant: a deletion leaves the copy.
DeleteCacheUnlessDeleted(p) ==
  /\ At(p, "drop") /\ End(p)
  /\ IF slot[p].op = "delete_user" THEN UNCHANGED copy
     ELSE copy' = [copy EXCEPT ![slot[p].id] = NoRow]
  /\ UNCHANGED <<env, row>>

DeleteCache(p) ==
  /\ At(p, "drop") /\ End(p)
  /\ \/ copy' = [copy EXCEPT ![slot[p].id] = NoRow]
     \/ env.faults /\ UNCHANGED copy
  /\ UNCHANGED <<env, row>>

Expire(u) == copy' = [copy EXCEPT ![u] = NoRow] /\ UNCHANGED <<env, row, slot>>

UserNext(p) ==
  \/ CreateUser(p) \/ CreateRegistrationProfile(p) \/ UpdateUser(p)
  \/ ActivateUser(p) \/ EnableUser(p) \/ DisableUser(p) \/ DeleteUser(p)
  \/ UpdateUserAdmin(p) \/ SaveUser(p) \/ CommitUser(p)
  \/ GetUser(p) \/ GetUserByEmail(p) \/ SetCache(p) \/ DeleteCache(p)
=============================================================================
