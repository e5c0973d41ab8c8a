---------------------------- MODULE Registration ----------------------------
(***************************************************************************)
(* POST /auth/register as a saga over four stores: the auth service's      *)
(* `user_auths` table, the idempotency records it keeps in Redis, and,     *)
(* behind HTTP, the `users` table of the user service.                     *)
(*                                                                         *)
(* Every request is a coroutine of the auth service (pc) that may have one *)
(* handler running in the user service on its behalf (rpc).  The two move  *)
(* independently: a call that timed out may still be carried out.          *)
(***************************************************************************)
EXTENDS Naturals, FiniteSets

CONSTANTS
  Request,      \* the POST /auth/register requests the clients send
  Key,          \* values of the Idempotency-Key header
  Email,        \* e-mail addresses as the clients spell them
  Username,     \* user names as the clients spell them
  NormalEmail,  \* normalize_email: strip and lower, Email -> Email
  NormalName,   \* normalize_optional: strip, Username -> Username
  Nobody,       \* no user
  Other,        \* an account of another origin whose user name is taken in
                \* `user_auths` and free in `users` (bound through the internal
                \* endpoint, or renamed since)
  Environment   \* what the failures and clients of a behaviour may be like

FaultKind == {"redis", "database", "users", "timeout", "crash", "expiry"}

ASSUME NormalAssumption ==
  /\ NormalEmail \in [Email -> Email]
  /\ \A e \in Email : NormalEmail[NormalEmail[e]] = NormalEmail[e]
  /\ NormalName \in [Username -> Username]
  /\ \A n \in Username : NormalName[NormalName[n]] = NormalName[n]

ASSUME NobodyAssumption ==
  Nobody \notin Request /\ Other \notin Request /\ Other # Nobody

ASSUME EnvironmentAssumption ==
  Environment \subseteq [faults : SUBSET FaultKind, overlap : BOOLEAN]

VARIABLES
  env,         \* the environment of this behaviour
  msg,         \* msg[r]: what request r carries (its password stays out)
  pc,          \* pc[r]: the await at which the coroutine of r is suspended
  rpc,         \* rpc[r]: the user-service handler working for r
  reply,       \* reply[r]: the HTTP answer to r
  idem,        \* idem[k]: the Redis record of key k
  profile,     \* profile[r]: the row of `users` inserted on behalf of r; its
               \* id is a fresh uuid4, so r stands for the id as well
  credential   \* credential[n]: the user id in the password row of n

vars == <<env, msg, pc, rpc, reply, idem, profile, credential>>

Faults == env.faults    \* the kinds of failure that may happen
Overlap == env.overlap  \* may a client send a key again before it has an answer?

Message == [key : Key, email : Email, username : Username]

\* Where a coroutine can be suspended, in the order of the code.
Suspended == {"get_state", "save_started", "await_create",
              "save_profile_created", "check_bind", "commit_bind",
              "save_password_bound", "await_delete",
              "save_compensation_failed", "await_activate",
              "save_activation_pending", "save_completed"}

\* A handler is running, or has left the answer its caller has yet to read.
Running == {"create", "checked", "activate", "delete"}
Answered == {"ok", "conflict", "duplicate", "error"}

Code == {"none", "created", "key_missing", "key_conflict",
         "compensation_failed", "failed", "lost"}

Status == {"started", "profile_created", "password_bound",
           "activation_pending", "compensation_failed", "completed"}

\* The record of a key keeps a status, a payload hash and, when completed, the
\* response.  Hash and response are those of the request that wrote it.
IdemState == [status : Status, by : Request]
Missing == [status |-> "missing", by |-> Nobody]

TypeOK ==
  /\ env \in Environment
  /\ msg \in [Request -> Message]
  /\ pc \in [Request -> Suspended \cup {"idle", "done"}]
  /\ rpc \in [Request -> Running \cup Answered \cup {"idle"}]
  /\ reply \in [Request -> [code : Code, user : Request \cup {Nobody}]]
  /\ idem \in [Key -> IdemState \cup {Missing}]
  /\ profile \in [Request -> {"absent", "pending", "active", "deleted"}]
  /\ credential \in [Username -> Request \cup {Nobody, Other}]

NoReply == [code |-> "none", user |-> Nobody]

Init ==
  /\ env \in Environment
  /\ msg \in [Request -> Message]
  /\ pc = [r \in Request |-> "idle"]
  /\ rpc = [r \in Request |-> "idle"]
  /\ reply = [r \in Request |-> NoReply]
  /\ idem = [k \in Key |-> Missing]
  /\ profile = [r \in Request |-> "absent"]
  /\ credential = [n \in Username |-> Nobody]

-----------------------------------------------------------------------------
(* What the stores make of a message.                                      *)

Hash(r) == <<msg[r].email, msg[r].username>>
ProfileEmail(r) == NormalEmail[msg[r].email]
ProfileName(r) == NormalName[msg[r].username]

\* Two profiles want the same e-mail or the same user name.
Clash(r, s) == ProfileEmail(r) = ProfileEmail(s) \/ ProfileName(r) = ProfileName(s)

\* get_by_email and get_by_username skip deleted rows, the unique indexes of
\* the table do not.
Live(r) == profile[r] \in {"pending", "active"}
Stored(r) == profile[r] # "absent"

InFlight(r) == pc[r] \in Suspended

-----------------------------------------------------------------------------
(* The steps of a coroutine.                                               *)

Goto(r, where) == pc' = [pc EXCEPT ![r] = where] /\ UNCHANGED reply

Finish(r, code, user) ==
  /\ pc' = [pc EXCEPT ![r] = "done"]
  /\ reply' = [reply EXCEPT ![r] = [code |-> code, user |-> user]]

Call(r, operation) == rpc' = [rpc EXCEPT ![r] = operation]

Saved(r, status) ==
  idem' = [idem EXCEPT ![msg[r].key] = [status |-> status, by |-> r]]

\* A SET that raises may or may not have reached Redis.
SaveRaises(r, status) ==
  "redis" \in Faults /\ (UNCHANGED idem \/ Saved(r, status))

\* The except branch around bind_password calls delete_user.
Compensate(r) == Goto(r, "await_delete") /\ Call(r, "delete")

\* The request arrives.  A client that does not overlap waits for the answer
\* to its key before it sends the key again.
Receive(r) ==
  /\ pc[r] = "idle"
  /\ Overlap \/ \A s \in Request : InFlight(s) => msg[s].key # msg[r].key
  /\ \/ Goto(r, "get_state")
     \/ Finish(r, "key_missing", Nobody)
  /\ UNCHANGED <<env, msg, rpc, idem, profile, credential>>

\* Variant of GetState: another payload under the key starts a new registration.
GetStateOfNewPayload(r) ==
  LET state == idem[msg[r].key] IN
  /\ pc[r] = "get_state"
  /\ IF state.status = "completed" /\ Hash(state.by) = Hash(r)
     THEN Finish(r, "created", state.by) ELSE Goto(r, "save_started")
  /\ UNCHANGED <<env, msg, rpc, idem, profile, credential>>

\* Variant of GetState: the response of a completed key is not replayed.
GetStateWithoutReplay(r) ==
  LET state == idem[msg[r].key] IN
  /\ pc[r] = "get_state"
  /\ IF state # Missing /\ Hash(state.by) # Hash(r)
     THEN Finish(r, "key_conflict", Nobody) ELSE Goto(r, "save_started")
  /\ UNCHANGED <<env, msg, rpc, idem, profile, credential>>

\* get_state and the four ways its result is used; every status but the two
\* terminal ones lets the saga start again from the top.
GetState(r) ==
  LET state == idem[msg[r].key] IN
  /\ pc[r] = "get_state"
  /\ \/ /\ state # Missing /\ Hash(state.by) # Hash(r)
        /\ Finish(r, "key_conflict", Nobody)
     \/ /\ state # Missing /\ Hash(state.by) = Hash(r)
        /\ \/ state.status = "completed" /\ Finish(r, "created", state.by)
           \/ /\ state.status = "compensation_failed"
              /\ Finish(r, "compensation_failed", Nobody)
           \/ /\ state.status \notin {"completed", "compensation_failed"}
              /\ Goto(r, "save_started")
     \/ state = Missing /\ Goto(r, "save_started")
     \/ "redis" \in Faults /\ Finish(r, "failed", Nobody)
  /\ UNCHANGED <<env, msg, rpc, idem, profile, credential>>

SaveStarted(r) ==
  /\ pc[r] = "save_started"
  /\ \/ Saved(r, "started") /\ Goto(r, "await_create") /\ Call(r, "create")
     \/ SaveRaises(r, "started") /\ Finish(r, "failed", Nobody) /\ UNCHANGED rpc
  /\ UNCHANGED <<env, msg, profile, credential>>

\* create_user returned, or raised what the user service answered.
CreateReturns(r) ==
  /\ pc[r] = "await_create" /\ rpc[r] \in Answered
  /\ IF rpc[r] = "ok" THEN Goto(r, "save_profile_created")
                      ELSE Finish(r, "failed", Nobody)
  /\ Call(r, "idle")
  /\ UNCHANGED <<env, msg, idem, profile, credential>>

SaveProfileCreated(r) ==
  /\ pc[r] = "save_profile_created"
  /\ \/ Saved(r, "profile_created") /\ Goto(r, "check_bind")
     \/ SaveRaises(r, "profile_created") /\ Finish(r, "failed", Nobody)
  /\ UNCHANGED <<env, msg, rpc, profile, credential>>

\* Variant of CheckBind: the conflict is raised outside the try block.
CheckBindWithoutCompensation(r) ==
  /\ pc[r] = "check_bind"
  /\ IF credential[msg[r].username] = Nobody THEN Goto(r, "commit_bind")
                                             ELSE Finish(r, "failed", Nobody)
  /\ UNCHANGED <<env, msg, rpc, idem, profile, credential>>

\* bind_password looks for a row of the user name and a row of the user ...
CheckBind(r) ==
  /\ pc[r] = "check_bind"
  /\ LET free == /\ credential[msg[r].username] = Nobody
                 /\ \A n \in Username : credential[n] # r
     IN \/ free /\ Goto(r, "commit_bind") /\ UNCHANGED rpc
        \/ ~free /\ Compensate(r)
        \/ "database" \in Faults /\ Compensate(r)
  /\ UNCHANGED <<env, msg, idem, profile, credential>>

\* ... and inserts one.  uq_user_auths_identity refuses a second row of the
\* user name; a commit that raises may have happened.
Bound(r) == credential' = [credential EXCEPT ![msg[r].username] = r]

\* Variant of CommitBind: a unique violation is taken for a repeated bind.
CommitBindTolerant(r) ==
  /\ pc[r] = "commit_bind"
  /\ IF credential[msg[r].username] = Nobody THEN Bound(r) ELSE UNCHANGED credential
  /\ Goto(r, "save_password_bound")
  /\ UNCHANGED <<env, msg, rpc, idem, profile>>

CommitBind(r) ==
  LET unique == credential[msg[r].username] = Nobody IN
  /\ pc[r] = "commit_bind"
  /\ \/ unique /\ Bound(r) /\ Goto(r, "save_password_bound") /\ UNCHANGED rpc
     \/ ~unique /\ UNCHANGED credential /\ Compensate(r)
     \/ /\ "database" \in Faults
        /\ UNCHANGED credential \/ (unique /\ Bound(r))
        /\ Compensate(r)
  /\ UNCHANGED <<env, msg, idem, profile>>

\* POST /auth/bind-password binds a user name to an account that did not come
\* through register.
BindElsewhere(n) ==
  /\ credential[n] = Nobody
  /\ credential' = [credential EXCEPT ![n] = Other]
  /\ UNCHANGED <<env, msg, pc, rpc, reply, idem, profile>>

SavePasswordBound(r) ==
  /\ pc[r] = "save_password_bound"
  /\ \/ Saved(r, "password_bound") /\ Goto(r, "await_activate") /\ Call(r, "activate")
     \/ SaveRaises(r, "password_bound") /\ Compensate(r)
  /\ UNCHANGED <<env, msg, profile, credential>>

\* delete_user returned: the error that led here is raised again.
DeleteReturns(r) ==
  /\ pc[r] = "await_delete" /\ rpc[r] \in Answered
  /\ IF rpc[r] = "ok" THEN Finish(r, "failed", Nobody)
                      ELSE Goto(r, "save_compensation_failed")
  /\ Call(r, "idle")
  /\ UNCHANGED <<env, msg, idem, profile, credential>>

SaveCompensationFailed(r) ==
  /\ pc[r] = "save_compensation_failed"
  /\ \/ /\ Saved(r, "compensation_failed")
        /\ Finish(r, "compensation_failed", Nobody)
     \/ SaveRaises(r, "compensation_failed") /\ Finish(r, "failed", Nobody)
  /\ UNCHANGED <<env, msg, rpc, profile, credential>>

\* Variants of ActivateReturns: the client does not look at the status code; a
\* failed activation is compensated like a failed bind.
ActivateReturnsUnchecked(r) ==
  /\ pc[r] = "await_activate" /\ rpc[r] \in Answered
  /\ Goto(r, "save_completed")
  /\ Call(r, "idle")
  /\ UNCHANGED <<env, msg, idem, profile, credential>>

ActivateReturnsCompensating(r) ==
  /\ pc[r] = "await_activate" /\ rpc[r] \in Answered
  /\ IF rpc[r] = "ok" THEN Goto(r, "save_completed") /\ Call(r, "idle")
                      ELSE Compensate(r)
  /\ UNCHANGED <<env, msg, idem, profile, credential>>

ActivateReturns(r) ==
  /\ pc[r] = "await_activate" /\ rpc[r] \in Answered
  /\ Goto(r, IF rpc[r] = "ok" THEN "save_completed" ELSE "save_activation_pending")
  /\ Call(r, "idle")
  /\ UNCHANGED <<env, msg, idem, profile, credential>>

\* Variant of SaveActivationPending: the wrong status is recorded.
SaveActivationAsCompleted(r) ==
  /\ pc[r] = "save_activation_pending"
  /\ Saved(r, "completed")
  /\ Finish(r, "failed", Nobody)
  /\ UNCHANGED <<env, msg, rpc, profile, credential>>

SaveActivationPending(r) ==
  /\ pc[r] = "save_activation_pending"
  /\ Saved(r, "activation_pending") \/ SaveRaises(r, "activation_pending")
  /\ Finish(r, "failed", Nobody)
  /\ UNCHANGED <<env, msg, rpc, profile, credential>>

SaveCompleted(r) ==
  /\ pc[r] = "save_completed"
  /\ \/ Saved(r, "completed") /\ Finish(r, "created", r)
     \/ SaveRaises(r, "completed") /\ Finish(r, "failed", Nobody)
  /\ UNCHANGED <<env, msg, rpc, profile, credential>>

\* Variant of CallTimesOut: no timeout is set.
CallNeverTimesOut(r) == FALSE

\* httpx gives up on a call; the handler, if any, is left to itself.
CallTimesOut(r) ==
  /\ "timeout" \in Faults
  /\ \/ pc[r] = "await_create" /\ Finish(r, "failed", Nobody)
     \/ pc[r] = "await_delete" /\ Goto(r, "save_compensation_failed")
     \/ pc[r] = "await_activate" /\ Goto(r, "save_activation_pending")
  /\ UNCHANGED <<env, msg, rpc, idem, profile, credential>>

-----------------------------------------------------------------------------
(* The handlers of the user service.                                       *)

\* create_registration_profile looks for live rows ...
CheckProfile(r) ==
  /\ rpc[r] = "create"
  /\ Call(r, IF \E s \in Request : Live(s) /\ Clash(r, s)
             THEN "conflict" ELSE "checked")
  /\ UNCHANGED <<env, msg, pc, reply, idem, profile, credential>>

\* Variant of InsertProfile: the columns have no unique index.
InsertProfileUnchecked(r) ==
  /\ rpc[r] = "checked"
  /\ Call(r, "ok")
  /\ profile' = [profile EXCEPT ![r] = "pending"]
  /\ UNCHANGED <<env, msg, pc, reply, idem, credential>>

\* ... and inserts a PENDING one, unless a unique index refuses it.
InsertProfile(r) ==
  /\ rpc[r] = "checked"
  /\ IF \E s \in Request : Stored(s) /\ Clash(r, s)
     THEN Call(r, "duplicate") /\ UNCHANGED profile
     ELSE Call(r, "ok") /\ profile' = [profile EXCEPT ![r] = "pending"]
  /\ UNCHANGED <<env, msg, pc, reply, idem, credential>>

\* activate_user: 404 without a live row, ValueError for an active one.
ActivateProfile(r) ==
  /\ rpc[r] = "activate"
  /\ IF profile[r] = "pending"
     THEN Call(r, "ok") /\ profile' = [profile EXCEPT ![r] = "active"]
     ELSE Call(r, "error") /\ UNCHANGED profile
  /\ UNCHANGED <<env, msg, pc, reply, idem, credential>>

\* delete_user is a soft delete; the client takes its 404 for success.
DeleteProfile(r) ==
  /\ rpc[r] = "delete"
  /\ Call(r, "ok")
  /\ profile' = [profile EXCEPT ![r] = IF Live(r) THEN "deleted" ELSE @]
  /\ UNCHANGED <<env, msg, pc, reply, idem, credential>>

-----------------------------------------------------------------------------
(* Failures.                                                               *)

\* The handler dies, is never reached, or its answer is lost on the way.
UserServiceFails(r) ==
  /\ "users" \in Faults
  /\ rpc[r] \in Running \cup {"ok"}
  /\ Call(r, "error")
  /\ UNCHANGED <<env, msg, pc, reply, idem, profile, credential>>

\* The auth-service process dies with every coroutine in it.
AuthServiceCrashes ==
  /\ "crash" \in Faults
  /\ \E r \in Request : InFlight(r)
  /\ pc' = [r \in Request |-> IF InFlight(r) THEN "done" ELSE pc[r]]
  /\ reply' = [r \in Request |->
       IF InFlight(r) THEN [code |-> "lost", user |-> Nobody] ELSE reply[r]]
  /\ UNCHANGED <<env, msg, rpc, idem, profile, credential>>

\* Variant of KeyExpires: an expired record is marked instead of removed.
KeyIsMarkedExpired(k) ==
  /\ "expiry" \in Faults
  /\ idem[k] # Missing
  /\ idem' = [idem EXCEPT ![k].status = "missing"]
  /\ UNCHANGED <<env, msg, pc, rpc, reply, profile, credential>>

\* The record of a key outlives its last SET by 24 hours, far longer than any
\* request that uses the key.
KeyExpires(k) ==
  /\ "expiry" \in Faults
  /\ idem[k] # Missing
  /\ \A r \in Request : InFlight(r) => msg[r].key # k
  /\ idem' = [idem EXCEPT ![k] = Missing]
  /\ UNCHANGED <<env, msg, pc, rpc, reply, profile, credential>>

-----------------------------------------------------------------------------

AuthService(r) ==
  \/ GetState(r) \/ SaveStarted(r) \/ CreateReturns(r)
  \/ SaveProfileCreated(r) \/ CheckBind(r) \/ CommitBind(r)
  \/ SavePasswordBound(r) \/ DeleteReturns(r) \/ SaveCompensationFailed(r)
  \/ ActivateReturns(r) \/ SaveActivationPending(r) \/ SaveCompleted(r)
  \/ CallTimesOut(r)

UserService(r) ==
  CheckProfile(r) \/ InsertProfile(r) \/ ActivateProfile(r) \/ DeleteProfile(r)

\* Every request has been answered and the services wait for more.
Quiet == (\A r \in Request : pc[r] = "done") /\ UNCHANGED vars

Next ==
  \/ \E r \in Request : Receive(r) \/ AuthService(r) \/ UserService(r)
                        \/ UserServiceFails(r)
  \/ AuthServiceCrashes
  \/ \E k \in Key : KeyExpires(k)
  \/ \E n \in Username : BindElsewhere(n)
  \/ Quiet

\* A coroutine that can go on is eventually resumed by its event loop; nothing
\* is assumed of the user service.
Spec == Init /\ [][Next]_vars /\ \A r \in Request : WF_vars(AuthService(r))

-----------------------------------------------------------------------------
(* What the registration promises.                                         *)

Usable(u, r) ==
  /\ u \in Request
  /\ profile[u] = "active"
  /\ credential[msg[r].username] = u
  /\ ProfileEmail(u) = ProfileEmail(r) /\ ProfileName(u) = ProfileName(r)

\* No account is ever active without a password: activate_user is only called
\* once the row of bind_password is committed, whatever fails, and however
\* late a handler runs.
ActiveHasPassword ==
  \A r \in Request : profile[r] = "active" => credential[msg[r].username] = r

\* A 201, fresh or replayed from Redis, names an account that exists, is active
\* and can log in with the user name of the request.
SuccessIsUsable ==
  \A r \in Request : reply[r].code = "created" => Usable(reply[r].user, r)

\* The record of a key never claims more than was done for it: its steps are
\* saved after they took effect, even when requests with the same key overlap.
RecordIsTruthful ==
  \A k \in Key : LET state == idem[k] IN
    /\ state.status = "profile_created" => Stored(state.by)
    /\ state.status \in {"password_bound", "activation_pending"} =>
         Stored(state.by) /\ credential[msg[state.by].username] = state.by
    /\ state.status = "compensation_failed" => profile[state.by] # "active"
    /\ state.status = "completed" => Usable(state.by, state.by)

\* Two live accounts never share an e-mail address or a user name, although
\* create_registration_profile checks and inserts in two steps.
OneAccountPerIdentity ==
  \A r, s \in Request : r # s /\ Live(r) /\ Live(s) => ~Clash(r, s)

\* Requests that ask for the same e-mail or user name and succeed are all told
\* the same user id: a retry never registers anybody twice.
OneUserPerIdentity ==
  \A r, s \in Request :
    /\ reply[r].code = "created" /\ reply[s].code = "created"
    /\ Clash(r, s)
    => reply[r].user = reply[s].user

\* While a client waits for the answer before it repeats a key, and until the
\* key expires, all its requests that succeed are told the same user id, and a
\* key that was used for one payload serves no other.
OneUserPerKey ==
  ~Overlap /\ "expiry" \notin Faults =>
    \A r, s \in Request :
      /\ reply[r].code = "created" /\ reply[s].code = "created"
      /\ msg[r].key = msg[s].key
      => reply[r].user = reply[s].user

\* As long as Redis and the database of the auth service do not fail, a
\* password row belongs to a profile that has not been compensated away.
NoOrphanCredential ==
  Faults \cap {"redis", "database"} = {} =>
    \A n \in Username : credential[n] \in Request => profile[credential[n]] # "deleted"

\* A completed key keeps the response it replays, until it expires.
CompletedIsKept ==
  [][~Overlap =>
       \A k \in Key : idem[k].status = "completed" => idem'[k] \in {idem[k], Missing}]_vars

\* A retry of a key whose activation failed goes on with the activation.
RetryOnlyActivates ==
  [][\A k \in Key : idem[k].status = "activation_pending" =>
       idem'[k].status \in {"activation_pending", "completed"}]_vars

\* A request that is being worked on is answered, though nothing makes the user
\* service answer: its calls time out.
RequestIsAnswered ==
  \A r \in Request : "timeout" \in Faults /\ pc[r] = "get_state" ~> pc[r] = "done"

\* Without failures a PENDING profile does not stay: it is activated or, when
\* its user name is taken, compensated away, if the user service does its work.
PendingSettles ==
  (\A r \in Request : WF_vars(UserService(r))) =>
    \A r \in Request : Faults = {} /\ profile[r] = "pending" ~> profile[r] # "pending"

\* The life of an account behind the saga.
Owned == [r \in Request |-> {<<"email", ProfileEmail(r)>>, <<"name", ProfileName(r)>>}]
WithPassword == {r \in Request : \E n \in Username : credential[n] = r}
Confirmed == {u \in Request : \E r \in Request :
                reply[r].code = "created" /\ reply[r].user = u}

Lifecycle == INSTANCE Accounts WITH
  Account <- Request,
  Identity <- ({"email"} \X Email) \cup ({"name"} \X Username),
  owns <- Owned, account <- profile, password <- WithPassword, told <- Confirmed

\* The saga implements the abstract life of an account: whatever fails, it is
\* opened, given its password, activated and confirmed in this order, once.
ImplementsAccounts == Lifecycle!Spec

-----------------------------------------------------------------------------
(* Why the promises hold: the inductive invariant of RegistrationProofs.   *)

\* How far a coroutine, its handler and its rows can be apart.  The handler may
\* lag behind a coroutine that gave up on it, but never overtakes the bind.
Stage(r) ==
  /\ pc[r] \in {"idle", "get_state", "save_started"} =>
       rpc[r] = "idle" /\ profile[r] = "absent"
  /\ rpc[r] \in {"create", "checked"} =>
       pc[r] \in {"await_create", "done"} /\ profile[r] = "absent"
  /\ pc[r] = "await_create" /\ rpc[r] = "ok" => profile[r] = "pending"
  /\ pc[r] \in {"save_profile_created", "check_bind", "commit_bind",
                "save_password_bound"} =>
       rpc[r] = "idle" /\ profile[r] = "pending"
  /\ pc[r] = "save_password_bound" => credential[msg[r].username] = r
  /\ pc[r] \in {"await_activate", "save_activation_pending", "save_completed"} =>
       Stored(r) /\ credential[msg[r].username] = r
  /\ rpc[r] = "activate" \/ profile[r] = "active" =>
       /\ pc[r] \in {"await_activate", "save_activation_pending",
                     "save_completed", "done"}
       /\ credential[msg[r].username] = r
  /\ pc[r] = "await_activate" /\ rpc[r] = "ok" => profile[r] = "active"
  /\ pc[r] = "save_completed" => rpc[r] = "idle" /\ profile[r] = "active"
  /\ rpc[r] = "delete" =>
       /\ pc[r] \in {"await_delete", "save_compensation_failed", "done"}
       /\ profile[r] # "active"

Stages == \A r \in Request : Stage(r)

\* After a failed compensation nothing is left that could activate the profile.
CompensationIsFinal ==
  \A k \in Key : idem[k].status = "compensation_failed" =>
    LET r == idem[k].by IN
    pc[r] = "done" /\ rpc[r] # "activate" /\ profile[r] # "active"

\* The unique indexes of `users`: deleted rows count.
UniqueRows ==
  \A r, s \in Request : r # s /\ Stored(r) /\ Stored(s) => ~Clash(r, s)

\* A request that is still worked on has no answer yet.
Unanswered == \A r \in Request : pc[r] # "done" => reply[r] = NoReply

IInv ==
  /\ TypeOK
  /\ Unanswered
  /\ Stages
  /\ CompensationIsFinal
  /\ RecordIsTruthful
  /\ SuccessIsUsable
  /\ UniqueRows

=============================================================================
