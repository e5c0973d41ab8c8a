--------------------------- MODULE RefreshTokens ---------------------------
(***************************************************************************)
(* Refresh tokens of the auth service: JWTs, the session Redis keeps for   *)
(* each of them, and the set of sessions it keeps for each user.  Login,   *)
(* refresh, logout and logout-all run concurrently; each of their Redis    *)
(* round trips is a step, a MULTI is one step.                             *)
(*                                                                         *)
(* A session key is always set to expire when its token does, so a session *)
(* needs no expiry of its own.  The index of a user does: every save sets  *)
(* its time to live anew.                                                  *)
(***************************************************************************)
EXTENDS Naturals, FiniteSets

CONSTANTS
  Jti,        \* token ids (uuid4: never handed out twice)
  User,
  Slot,       \* requests the auth service works on at the same time
  Operations, \* the endpoints the clients use
  Failures,   \* may a request die half way?
  Quick,      \* does a request take no time, measured in token lifetimes?
  Lifetime,   \* REFRESH_TOKEN_EXPIRE_DAYS
  MaxClock,   \* bound on the clock
  NoJti

Operation == {"login", "refresh", "logout", "logout_all"}

ASSUME LifetimeAssumption == Lifetime \in Nat \ {0} /\ MaxClock \in Nat
ASSUME NoJtiAssumption == NoJti \notin Jti
ASSUME OperationAssumption == Operations \subseteq Operation /\ {Failures, Quick} \subseteq BOOLEAN

VARIABLES
  clock,
  token,    \* token[j]: user and expiry in the JWT; the token it replaced and
            \* the login it goes back to are history
  session,  \* session[j]: the value of auth:refresh:{j}
  index,    \* index[u]: the set auth:user-refresh:{u} and its expiry
  slot,     \* slot[p]: the request in slot p and how far it is
  retired,  \* tokens a refresh or a logout was answered for (history)
  ended     \* logins a logout-all was answered for (history)

vars == <<clock, token, session, index, slot, retired, ended>>

Token == [user : User, expires : Nat, parent : Jti \cup {NoJti}, root : Jti]
NoToken == [user |-> "none", expires |-> 0, parent |-> NoJti, root |-> NoJti]

Step == {"idle", "get", "reread", "save", "issue", "collect"}

Idle == [step |-> "idle", op |-> "none", jti |-> NoJti, user |-> "none",
         todo |-> {}, copies |-> {}, roots |-> {}]

Request == [step : Step \ {"idle"}, op : Operation, jti : Jti \cup {NoJti},
            user : User, todo : SUBSET Jti, copies : SUBSET Jti,
            roots : SUBSET Jti]

TypeOK ==
  /\ clock \in Nat
  /\ token \in [Jti -> Token \cup {NoToken}]
  /\ session \in [Jti -> {"none", "open", "revoked"}]
  /\ index \in [User -> [members : SUBSET Jti, expires : Nat]]
  /\ slot \in [Slot -> Request \cup {Idle}]
  /\ retired \in SUBSET Jti
  /\ ended \in SUBSET Jti

Init ==
  /\ clock = 0
  /\ token = [j \in Jti |-> NoToken]
  /\ session = [j \in Jti |-> "none"]
  /\ index = [u \in User |-> [members |-> {}, expires |-> 0]]
  /\ slot = [p \in Slot |-> Idle]
  /\ retired = {}
  /\ ended = {}

-----------------------------------------------------------------------------
(* The store.                                                              *)

\* GET auth:refresh:{j} finds something.
Present(j) == session[j] # "none" /\ clock < token[j].expires

\* A token that refresh accepts.
Live(j) == session[j] = "open" /\ clock < token[j].expires

\* SMEMBERS auth:user-refresh:{u}
Members(u) == IF clock < index[u].expires THEN index[u].members ELSE {}

\* Mutant: only the save that creates the index gives it a time to live.
SaveKeepingIndexExpiry(j, value, u, expires) ==
  /\ session' = [session EXCEPT ![j] = value]
  /\ index' = [index EXCEPT ![u] =
       [members |-> Members(u) \cup {j},
        expires |-> IF Members(u) = {} THEN expires ELSE @.expires]]

\* save: SET of the session, SADD and EXPIRE of the index, in one MULTI.
Save(j, value, u, expires) ==
  /\ session' = [session EXCEPT ![j] = value]
  /\ index' = [index EXCEPT ![u] =
       [members |-> Members(u) \cup {j}, expires |-> expires]]

-----------------------------------------------------------------------------
(* The requests.                                                           *)

\* A request is at a step; it goes on to another one, or is answered.
At(p, step) == slot[p].step = step
Goto(p, step) == slot' = [slot EXCEPT ![p].step = step]
Answer(p) == slot' = [slot EXCEPT ![p] = Idle]

Start(p, op, step, j, u) ==
  /\ op \in Operations
  /\ At(p, "idle")
  /\ slot' = [slot EXCEPT ![p] = [Idle EXCEPT !.step = step, !.op = op,
                                             !.jti = j, !.user = u]]
  /\ UNCHANGED <<clock, token, session, index, retired, ended>>

\* login, once the password was accepted
Login(p) == \E u \in User : Start(p, "login", "issue", NoJti, u)

\* refresh and logout of a token that was issued; the signature and expiry
\* check of the JWT is subsumed by the GET of a session that expires with it
Refresh(p) == \E j \in Jti :
  token[j] # NoToken /\ Start(p, "refresh", "get", j, token[j].user)

Logout(p) == \E j \in Jti :
  token[j] # NoToken /\ Start(p, "logout", "reread", j, token[j].user)

\* Mutant: refresh does not look at revoked_at.
GetWithoutRevokedCheck(p) ==
  /\ At(p, "get")
  /\ IF Present(slot[p].jti) THEN Goto(p, "reread") ELSE Answer(p)
  /\ UNCHANGED <<clock, token, session, index, retired, ended>>

\* refresh: the session must be there and not revoked
Get(p) ==
  /\ At(p, "get")
  /\ IF Live(slot[p].jti) THEN Goto(p, "reread") ELSE Answer(p)
  /\ UNCHANGED <<clock, token, session, index, retired, ended>>

\* revoke is over: refresh goes on to issue, logout is answered
Revoked(p) ==
  IF slot[p].op = "refresh"
  THEN Goto(p, "issue") /\ UNCHANGED retired
  ELSE Answer(p) /\ retired' = retired \cup {slot[p].jti}

\* revoke reads the session again ...
Reread(p) ==
  /\ At(p, "reread")
  /\ IF Present(slot[p].jti) THEN Goto(p, "save") /\ UNCHANGED retired
                             ELSE Revoked(p)
  /\ UNCHANGED <<clock, token, session, index, ended>>

\* Mutant: revoke saves the session as it read it.
SaveRevokedUnchanged(p) ==
  LET j == slot[p].jti IN
  /\ At(p, "save")
  /\ IF clock < token[j].expires
     THEN Save(j, session[j], token[j].user, token[j].expires)
     ELSE UNCHANGED <<session, index>>
  /\ Revoked(p)
  /\ UNCHANGED <<clock, token, ended>>

\* Mutant: revoke saves a flag that nothing reads as revoked.
SaveRevokedFlag(p) ==
  LET j == slot[p].jti IN
  /\ At(p, "save")
  /\ IF clock < token[j].expires
     THEN Save(j, "flagged", token[j].user, token[j].expires)
     ELSE UNCHANGED <<session, index>>
  /\ Revoked(p)
  /\ UNCHANGED <<clock, token, ended>>

\* ... and saves it with revoked_at, unless no time to live is left.  The
\* index gets what is left of this session's life.
SaveRevoked(p) ==
  LET j == slot[p].jti IN
  /\ At(p, "save")
  /\ IF clock < token[j].expires
     THEN Save(j, "revoked", token[j].user, token[j].expires)
     ELSE UNCHANGED <<session, index>>
  /\ Revoked(p)
  /\ UNCHANGED <<clock, token, ended>>

\* Mutant: the token id may be one that was handed out before.
IssueReusingIds(p) ==
  LET from == slot[p].jti
      u == slot[p].user IN
  /\ At(p, "issue")
  /\ \E j \in Jti :
       /\ token' = [token EXCEPT ![j] =
            [user |-> u, expires |-> clock + Lifetime, parent |-> from,
             root |-> IF from = NoJti THEN j ELSE token[from].root]]
       /\ Save(j, "open", u, clock + Lifetime)
  /\ Answer(p)
  /\ retired' = IF from = NoJti THEN retired ELSE retired \cup {from}
  /\ UNCHANGED <<clock, ended>>

\* Mutant: a new session is not entered in the index.
IssueWithoutIndex(p) ==
  LET from == slot[p].jti
      u == slot[p].user IN
  /\ At(p, "issue")
  /\ \E j \in Jti :
       /\ token[j] = NoToken
       /\ token' = [token EXCEPT ![j] =
            [user |-> u, expires |-> clock + Lifetime, parent |-> from,
             root |-> IF from = NoJti THEN j ELSE token[from].root]]
       /\ session' = [session EXCEPT ![j] = "open"]
       /\ UNCHANGED index
  /\ Answer(p)
  /\ retired' = IF from = NoJti THEN retired ELSE retired \cup {from}
  /\ UNCHANGED <<clock, ended>>

\* _issue_tokens: a new token, saved; then the answer
Issue(p) ==
  LET from == slot[p].jti
      u == slot[p].user IN
  /\ At(p, "issue")
  /\ \E j \in Jti :
       /\ token[j] = NoToken
       /\ token' = [token EXCEPT ![j] =
            [user |-> u, expires |-> clock + Lifetime, parent |-> from,
             root |-> IF from = NoJti THEN j ELSE token[from].root]]
       /\ Save(j, "open", u, clock + Lifetime)
  /\ Answer(p)
  /\ retired' = IF from = NoJti THEN retired ELSE retired \cup {from}
  /\ UNCHANGED <<clock, ended>>

\* logout-all: SMEMBERS ...
LogoutAll(p) ==
  /\ "logout_all" \in Operations
  /\ At(p, "idle")
  /\ \E u \in User :
       slot' = [slot EXCEPT ![p] =
         [Idle EXCEPT !.step = "collect", !.op = "logout_all", !.user = u,
            !.todo = Members(u),
            !.roots = {token[j].root : j \in {i \in Jti : Live(i) /\ token[i].user = u}}]]
  /\ UNCHANGED <<clock, token, session, index, retired, ended>>

\* ... a GET for each, one after the other ...
Collect(p) ==
  /\ At(p, "collect")
  /\ \E j \in slot[p].todo :
       slot' = [slot EXCEPT ![p].todo = @ \ {j},
                            ![p].copies = IF Present(j) THEN @ \cup {j} ELSE @]
  /\ UNCHANGED <<clock, token, session, index, retired, ended>>

\* ... and one MULTI that sets the copies, with revoked_at, all at once.
Exec(p) ==
  /\ At(p, "collect")
  /\ slot[p].todo = {}
  /\ session' = [j \in Jti |->
       IF j \in slot[p].copies THEN "revoked" ELSE session[j]]
  /\ ended' = ended \cup slot[p].roots
  /\ Answer(p)
  /\ UNCHANGED <<clock, token, index, retired>>

\* Redis or the process fails: the request is never answered.
Die(p) ==
  /\ Failures
  /\ ~At(p, "idle")
  /\ Answer(p)
  /\ UNCHANGED <<clock, token, session, index, retired, ended>>

Tick ==
  /\ clock < MaxClock
  /\ Quick => \A p \in Slot : At(p, "idle")
  /\ clock' = clock + 1
  /\ UNCHANGED <<token, session, index, slot, retired, ended>>

\* The bound is used up: no id left for a login or refresh to hand out.
Exhausted ==
  /\ \A j \in Jti : token[j] # NoToken
  /\ UNCHANGED vars

Next ==
  \/ \E p \in Slot :
       \/ Login(p) \/ Refresh(p) \/ Logout(p) \/ LogoutAll(p)
       \/ Get(p) \/ Reread(p) \/ SaveRevoked(p) \/ Issue(p)
       \/ Collect(p) \/ Exec(p) \/ Die(p)
  \/ Tick
  \/ Exhausted

Spec == Init /\ [][Next]_vars

-----------------------------------------------------------------------------
(* What the tokens promise.                                                *)

\* A token whose refresh or logout was answered is dead: no refresh that
\* starts later accepts it, whatever else runs at the same time.
RetiredIsDead == \A j \in retired : ~Live(j)

\* The saves write copies that were read earlier, yet none brings a revoked
\* session back.
RevokedForGood ==
  [][\A j \in Jti : session[j] = "revoked" => session'[j] = "revoked"]_vars

\* Rotation: a token is exchanged for one new token at most.
RotatedOnce ==
  \A j \in Jti : Cardinality({c \in Jti : token[c].parent = j}) <= 1

\* Once a logout-all was answered, no token is alive that goes back to a login
\* it found.
LogoutAllHolds == \A j \in Jti : Live(j) => token[j].root \notin ended

\* The index names every token that is alive, so that logout-all can find it.
IndexCovers == \A j \in Jti : Live(j) => j \in Members(token[j].user)

=============================================================================
