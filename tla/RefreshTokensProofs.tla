------------------------ MODULE RefreshTokensProofs ------------------------
(***************************************************************************)
(* For any number of tokens, users and concurrent requests, and whatever   *)
(* fails: a token that was exchanged or logged out is never accepted       *)
(* again, although revocation is a read followed by a write and logout-all *)
(* writes back copies it read long before.  For requests one by one, or    *)
(* none that is slow or dies: a token is exchanged once, the index names   *)
(* every token that is alive, and logout-all is final.                     *)
(***************************************************************************)
EXTENDS RefreshTokens, FiniteSetTheorems, TLAPS

USE LifetimeAssumption, NoJtiAssumption, OperationAssumption

-----------------------------------------------------------------------------
(* The inductive invariant.                                                *)

\* The ids a request works with were handed out.
KnownIds(p) ==
  /\ slot[p].step \in {"get", "reread", "save"} => slot[p].jti # NoJti
  /\ slot[p].jti # NoJti => token[slot[p].jti] # NoToken
  /\ \A j \in slot[p].copies : token[j] # NoToken

\* A refresh that is about to issue has killed the token it was given.
TradesDeadToken(p) ==
  slot[p].step = "issue" /\ slot[p].jti # NoJti => ~Live(slot[p].jti)

\* A token has a session from the start; retirements are of tokens.
OfTokens ==
  /\ \A j \in Jti : session[j] = "none" <=> token[j] = NoToken
  /\ \A j \in retired : token[j] # NoToken

IInv ==
  /\ TypeOK
  /\ OfTokens
  /\ \A p \in Slot : KnownIds(p) /\ TradesDeadToken(p)
  /\ RetiredIsDead

\* What no step does: turn the clock back, change a token that was handed out
\* or bring back a revoked session.
TokensKept ==
  /\ clock <= clock'
  /\ \A j \in Jti : token[j] # NoToken => token'[j] = token[j]
  /\ \A j \in Jti : session[j] = "revoked" => session'[j] = "revoked"

-----------------------------------------------------------------------------
(* Type correctness.                                                       *)

LEMMA RequestTypes ==
  /\ Idle \notin Request
  /\ NoToken \notin Token
  /\ Step = {"idle", "get", "reread", "save", "issue", "collect"}
  /\ Operation = {"login", "refresh", "logout", "logout_all"}
  BY DEF Idle, Request, NoToken, Token, Step, Operation

LEMMA AtIsRequest ==
  ASSUME TypeOK, NEW p \in Slot, ~At(p, "idle")
  PROVE  slot[p] \in Request
  BY DEF TypeOK, At, Idle

\* The helpers keep the types of what they write.
LEMMA AnswerTypes ==
  ASSUME TypeOK, NEW p \in Slot, Answer(p)
  PROVE  slot' \in [Slot -> Request \cup {Idle}]
  BY DEF TypeOK, Answer

LEMMA GotoTypes ==
  ASSUME TypeOK, NEW p \in Slot, ~At(p, "idle"),
         NEW step \in Step \ {"idle"}, Goto(p, step)
  PROVE  slot' \in [Slot -> Request \cup {Idle}]
<1>1. slot[p] \in Request
  BY AtIsRequest
<1>2. [slot[p] EXCEPT !.step = step] \in Request
  BY <1>1 DEF Request
<1> QED
  BY <1>2 DEF TypeOK, Goto

LEMMA SaveTypes ==
  ASSUME TypeOK, NEW j \in Jti, NEW value \in {"open", "revoked"},
         NEW u \in User, NEW expires \in Nat, Save(j, value, u, expires)
  PROVE  /\ session' \in [Jti -> {"none", "open", "revoked"}]
         /\ index' \in [User -> [members : SUBSET Jti, expires : Nat]]
<1>1. Members(u) \in SUBSET Jti
  BY DEF Members, TypeOK
<1> QED
  BY <1>1 DEF TypeOK, Save

LEMMA InitTypeOK == Init => TypeOK
  BY DEF Init, TypeOK

LEMMA StartTypes ==
  ASSUME TypeOK, NEW p \in Slot, NEW op, NEW step \in Step \ {"idle"},
         NEW j \in Jti \cup {NoJti}, NEW u \in User, Start(p, op, step, j, u)
  PROVE  TypeOK'
<1>1. [Idle EXCEPT !.step = step, !.op = op, !.jti = j, !.user = u] \in Request
  BY DEF Start, Idle, Request
<1> QED
  BY <1>1 DEF TypeOK, Start

LEMMA TypeOKStep == TypeOK /\ (\A p \in Slot : KnownIds(p)) /\ [Next]_vars => TypeOK'
<1> SUFFICES ASSUME TypeOK, \A p \in Slot : KnownIds(p), [Next]_vars PROVE TypeOK'
  OBVIOUS
<1>1. ASSUME NEW p \in Slot, Login(p) PROVE TypeOK'
  BY <1>1, StartTypes, RequestTypes DEF Login
<1>2. ASSUME NEW p \in Slot, Refresh(p) PROVE TypeOK'
<2>1. PICK j \in Jti : token[j] # NoToken /\ Start(p, "refresh", "get", j, token[j].user)
  BY <1>2 DEF Refresh
<2>2. token[j].user \in User
  BY <2>1 DEF TypeOK, Token
<2> QED
  BY <2>1, <2>2, StartTypes, RequestTypes
<1>3. ASSUME NEW p \in Slot, Logout(p) PROVE TypeOK'
<2>1. PICK j \in Jti : token[j] # NoToken /\ Start(p, "logout", "reread", j, token[j].user)
  BY <1>3 DEF Logout
<2>2. token[j].user \in User
  BY <2>1 DEF TypeOK, Token
<2> QED
  BY <2>1, <2>2, StartTypes, RequestTypes
<1>4. ASSUME NEW p \in Slot, Get(p) PROVE TypeOK'
<2>1. slot' \in [Slot -> Request \cup {Idle}]
  BY <1>4, GotoTypes, AnswerTypes, RequestTypes DEF Get, At
<2> QED
  BY <1>4, <2>1 DEF Get, TypeOK
<1>5. ASSUME NEW p \in Slot, ~At(p, "idle"), slot[p].jti \in Jti, Revoked(p)
      PROVE  /\ slot' \in [Slot -> Request \cup {Idle}]
             /\ retired' \in SUBSET Jti
  BY <1>5, GotoTypes, AnswerTypes, RequestTypes DEF Revoked, TypeOK
<1>6. ASSUME NEW p \in Slot, Reread(p) PROVE TypeOK'
<2>1. slot[p].jti \in Jti /\ ~At(p, "idle")
  BY <1>6, AtIsRequest DEF Reread, At, KnownIds, Request
<2>2. slot' \in [Slot -> Request \cup {Idle}] /\ retired' \in SUBSET Jti
<3>1. CASE Goto(p, "save") /\ UNCHANGED retired
  BY <2>1, <3>1, GotoTypes, RequestTypes DEF TypeOK
<3>2. CASE Revoked(p)
  BY <2>1, <3>2, <1>5
<3> QED
  BY <1>6, <3>1, <3>2 DEF Reread
<2> QED
  BY <1>6, <2>2 DEF Reread, TypeOK
<1>7. ASSUME NEW p \in Slot, SaveRevoked(p) PROVE TypeOK'
<2>1. slot[p].jti \in Jti /\ ~At(p, "idle") /\ token[slot[p].jti] \in Token
  BY <1>7, AtIsRequest DEF SaveRevoked, At, KnownIds, TypeOK, Request
<2>2. slot' \in [Slot -> Request \cup {Idle}] /\ retired' \in SUBSET Jti
  BY <1>7, <2>1, <1>5 DEF SaveRevoked
<2>3. /\ session' \in [Jti -> {"none", "open", "revoked"}]
      /\ index' \in [User -> [members : SUBSET Jti, expires : Nat]]
<3>1. CASE Save(slot[p].jti, "revoked", token[slot[p].jti].user, token[slot[p].jti].expires)
<4>1. token[slot[p].jti].user \in User /\ token[slot[p].jti].expires \in Nat
  BY <2>1 DEF Token
<4> QED
  BY <2>1, <3>1, <4>1, SaveTypes
<3>2. CASE UNCHANGED <<session, index>>
  BY <3>2 DEF TypeOK
<3> QED
  BY <1>7, <3>1, <3>2 DEF SaveRevoked
<2> QED
  BY <1>7, <2>2, <2>3 DEF SaveRevoked, TypeOK
<1>8. ASSUME NEW p \in Slot, Issue(p) PROVE TypeOK'
<2>0. ~At(p, "idle") /\ slot[p] \in Request
  BY <1>8, AtIsRequest DEF Issue, At
<2>1. PICK j \in Jti :
        /\ token[j] = NoToken
        /\ token' = [token EXCEPT ![j] =
             [user |-> slot[p].user, expires |-> clock + Lifetime,
              parent |-> slot[p].jti,
              root |-> IF slot[p].jti = NoJti THEN j ELSE token[slot[p].jti].root]]
        /\ Save(j, "open", slot[p].user, clock + Lifetime)
  BY <1>8 DEF Issue
<2>2. /\ slot[p].user \in User /\ clock + Lifetime \in Nat
      /\ slot[p].jti \in Jti \cup {NoJti}
  BY <2>0 DEF Request, TypeOK
<2>3. slot[p].jti # NoJti => token[slot[p].jti].root \in Jti
<3>1. slot[p].jti # NoJti => token[slot[p].jti] \in Token
  BY <2>2 DEF KnownIds, TypeOK
<3> QED
  BY <3>1 DEF Token
<2>4. [user |-> slot[p].user, expires |-> clock + Lifetime, parent |-> slot[p].jti,
       root |-> IF slot[p].jti = NoJti THEN j ELSE token[slot[p].jti].root] \in Token
  BY <2>2, <2>3 DEF Token
<2>5. token' \in [Jti -> Token \cup {NoToken}]
  BY <2>1, <2>4 DEF TypeOK
<2>6. /\ session' \in [Jti -> {"none", "open", "revoked"}]
      /\ index' \in [User -> [members : SUBSET Jti, expires : Nat]]
  BY <2>1, <2>2, SaveTypes
<2>7. slot' \in [Slot -> Request \cup {Idle}]
  BY <1>8, AnswerTypes DEF Issue
<2>8. retired' \in SUBSET Jti
  BY <1>8, <2>2 DEF Issue, TypeOK
<2> QED
  BY <1>8, <2>5, <2>6, <2>7, <2>8 DEF Issue, TypeOK
<1>9. ASSUME NEW p \in Slot, LogoutAll(p) PROVE TypeOK'
<2>1. PICK u \in User : slot' = [slot EXCEPT ![p] =
        [Idle EXCEPT !.step = "collect", !.op = "logout_all", !.user = u,
           !.todo = Members(u),
           !.roots = {token[j].root : j \in {i \in Jti : Live(i) /\ token[i].user = u}}]]
  BY <1>9 DEF LogoutAll
<2> DEFINE R == {token[j].root : j \in {i \in Jti : Live(i) /\ token[i].user = u}}
<2>2. Members(u) \in SUBSET Jti
  BY DEF Members, TypeOK
<2>3. R \in SUBSET Jti
<3>1. ASSUME NEW j \in Jti, Live(j) PROVE token[j].root \in Jti
<4>1. token[j] # NoToken
  BY <3>1 DEF Live, TypeOK, NoToken
<4> QED
  BY <4>1 DEF TypeOK, Token
<3> QED
  BY <3>1
<2> HIDE DEF R
<2>4. [Idle EXCEPT !.step = "collect", !.op = "logout_all", !.user = u,
         !.todo = Members(u), !.roots = R] \in Request
  BY <2>2, <2>3 DEF Idle, Request, Step, Operation
<2> QED
  BY <1>9, <2>1, <2>4 DEF LogoutAll, TypeOK, R
<1>10. ASSUME NEW p \in Slot, Collect(p) PROVE TypeOK'
<2>1. slot[p] \in Request
  BY <1>10, AtIsRequest DEF Collect, At
<2>2. PICK j \in slot[p].todo : slot' = [slot EXCEPT ![p].todo = @ \ {j},
        ![p].copies = IF Present(j) THEN @ \cup {j} ELSE @]
  BY <1>10 DEF Collect
<2>3. j \in Jti
  BY <2>1, <2>2 DEF Request
<2>4. [slot[p] EXCEPT !.todo = @ \ {j},
         !.copies = IF Present(j) THEN @ \cup {j} ELSE @] \in Request
  BY <2>1, <2>3 DEF Request
<2> QED
  BY <1>10, <2>2, <2>4 DEF Collect, TypeOK
<1>11. ASSUME NEW p \in Slot, Exec(p) PROVE TypeOK'
<2>1. slot[p] \in Request
  BY <1>11, AtIsRequest DEF Exec, At
<2>2. ended' \in SUBSET Jti
  BY <1>11, <2>1 DEF Exec, TypeOK, Request
<2>3. slot' \in [Slot -> Request \cup {Idle}]
  BY <1>11, AnswerTypes DEF Exec
<2> QED
  BY <1>11, <2>2, <2>3 DEF Exec, TypeOK
<1>12. ASSUME NEW p \in Slot, Die(p) PROVE TypeOK'
  BY <1>12, AnswerTypes DEF Die, TypeOK
<1>13. ASSUME Tick PROVE TypeOK'
  BY <1>13 DEF Tick, TypeOK
<1>14. ASSUME UNCHANGED vars PROVE TypeOK'
  BY <1>14 DEF vars, TypeOK
<1> QED
  BY <1>1, <1>2, <1>3, <1>4, <1>6, <1>7, <1>8, <1>9, <1>10, <1>11, <1>12,
     <1>13, <1>14 DEF Next, Exhausted

-----------------------------------------------------------------------------
(* No step brings a dead token back.                                       *)

LEMMA TokensKeptStep == IInv /\ [Next]_vars => TokensKept
<1> SUFFICES ASSUME IInv, [Next]_vars PROVE TokensKept
  OBVIOUS
<1>1. ASSUME UNCHANGED <<clock, token, session>> PROVE TokensKept
  BY <1>1 DEF TokensKept, IInv, TypeOK
<1>2. ASSUME NEW p \in Slot,
             \/ Login(p) \/ Refresh(p) \/ Logout(p) \/ LogoutAll(p)
             \/ Get(p) \/ Reread(p) \/ Collect(p) \/ Die(p)
      PROVE  TokensKept
  BY <1>1, <1>2 DEF Login, Refresh, Logout, Start, LogoutAll, Get, Reread, Collect, Die
<1>3. ASSUME NEW p \in Slot, SaveRevoked(p) PROVE TokensKept
  BY <1>3 DEF SaveRevoked, Save, TokensKept, IInv, TypeOK
<1>4. ASSUME NEW p \in Slot, Issue(p) PROVE TokensKept
  BY <1>4 DEF Issue, Save, TokensKept, IInv, OfTokens, TypeOK
<1>5. ASSUME NEW p \in Slot, Exec(p) PROVE TokensKept
  BY <1>5 DEF Exec, TokensKept, IInv, TypeOK
<1>6. ASSUME Tick PROVE TokensKept
  BY <1>6 DEF Tick, TokensKept, IInv, TypeOK
<1> QED
  BY <1>1, <1>2, <1>3, <1>4, <1>5, <1>6 DEF Next, Exhausted, vars

LEMMA DeadStaysDead ==
  ASSUME IInv, TypeOK', TokensKept, NEW j \in Jti, token[j] # NoToken, ~Live(j)
  PROVE  token'[j] # NoToken /\ ~Live(j)'
<1>1. session[j] = "revoked" \/ clock >= token[j].expires
  BY DEF IInv, OfTokens, TypeOK, Live, Token
<1>2. token'[j] = token[j] /\ token[j].expires \in Nat
  BY DEF TokensKept, IInv, TypeOK, Token
<1> QED
  BY <1>1, <1>2 DEF TokensKept, Live, IInv, TypeOK

-----------------------------------------------------------------------------
(* The invariant is inductive.                                             *)

LEMMA OfTokensStep ==
  ASSUME IInv, [Next]_vars, TokensKept
  PROVE  \A j \in Jti : session'[j] = "none" <=> token'[j] = NoToken
<1>1. ASSUME UNCHANGED <<token, session>>
      PROVE \A j \in Jti : session'[j] = "none" <=> token'[j] = NoToken
  BY <1>1 DEF IInv, OfTokens
<1>2. ASSUME NEW p \in Slot,
             \/ Login(p) \/ Refresh(p) \/ Logout(p) \/ LogoutAll(p)
             \/ Get(p) \/ Reread(p) \/ Collect(p) \/ Die(p)
      PROVE \A j \in Jti : session'[j] = "none" <=> token'[j] = NoToken
  BY <1>1, <1>2 DEF Login, Refresh, Logout, Start, LogoutAll, Get, Reread, Collect, Die
<1>3. ASSUME NEW p \in Slot, SaveRevoked(p)
      PROVE \A j \in Jti : session'[j] = "none" <=> token'[j] = NoToken
<2>1. token[slot[p].jti] # NoToken /\ UNCHANGED token
  BY <1>3 DEF SaveRevoked, At, IInv, KnownIds
<2> QED
  BY <1>3, <2>1 DEF SaveRevoked, Save, IInv, OfTokens, TypeOK
<1>4. ASSUME NEW p \in Slot, Issue(p)
      PROVE \A j \in Jti : session'[j] = "none" <=> token'[j] = NoToken
<2>1. PICK j \in Jti :
        /\ token' = [token EXCEPT ![j] =
             [user |-> slot[p].user, expires |-> clock + Lifetime,
              parent |-> slot[p].jti,
              root |-> IF slot[p].jti = NoJti THEN j ELSE token[slot[p].jti].root]]
        /\ session' = [session EXCEPT ![j] = "open"]
  BY <1>4 DEF Issue, Save
<2>2. token'[j] # NoToken
<3>1. clock + Lifetime # 0
  BY DEF IInv, TypeOK
<3> QED
  BY <2>1, <3>1 DEF IInv, TypeOK, NoToken
<2> QED
  BY <2>1, <2>2 DEF IInv, OfTokens, TypeOK
<1>5. ASSUME NEW p \in Slot, Exec(p)
      PROVE \A j \in Jti : session'[j] = "none" <=> token'[j] = NoToken
  BY <1>5 DEF Exec, IInv, OfTokens, KnownIds, TypeOK
<1>6. ASSUME Tick PROVE \A j \in Jti : session'[j] = "none" <=> token'[j] = NoToken
  BY <1>1, <1>6 DEF Tick
<1> QED
  BY <1>1, <1>2, <1>3, <1>4, <1>5, <1>6 DEF Next, Exhausted, vars

\* A slot no step touches stays as good as it was.
LEMMA SlotKept ==
  ASSUME IInv, TypeOK', TokensKept, NEW q \in Slot, slot'[q] = slot[q]
  PROVE  KnownIds(q)' /\ TradesDeadToken(q)'
<1>1. slot[q].jti \in Jti \cup {NoJti} /\ slot[q].copies \subseteq Jti
  BY DEF IInv, TypeOK, Request, Idle
<1>2. \A j \in Jti : token[j] # NoToken => token'[j] # NoToken
  BY DEF TokensKept
<1>3. KnownIds(q)'
  BY <1>1, <1>2 DEF IInv, KnownIds
<1>4. TradesDeadToken(q)'
  BY <1>1, DeadStaysDead DEF IInv, TradesDeadToken, KnownIds
<1> QED
  BY <1>3, <1>4

\* An answered request leaves nothing behind.
LEMMA AnswerKeeps ==
  ASSUME IInv, TypeOK', TokensKept, NEW p \in Slot, Answer(p)
  PROVE  \A q \in Slot : KnownIds(q)' /\ TradesDeadToken(q)'
<1>1. KnownIds(p)' /\ TradesDeadToken(p)'
  BY DEF Answer, KnownIds, TradesDeadToken, Idle, IInv, TypeOK
<1>2. \A q \in Slot \ {p} : slot'[q] = slot[q]
  BY DEF Answer, IInv, TypeOK
<1> QED
  BY <1>1, <1>2, SlotKept

\* A request may go on to a step that needs an id if it has one, and on to
\* issue if that id is dead.
LEMMA GotoKeeps ==
  ASSUME IInv, TypeOK', TokensKept, NEW p \in Slot, NEW step \in Step, Goto(p, step),
         NEW j \in Jti, slot[p].jti = j, step = "issue" => ~Live(j)'
  PROVE  \A q \in Slot : KnownIds(q)' /\ TradesDeadToken(q)'
<1>1. \A q \in Slot \ {p} : slot'[q] = slot[q]
  BY DEF Goto, IInv, TypeOK
<1>2. /\ slot'[p].step = step
      /\ slot'[p].jti = slot[p].jti
      /\ slot'[p].copies = slot[p].copies
  BY DEF Goto, IInv, TypeOK, Request, Idle
<1>3. slot[p].copies \subseteq Jti
  BY DEF IInv, TypeOK, Request, Idle
<1>4. KnownIds(p)' /\ TradesDeadToken(p)'
  BY <1>2, <1>3 DEF IInv, KnownIds, TradesDeadToken, TokensKept
<1> QED
  BY <1>1, <1>4, SlotKept

LEMMA StartKeeps ==
  ASSUME IInv, TypeOK', TokensKept, NEW p \in Slot, NEW op, NEW u,
         NEW step, NEW j \in Jti \cup {NoJti}, Start(p, op, step, j, u),
         \/ step = "issue" /\ j = NoJti
         \/ step \in {"get", "reread"} /\ j # NoJti /\ token[j] # NoToken
  PROVE  \A q \in Slot : KnownIds(q)' /\ TradesDeadToken(q)'
<1>1. \A q \in Slot \ {p} : slot'[q] = slot[q]
  BY DEF Start, IInv, TypeOK
<1>2. slot'[p].step = step /\ slot'[p].jti = j /\ slot'[p].copies = {}
  BY DEF Start, IInv, TypeOK, Idle
<1>3. KnownIds(p)' /\ TradesDeadToken(p)'
  BY <1>2 DEF KnownIds, TradesDeadToken, TokensKept
<1> QED
  BY <1>1, <1>3, SlotKept

\* Revoke is over: its token is dead, and it alone is newly retired.
LEMMA RevokedKeeps ==
  ASSUME IInv, TypeOK', TokensKept, NEW p \in Slot, Revoked(p), NEW j \in Jti,
         slot[p].jti = j, token[j] # NoToken, ~Live(j)'
  PROVE  /\ \A q \in Slot : KnownIds(q)' /\ TradesDeadToken(q)'
         /\ \A i \in retired' : token'[i] # NoToken /\ ~Live(i)'
<1>1. \A i \in retired : token'[i] # NoToken /\ ~Live(i)'
  BY DeadStaysDead DEF IInv, OfTokens, RetiredIsDead, TypeOK
<1>2. \A i \in retired' : token'[i] # NoToken /\ ~Live(i)'
  BY <1>1 DEF Revoked, TokensKept
<1>3. CASE Goto(p, "issue")
  BY <1>2, <1>3, GotoKeeps, RequestTypes
<1>4. CASE Answer(p)
  BY <1>2, <1>4, AnswerKeeps
<1> QED
  BY <1>3, <1>4 DEF Revoked

LEMMA InitIInv == Init => IInv
<1> SUFFICES ASSUME Init PROVE IInv
  OBVIOUS
<1>1. TypeOK
  BY InitTypeOK
<1>2. OfTokens /\ RetiredIsDead
  BY DEF Init, OfTokens, RetiredIsDead
<1>3. \A p \in Slot : KnownIds(p) /\ TradesDeadToken(p)
  BY DEF Init, KnownIds, TradesDeadToken, Idle
<1> QED
  BY <1>1, <1>2, <1>3 DEF IInv

LEMMA IInvStep == IInv /\ [Next]_vars => IInv'
<1> SUFFICES ASSUME IInv, [Next]_vars PROVE IInv'
  OBVIOUS
<1>0. TypeOK' /\ TokensKept
  BY TypeOKStep, TokensKeptStep DEF IInv
<1> DEFINE SlotsGood == \A q \in Slot : KnownIds(q)' /\ TradesDeadToken(q)'
           RetiredGood == \A i \in retired' : token'[i] # NoToken /\ ~Live(i)'
<1>a. \A i \in retired : token'[i] # NoToken /\ ~Live(i)'
  BY <1>0, DeadStaysDead DEF IInv, OfTokens, RetiredIsDead, TypeOK
<1>b. ASSUME UNCHANGED retired PROVE RetiredGood
  BY <1>a, <1>b
<1>1. ASSUME NEW p \in Slot, Login(p) PROVE SlotsGood /\ RetiredGood
  BY <1>0, <1>1, <1>b, StartKeeps DEF Login, Start
<1>2. ASSUME NEW p \in Slot, Refresh(p) PROVE SlotsGood /\ RetiredGood
  BY <1>0, <1>2, <1>b, StartKeeps DEF Refresh, Start
<1>3. ASSUME NEW p \in Slot, Logout(p) PROVE SlotsGood /\ RetiredGood
  BY <1>0, <1>3, <1>b, StartKeeps DEF Logout, Start
<1>4. ASSUME NEW p \in Slot, Get(p) PROVE SlotsGood /\ RetiredGood
<2>1. slot[p].jti \in Jti
  BY <1>4, AtIsRequest DEF Get, At, IInv, KnownIds, Request
<2>2. CASE Goto(p, "reread")
  BY <1>0, <1>4, <1>b, <2>1, <2>2, GotoKeeps, RequestTypes DEF Get
<2>3. CASE Answer(p)
  BY <1>0, <1>4, <1>b, <2>3, AnswerKeeps DEF Get
<2> QED
  BY <1>4, <2>2, <2>3 DEF Get
<1>5. ASSUME NEW p \in Slot, Reread(p) PROVE SlotsGood /\ RetiredGood
<2>1. slot[p].jti \in Jti /\ token[slot[p].jti] # NoToken
  BY <1>5, AtIsRequest DEF Reread, At, IInv, KnownIds, Request
<2>2. PICK j \in Jti : slot[p].jti = j /\ token[j] # NoToken
  BY <2>1
<2>3. CASE Present(j)
  BY <1>0, <1>5, <1>b, <2>2, <2>3, GotoKeeps, RequestTypes DEF Reread
<2>4. CASE ~Present(j)
<3>1. ~Live(j)'
  BY <1>0, <2>2, <2>4, DeadStaysDead DEF Present, Live
<3> QED
  BY <1>0, <1>5, <2>2, <2>4, <3>1, RevokedKeeps DEF Reread
<2> QED
  BY <2>3, <2>4
<1>6. ASSUME NEW p \in Slot, SaveRevoked(p) PROVE SlotsGood /\ RetiredGood
<2>1. slot[p].jti \in Jti /\ token[slot[p].jti] # NoToken
  BY <1>6, AtIsRequest DEF SaveRevoked, At, IInv, KnownIds, Request
<2>2. PICK j \in Jti : slot[p].jti = j /\ token[j] # NoToken
  BY <2>1
<2>3. ~Live(j)'
<3>1. CASE clock < token[j].expires
  BY <1>6, <2>2, <3>1 DEF SaveRevoked, Save, Live, IInv, TypeOK
<3>2. CASE ~(clock < token[j].expires)
  BY <1>0, <2>2, <3>2, DeadStaysDead DEF Live
<3> QED
  BY <3>1, <3>2
<2> QED
  BY <1>0, <1>6, <2>2, <2>3, RevokedKeeps DEF SaveRevoked
<1>7. ASSUME NEW p \in Slot, Issue(p) PROVE SlotsGood /\ RetiredGood
<2>1. SlotsGood
  BY <1>0, <1>7, AnswerKeeps DEF Issue
<2>2. CASE slot[p].jti = NoJti
  BY <1>7, <1>b, <2>1, <2>2 DEF Issue
<2>3. CASE slot[p].jti # NoJti
<3>1. PICK j \in Jti : slot[p].jti = j
  BY <1>7, <2>3, AtIsRequest DEF Issue, At, IInv, Request
<3>2. token[j] # NoToken /\ ~Live(j)
  BY <1>7, <2>3, <3>1 DEF Issue, At, IInv, KnownIds, TradesDeadToken
<3>3. token'[j] # NoToken /\ ~Live(j)'
  BY <1>0, <3>1, <3>2, DeadStaysDead
<3>4. retired' = retired \cup {j}
  BY <1>7, <2>3, <3>1 DEF Issue
<3> QED
  BY <1>a, <2>1, <3>3, <3>4
<2> QED
  BY <2>2, <2>3
<1>8. ASSUME NEW p \in Slot, LogoutAll(p) PROVE SlotsGood /\ RetiredGood
<2>1. /\ slot'[p].step = "collect" /\ slot'[p].jti = NoJti /\ slot'[p].copies = {}
      /\ \A q \in Slot \ {p} : slot'[q] = slot[q]
  BY <1>8 DEF LogoutAll, IInv, TypeOK, Idle
<2>2. KnownIds(p)' /\ TradesDeadToken(p)'
  BY <2>1 DEF KnownIds, TradesDeadToken
<2> QED
  BY <1>0, <1>8, <1>b, <2>1, <2>2, SlotKept DEF LogoutAll
<1>9. ASSUME NEW p \in Slot, Collect(p) PROVE SlotsGood /\ RetiredGood
<2>0. slot[p] \in Request
  BY <1>9, AtIsRequest DEF Collect, At, IInv
<2>1. PICK j \in slot[p].todo : slot' = [slot EXCEPT ![p].todo = @ \ {j},
        ![p].copies = IF Present(j) THEN @ \cup {j} ELSE @]
  BY <1>9 DEF Collect
<2>2. /\ slot'[p].step = "collect" /\ slot'[p].jti = slot[p].jti
      /\ slot'[p].copies = IF Present(j) THEN slot[p].copies \cup {j} ELSE slot[p].copies
      /\ \A q \in Slot \ {p} : slot'[q] = slot[q]
  BY <1>9, <2>0, <2>1 DEF Collect, At, IInv, TypeOK, Request
<2>3. Present(j) => token[j] # NoToken
  BY <2>0 DEF Present, IInv, OfTokens, Request
<2>4. \A i \in slot'[p].copies : token[i] # NoToken
  BY <2>2, <2>3 DEF IInv, KnownIds
<2>5. slot[p].jti # NoJti => token[slot[p].jti] # NoToken
  BY DEF IInv, KnownIds
<2>6. KnownIds(p)' /\ TradesDeadToken(p)'
  BY <1>9, <2>2, <2>4, <2>5 DEF Collect, KnownIds, TradesDeadToken
<2> QED
  BY <1>0, <1>9, <1>b, <2>2, <2>6, SlotKept DEF Collect
<1>10. ASSUME NEW p \in Slot, Exec(p) PROVE SlotsGood /\ RetiredGood
  BY <1>0, <1>10, <1>b, AnswerKeeps DEF Exec
<1>11. ASSUME NEW p \in Slot, Die(p) PROVE SlotsGood /\ RetiredGood
  BY <1>0, <1>11, <1>b, AnswerKeeps DEF Die
<1>12. ASSUME UNCHANGED <<slot, retired>> PROVE SlotsGood /\ RetiredGood
  BY <1>0, <1>12, <1>b, SlotKept
<1>13. SlotsGood /\ RetiredGood
  BY <1>1, <1>2, <1>3, <1>4, <1>5, <1>6, <1>7, <1>8, <1>9, <1>10, <1>11, <1>12
     DEF Next, Tick, Exhausted, vars
<1> QED
  BY <1>0, <1>13, OfTokensStep DEF IInv, OfTokens, RetiredIsDead

-----------------------------------------------------------------------------
(* What a request is doing follows from how far it is, and it works for    *)
(* the user of its token.                                                  *)

OpsFit(p) ==
  /\ slot[p].step = "get" => slot[p].op = "refresh"
  /\ slot[p].step \in {"reread", "save"} => slot[p].op \in {"refresh", "logout"}
  /\ slot[p].step = "issue" => slot[p].op = IF slot[p].jti = NoJti THEN "login" ELSE "refresh"
  /\ slot[p].step = "collect" => slot[p].op = "logout_all"
  /\ slot[p].step # "idle" => slot[p].op \in Operations
  /\ slot[p].jti # NoJti => slot[p].user = token[slot[p].jti].user

OpsInv == IInv /\ \A p \in Slot : OpsFit(p)

LEMMA FitKept ==
  ASSUME OpsInv, TokensKept, NEW q \in Slot, slot'[q] = slot[q]
  PROVE  OpsFit(q)'
<1>1. slot[q].jti # NoJti => slot[q].jti \in Jti /\ token[slot[q].jti] # NoToken
  BY DEF OpsInv, IInv, TypeOK, KnownIds, Request, Idle
<1>2. slot[q].jti # NoJti => token'[slot[q].jti] = token[slot[q].jti]
  BY <1>1 DEF TokensKept
<1> QED
  BY <1>2 DEF OpsInv, OpsFit

LEMMA AnswerFits ==
  ASSUME OpsInv, TokensKept, NEW p \in Slot, Answer(p)
  PROVE  \A q \in Slot : OpsFit(q)'
<1>1. slot'[p] = Idle /\ \A q \in Slot \ {p} : slot'[q] = slot[q]
  BY DEF Answer, OpsInv, IInv, TypeOK
<1>2. OpsFit(p)'
  BY <1>1 DEF OpsFit, Idle
<1> QED
  BY <1>1, <1>2, FitKept

LEMMA GotoFits ==
  ASSUME OpsInv, TokensKept, NEW p \in Slot, NEW step, ~At(p, "idle"), Goto(p, step),
         \/ step \in {"reread", "save"} /\ slot[p].op \in {"refresh", "logout"}
         \/ step = "issue" /\ slot[p].op = "refresh" /\ slot[p].jti # NoJti
  PROVE  \A q \in Slot : OpsFit(q)'
<1>1. slot[p] \in Request /\ \A q \in Slot \ {p} : slot'[q] = slot[q]
  BY AtIsRequest DEF Goto, OpsInv, IInv, TypeOK
<1>2. /\ slot'[p].step = step /\ slot'[p].op = slot[p].op /\ slot'[p].jti = slot[p].jti
      /\ slot'[p].user = slot[p].user
  BY <1>1 DEF Goto, OpsInv, IInv, TypeOK, Request
<1>3. slot[p].jti # NoJti => token'[slot[p].jti] = token[slot[p].jti]
  BY <1>1 DEF TokensKept, OpsInv, IInv, KnownIds, Request
<1>4. OpsFit(p)'
  BY <1>2, <1>3 DEF OpsInv, OpsFit, At
<1> QED
  BY <1>1, <1>4, FitKept

LEMMA StartFits ==
  ASSUME OpsInv, TokensKept, NEW p \in Slot, NEW op, NEW u, NEW step, NEW j,
         Start(p, op, step, j, u),
         \/ step = "issue" /\ op = "login" /\ j = NoJti
         \/ /\ <<step, op>> \in {<<"get", "refresh">>, <<"reread", "logout">>}
            /\ j \in Jti /\ u = token[j].user
  PROVE  \A q \in Slot : OpsFit(q)'
<1>1. /\ \A q \in Slot \ {p} : slot'[q] = slot[q]
      /\ slot'[p].step = step /\ slot'[p].op = op /\ slot'[p].jti = j /\ slot'[p].user = u
      /\ op \in Operations /\ token' = token
  BY DEF Start, OpsInv, IInv, TypeOK, Idle
<1>2. OpsFit(p)'
  BY <1>1 DEF OpsFit
<1> QED
  BY <1>1, <1>2, FitKept

LEMMA OpsInvStep == OpsInv /\ [Next]_vars => OpsInv' /\ TokensKept
<1> SUFFICES ASSUME OpsInv, [Next]_vars PROVE IInv' /\ TokensKept /\ \A q \in Slot : OpsFit(q)'
  BY DEF OpsInv
<1>0. IInv' /\ TokensKept /\ TypeOK
  BY IInvStep, TokensKeptStep DEF OpsInv, IInv
<1>1. ASSUME NEW p \in Slot, Login(p) \/ Refresh(p) \/ Logout(p)
      PROVE  \A q \in Slot : OpsFit(q)'
<2>1. CASE Login(p)
<3>1. PICK u \in User : Start(p, "login", "issue", NoJti, u)
  BY <2>1 DEF Login
<3> QED
  BY <1>0, <3>1, StartFits
<2>2. CASE Refresh(p)
<3>1. PICK j \in Jti : Start(p, "refresh", "get", j, token[j].user)
  BY <2>2 DEF Refresh
<3> QED
  BY <1>0, <3>1, StartFits
<2>3. CASE Logout(p)
<3>1. PICK j \in Jti : Start(p, "logout", "reread", j, token[j].user)
  BY <2>3 DEF Logout
<3> QED
  BY <1>0, <3>1, StartFits
<2> QED
  BY <1>1, <2>1, <2>2, <2>3
<1>2. ASSUME NEW p \in Slot, Revoked(p), At(p, "reread") \/ At(p, "save")
      PROVE  \A q \in Slot : OpsFit(q)'
<2>1. slot[p].jti # NoJti /\ ~At(p, "idle")
  BY <1>2 DEF OpsInv, IInv, KnownIds, At
<2> QED
  BY <1>0, <1>2, <2>1, AnswerFits, GotoFits DEF Revoked
<1>3. ASSUME NEW p \in Slot, Get(p) PROVE \A q \in Slot : OpsFit(q)'
  BY <1>0, <1>3, AnswerFits, GotoFits DEF Get, At, OpsInv, OpsFit
<1>4. ASSUME NEW p \in Slot, Reread(p) PROVE \A q \in Slot : OpsFit(q)'
<2>1. slot[p].op \in {"refresh", "logout"} /\ ~At(p, "idle")
  BY <1>4 DEF Reread, At, OpsInv, OpsFit
<2> QED
  BY <1>0, <1>2, <1>4, <2>1, GotoFits DEF Reread
<1>5. ASSUME NEW p \in Slot, SaveRevoked(p) PROVE \A q \in Slot : OpsFit(q)'
  BY <1>2, <1>5 DEF SaveRevoked
<1>6. ASSUME NEW p \in Slot, Issue(p) \/ Exec(p) \/ Die(p) PROVE \A q \in Slot : OpsFit(q)'
  BY <1>0, <1>6, AnswerFits DEF Issue, Exec, Die
<1>7. ASSUME NEW p \in Slot, LogoutAll(p) PROVE \A q \in Slot : OpsFit(q)'
<2>1. /\ \A q \in Slot \ {p} : slot'[q] = slot[q]
      /\ slot'[p].step = "collect" /\ slot'[p].op = "logout_all" /\ slot'[p].jti = NoJti
      /\ "logout_all" \in Operations
  BY <1>0, <1>7 DEF LogoutAll, TypeOK, Idle
<2>2. OpsFit(p)'
  BY <2>1 DEF OpsFit
<2> QED
  BY <1>0, <2>1, <2>2, FitKept
<1>8. ASSUME NEW p \in Slot, Collect(p) PROVE \A q \in Slot : OpsFit(q)'
<2>1. slot[p] \in Request /\ slot[p].step = "collect"
  BY <1>0, <1>8, AtIsRequest DEF Collect, At
<2>2. /\ \A q \in Slot \ {p} : slot'[q] = slot[q]
      /\ slot'[p].step = slot[p].step /\ slot'[p].op = slot[p].op /\ slot'[p].jti = slot[p].jti
      /\ slot'[p].user = slot[p].user /\ token' = token
  BY <1>0, <1>8, <2>1 DEF Collect, TypeOK, Request
<2>3. OpsFit(p)'
  BY <2>2 DEF OpsInv, OpsFit
<2> QED
  BY <1>0, <2>2, <2>3, FitKept
<1>9. ASSUME UNCHANGED slot PROVE \A q \in Slot : OpsFit(q)'
  BY <1>0, <1>9, FitKept
<1> QED
  BY <1>0, <1>1, <1>3, <1>4, <1>5, <1>6, <1>7, <1>8, <1>9 DEF Next, Tick, Exhausted, vars

LEMMA InitOpsInv == Init => OpsInv
  BY InitIInv DEF Init, OpsInv, OpsFit, Idle

-----------------------------------------------------------------------------
(* Rotation.  When requests come one by one, nobody exchanges a token      *)
(* while another request has read it and not yet killed it.                *)

Alone == \A p, q \in Slot : p = q

\* A refresh that has found its token and is not answered yet.
Refreshing(p) == slot[p].op = "refresh" /\ slot[p].step \in {"reread", "save", "issue"}

LEMMA RefreshingFrom ==
  ASSUME OpsInv, [Next]_vars, NEW q \in Slot, Refreshing(q)'
  PROVE  /\ slot'[q].jti = slot[q].jti /\ slot[q].jti \in Jti
         /\ Refreshing(q) \/ (At(q, "get") /\ Live(slot[q].jti))
<1>0. TypeOK
  BY DEF OpsInv, IInv
<1>a. slot[q].step \in {"get", "reread", "save"} \/ Refreshing(q) => slot[q].jti \in Jti
  BY <1>0, AtIsRequest DEF OpsInv, IInv, KnownIds, OpsFit, Refreshing, At, Request
<1>1. ASSUME slot'[q] = slot[q] PROVE Refreshing(q) /\ slot'[q].jti = slot[q].jti
  BY <1>1 DEF Refreshing
<1>2. ASSUME NEW p \in Slot, NEW r, slot' = [slot EXCEPT ![p] = r], r.op # "refresh" \/ r.step = "get"
      PROVE  Refreshing(q) /\ slot'[q].jti = slot[q].jti
  BY <1>0, <1>1, <1>2 DEF Refreshing, TypeOK
<1>3. ASSUME NEW p \in Slot, Answer(p)
      PROVE  Refreshing(q) /\ slot'[q].jti = slot[q].jti
  BY <1>2, <1>3 DEF Answer, Idle
<1>4. ASSUME NEW p \in Slot, NEW step, Goto(p, step), ~At(p, "idle")
      PROVE  /\ slot'[q].jti = slot[q].jti /\ slot'[q].op = slot[q].op
             /\ q # p => Refreshing(q)
<2>1. slot[p] \in Request /\ (q # p => slot'[q] = slot[q])
  BY <1>0, <1>4, AtIsRequest DEF Goto, TypeOK
<2> QED
  BY <1>0, <1>1, <1>4, <2>1 DEF Goto, TypeOK, Request
<1>5. ASSUME NEW p \in Slot, NEW op, NEW step, NEW j, NEW u, Start(p, op, step, j, u),
             op # "refresh" \/ step = "get"
      PROVE  Refreshing(q) /\ slot'[q].jti = slot[q].jti
<2> DEFINE r == [Idle EXCEPT !.step = step, !.op = op, !.jti = j, !.user = u]
<2>1. r.op = op /\ r.step = step
  BY DEF Idle
<2>2. slot' = [slot EXCEPT ![p] = r]
  BY <1>5 DEF Start
<2> HIDE DEF r
<2> QED
  BY <1>2, <1>5, <2>1, <2>2
<1>6. ASSUME NEW p \in Slot, Revoked(p), At(p, "reread") \/ At(p, "save")
      PROVE  Refreshing(q) /\ slot'[q].jti = slot[q].jti
<2>1. CASE Answer(p)
  BY <1>3, <2>1
<2>2. CASE Goto(p, "issue")
  BY <1>4, <1>6, <2>2 DEF At, Refreshing
<2> QED
  BY <1>6, <2>1, <2>2 DEF Revoked
<1>7. ASSUME NEW p \in Slot, Login(p) \/ Refresh(p) \/ Logout(p)
      PROVE  Refreshing(q) /\ slot'[q].jti = slot[q].jti
  BY <1>5, <1>7 DEF Login, Refresh, Logout
<1>8. ASSUME NEW p \in Slot, Get(p)
      PROVE  /\ slot'[q].jti = slot[q].jti
             /\ Refreshing(q) \/ (At(q, "get") /\ Live(slot[q].jti))
<2>1. CASE Answer(p)
  BY <1>3, <2>1
<2>2. CASE Live(slot[p].jti) /\ Goto(p, "reread")
  BY <1>4, <1>8, <2>2 DEF Get, At
<2> QED
  BY <1>8, <2>1, <2>2 DEF Get
<1>9. ASSUME NEW p \in Slot, Reread(p)
      PROVE  Refreshing(q) /\ slot'[q].jti = slot[q].jti
<2>1. CASE Goto(p, "save")
  BY <1>4, <1>9, <2>1 DEF Reread, At, Refreshing
<2> QED
  BY <1>6, <1>9, <2>1 DEF Reread
<1>10. ASSUME NEW p \in Slot, LogoutAll(p)
      PROVE  Refreshing(q) /\ slot'[q].jti = slot[q].jti
  BY <1>0, <1>1, <1>10 DEF LogoutAll, Refreshing, TypeOK, Idle
<1>11. ASSUME NEW p \in Slot, Collect(p)
      PROVE  Refreshing(q) /\ slot'[q].jti = slot[q].jti
<2>1. slot[p] \in Request /\ slot[p].op = "logout_all"
  BY <1>0, <1>11, AtIsRequest DEF Collect, At, OpsInv, OpsFit
<2>2. q # p
  BY <1>0, <1>11, <2>1 DEF Collect, Refreshing, TypeOK, Request
<2> QED
  BY <1>0, <1>1, <1>11, <2>2 DEF Collect, TypeOK
<1> QED
  BY <1>a, <1>1, <1>3, <1>6, <1>7, <1>8, <1>9, <1>10, <1>11
     DEF Next, SaveRevoked, Issue, Exec, Die, Tick, Exhausted, vars, At

LEMMA TokenFrom ==
  ASSUME OpsInv, [Next]_vars
  PROVE  /\ token' = token \/ \E p \in Slot : Issue(p)
         /\ retired \subseteq retired'
  BY DEF Next, Login, Refresh, Logout, Start, LogoutAll, Get, Reread, Revoked, SaveRevoked, Issue,
         Collect, Exec, Die, Tick, Exhausted, vars

LEMMA Issued ==
  ASSUME OpsInv, NEW p \in Slot, Issue(p)
  PROVE  /\ slot'[p] = Idle /\ slot[p].user \in User
         /\ \E j \in Jti :
              /\ token[j] = NoToken /\ \A i \in Jti \ {j} : token'[i] = token[i]
              /\ token'[j] = [user |-> slot[p].user, expires |-> clock + Lifetime,
                              parent |-> slot[p].jti,
                              root |-> IF slot[p].jti = NoJti THEN j ELSE token[slot[p].jti].root]
              /\ Save(j, "open", slot[p].user, clock + Lifetime)
         /\ slot[p].jti # NoJti => slot[p].jti \in Jti /\ Refreshing(p) /\ slot[p].jti \in retired'
<1>1. TypeOK /\ slot[p] \in Request
  BY AtIsRequest DEF OpsInv, IInv, Issue, At
<1> QED
  BY <1>1 DEF Issue, Answer, TypeOK, Request, At, OpsInv, OpsFit, Refreshing

\* A token that was exchanged is retired, and not being exchanged again.
OnceInv ==
  /\ OpsInv
  /\ \A c \in Jti : token[c].parent # NoJti => token[c].parent \in retired
  /\ \A p \in Slot : Refreshing(p) => \A c \in Jti : token[c].parent # slot[p].jti
  /\ \A c, d \in Jti : (token[c].parent # NoJti /\ token[c].parent = token[d].parent) => c = d

LEMMA OnceStep == ASSUME Alone PROVE OnceInv /\ [Next]_vars => OnceInv'
<1> SUFFICES ASSUME OnceInv, [Next]_vars PROVE OnceInv'
  OBVIOUS
<1>0. OpsInv /\ OpsInv' /\ retired \subseteq retired'
  BY OpsInvStep, TokenFrom DEF OnceInv
<1>1. CASE token' = token
<2>1. ASSUME NEW q \in Slot, Refreshing(q)'
      PROVE  \A c \in Jti : token'[c].parent # slot'[q].jti
<3>1. /\ slot'[q].jti = slot[q].jti /\ slot[q].jti \in Jti
      /\ Refreshing(q) \/ (At(q, "get") /\ Live(slot[q].jti))
  BY <1>0, <2>1, RefreshingFrom
<3>2. slot[q].jti \in retired => ~Live(slot[q].jti)
  BY <1>0 DEF OpsInv, IInv, RetiredIsDead
<3> QED
  BY <1>1, <3>1, <3>2 DEF OnceInv
<2> QED
  BY <1>0, <1>1, <2>1 DEF OnceInv, Refreshing
<1>2. ASSUME NEW p \in Slot, Issue(p) PROVE OnceInv'
<2>1. PICK j \in Jti :
        /\ token[j] = NoToken /\ \A i \in Jti \ {j} : token'[i] = token[i]
        /\ token'[j] = [user |-> slot[p].user, expires |-> clock + Lifetime, parent |-> slot[p].jti,
                        root |-> IF slot[p].jti = NoJti THEN j ELSE token[slot[p].jti].root]
  BY <1>0, <1>2, Issued
<2>a. token'[j].parent = slot[p].jti
  BY <2>1
<2>2. \A q \in Slot : ~Refreshing(q)'
  BY <1>0, <1>2, Issued DEF Alone, Refreshing, Idle
<2>3. slot[p].jti # NoJti =>
        slot[p].jti \in retired' /\ \A c \in Jti : token[c].parent # slot[p].jti
  BY <1>0, <1>2, Issued DEF OnceInv
<2>4. \A c \in Jti : token'[c].parent # NoJti => token'[c].parent \in retired'
  BY <1>0, <2>1, <2>a, <2>3 DEF OnceInv
<2>5. \A c, d \in Jti : (token'[c].parent # NoJti /\ token'[c].parent = token'[d].parent) => c = d
  BY <2>1, <2>a, <2>3 DEF OnceInv
<2> QED
  BY <1>0, <2>2, <2>4, <2>5 DEF OnceInv, Refreshing
<1> QED
  BY <1>0, <1>1, <1>2, TokenFrom

-----------------------------------------------------------------------------
(* The index.  It lives as long as the longest of the user's tokens,       *)
(* except between the two saves of a refresh, of which the first leaves it *)
(* what is left of the old token's life.                                   *)

Steady == Quick /\ ~Failures /\ "logout" \notin Operations

Reissuing(p, u) == At(p, "issue") /\ slot[p].jti # NoJti /\ slot[p].user = u

LivesLongest(u) ==
  \/ \A j \in Jti : (Live(j) /\ token[j].user = u) => token[j].expires <= index[u].expires
  \/ \E p \in Slot : Reissuing(p, u)

IndexInv ==
  /\ OpsInv /\ IndexCovers
  /\ \A j \in Jti : token[j].expires <= clock + Lifetime
  /\ \A u \in User : LivesLongest(u)

\* Nothing is saved, and a refresh that is about to issue still is.
LEMMA IndexKept ==
  ASSUME IndexInv, UNCHANGED <<clock, token, index>>,
         \A j \in Jti : Live(j)' => Live(j),
         \A q \in Slot : (At(q, "issue") /\ slot[q].jti # NoJti) => slot'[q] = slot[q]
  PROVE  /\ \A j \in Jti : Live(j)' => j \in Members(token[j].user)'
         /\ \A u \in User : LivesLongest(u)'
<1>1. \A j \in Jti : Live(j)' => j \in Members(token[j].user)'
  BY DEF IndexInv, IndexCovers, Members
<1>2. ASSUME NEW u \in User
      PROVE  LivesLongest(u)'
<2>1. CASE \E p \in Slot : Reissuing(p, u)
  BY <2>1 DEF LivesLongest, Reissuing, At
<2>2. CASE \A j \in Jti : (Live(j) /\ token[j].user = u) => token[j].expires <= index[u].expires
  BY <2>2 DEF LivesLongest
<2> QED
  BY <2>1, <2>2 DEF IndexInv, LivesLongest
<1> QED
  BY <1>1, <1>2

\* A refresh goes on to issue.
LEMMA GotoIssueIndex ==
  ASSUME IndexInv, NEW p \in Slot, Goto(p, "issue"), slot[p].jti # NoJti, ~At(p, "idle"),
         NEW x \in User, slot[p].user = x, token' = token, clock' = clock,
         \A j \in Jti : Live(j)' => Live(j),
         \A u \in User \ {x} : index'[u] = index[u]
  PROVE  \A u \in User : LivesLongest(u)'
<1>1. /\ \A q \in Slot \ {p} : slot'[q] = slot[q]
      /\ slot'[p].step = "issue" /\ slot'[p].jti = slot[p].jti /\ slot'[p].user = slot[p].user
<2>1. slot[p] \in Request /\ TypeOK
  BY AtIsRequest DEF IndexInv, OpsInv, IInv
<2> QED
  BY <2>1 DEF Goto, TypeOK, Request
<1>2. Reissuing(p, x)'
  BY <1>1 DEF Reissuing, At
<1>3. ASSUME NEW u \in User, u # x
      PROVE  LivesLongest(u)'
<2>1. CASE \E q \in Slot : Reissuing(q, u)
<3>1. PICK q \in Slot : Reissuing(q, u)
  BY <2>1
<3>2. q # p
  BY <1>3, <3>1 DEF Reissuing
<3>3. Reissuing(q, u)'
  BY <1>1, <3>1, <3>2 DEF Reissuing, At
<3> QED
  BY <3>3 DEF LivesLongest
<2>2. CASE \A j \in Jti : (Live(j) /\ token[j].user = u) => token[j].expires <= index[u].expires
  BY <1>3, <2>2 DEF LivesLongest
<2> QED
  BY <2>1, <2>2 DEF IndexInv, LivesLongest
<1> QED
  BY <1>2, <1>3 DEF LivesLongest

LEMMA SaveRevokedIndex ==
  ASSUME IndexInv, Steady, NEW p \in Slot, SaveRevoked(p)
  PROVE  /\ \A j \in Jti : Live(j)' => j \in Members(token[j].user)'
         /\ \A u \in User : LivesLongest(u)'
<1> DEFINE j == slot[p].jti
<1>0. /\ TypeOK /\ slot[p] \in Request /\ At(p, "save") /\ j \in Jti /\ j # NoJti
      /\ token[j] \in Token /\ slot[p].op = "refresh" /\ slot[p].user = token[j].user
      /\ token' = token /\ clock' = clock
<2>1. TypeOK /\ slot[p] \in Request /\ At(p, "save")
  BY AtIsRequest DEF IndexInv, OpsInv, IInv, SaveRevoked, At
<2>2. slot[p].op = "refresh"
  BY <2>1 DEF IndexInv, OpsInv, OpsFit, Steady, At
<2>3. j \in Jti /\ j # NoJti /\ token[j] # NoToken
  BY <2>1 DEF IndexInv, OpsInv, IInv, KnownIds, At, Request
<2> QED
  BY <2>1, <2>2, <2>3 DEF IndexInv, OpsInv, OpsFit, TypeOK, SaveRevoked
<1>1. PICK x \in User : x = slot[p].user
  BY <1>0 DEF Request
<1>2. Goto(p, "issue") /\ ~At(p, "idle")
  BY <1>0 DEF SaveRevoked, Revoked, At
<1>3. CASE clock < token[j].expires
<2>1. /\ session' = [session EXCEPT ![j] = "revoked"]
      /\ index' = [index EXCEPT ![x] = [members |-> Members(x) \cup {j}, expires |-> token[j].expires]]
  BY <1>0, <1>1, <1>3 DEF SaveRevoked, Save
<2>2. \A i \in Jti : Live(i)' => Live(i)
  BY <1>0, <2>1 DEF Live, TypeOK
<2>3. /\ \A u \in User \ {x} : index'[u] = index[u]
      /\ index'[x] = [members |-> Members(x) \cup {j}, expires |-> token[j].expires]
  BY <1>0, <2>1 DEF TypeOK
<2>4. \A u \in User : Members(u) \subseteq Members(u)'
  BY <1>0, <1>3, <2>3 DEF Members
<2>5. \A i \in Jti : Live(i) => token[i].user \in User
  BY <1>0 DEF Live, TypeOK, Token, NoToken
<2>6. \A i \in Jti : Live(i)' => i \in Members(token[i].user)'
<3> SUFFICES ASSUME NEW i \in Jti, Live(i)' PROVE i \in Members(token[i].user)'
  OBVIOUS
<3>1. PICK u \in User : u = token[i].user
  BY <2>2, <2>5
<3>2. i \in Members(u)
  BY <2>2, <3>1 DEF IndexInv, IndexCovers
<3> QED
  BY <1>0, <2>4, <3>1, <3>2 DEF Members
<2>7. slot[p].jti # NoJti /\ slot[p].user = x
  BY <1>0, <1>1
<2> HIDE DEF j
<2>8. \A u \in User : LivesLongest(u)'
  BY <1>0, <1>2, <2>2, <2>3, <2>7, GotoIssueIndex
<2> QED
  BY <2>6, <2>8
<1>4. CASE ~(clock < token[j].expires)
<2>1. session' = session /\ index' = index
  BY <1>4 DEF SaveRevoked
<2>2. \A i \in Jti : Live(i)' => Live(i)
  BY <1>0, <2>1 DEF Live
<2>3. \A i \in Jti : Live(i)' => i \in Members(token[i].user)'
  BY <1>0, <2>1, <2>2 DEF IndexInv, IndexCovers, Members
<2> QED
  BY <1>0, <1>1, <1>2, <2>1, <2>2, <2>3, GotoIssueIndex
<1> QED
  BY <1>3, <1>4

LEMMA IssueIndex ==
  ASSUME IndexInv, NEW p \in Slot, Issue(p)
  PROVE  /\ \A j \in Jti : Live(j)' => j \in Members(token[j].user)'
         /\ \A j \in Jti : token'[j].expires <= clock' + Lifetime
         /\ \A u \in User : LivesLongest(u)'
<1>0. TypeOK /\ clock' = clock /\ clock \in Nat /\ Lifetime \in Nat \ {0}
      /\ OpsInv /\ Answer(p)
  BY DEF IndexInv, OpsInv, IInv, TypeOK, Issue
<1>1. PICK x \in User : x = slot[p].user
  BY <1>0, Issued
<1>2. PICK j \in Jti :
        /\ token[j] = NoToken /\ \A i \in Jti \ {j} : token'[i] = token[i]
        /\ token'[j] = [user |-> slot[p].user, expires |-> clock + Lifetime, parent |-> slot[p].jti,
                        root |-> IF slot[p].jti = NoJti THEN j ELSE token[slot[p].jti].root]
        /\ Save(j, "open", slot[p].user, clock + Lifetime)
  BY <1>0, Issued
<1>3. /\ token'[j].user = x /\ token'[j].expires = clock + Lifetime
      /\ \A u \in User \ {x} : index'[u] = index[u]
      /\ index'[x].members = Members(x) \cup {j} /\ index'[x].expires = clock + Lifetime
      /\ \A i \in Jti \ {j} : session'[i] = session[i]
  BY <1>0, <1>1, <1>2 DEF Save, TypeOK
<1>4. \A i \in Jti \ {j} : Live(i)' => Live(i) /\ token'[i] = token[i] /\ token[i].user \in User
  BY <1>0, <1>2, <1>3 DEF Live, TypeOK, Token, NoToken
<1>5. \A i \in Jti : token[i].expires \in Nat /\ token[i].expires <= clock + Lifetime
  BY <1>0 DEF IndexInv, TypeOK, Token, NoToken
<1>6. \A i \in Jti : token'[i].expires <= clock' + Lifetime
  BY <1>0, <1>2, <1>3, <1>5
<1>7. Members(x)' = Members(x) \cup {j} /\ \A u \in User \ {x} : Members(u)' = Members(u)
  BY <1>0, <1>3 DEF Members
<1>8. ASSUME NEW i \in Jti, Live(i)'
      PROVE  i \in Members(token[i].user)'
<2>1. CASE i = j
<3>1. PICK u \in User : u = token'[i].user /\ u = x
  BY <1>3, <2>1
<3>2. i \in Members(u)'
  BY <1>7, <2>1, <3>1
<3> QED
  BY <3>1, <3>2 DEF Members
<2>2. CASE i # j
<3>1. PICK u \in User : u = token[i].user
  BY <1>4, <1>8, <2>2
<3>2. i \in Members(u) /\ token'[i].user = u
  BY <1>4, <1>8, <2>2, <3>1 DEF IndexInv, IndexCovers
<3>3. i \in Members(u)'
  BY <1>7, <3>2
<3> QED
  BY <3>2, <3>3 DEF Members
<2> QED
  BY <2>1, <2>2
<1>9. ASSUME NEW u \in User
      PROVE  LivesLongest(u)'
<2>1. CASE u = x
  BY <1>0, <1>3, <1>6, <2>1 DEF LivesLongest
<2>2. CASE u # x
<3>1. CASE \E q \in Slot : Reissuing(q, u)
<4>1. PICK q \in Slot : Reissuing(q, u)
  BY <3>1
<4>2. q # p
  BY <1>1, <2>2, <4>1 DEF Reissuing
<4>3. slot'[q] = slot[q]
  BY <1>0, <4>2 DEF Answer, TypeOK
<4> QED
  BY <4>1, <4>3 DEF LivesLongest, Reissuing, At
<3>2. CASE \A i \in Jti : (Live(i) /\ token[i].user = u) => token[i].expires <= index[u].expires
  BY <1>3, <1>4, <2>2, <3>2 DEF LivesLongest
<3> QED
  BY <3>1, <3>2 DEF IndexInv, LivesLongest
<2> QED
  BY <2>1, <2>2
<1> QED
  BY <1>6, <1>8, <1>9

LEMMA TickIndex ==
  ASSUME IndexInv, Steady, Tick
  PROVE  /\ \A j \in Jti : Live(j)' => j \in Members(token[j].user)'
         /\ \A j \in Jti : token'[j].expires <= clock' + Lifetime
         /\ \A u \in User : LivesLongest(u)'
<1>0. /\ TypeOK /\ clock \in Nat /\ clock' = clock + 1 /\ UNCHANGED <<token, session, index, slot>>
      /\ \A p \in Slot : At(p, "idle") /\ Lifetime \in Nat
  BY DEF IndexInv, OpsInv, IInv, TypeOK, Tick, Steady
<1>1. \A j \in Jti : token[j].expires \in Nat /\ (Live(j) => token[j].user \in User)
  BY <1>0 DEF TypeOK, Token, NoToken, Live
<1>2. \A j \in Jti : Live(j)' => Live(j)
  BY <1>0, <1>1 DEF Live
<1>3. \A u \in User : \A j \in Jti :
        (Live(j) /\ token[j].user = u) => token[j].expires <= index[u].expires
  BY <1>0 DEF IndexInv, LivesLongest, Reissuing, At
<1>4. ASSUME NEW j \in Jti, Live(j)'
      PROVE  j \in Members(token[j].user)'
<2>1. PICK u \in User : u = token[j].user
  BY <1>1, <1>2, <1>4
<2>2. j \in Members(u) /\ token[j].expires <= index[u].expires
  BY <1>2, <1>3, <1>4, <2>1 DEF IndexInv, IndexCovers
<2>3. clock + 1 < token[j].expires /\ index[u].expires \in Nat
  BY <1>0, <1>4 DEF Live, TypeOK
<2>4. j \in index[u].members
  BY <2>2 DEF Members
<2>5. clock' < index'[u].expires
  BY <1>0, <1>1, <2>2, <2>3
<2> QED
  BY <1>0, <2>1, <2>4, <2>5 DEF Members
<1>5. \A j \in Jti : token'[j].expires <= clock' + Lifetime
  BY <1>0, <1>1 DEF IndexInv
<1>6. \A u \in User : LivesLongest(u)'
  BY <1>0, <1>2, <1>3 DEF LivesLongest
<1> QED
  BY <1>4, <1>5, <1>6

LEMMA IndexStep == ASSUME Steady PROVE IndexInv /\ [Next]_vars => IndexInv'
<1> SUFFICES ASSUME IndexInv, [Next]_vars
             PROVE  /\ \A j \in Jti : Live(j)' => j \in Members(token[j].user)'
                    /\ \A j \in Jti : token'[j].expires <= clock' + Lifetime
                    /\ \A u \in User : LivesLongest(u)'
  BY OpsInvStep DEF IndexInv, IndexCovers
<1>0. OpsInv /\ TypeOK
  BY DEF IndexInv, OpsInv, IInv
<1> DEFINE Good == /\ \A j \in Jti : Live(j)' => j \in Members(token[j].user)'
                   /\ \A j \in Jti : token'[j].expires <= clock' + Lifetime
                   /\ \A u \in User : LivesLongest(u)'
<1>1. ASSUME UNCHANGED <<clock, token, index>>, \A j \in Jti : Live(j)' => Live(j),
             \A q \in Slot : (At(q, "issue") /\ slot[q].jti # NoJti) => slot'[q] = slot[q]
      PROVE  Good
  BY <1>1, IndexKept DEF IndexInv
<1>2. ASSUME NEW p \in Slot, ~At(p, "issue"), UNCHANGED <<clock, token, session, index>>,
             \E r : slot' = [slot EXCEPT ![p] = r]
      PROVE  Good
<2>1. \A q \in Slot : (At(q, "issue") /\ slot[q].jti # NoJti) => slot'[q] = slot[q]
  BY <1>0, <1>2 DEF At, TypeOK
<2>2. \A j \in Jti : Live(j)' => Live(j)
  BY <1>2 DEF Live
<2> QED
  BY <1>1, <1>2, <2>1, <2>2
<1>3. ASSUME NEW p \in Slot, Login(p) \/ Refresh(p) \/ Logout(p) PROVE Good
  BY <1>2, <1>3 DEF Login, Refresh, Logout, Start, At
<1>4. ASSUME NEW p \in Slot, Get(p) \/ LogoutAll(p) \/ Collect(p) PROVE Good
<2>1. CASE Get(p)
<3>1. \E r : slot' = [slot EXCEPT ![p] = r]
  BY <2>1 DEF Get, Goto, Answer
<3> QED
  BY <1>2, <2>1, <3>1 DEF Get, At
<2>2. CASE LogoutAll(p)
<3>1. \E r : slot' = [slot EXCEPT ![p] = r]
  BY <2>2 DEF LogoutAll
<3> QED
  BY <1>2, <2>2, <3>1 DEF LogoutAll, At
<2>3. CASE Collect(p)
<3>1. \E r : slot' = [slot EXCEPT ![p] = r]
  BY <2>3 DEF Collect
<3> QED
  BY <1>2, <2>3, <3>1 DEF Collect, At
<2> QED
  BY <1>4, <2>1, <2>2, <2>3
<1>5. ASSUME NEW p \in Slot, Reread(p) PROVE Good
<2>1. /\ slot[p] \in Request /\ slot[p].jti \in Jti /\ slot[p].op = "refresh" /\ slot[p].jti # NoJti
      /\ ~At(p, "idle") /\ ~At(p, "issue")
<3>1. At(p, "reread") /\ slot[p] \in Request
  BY <1>0, <1>5, AtIsRequest DEF Reread, At
<3> QED
  BY <1>0, <3>1 DEF OpsInv, IInv, KnownIds, OpsFit, Steady, At, Request
<2>2. CASE Goto(p, "save")
  BY <1>2, <1>5, <2>1, <2>2 DEF Reread, Goto
<2>3. CASE Goto(p, "issue")
<3>1. PICK x \in User : slot[p].user = x
  BY <2>1 DEF Request
<3>2. UNCHANGED <<clock, token, session, index>>
  BY <1>5 DEF Reread
<3>3. \A j \in Jti : Live(j)' => Live(j)
  BY <3>2 DEF Live
<3>4. \A u \in User : LivesLongest(u)'
  BY <2>1, <2>3, <3>1, <3>2, <3>3, GotoIssueIndex
<3>5. \A j \in Jti : Live(j)' => j \in Members(token[j].user)'
  BY <3>2, <3>3 DEF IndexInv, IndexCovers, Members
<3> QED
  BY <3>2, <3>4, <3>5 DEF IndexInv
<2> QED
  BY <1>5, <2>1, <2>2, <2>3 DEF Reread, Revoked
<1>6. ASSUME NEW p \in Slot, SaveRevoked(p) PROVE Good
<2>1. token' = token /\ clock' = clock
  BY <1>6 DEF SaveRevoked
<2> QED
  BY <1>6, <2>1, SaveRevokedIndex DEF IndexInv
<1>7. ASSUME NEW p \in Slot, Exec(p) PROVE Good
<2>1. \A q \in Slot : (At(q, "issue") /\ slot[q].jti # NoJti) => slot'[q] = slot[q]
  BY <1>0, <1>7 DEF Exec, Answer, At, TypeOK
<2>2. \A j \in Jti : Live(j)' => Live(j)
  BY <1>7 DEF Exec, Live
<2> QED
  BY <1>1, <1>7, <2>1, <2>2 DEF Exec
<1>8. ASSUME UNCHANGED vars PROVE Good
  BY <1>1, <1>8 DEF vars, Live
<1> HIDE DEF Good
<1> QED
  BY <1>3, <1>4, <1>5, <1>6, <1>7, <1>8, IssueIndex, TickIndex
     DEF Next, Exhausted, Die, Steady, Good

-----------------------------------------------------------------------------
(* Logout-all.  What it found in the index covers every token of the       *)
(* logins it is going to end, and what it has put aside stays so.          *)

\* A token goes back to a login of its user.
Rooted ==
  \A j \in Jti : token[j] # NoToken =>
    /\ token[j].root \in Jti /\ token[token[j].root] # NoToken
    /\ token[token[j].root].user = token[j].user

\* A logout-all still has, or has already read, each live token of its logins.
Gathers(p) ==
  At(p, "collect") =>
    /\ \A j \in Jti : Live(j) /\ token[j].root \in slot[p].roots => j \in slot[p].todo \cup slot[p].copies
    /\ \A r \in slot[p].roots : token[r] # NoToken

EndedInv ==
  /\ IndexInv /\ Rooted /\ LogoutAllHolds
  /\ \A r \in ended : token[r] # NoToken
  /\ \A p \in Slot : Gathers(p) /\ (Refreshing(p) => token[slot[p].jti].root \notin ended)

LEMMA LiveFrom ==
  ASSUME OpsInv, [Next]_vars
  PROVE  /\ \/ token' = token /\ \A j \in Jti : Live(j)' => Live(j)
            \/ \E p \in Slot : Issue(p)
         /\ ended' = ended \/ \E p \in Slot : Exec(p)
<1>0. TypeOK
  BY DEF OpsInv, IInv
<1>1. ASSUME NEW p \in Slot, SaveRevoked(p)
      PROVE  token' = token /\ ended' = ended /\ \A j \in Jti : Live(j)' => Live(j)
<2>1. /\ token' = token /\ ended' = ended /\ clock' = clock
      /\ session' = session \/ session' = [session EXCEPT ![slot[p].jti] = "revoked"]
  BY <1>1 DEF SaveRevoked, Save
<2> QED
  BY <1>0, <2>1 DEF Live, TypeOK
<1>2. ASSUME NEW p \in Slot, Exec(p)
      PROVE  token' = token /\ \A j \in Jti : Live(j)' => Live(j)
  BY <1>0, <1>2 DEF Exec, Live, TypeOK
<1>3. ASSUME Tick
      PROVE  token' = token /\ ended' = ended /\ \A j \in Jti : Live(j)' => Live(j)
<2>1. \A j \in Jti : token[j].expires \in Nat
  BY <1>0 DEF TypeOK, Token, NoToken
<2> QED
  BY <1>0, <1>3, <2>1 DEF Tick, Live, TypeOK
<1>4. ASSUME UNCHANGED <<clock, token, session, ended>>
      PROVE  token' = token /\ ended' = ended /\ \A j \in Jti : Live(j)' => Live(j)
  BY <1>4 DEF Live
<1>5. ASSUME NEW p \in Slot, Issue(p)
      PROVE  ended' = ended
  BY <1>5 DEF Issue
<1> QED
  BY <1>1, <1>2, <1>3, <1>4, <1>5
     DEF Next, Login, Refresh, Logout, Start, LogoutAll, Get, Reread, Collect, Die, Exhausted, vars

LEMMA CollectFrom ==
  ASSUME OpsInv, [Next]_vars, NEW q \in Slot, At(q, "collect")'
  PROVE  slot'[q] = slot[q] \/ LogoutAll(q) \/ Collect(q)
<1>0. TypeOK
  BY DEF OpsInv, IInv
<1>1. ASSUME NEW p \in Slot, NEW r, slot' = [slot EXCEPT ![p] = r], r.step # "collect"
      PROVE  slot'[q] = slot[q]
  BY <1>0, <1>1 DEF At, TypeOK
<1>2. ASSUME NEW p \in Slot, Answer(p) PROVE slot'[q] = slot[q]
<2>1. Idle.step # "collect"
  BY DEF Idle
<2> QED
  BY <1>1, <1>2, <2>1 DEF Answer
<1>3. ASSUME NEW p \in Slot, NEW step, Goto(p, step), ~At(p, "idle"), step # "collect"
      PROVE  slot'[q] = slot[q]
<2>1. slot[p] \in Request
  BY <1>0, <1>3, AtIsRequest
<2>2. [slot[p] EXCEPT !.step = step].step = step
  BY <2>1 DEF Request
<2> QED
  BY <1>1, <1>3, <2>2 DEF Goto
<1>4. ASSUME NEW p \in Slot, NEW op, NEW step, NEW j, NEW u, Start(p, op, step, j, u), step # "collect"
      PROVE  slot'[q] = slot[q]
<2> DEFINE r == [Idle EXCEPT !.step = step, !.op = op, !.jti = j, !.user = u]
<2>1. r.step = step
  BY DEF Idle
<2>2. slot' = [slot EXCEPT ![p] = r]
  BY <1>4 DEF Start
<2> HIDE DEF r
<2> QED
  BY <1>1, <1>4, <2>1, <2>2
<1>5. ASSUME NEW p \in Slot, Login(p) \/ Refresh(p) \/ Logout(p) PROVE slot'[q] = slot[q]
  BY <1>4, <1>5 DEF Login, Refresh, Logout
<1>6. ASSUME NEW p \in Slot, Get(p) \/ Reread(p) \/ SaveRevoked(p) PROVE slot'[q] = slot[q]
<2>1. ~At(p, "idle")
  BY <1>6 DEF Get, Reread, SaveRevoked, At
<2>2. Answer(p) \/ Goto(p, "reread") \/ Goto(p, "save") \/ Goto(p, "issue")
  BY <1>6 DEF Get, Reread, SaveRevoked, Revoked
<2> QED
  BY <1>2, <1>3, <2>1, <2>2
<1>7. ASSUME NEW p \in Slot, LogoutAll(p) \/ Collect(p), q # p PROVE slot'[q] = slot[q]
  BY <1>0, <1>7 DEF LogoutAll, Collect, TypeOK
<1> QED
  BY <1>2, <1>5, <1>6, <1>7 DEF Next, Issue, Exec, Die, Tick, Exhausted, vars

LEMMA RootedStep == OpsInv /\ Rooted /\ [Next]_vars => Rooted'
<1> SUFFICES ASSUME OpsInv, Rooted, [Next]_vars PROVE Rooted'
  OBVIOUS
<1>1. ASSUME NEW p \in Slot, Issue(p) PROVE Rooted'
<2>1. PICK j \in Jti :
        /\ token[j] = NoToken /\ \A i \in Jti \ {j} : token'[i] = token[i]
        /\ token'[j] = [user |-> slot[p].user, expires |-> clock + Lifetime, parent |-> slot[p].jti,
                        root |-> IF slot[p].jti = NoJti THEN j ELSE token[slot[p].jti].root]
  BY <1>1, Issued
<2>2. /\ token'[j].user = slot[p].user /\ slot[p].user \in User
      /\ token'[j].root = IF slot[p].jti = NoJti THEN j ELSE token[slot[p].jti].root
  BY <1>1, <2>1, Issued
<2>3. token'[j] # NoToken
<3>1. token'[j].root \in Jti
<4>1. CASE slot[p].jti = NoJti
  BY <2>2, <4>1
<4>2. CASE slot[p].jti # NoJti
<5>1. token[slot[p].jti] # NoToken /\ slot[p].jti \in Jti
  BY <1>1, <4>2, Issued DEF OpsInv, IInv, KnownIds
<5> QED
  BY <2>2, <4>2, <5>1 DEF Rooted
<4> QED
  BY <4>1, <4>2
<3> QED
  BY <3>1 DEF NoToken
<2>4. ASSUME NEW i \in Jti, i # j, token'[i] # NoToken
      PROVE  /\ token'[i].root \in Jti /\ token'[token'[i].root] # NoToken
             /\ token'[token'[i].root].user = token'[i].user
  BY <2>1, <2>4 DEF Rooted
<2>5. /\ token'[j].root \in Jti /\ token'[token'[j].root] # NoToken
      /\ token'[token'[j].root].user = token'[j].user
<3>1. CASE slot[p].jti = NoJti
  BY <2>2, <2>3, <3>1
<3>2. CASE slot[p].jti # NoJti
<4>1. /\ token[slot[p].jti] # NoToken /\ slot[p].jti \in Jti /\ slot[p].user = token[slot[p].jti].user
  BY <1>1, <3>2, Issued DEF OpsInv, IInv, KnownIds, OpsFit
<4> QED
  BY <2>1, <2>2, <3>2, <4>1 DEF Rooted
<3> QED
  BY <3>1, <3>2
<2> QED
  BY <2>4, <2>5 DEF Rooted
<1> QED
  BY <1>1, TokenFrom DEF Rooted

LEMMA EndedStep == ASSUME Alone, Steady PROVE EndedInv /\ [Next]_vars => EndedInv'
<1> SUFFICES ASSUME EndedInv, [Next]_vars PROVE EndedInv'
  OBVIOUS
<1>0. /\ OpsInv /\ TypeOK /\ IndexInv' /\ Rooted /\ Rooted' /\ IndexCovers
      /\ \A j \in Jti : token[j] # NoToken => token'[j] = token[j]
      /\ \A j \in Jti : Live(j) => token[j] # NoToken
<2>1. OpsInv /\ TypeOK /\ IndexCovers /\ IInv
  BY DEF EndedInv, IndexInv, OpsInv, IInv
<2>2. \A j \in Jti : Live(j) => token[j] # NoToken
  BY <2>1 DEF Live, IInv, OfTokens
<2> QED
  BY <2>1, <2>2, IndexStep, RootedStep, OpsInvStep DEF EndedInv, TokensKept
<1>1. ASSUME NEW q \in Slot, Refreshing(q)'
      PROVE  slot'[q].jti = slot[q].jti /\ token'[slot[q].jti].root = token[slot[q].jti].root
             /\ token[slot[q].jti].root \notin ended
<2>1. /\ slot'[q].jti = slot[q].jti /\ slot[q].jti \in Jti
      /\ Refreshing(q) \/ (At(q, "get") /\ Live(slot[q].jti))
  BY <1>0, <1>1, RefreshingFrom
<2>2. slot[q].jti # NoJti /\ token[slot[q].jti] # NoToken
  BY <1>0, <2>1 DEF OpsInv, IInv, KnownIds
<2> QED
  BY <1>0, <2>1, <2>2 DEF EndedInv, LogoutAllHolds
<1>2. ASSUME NEW q \in Slot, At(q, "collect")'
      PROVE  /\ token' = token /\ \A j \in Jti : Live(j)' => Live(j)
             /\ ended' = ended
<2>1. /\ \A p \in Slot : Issue(p) \/ Exec(p) => slot'[p] = Idle
  BY <1>0 DEF Issue, Exec, Answer, TypeOK
<2>2. slot'[q] # Idle
  BY <1>2 DEF At, Idle
<2> QED
  BY <1>0, <2>1, <2>2, LiveFrom DEF Alone
<1>3. ASSUME NEW q \in Slot PROVE Gathers(q)'
<2> SUFFICES ASSUME At(q, "collect")'
             PROVE  /\ \A j \in Jti : Live(j)' /\ token'[j].root \in slot'[q].roots
                                        => j \in slot'[q].todo \cup slot'[q].copies
                    /\ \A r \in slot'[q].roots : token'[r] # NoToken
  BY DEF Gathers
<2>0. token' = token /\ \A j \in Jti : Live(j)' => Live(j)
  BY <1>2
<2>1. CASE slot'[q] = slot[q]
  BY <2>0, <2>1 DEF EndedInv, Gathers, At
<2>2. CASE Collect(q)
<3>1. slot[q] \in Request /\ At(q, "collect")
  BY <1>0, <2>2, AtIsRequest DEF Collect, At
<3>2. PICK i \in slot[q].todo :
        /\ slot'[q].todo = slot[q].todo \ {i} /\ slot'[q].roots = slot[q].roots
        /\ slot'[q].copies = IF Present(i) THEN slot[q].copies \cup {i} ELSE slot[q].copies
<4>1. PICK i \in slot[q].todo :
        slot' = [slot EXCEPT ![q].todo = @ \ {i},
                             ![q].copies = IF Present(i) THEN @ \cup {i} ELSE @]
  BY <2>2 DEF Collect
<4>2. /\ slot'[q].todo = slot[q].todo \ {i} /\ slot'[q].roots = slot[q].roots
      /\ slot'[q].copies = IF Present(i) THEN slot[q].copies \cup {i} ELSE slot[q].copies
  BY <1>0, <3>1, <4>1 DEF TypeOK, Request
<4> QED
  BY <4>2
<3>3. Live(i) => Present(i)
  BY DEF Live, Present
<3> QED
  BY <2>0, <3>1, <3>2, <3>3 DEF EndedInv, Gathers
<2>3. CASE LogoutAll(q)
<3>1. PICK u \in User :
        slot'[q] = [Idle EXCEPT !.step = "collect", !.op = "logout_all", !.user = u, !.todo = Members(u),
                      !.roots = {token[j].root : j \in {i \in Jti : Live(i) /\ token[i].user = u}}]
  BY <1>0, <2>3 DEF LogoutAll, TypeOK
<3>2. /\ slot'[q].todo = Members(u)
      /\ slot'[q].roots = {token[j].root : j \in {i \in Jti : Live(i) /\ token[i].user = u}}
  BY <3>1 DEF Idle
<3>3. \A r \in slot'[q].roots : token[r] # NoToken /\ token[r].user = u
  BY <1>0, <3>2 DEF Rooted
<3>4. \A j \in Jti : Live(j) /\ token[j].root \in slot'[q].roots => j \in Members(u)
  BY <1>0, <3>3 DEF Rooted, IndexCovers
<3> QED
  BY <2>0, <3>2, <3>3, <3>4
<2> QED
  BY <1>0, <2>1, <2>2, <2>3, CollectFrom
<1>4. CASE \E p \in Slot : Issue(p)
<2>1. PICK p \in Slot : Issue(p)
  BY <1>4
<2>2. PICK j \in Jti :
        /\ token[j] = NoToken /\ \A i \in Jti \ {j} : token'[i] = token[i]
        /\ token'[j] = [user |-> slot[p].user, expires |-> clock + Lifetime, parent |-> slot[p].jti,
                        root |-> IF slot[p].jti = NoJti THEN j ELSE token[slot[p].jti].root]
        /\ Save(j, "open", slot[p].user, clock + Lifetime)
  BY <1>0, <2>1, Issued
<2>3. ended' = ended /\ clock' = clock /\ j \notin ended
  BY <2>1, <2>2 DEF Issue, EndedInv
<2>4. slot[p].jti # NoJti => token[slot[p].jti].root \notin ended
  BY <1>0, <2>1, Issued DEF EndedInv
<2>5. token'[j].root = IF slot[p].jti = NoJti THEN j ELSE token[slot[p].jti].root
  BY <2>2
<2>6. \A i \in Jti \ {j} : Live(i)' => Live(i) /\ token'[i] = token[i]
  BY <1>0, <2>2, <2>3 DEF Live, Save, TypeOK
<2>7. LogoutAllHolds'
  BY <2>3, <2>4, <2>5, <2>6 DEF LogoutAllHolds, EndedInv
<2>8. \A r \in ended' : token'[r] # NoToken
  BY <1>0, <2>3 DEF EndedInv, TypeOK
<2> QED
  BY <1>0, <1>1, <1>3, <2>3, <2>7, <2>8 DEF EndedInv
<1>5. CASE \E p \in Slot : Exec(p)
<2>1. PICK p \in Slot : Exec(p)
  BY <1>5
<2>2. /\ token' = token /\ clock' = clock /\ ended' = ended \cup slot[p].roots /\ slot[p].todo = {}
      /\ slot'[p] = Idle /\ At(p, "collect")
      /\ \A j \in Jti : session'[j] = IF j \in slot[p].copies THEN "revoked" ELSE session[j]
  BY <1>0, <2>1 DEF Exec, Answer, TypeOK
<2>3. \A j \in Jti : Live(j)' => Live(j) /\ j \notin slot[p].copies
  BY <2>2 DEF Live
<2>4. LogoutAllHolds'
  BY <2>2, <2>3 DEF LogoutAllHolds, EndedInv, Gathers
<2>5. \A r \in ended' : token'[r] # NoToken
  BY <2>2 DEF EndedInv, Gathers
<2>6. \A q \in Slot : ~Refreshing(q)'
  BY <2>2 DEF Alone, Refreshing, Idle
<2> QED
  BY <1>0, <1>3, <2>4, <2>5, <2>6 DEF EndedInv
<1>6. CASE token' = token /\ ended' = ended /\ \A j \in Jti : Live(j)' => Live(j)
<2>1. LogoutAllHolds' /\ \A r \in ended' : token'[r] # NoToken
  BY <1>6 DEF LogoutAllHolds, EndedInv
<2> QED
  BY <1>0, <1>1, <1>3, <1>6, <2>1 DEF EndedInv
<1> QED
  BY <1>0, <1>4, <1>5, <1>6, LiveFrom

-----------------------------------------------------------------------------
(* The theorems.                                                           *)

\* Every variable keeps its type, however many requests interleave.
THEOREM TypeCorrect == Spec => []TypeOK
<1>1. IInv => TypeOK
  BY DEF IInv
<1> QED
  BY <1>1, InitIInv, IInvStep, PTL DEF Spec

\* refresh and logout: once one of them was answered, get never again finds
\* the token unrevoked, for any interleaving of the other requests' steps.
THEOREM RetiredTokensAreDead == Spec => []RetiredIsDead
<1>1. IInv => RetiredIsDead
  BY DEF IInv
<1> QED
  BY <1>1, InitIInv, IInvStep, PTL DEF Spec

\* revoke and revoke_all_for_user write copies of what they read earlier; no
\* such write brings a revoked session back.
THEOREM RevocationsLast == Spec => RevokedForGood
<1>1. IInv /\ [Next]_vars =>
        [\A j \in Jti : session[j] = "revoked" => session'[j] = "revoked"]_vars
  BY TokensKeptStep DEF TokensKept
<1> QED
  BY <1>1, InitIInv, IInvStep, PTL DEF Spec, RevokedForGood

\* refresh exchanges a token for one new token at most, when the auth service
\* works on one request at a time: also when requests die half way, and
\* whatever logouts come in between.
THEOREM ExchangedOnce ==
  ASSUME Alone
  PROVE  Spec => []RotatedOnce
<1>1. Init => OnceInv
<2> SUFFICES ASSUME Init PROVE OnceInv
  OBVIOUS
<2>1. (\A c \in Jti : token[c].parent = NoJti) /\ (\A p \in Slot : slot[p].step = "idle")
  BY DEF Init, NoToken, Idle
<2> QED
  BY <2>1, InitOpsInv DEF OnceInv, Refreshing
<1>2. OnceInv => RotatedOnce
<2> SUFFICES ASSUME OnceInv, NEW j \in Jti
             PROVE  Cardinality({c \in Jti : token[c].parent = j}) <= 1
  BY DEF RotatedOnce
<2> DEFINE S == {c \in Jti : token[c].parent = j}
<2>1. \A c, d \in S : c = d
  BY DEF OnceInv
<2> HIDE DEF S
<2>2. Cardinality({}) = 0 /\ \A c : Cardinality({c}) = 1
  BY FS_EmptySet, FS_Singleton
<2>3. S = {} \/ \E c : S = {c}
  BY <2>1
<2>4. Cardinality(S) = 0 \/ Cardinality(S) = 1
  BY <2>2, <2>3, Zenon
<2> QED
  BY <2>4 DEF S
<1> QED
  BY <1>1, <1>2, OnceStep, PTL DEF Spec

\* Every save sets the time to live of the index, and the first of a refresh
\* may shorten it: the index names every token that is alive all the same, for
\* any number of requests side by side, when none dies or takes long between
\* its saves and nobody logs out of a single device.
THEOREM IndexIsComplete ==
  ASSUME Steady
  PROVE  Spec => []IndexCovers
<1>1. Init => IndexInv
<2> SUFFICES ASSUME Init PROVE IndexInv
  OBVIOUS
<2>1. \A j \in Jti : ~Live(j) /\ token[j].expires = 0 /\ clock = 0
  BY DEF Init, Live, NoToken
<2> QED
  BY <2>1, InitOpsInv DEF IndexInv, IndexCovers, LivesLongest
<1>2. IndexInv => IndexCovers
  BY DEF IndexInv
<1> QED
  BY <1>1, <1>2, IndexStep, PTL DEF Spec

\* logout_all: no token is accepted any more that goes back to a login of the
\* user it found alive, and no refresh brings one about later; when the auth
\* service works on one request at a time, and under the conditions of the
\* theorem above, which the reading of the index needs.
THEOREM LogoutAllIsFinal ==
  ASSUME Alone, Steady
  PROVE  Spec => []LogoutAllHolds
<1>1. Init => EndedInv
<2> SUFFICES ASSUME Init PROVE EndedInv
  OBVIOUS
<2>1. /\ \A j \in Jti : ~Live(j) /\ token[j] = NoToken /\ token[j].expires = 0
      /\ clock = 0 /\ ended = {}
  BY DEF Init, Live, NoToken
<2>2. IndexInv
  BY <2>1, InitOpsInv DEF IndexInv, IndexCovers, LivesLongest
<2>3. \A p \in Slot : Gathers(p) /\ ~Refreshing(p)
  BY DEF Init, Gathers, Refreshing, At, Idle
<2> QED
  BY <2>1, <2>2, <2>3 DEF EndedInv, Rooted, LogoutAllHolds
<1>2. EndedInv => LogoutAllHolds
  BY DEF EndedInv
<1> QED
  BY <1>1, <1>2, EndedStep, PTL DEF Spec
=============================================================================
