------------------------- MODULE RegistrationProofs -------------------------
(***************************************************************************)
(* Safety of Registration for every set of requests, keys and names, every *)
(* combination of failures, and clients that overlap or do not.            *)
(***************************************************************************)
EXTENDS Registration, TLAPS

USE NobodyAssumption

-----------------------------------------------------------------------------
(* Type correctness.                                                       *)

\* The conjuncts of TypeOK that the helpers of the coroutines touch.
PcTypes == /\ pc \in [Request -> Suspended \cup {"idle", "done"}]
           /\ reply \in [Request -> [code : Code, user : Request \cup {Nobody}]]
RpcType == rpc \in [Request -> Running \cup Answered \cup {"idle"}]
IdemType == idem \in [Key -> IdemState \cup {Missing}]
TableTypes == /\ profile \in [Request -> {"absent", "pending", "active", "deleted"}]
              /\ credential \in [Username -> Request \cup {Nobody, Other}]

LEMMA TypeParts ==
  TypeOK <=> /\ env \in Environment /\ msg \in [Request -> Message]
             /\ PcTypes /\ RpcType /\ IdemType /\ TableTypes
  BY DEF TypeOK, PcTypes, RpcType, IdemType, TableTypes

LEMMA GotoTypes ==
  ASSUME PcTypes, NEW r \in Request, NEW where \in Suspended, Goto(r, where)
  PROVE  PcTypes'
  BY DEF PcTypes, Goto

LEMMA FinishTypes ==
  ASSUME PcTypes, NEW r \in Request, NEW code \in Code,
         NEW user \in Request \cup {Nobody}, Finish(r, code, user)
  PROVE  PcTypes'
  BY DEF PcTypes, Finish

LEMMA CallTypes ==
  ASSUME RpcType, NEW r \in Request,
         NEW operation \in Running \cup Answered \cup {"idle"}, Call(r, operation)
  PROVE  RpcType'
  BY DEF RpcType, Call

LEMMA SaveTypes ==
  ASSUME TypeOK, NEW r \in Request, NEW status \in Status,
         Saved(r, status) \/ SaveRaises(r, status)
  PROVE  IdemType'
<1>1. [status |-> status, by |-> r] \in IdemState
  BY DEF IdemState
<1>2. CASE Saved(r, status)
  BY <1>1, <1>2 DEF Saved, IdemType, TypeOK, Message
<1> QED
  BY <1>2, TypeParts DEF IdemType, SaveRaises

LEMMA StateNames ==
  /\ Suspended = {"get_state", "save_started", "await_create",
                  "save_profile_created", "check_bind", "commit_bind",
                  "save_password_bound", "await_delete",
                  "save_compensation_failed", "await_activate",
                  "save_activation_pending", "save_completed"}
  /\ Running = {"create", "checked", "activate", "delete"}
  /\ Answered = {"ok", "conflict", "duplicate", "error"}
  /\ Code = {"none", "created", "key_missing", "key_conflict",
             "compensation_failed", "failed", "lost"}
  /\ Status = {"started", "profile_created", "password_bound",
               "activation_pending", "compensation_failed", "completed"}
  BY DEF Suspended, Running, Answered, Code, Status

LEMMA InitTypeOK == Init => TypeOK
  BY NormalAssumption, StateNames DEF Init, TypeOK, NoReply, Missing

LEMMA EnvironmentStays == [Next]_vars => env' = env /\ msg' = msg
  BY DEF Next, AuthService, UserService, Receive, GetState, SaveStarted,
     CreateReturns, SaveProfileCreated, CheckBind, CommitBind,
     SavePasswordBound, DeleteReturns, SaveCompensationFailed, ActivateReturns,
     SaveActivationPending, SaveCompleted, CallTimesOut, CheckProfile,
     InsertProfile, ActivateProfile, DeleteProfile, UserServiceFails,
     AuthServiceCrashes, KeyExpires, BindElsewhere, Quiet, vars

LEMMA TypeOKStep == TypeOK /\ [Next]_vars => TypeOK'
<1> SUFFICES ASSUME TypeOK, [Next]_vars PROVE TypeOK'
  OBVIOUS
<1>0. /\ env \in Environment /\ msg \in [Request -> Message]
      /\ PcTypes /\ RpcType /\ IdemType /\ TableTypes
  BY TypeParts
<1>e. env' = env
  BY EnvironmentStays
<1>p. ASSUME UNCHANGED <<pc, reply>> PROVE PcTypes'
  BY <1>0, <1>p DEF PcTypes
<1>r. ASSUME UNCHANGED rpc PROVE RpcType'
  BY <1>0, <1>r DEF RpcType
<1>i. ASSUME UNCHANGED idem PROVE IdemType'
  BY <1>0, <1>i DEF IdemType
<1>t. ASSUME UNCHANGED <<profile, credential>> PROVE TableTypes'
  BY <1>0, <1>t DEF TableTypes
<1>q. ASSUME UNCHANGED msg, PcTypes', RpcType', IdemType', TableTypes'
      PROVE  TypeOK'
  BY <1>q, <1>0, <1>e DEF TypeOK, PcTypes, RpcType, IdemType, TableTypes
<1>1. ASSUME NEW r \in Request, Receive(r) PROVE TypeOK'
  <2>1. PcTypes'
    BY <1>0, <1>1, GotoTypes, FinishTypes, StateNames DEF Receive
  <2> QED BY <2>1, <1>0, <1>1, <1>r, <1>i, <1>t, <1>q DEF Receive
<1>2. ASSUME NEW r \in Request, GetState(r) PROVE TypeOK'
  <2>1. idem[msg[r].key] # Missing => idem[msg[r].key].by \in Request
    BY DEF TypeOK, IdemState, Message
  <2>2. PcTypes'
    BY <2>1, <1>0, <1>2, GotoTypes, FinishTypes, StateNames DEF GetState
  <2> QED BY <2>2, <1>0, <1>2, <1>r, <1>i, <1>t, <1>q DEF GetState
<1>3. ASSUME NEW r \in Request,
             SaveStarted(r) \/ SaveProfileCreated(r) \/ SavePasswordBound(r)
             \/ SaveCompensationFailed(r) \/ SaveActivationPending(r)
             \/ SaveCompleted(r)
      PROVE  TypeOK'
  <2> USE DEF SaveStarted, SaveProfileCreated, SavePasswordBound,
              SaveCompensationFailed, SaveActivationPending, SaveCompleted
  <2>1. PcTypes'
    BY <1>0, <1>3, GotoTypes, FinishTypes, StateNames DEF Compensate
  <2>2. RpcType'
    BY <1>0, <1>3, <1>r, CallTypes, StateNames DEF Compensate
  <2>3. IdemType'
    BY <1>3, SaveTypes, StateNames
  <2> QED BY <2>1, <2>2, <2>3, <1>0, <1>3, <1>t, <1>q
<1>4. ASSUME NEW r \in Request,
             CreateReturns(r) \/ DeleteReturns(r) \/ ActivateReturns(r)
             \/ CallTimesOut(r)
      PROVE  TypeOK'
  <2> USE DEF CreateReturns, DeleteReturns, ActivateReturns, CallTimesOut
  <2>1. PcTypes'
    BY <1>0, <1>4, GotoTypes, FinishTypes, StateNames
  <2>2. RpcType'
    BY <1>0, <1>4, <1>r, CallTypes
  <2> QED BY <2>1, <2>2, <1>0, <1>4, <1>i, <1>t, <1>q
<1>5. ASSUME NEW r \in Request, CheckBind(r) \/ CommitBind(r) PROVE TypeOK'
  <2> USE DEF CheckBind, CommitBind, Compensate
  <2>1. PcTypes'
    BY <1>0, <1>5, GotoTypes, StateNames
  <2>2. RpcType'
    BY <1>0, <1>5, <1>r, CallTypes, StateNames
  <2>3. TableTypes'
    BY <1>0, <1>5 DEF TableTypes, Bound
  <2> QED BY <2>1, <2>2, <2>3, <1>0, <1>5, <1>i, <1>q
<1>6. ASSUME NEW r \in Request, UserService(r) \/ UserServiceFails(r) PROVE TypeOK'
  <2> USE DEF UserService, CheckProfile, InsertProfile, ActivateProfile,
              DeleteProfile, UserServiceFails
  <2>1. RpcType'
    BY <1>0, <1>6, CallTypes, StateNames
  <2>2. TableTypes'
    BY <1>0, <1>6 DEF TableTypes
  <2> QED BY <2>1, <2>2, <1>0, <1>6, <1>p, <1>i, <1>q
<1>7. CASE AuthServiceCrashes
  <2>1. PcTypes'
    BY <1>0, <1>7, StateNames DEF AuthServiceCrashes, PcTypes
  <2> QED BY <2>1, <1>0, <1>7, <1>r, <1>i, <1>t, <1>q DEF AuthServiceCrashes
<1>8. ASSUME NEW k \in Key, KeyExpires(k) PROVE TypeOK'
  <2>1. IdemType'
    BY <1>0, <1>8 DEF KeyExpires, IdemType
  <2> QED BY <2>1, <1>0, <1>8, <1>p, <1>r, <1>t, <1>q DEF KeyExpires
<1>9. ASSUME NEW n \in Username, BindElsewhere(n) PROVE TypeOK'
  <2>1. TableTypes'
    BY <1>0, <1>9 DEF BindElsewhere, TableTypes
  <2> QED BY <2>1, <1>0, <1>9, <1>p, <1>r, <1>i, <1>q DEF BindElsewhere
<1>10. CASE UNCHANGED vars
  BY <1>10 DEF vars, TypeOK
<1> QED
  BY <1>1, <1>2, <1>3, <1>4, <1>5, <1>6, <1>7, <1>8, <1>9, <1>10
     DEF Next, AuthService, Quiet

\* The variables keep their types: what each store, coroutine and handler can
\* hold.
THEOREM TypeCorrect == Spec => []TypeOK
<1>1. Init => TypeOK
  BY InitTypeOK
<1>2. TypeOK /\ [Next]_vars => TypeOK'
  BY TypeOKStep
<1> QED BY <1>1, <1>2, PTL DEF Spec

-----------------------------------------------------------------------------
(* The inductive invariant.                                                *)

\* Rows are never forgotten: a profile stays stored, an active one active, a
\* password row with its user.
Persistent ==
  /\ msg' = msg
  /\ \A r \in Request : /\ Stored(r) => profile'[r] # "absent"
                        /\ profile[r] = "active" => profile'[r] = "active"
  /\ \A n \in Username : credential[n] # Nobody => credential'[n] = credential[n]

LEMMA RowsPersist == TypeOK /\ Stages /\ [Next]_vars => Persistent
<1> SUFFICES ASSUME TypeOK, Stages, [Next]_vars PROVE Persistent
  OBVIOUS
<1> USE DEF Persistent, Stored
<1>1. CASE UNCHANGED <<msg, profile, credential>>
  BY <1>1
<1>2. ASSUME NEW r \in Request, CommitBind(r) PROVE Persistent
  BY <1>2 DEF CommitBind, Bound, TypeOK
<1>3. ASSUME NEW r \in Request, InsertProfile(r) PROVE Persistent
  <2>1. profile[r] = "absent"
    BY <1>3 DEF InsertProfile, Stages, Stage
  <2> QED BY <2>1, <1>3 DEF InsertProfile, TypeOK
<1>4. ASSUME NEW r \in Request, ActivateProfile(r) PROVE Persistent
  BY <1>4 DEF ActivateProfile, TypeOK
<1>5. ASSUME NEW r \in Request, DeleteProfile(r) PROVE Persistent
  <2>1. profile[r] # "active"
    BY <1>5 DEF DeleteProfile, Stages, Stage
  <2> QED BY <2>1, <1>5 DEF DeleteProfile, Live, TypeOK
<1>6. ASSUME NEW r \in Request,
             Receive(r) \/ (AuthService(r) /\ ~CommitBind(r))
             \/ CheckProfile(r) \/ UserServiceFails(r)
      PROVE  UNCHANGED <<msg, profile, credential>>
  BY <1>6 DEF Receive, AuthService, GetState, SaveStarted, CreateReturns,
     SaveProfileCreated, CheckBind, SavePasswordBound, DeleteReturns,
     SaveCompensationFailed, ActivateReturns, SaveActivationPending,
     SaveCompleted, CallTimesOut, CheckProfile, UserServiceFails
<1>7. AuthServiceCrashes \/ (\E k \in Key : KeyExpires(k)) \/ UNCHANGED vars
      => UNCHANGED <<msg, profile, credential>>
  BY DEF AuthServiceCrashes, KeyExpires, vars
<1>8. ASSUME NEW n \in Username, BindElsewhere(n) PROVE Persistent
  BY <1>8 DEF BindElsewhere, TypeOK
<1> QED
  BY <1>1, <1>2, <1>3, <1>4, <1>5, <1>6, <1>7, <1>8
     DEF Next, AuthService, UserService, Quiet

LEMMA UnansweredStep == TypeOK /\ Unanswered /\ [Next]_vars => Unanswered'
<1> SUFFICES ASSUME TypeOK, Unanswered, [Next]_vars, NEW s \in Request, pc'[s] # "done"
             PROVE  reply'[s] = NoReply
  BY DEF Unanswered
<1>1. ASSUME NEW r \in Request,
             Receive(r) \/ AuthService(r) \/ UserService(r) \/ UserServiceFails(r)
      PROVE  pc[s] # "done" /\ reply'[s] = reply[s]
  BY <1>1 DEF TypeOK, Receive, AuthService, GetState, SaveStarted,
     CreateReturns, SaveProfileCreated, CheckBind, CommitBind,
     SavePasswordBound, DeleteReturns, SaveCompensationFailed,
     ActivateReturns, SaveActivationPending, SaveCompleted, CallTimesOut,
     UserService, CheckProfile, InsertProfile, ActivateProfile,
     DeleteProfile, UserServiceFails, Goto, Finish, Compensate
<1>2. AuthServiceCrashes => pc[s] # "done" /\ reply'[s] = reply[s]
  BY DEF AuthServiceCrashes, InFlight, Suspended
<1>3. (\E k \in Key : KeyExpires(k)) \/ (\E n \in Username : BindElsewhere(n))
      \/ UNCHANGED vars => pc' = pc /\ reply' = reply
  BY DEF KeyExpires, BindElsewhere, vars
<1> QED BY <1>1, <1>2, <1>3 DEF Next, Quiet, Unanswered

\* A stage is untouched by the steps of other requests.
LEMMA StageFrame ==
  ASSUME TypeOK, Persistent, NEW s \in Request, Stage(s),
         pc'[s] = pc[s], rpc'[s] = rpc[s], profile'[s] = profile[s]
  PROVE  Stage(s)'
<1>1. credential[msg[s].username] = s => credential'[msg'[s].username] = s
  BY DEF TypeOK, Message, Persistent
<1> QED BY <1>1 DEF Stage, Stored

LEMMA StagesStep == TypeOK /\ Stages /\ [Next]_vars => Stages'
<1> SUFFICES ASSUME TypeOK, Stages, [Next]_vars PROVE Stages'
  OBVIOUS
<1>0. Persistent
  BY RowsPersist
<1>f. ASSUME NEW r \in Request, Stage(r)',
             \A s \in Request \ {r} :
               pc'[s] = pc[s] /\ rpc'[s] = rpc[s] /\ profile'[s] = profile[s]
      PROVE  Stages'
  BY <1>0, <1>f, StageFrame DEF Stages
\* A step of the coroutine of r, of its handler, or of its arrival.
<1>1. ASSUME NEW r \in Request,
             Receive(r) \/ AuthService(r) \/ UserService(r) \/ UserServiceFails(r)
      PROVE  Stages'
  <2>0. Stage(r)
    BY DEF Stages
  <2>f. \A s \in Request \ {r} :
          pc'[s] = pc[s] /\ rpc'[s] = rpc[s] /\ profile'[s] = profile[s]
    BY <1>1 DEF TypeOK, Receive, AuthService, GetState, SaveStarted,
       CreateReturns, SaveProfileCreated, CheckBind, CommitBind,
       SavePasswordBound, DeleteReturns, SaveCompensationFailed,
       ActivateReturns, SaveActivationPending, SaveCompleted, CallTimesOut,
       UserService, CheckProfile, InsertProfile, ActivateProfile,
       DeleteProfile, UserServiceFails, Goto, Finish, Call, Compensate
  <2>1. Stage(r)'
    <3> USE <2>0 DEF TypeOK, Stage, Stored, Goto, Finish, Call, Compensate
    <3>1. CASE Receive(r) \/ GetState(r)
      BY <3>1 DEF Receive, GetState
    <3>2. CASE SaveStarted(r) \/ SaveProfileCreated(r)
      BY <3>2 DEF SaveStarted, SaveProfileCreated
    <3>3. CASE CreateReturns(r) \/ DeleteReturns(r) \/ ActivateReturns(r)
      BY <3>3 DEF CreateReturns, DeleteReturns, ActivateReturns, Answered
    <3>4. CASE CheckBind(r)
      BY <3>4 DEF CheckBind
    <3>5. CASE CommitBind(r)
      <4>1. Bound(r) /\ msg' = msg => credential'[msg'[r].username] = r
        BY DEF Bound, Message
      <4> QED BY <4>1, <3>5 DEF CommitBind
    <3>6. CASE SavePasswordBound(r)
      BY <3>6 DEF SavePasswordBound
    <3>7. CASE SaveCompensationFailed(r) \/ SaveActivationPending(r)
               \/ SaveCompleted(r) \/ CallTimesOut(r)
      BY <3>7 DEF SaveCompensationFailed, SaveActivationPending,
                  SaveCompleted, CallTimesOut
    <3>8. CASE CheckProfile(r) \/ InsertProfile(r)
      BY <3>8 DEF CheckProfile, InsertProfile
    <3>9. CASE ActivateProfile(r) \/ DeleteProfile(r)
      BY <3>9 DEF ActivateProfile, DeleteProfile, Live
    <3>10. CASE UserServiceFails(r)
      BY <3>10 DEF UserServiceFails, Running
    <3> QED
      BY <1>1, <3>1, <3>2, <3>3, <3>4, <3>5, <3>6, <3>7, <3>8, <3>9, <3>10
         DEF AuthService, UserService
  <2> QED BY <2>1, <2>f, <1>f
<1>2. CASE AuthServiceCrashes
  <2> SUFFICES ASSUME NEW r \in Request PROVE Stage(r)'
    BY DEF Stages
  <2>0. Stage(r)
    BY DEF Stages
  <2>1. CASE InFlight(r)
    BY <2>0, <2>1, <1>2 DEF AuthServiceCrashes, InFlight, Suspended, Stage,
       Stored, TypeOK
  <2>2. CASE ~InFlight(r)
    BY <2>0, <2>2, <1>2, <1>0, StageFrame DEF AuthServiceCrashes
  <2> QED BY <2>1, <2>2
<1>3. CASE (\E k \in Key : KeyExpires(k)) \/ (\E n \in Username : BindElsewhere(n))
      \/ UNCHANGED vars
  BY <1>3, <1>0, StageFrame DEF KeyExpires, BindElsewhere, vars, Stages
<1> QED
  BY <1>1, <1>2, <1>3 DEF Next, Quiet

\* What a key's record claims was true when it was saved, and rows persist.
LEMMA UsablePersists ==
  ASSUME TypeOK, Persistent, NEW r \in Request, NEW u, Usable(u, r)
  PROVE  Usable(u, r)'
  BY DEF TypeOK, Message, Persistent, Usable, ProfileEmail, ProfileName

Claim(state) ==
  /\ state.status = "profile_created" => Stored(state.by)
  /\ state.status \in {"password_bound", "activation_pending"} =>
       Stored(state.by) /\ credential[msg[state.by].username] = state.by
  /\ state.status = "compensation_failed" =>
       /\ pc[state.by] = "done" /\ rpc[state.by] # "activate"
       /\ profile[state.by] # "active"
  /\ state.status = "completed" => Usable(state.by, state.by)

Claims == \A k \in Key : Claim(idem[k])

LEMMA ClaimsSplit == Claims <=> RecordIsTruthful /\ CompensationIsFinal
  BY DEF Claims, Claim, RecordIsTruthful, CompensationIsFinal

LEMMA ClaimPersists ==
  ASSUME TypeOK, Stages, [Next]_vars, NEW state \in IdemState, Claim(state)
  PROVE  Claim(state)'
<1>0. Persistent
  BY RowsPersist
<1>1. state.by \in Request
  BY DEF IdemState
<1>2. state.status = "completed" => Usable(state.by, state.by)'
  BY <1>0, <1>1, UsablePersists DEF Claim
<1>3. ASSUME state.status = "compensation_failed"
      PROVE  /\ pc'[state.by] = "done" /\ rpc'[state.by] # "activate"
             /\ profile'[state.by] # "active"
  <2> DEFINE s == state.by
  <2>0. pc[s] = "done" /\ rpc[s] # "activate" /\ profile[s] # "active"
    BY <1>3 DEF Claim
  <2>1. pc'[s] = "done" /\ rpc'[s] # "activate"
    <3>1. ASSUME NEW r \in Request, AuthService(r) \/ Receive(r)
          PROVE  r # s /\ pc'[s] = pc[s] /\ rpc'[s] = rpc[s]
      BY <1>1, <2>0, <3>1 DEF TypeOK, Receive, AuthService, GetState,
         SaveStarted, CreateReturns, SaveProfileCreated, CheckBind,
         CommitBind, SavePasswordBound, DeleteReturns,
         SaveCompensationFailed, ActivateReturns, SaveActivationPending,
         SaveCompleted, CallTimesOut, Goto, Finish, Call, Compensate
    <3>2. ASSUME NEW r \in Request, UserService(r) \/ UserServiceFails(r)
          PROVE  pc' = pc /\ rpc'[s] # "activate"
      BY <1>1, <2>0, <3>2 DEF TypeOK, UserService, CheckProfile,
         InsertProfile, ActivateProfile, DeleteProfile, UserServiceFails, Call
    <3>3. AuthServiceCrashes => pc'[s] = "done" /\ rpc' = rpc
      BY <1>1, <2>0 DEF AuthServiceCrashes
    <3>4. (\E k \in Key : KeyExpires(k)) \/ (\E n \in Username : BindElsewhere(n))
      \/ UNCHANGED vars => pc' = pc /\ rpc' = rpc
      BY DEF KeyExpires, BindElsewhere, vars
    <3> QED BY <2>0, <3>1, <3>2, <3>3, <3>4 DEF Next, Quiet
  <2>2. profile'[s] # "active"
    <3>1. ASSUME NEW r \in Request, ActivateProfile(r) PROVE profile'[s] = profile[s]
      BY <1>1, <2>0, <3>1 DEF ActivateProfile, TypeOK
    <3>2. ASSUME NEW r \in Request, InsertProfile(r) \/ DeleteProfile(r)
          PROVE  profile'[s] # "active"
      BY <1>1, <2>0, <3>2 DEF InsertProfile, DeleteProfile, TypeOK
    <3>3. ASSUME NEW r \in Request,
                 Receive(r) \/ AuthService(r) \/ CheckProfile(r) \/ UserServiceFails(r)
          PROVE  profile' = profile
      BY <3>3 DEF Receive, AuthService, GetState, SaveStarted, CreateReturns,
         SaveProfileCreated, CheckBind, CommitBind, SavePasswordBound,
         DeleteReturns, SaveCompensationFailed, ActivateReturns,
         SaveActivationPending, SaveCompleted, CallTimesOut, CheckProfile,
         UserServiceFails
    <3>4. AuthServiceCrashes \/ (\E k \in Key : KeyExpires(k)) \/ (\E n \in Username : BindElsewhere(n))
      \/ UNCHANGED vars
          => profile' = profile
      BY DEF AuthServiceCrashes, KeyExpires, BindElsewhere, vars
    <3> QED BY <2>0, <3>1, <3>2, <3>3, <3>4 DEF Next, UserService, Quiet
  <2> QED BY <2>1, <2>2
<1>4. Stored(state.by) => Stored(state.by)'
  BY <1>0, <1>1 DEF Persistent, Stored
<1>5. credential[msg[state.by].username] = state.by
      => credential'[msg'[state.by].username] = state.by
  BY <1>0, <1>1 DEF TypeOK, Message, Persistent
<1> QED BY <1>2, <1>3, <1>4, <1>5 DEF Claim

\* Every save comes after the step it reports.
LEMMA SavedClaim ==
  ASSUME TypeOK, Stages, [Next]_vars, NEW r \in Request,
         SaveStarted(r) \/ SaveProfileCreated(r) \/ SavePasswordBound(r)
         \/ SaveCompensationFailed(r) \/ SaveActivationPending(r) \/ SaveCompleted(r)
  PROVE  idem' = idem \/ \E status \in Status :
           Saved(r, status) /\ Claim([status |-> status, by |-> r])'
<1>0. Persistent /\ Stage(r)
  BY RowsPersist DEF Stages
<1>1. CASE SaveStarted(r)
  BY <1>1, StateNames DEF SaveStarted, SaveRaises, Claim
<1>2. CASE SaveProfileCreated(r)
  <2>1. Claim([status |-> "profile_created", by |-> r])'
    BY <1>0, <1>2 DEF SaveProfileCreated, Stage, Claim, Persistent, Stored
  <2> QED BY <2>1, <1>2, StateNames DEF SaveProfileCreated, SaveRaises
<1>3. CASE SavePasswordBound(r)
  <2>1. Claim([status |-> "password_bound", by |-> r])'
    BY <1>0, <1>3 DEF SavePasswordBound, Stage, Claim, Stored
  <2> QED BY <2>1, <1>3, StateNames DEF SavePasswordBound, SaveRaises
<1>4. CASE SaveCompensationFailed(r)
  <2>1. pc'[r] = "done"
    BY <1>4 DEF SaveCompensationFailed, Finish, TypeOK
  <2>2. Claim([status |-> "compensation_failed", by |-> r])'
    BY <2>1, <1>0, <1>4 DEF SaveCompensationFailed, Stage, Claim
  <2> QED BY <2>2, <1>4, StateNames DEF SaveCompensationFailed, SaveRaises
<1>5. CASE SaveActivationPending(r)
  <2>1. Claim([status |-> "activation_pending", by |-> r])'
    BY <1>0, <1>5 DEF SaveActivationPending, Stage, Claim, Stored
  <2> QED BY <2>1, <1>5, StateNames DEF SaveActivationPending, SaveRaises
<1>6. CASE SaveCompleted(r)
  <2>1. Usable(r, r)
    BY <1>0, <1>6 DEF SaveCompleted, Stage, Usable
  <2>2. Claim([status |-> "completed", by |-> r])'
    BY <2>1, <1>0, UsablePersists DEF Claim
  <2> QED BY <2>2, <1>6, StateNames DEF SaveCompleted, SaveRaises
<1> QED BY <1>1, <1>2, <1>3, <1>4, <1>5, <1>6

LEMMA ClaimsStep == TypeOK /\ Stages /\ Claims /\ [Next]_vars => Claims'
<1> SUFFICES ASSUME TypeOK, Stages, Claims, [Next]_vars, NEW k \in Key
             PROVE  Claim(idem[k])'
  BY DEF Claims
<1>1. ASSUME idem'[k] = Missing PROVE Claim(idem[k])'
  BY <1>1 DEF Claim, Missing
<1>2. ASSUME idem'[k] = idem[k] PROVE Claim(idem[k])'
  <2>1. CASE idem[k] = Missing
    BY <1>1, <1>2, <2>1
  <2>2. CASE idem[k] # Missing
    <3>1. PICK state : state = idem[k]
      OBVIOUS
    <3>2. state \in IdemState /\ Claim(state)
      BY <2>2, <3>1 DEF TypeOK, Claims
    <3>3. Claim(state)'
      BY <3>2, ClaimPersists
    <3> QED BY <1>2, <3>1, <3>3 DEF Claim
  <2> QED BY <2>1, <2>2
<1>3. ASSUME NEW r \in Request,
             SaveStarted(r) \/ SaveProfileCreated(r) \/ SavePasswordBound(r)
             \/ SaveCompensationFailed(r) \/ SaveActivationPending(r)
             \/ SaveCompleted(r)
      PROVE  Claim(idem[k])'
  <2>1. CASE idem' = idem
    BY <1>2, <2>1
  <2>2. ASSUME NEW status \in Status, Saved(r, status),
               Claim([status |-> status, by |-> r])'
        PROVE  Claim(idem[k])'
    <3>1. idem'[k] = idem[k] \/ idem'[k] = [status |-> status, by |-> r]
      BY <2>2 DEF Saved, TypeOK
    <3> QED BY <1>2, <2>2, <3>1 DEF Claim
  <2> QED BY <1>3, <2>1, <2>2, SavedClaim
<1>4. ASSUME NEW r \in Request,
             Receive(r) \/ GetState(r) \/ CreateReturns(r) \/ CheckBind(r)
             \/ CommitBind(r) \/ DeleteReturns(r) \/ ActivateReturns(r)
             \/ CallTimesOut(r) \/ UserService(r) \/ UserServiceFails(r)
      PROVE  idem' = idem
  BY <1>4 DEF Receive, GetState, CreateReturns, CheckBind, CommitBind,
     DeleteReturns, ActivateReturns, CallTimesOut, UserService, CheckProfile,
     InsertProfile, ActivateProfile, DeleteProfile, UserServiceFails
<1>5. ASSUME NEW l \in Key, KeyExpires(l)
      PROVE  idem'[k] = idem[k] \/ idem'[k] = Missing
  BY <1>5 DEF KeyExpires, TypeOK
<1>6. AuthServiceCrashes \/ (\E n \in Username : BindElsewhere(n)) \/ UNCHANGED vars
      => idem' = idem
  BY DEF AuthServiceCrashes, BindElsewhere, vars
<1> QED BY <1>1, <1>2, <1>3, <1>4, <1>5, <1>6 DEF Next, AuthService, Quiet

\* Only a replay and a completed saga answer 201.
LEMMA SuccessStep ==
  TypeOK /\ Stages /\ Claims /\ SuccessIsUsable /\ [Next]_vars => SuccessIsUsable'
<1> SUFFICES ASSUME TypeOK, Stages, Claims, SuccessIsUsable, [Next]_vars,
                    NEW r \in Request, reply'[r].code = "created"
             PROVE  Usable(reply[r].user, r)'
  BY DEF SuccessIsUsable
<1>0. Persistent
  BY RowsPersist
<1>k. ASSUME NEW u, Usable(u, r), reply'[r].user = u
      PROVE  Usable(reply[r].user, r)'
  <2>1. Usable(u, r)'
    BY <1>0, <1>k, UsablePersists
  <2> QED BY <1>k, <2>1 DEF Usable
<1>1. ASSUME reply'[r] = reply[r] PROVE Usable(reply[r].user, r)'
  BY <1>1, <1>k DEF SuccessIsUsable
<1>2. ASSUME NEW s \in Request, GetState(s) PROVE Usable(reply[r].user, r)'
  <2> DEFINE state == idem[msg[s].key]
  <2>1. CASE reply'[r] = reply[r]
    BY <1>1, <2>1
  <2>2. CASE reply'[r] # reply[r]
    <3>1. /\ r = s /\ state # Missing /\ state.status = "completed"
          /\ Hash(state.by) = Hash(r) /\ reply'[r].user = state.by
      BY <1>2, <2>2 DEF GetState, Goto, Finish, TypeOK
    <3>2. Usable(state.by, state.by)
      BY <3>1 DEF Claims, Claim, TypeOK, Message
    <3>3. Usable(state.by, r)
      BY <3>1, <3>2 DEF Usable, Hash, ProfileEmail, ProfileName
    <3> QED BY <1>k, <3>1, <3>3
  <2> QED BY <2>1, <2>2
<1>3. ASSUME NEW s \in Request, SaveCompleted(s) PROVE Usable(reply[r].user, r)'
  <2>1. CASE reply'[r] = reply[r]
    BY <1>1, <2>1
  <2>2. CASE reply'[r] # reply[r]
    <3>1. r = s /\ reply'[r].user = r
      BY <1>3, <2>2 DEF SaveCompleted, Finish, TypeOK
    <3>2. Usable(r, r)
      BY <1>3, <3>1 DEF SaveCompleted, Stages, Stage, Usable
    <3> QED BY <1>k, <3>1, <3>2
  <2> QED BY <2>1, <2>2
<1>4. ASSUME NEW s \in Request,
             Receive(s) \/ (AuthService(s) /\ ~GetState(s) /\ ~SaveCompleted(s))
             \/ UserService(s) \/ UserServiceFails(s)
      PROVE  reply'[r] = reply[r]
  BY <1>4 DEF TypeOK, Receive, AuthService, SaveStarted, CreateReturns,
     SaveProfileCreated, CheckBind, CommitBind, SavePasswordBound,
     DeleteReturns, SaveCompensationFailed, ActivateReturns,
     SaveActivationPending, CallTimesOut, UserService, CheckProfile,
     InsertProfile, ActivateProfile, DeleteProfile, UserServiceFails,
     Goto, Finish, Compensate
<1>5. AuthServiceCrashes => reply'[r] = reply[r]
  BY DEF AuthServiceCrashes, TypeOK
<1>6. (\E k \in Key : KeyExpires(k)) \/ (\E n \in Username : BindElsewhere(n))
      \/ UNCHANGED vars => reply' = reply
  BY DEF KeyExpires, BindElsewhere, vars
<1> QED BY <1>1, <1>2, <1>3, <1>4, <1>5, <1>6 DEF Next, AuthService, Quiet

\* The only insert looks at every stored row.
LEMMA UniqueRowsStep == TypeOK /\ Stages /\ UniqueRows /\ [Next]_vars => UniqueRows'
<1> SUFFICES ASSUME TypeOK, Stages, UniqueRows, [Next]_vars,
                    NEW r \in Request, NEW s \in Request, r # s,
                    profile'[r] # "absent", profile'[s] # "absent"
             PROVE  ~Clash(r, s)'
  BY DEF UniqueRows, Stored
<1>0. Clash(r, s)' <=> Clash(r, s)
  BY RowsPersist DEF Persistent, Clash, ProfileEmail, ProfileName
<1>s. Clash(r, s) <=> Clash(s, r)
  BY DEF Clash
<1>1. CASE Stored(r) /\ Stored(s)
  BY <1>0, <1>1 DEF UniqueRows
<1>2. ASSUME NEW q \in Request, InsertProfile(q) PROVE ~Clash(r, s)
  <2>1. \A p \in Request \ {q} : profile'[p] = profile[p]
    BY <1>2 DEF InsertProfile, TypeOK
  <2>2. profile'[q] # profile[q] => \A p \in Request : Stored(p) => ~Clash(q, p)
    BY <1>2 DEF InsertProfile
  <2> QED BY <1>0, <1>1, <1>s, <2>1, <2>2 DEF Stored
<1>3. ASSUME NEW q \in Request,
             Receive(q) \/ AuthService(q) \/ CheckProfile(q) \/ UserServiceFails(q)
      PROVE  profile' = profile
  BY <1>3 DEF Receive, AuthService, GetState, SaveStarted, CreateReturns,
     SaveProfileCreated, CheckBind, CommitBind, SavePasswordBound,
     DeleteReturns, SaveCompensationFailed, ActivateReturns,
     SaveActivationPending, SaveCompleted, CallTimesOut, CheckProfile,
     UserServiceFails
<1>4. ASSUME NEW q \in Request, ActivateProfile(q) \/ DeleteProfile(q)
      PROVE  \A p \in Request : profile'[p] # "absent" => Stored(p)
  BY <1>4 DEF ActivateProfile, DeleteProfile, Live, Stored, TypeOK
<1>5. AuthServiceCrashes \/ (\E k \in Key : KeyExpires(k)) \/ (\E n \in Username : BindElsewhere(n))
      \/ UNCHANGED vars
      => profile' = profile
  BY DEF AuthServiceCrashes, KeyExpires, BindElsewhere, vars
<1> QED
  BY <1>0, <1>1, <1>2, <1>3, <1>4, <1>5 DEF Next, UserService, Quiet, Stored

-----------------------------------------------------------------------------
(* Keys of clients that wait for the answer.  One request at a time writes *)
(* the record of a key, and none writes a record that is completed.        *)

\* A request has passed get_state and may write the record of its key.
Working(r) == InFlight(r) /\ pc[r] # "get_state"

OneByOne ==
  /\ \A r, s \in Request : InFlight(r) /\ InFlight(s) /\ msg[r].key = msg[s].key => r = s
  /\ \A r \in Request : Working(r) => idem[msg[r].key].status # "completed"

\* A 201 is what the record of its key replays.
Replayed ==
  \A r \in Request : reply[r].code = "created" =>
    idem[msg[r].key].status = "completed" /\ idem[msg[r].key].by = reply[r].user

KeyInv ==
  /\ TypeOK
  /\ ~Overlap => OneByOne
  /\ ~Overlap /\ "expiry" \notin Faults => Replayed

\* How a request comes to be in flight.
LEMMA InFlightFrom ==
  ASSUME TypeOK, [Next]_vars, NEW s \in Request, InFlight(s)'
  PROVE  \/ Working(s)
         \/ pc[s] = "get_state" /\ pc'[s] = "get_state"
         \/ pc[s] = "get_state" /\ idem[msg[s].key].status # "completed" /\ idem' = idem
         \/ Receive(s) /\ pc'[s] = "get_state"
<1>1. ASSUME pc'[s] = pc[s] PROVE Working(s) \/ (pc[s] = "get_state" /\ pc'[s] = "get_state")
  BY <1>1 DEF InFlight, Working
<1>2. ASSUME NEW r \in Request, Receive(r) \/ AuthService(r), r # s PROVE pc'[s] = pc[s]
  BY <1>2 DEF TypeOK, Receive, AuthService, GetState, SaveStarted, CreateReturns,
     SaveProfileCreated, CheckBind, CommitBind, SavePasswordBound, DeleteReturns,
     SaveCompensationFailed, ActivateReturns, SaveActivationPending,
     SaveCompleted, CallTimesOut, Goto, Finish, Compensate
<1>3. CASE Receive(s)
  BY <1>3 DEF Receive, Goto, Finish, TypeOK, InFlight, Suspended
<1>4. CASE GetState(s)
  BY <1>4, StateNames DEF GetState, Goto, Finish, TypeOK, InFlight, Missing
<1>5. ASSUME AuthService(s), ~GetState(s) PROVE Working(s)
  BY <1>5, StateNames DEF AuthService, SaveStarted, CreateReturns, SaveProfileCreated,
     CheckBind, CommitBind, SavePasswordBound, DeleteReturns, SaveCompensationFailed,
     ActivateReturns, SaveActivationPending, SaveCompleted, CallTimesOut, Working, InFlight
<1>6. ASSUME NEW r \in Request, UserService(r) \/ UserServiceFails(r) PROVE pc' = pc
  BY <1>6 DEF UserService, CheckProfile, InsertProfile, ActivateProfile, DeleteProfile,
     UserServiceFails
<1>7. ASSUME AuthServiceCrashes PROVE pc'[s] = pc[s]
  BY <1>7, StateNames DEF AuthServiceCrashes, InFlight, TypeOK
<1>8. (\E k \in Key : KeyExpires(k)) \/ (\E n \in Username : BindElsewhere(n))
      \/ UNCHANGED vars => pc' = pc
  BY DEF KeyExpires, BindElsewhere, vars
<1> QED
  BY <1>1, <1>2, <1>3, <1>4, <1>5, <1>6, <1>7, <1>8 DEF Next, Quiet

\* Who writes the record of a key.
LEMMA RecordFrom ==
  ASSUME TypeOK, [Next]_vars, NEW k \in Key
  PROVE  \/ idem'[k] = idem[k]
         \/ "expiry" \in Faults /\ idem'[k] = Missing
         \/ \E r \in Request, status \in Status :
              /\ Working(r) /\ msg[r].key = k
              /\ idem'[k] = [status |-> status, by |-> r]
              /\ status = "completed" => pc'[r] = "done"
<1>1. ASSUME NEW r \in Request, NEW status \in Status,
             Saved(r, status) \/ SaveRaises(r, status), Working(r),
             status = "completed" => pc'[r] = "done"
      PROVE  \/ idem'[k] = idem[k]
             \/ /\ Working(r) /\ msg[r].key = k
                /\ idem'[k] = [status |-> status, by |-> r]
                /\ status = "completed" => pc'[r] = "done"
  BY <1>1 DEF Saved, SaveRaises, TypeOK
<1>2. ASSUME NEW r \in Request,
             SaveStarted(r) \/ SaveProfileCreated(r) \/ SavePasswordBound(r)
             \/ SaveCompensationFailed(r) \/ SaveActivationPending(r) \/ SaveCompleted(r)
      PROVE  /\ Working(r)
             /\ \E status \in Status : /\ Saved(r, status) \/ SaveRaises(r, status)
                                       /\ status = "completed" => pc'[r] = "done"
<2>1. Working(r)
  BY <1>2, StateNames DEF SaveStarted, SaveProfileCreated, SavePasswordBound,
     SaveCompensationFailed, SaveActivationPending, SaveCompleted, Working, InFlight
<2>2. SaveCompleted(r) => pc'[r] = "done"
  BY DEF SaveCompleted, Finish, TypeOK
<2> QED
  BY <1>2, <2>1, <2>2, StateNames DEF SaveStarted, SaveProfileCreated, SavePasswordBound,
     SaveCompensationFailed, SaveActivationPending, SaveCompleted
<1>3. ASSUME NEW r \in Request,
             Receive(r) \/ GetState(r) \/ CreateReturns(r) \/ CheckBind(r)
             \/ CommitBind(r) \/ DeleteReturns(r) \/ ActivateReturns(r)
             \/ CallTimesOut(r) \/ UserService(r) \/ UserServiceFails(r)
      PROVE  idem' = idem
  BY <1>3 DEF Receive, GetState, CreateReturns, CheckBind, CommitBind,
     DeleteReturns, ActivateReturns, CallTimesOut, UserService, CheckProfile,
     InsertProfile, ActivateProfile, DeleteProfile, UserServiceFails
<1>4. ASSUME NEW l \in Key, KeyExpires(l)
      PROVE  idem'[k] = idem[k] \/ ("expiry" \in Faults /\ idem'[k] = Missing)
  BY <1>4 DEF KeyExpires, TypeOK
<1>5. AuthServiceCrashes \/ (\E n \in Username : BindElsewhere(n)) \/ UNCHANGED vars
      => idem' = idem
  BY DEF AuthServiceCrashes, BindElsewhere, vars
<1> QED
  BY <1>1, <1>2, <1>3, <1>4, <1>5 DEF Next, AuthService, Quiet

\* Where a 201 comes from.
LEMMA ReplyFrom ==
  ASSUME TypeOK, [Next]_vars, NEW r \in Request, reply'[r].code = "created"
  PROVE  \/ reply'[r] = reply[r]
         \/ /\ idem[msg[r].key].status = "completed" /\ idem' = idem
            /\ reply'[r].user = idem[msg[r].key].by
         \/ Saved(r, "completed") /\ reply'[r].user = r
<1>1. ASSUME NEW s \in Request, GetState(s)
      PROVE  \/ reply'[r] = reply[r]
             \/ /\ idem[msg[r].key].status = "completed" /\ idem' = idem
                /\ reply'[r].user = idem[msg[r].key].by
  BY <1>1 DEF GetState, Goto, Finish, TypeOK
<1>2. ASSUME NEW s \in Request, SaveCompleted(s)
      PROVE  reply'[r] = reply[r] \/ (Saved(r, "completed") /\ reply'[r].user = r)
  BY <1>2 DEF SaveCompleted, Finish, TypeOK
<1>3. ASSUME NEW s \in Request,
             Receive(s) \/ (AuthService(s) /\ ~GetState(s) /\ ~SaveCompleted(s))
             \/ UserService(s) \/ UserServiceFails(s)
      PROVE  reply'[r] = reply[r]
  BY <1>3 DEF TypeOK, Receive, AuthService, SaveStarted, CreateReturns,
     SaveProfileCreated, CheckBind, CommitBind, SavePasswordBound,
     DeleteReturns, SaveCompensationFailed, ActivateReturns,
     SaveActivationPending, CallTimesOut, UserService, CheckProfile,
     InsertProfile, ActivateProfile, DeleteProfile, UserServiceFails,
     Goto, Finish, Compensate
<1>4. AuthServiceCrashes => reply'[r] = reply[r]
  BY DEF AuthServiceCrashes, TypeOK
<1>5. (\E k \in Key : KeyExpires(k)) \/ (\E n \in Username : BindElsewhere(n))
      \/ UNCHANGED vars => reply' = reply
  BY DEF KeyExpires, BindElsewhere, vars
<1> QED
  BY <1>1, <1>2, <1>3, <1>4, <1>5 DEF Next, AuthService, Quiet

\* While a completed record is replayed, nobody writes it.
LEMMA CompletedStep ==
  ASSUME TypeOK, OneByOne, [Next]_vars, NEW k \in Key, idem[k].status = "completed"
  PROVE  idem'[k] = idem[k] \/ ("expiry" \in Faults /\ idem'[k] = Missing)
<1>1. \A q \in Request : Working(q) => msg[q].key # k
  BY DEF OneByOne
<1>2. \/ idem'[k] = idem[k]
      \/ "expiry" \in Faults /\ idem'[k] = Missing
      \/ \E q \in Request, status \in Status :
           /\ Working(q) /\ msg[q].key = k
           /\ idem'[k] = [status |-> status, by |-> q]
           /\ status = "completed" => pc'[q] = "done"
  BY RecordFrom, Zenon
<1> QED
  BY <1>1, <1>2, Zenon

LEMMA OneByOneStep ==
  ASSUME TypeOK, ~Overlap, OneByOne, [Next]_vars
  PROVE  OneByOne'
<1>0. msg' = msg /\ \A r \in Request : msg[r].key \in Key
  BY EnvironmentStays DEF TypeOK, Message
<1>1. ASSUME NEW r \in Request, NEW s \in Request, InFlight(r)', InFlight(s)',
             msg[r].key = msg[s].key
      PROVE  r = s
<2>1. /\ InFlight(r) \/ Receive(r)
      /\ InFlight(s) \/ Receive(s)
  BY <1>1, InFlightFrom, StateNames DEF Working, InFlight
<2>2. CASE Receive(r)
<3>1. pc[r] = "idle" /\ (r # s => pc'[s] = pc[s])
  BY <2>2 DEF Receive, Goto, Finish, TypeOK
<3>2. r # s => InFlight(s)
  BY <1>1, <3>1 DEF InFlight
<3> QED
  BY <1>1, <2>2, <3>2 DEF Receive
<2>3. CASE Receive(s)
<3>1. pc[s] = "idle" /\ (r # s => pc'[r] = pc[r])
  BY <2>3 DEF Receive, Goto, Finish, TypeOK
<3>2. r # s => InFlight(r)
  BY <1>1, <3>1 DEF InFlight
<3> QED
  BY <1>1, <2>3, <3>2 DEF Receive
<2> QED
  BY <1>1, <2>1, <2>2, <2>3 DEF OneByOne
<1>2. ASSUME NEW r \in Request, Working(r)'
      PROVE  idem'[msg[r].key].status # "completed"
<2>0. pc'[r] \in Suspended /\ pc'[r] # "get_state" /\ pc'[r] # "done" /\ InFlight(r)'
  BY <1>2, StateNames DEF Working, InFlight
<2>1. CASE Working(r)
<3>1. \A q \in Request : Working(q) /\ msg[q].key = msg[r].key => q = r
  BY <2>1 DEF OneByOne, Working
<3>2. idem[msg[r].key].status # "completed"
  BY <2>1 DEF OneByOne
<3>3. Missing.status # "completed"
  BY DEF Missing
<3> DEFINE k == msg[r].key
<3>4. k \in Key
  BY <1>0
<3> HIDE DEF k
<3>5. \/ idem'[k] = idem[k]
      \/ "expiry" \in Faults /\ idem'[k] = Missing
      \/ \E q \in Request, status \in Status :
           /\ Working(q) /\ msg[q].key = k
           /\ idem'[k] = [status |-> status, by |-> q]
           /\ status = "completed" => pc'[q] = "done"
  BY <3>4, RecordFrom, Zenon
<3>6. CASE \E q \in Request, status \in Status :
             /\ Working(q) /\ msg[q].key = k
             /\ idem'[k] = [status |-> status, by |-> q]
             /\ status = "completed" => pc'[q] = "done"
<4>1. PICK q \in Request, status \in Status :
             /\ Working(q) /\ msg[q].key = k
             /\ idem'[k] = [status |-> status, by |-> q]
             /\ status = "completed" => pc'[q] = "done"
  BY <3>6
<4>2. idem'[k].status = status /\ q = r
  BY <3>1, <4>1 DEF k
<4> QED
  BY <2>0, <4>1, <4>2 DEF k
<3> QED
  BY <3>2, <3>3, <3>5, <3>6 DEF k
<2>2. CASE idem[msg[r].key].status # "completed" /\ idem' = idem
  BY <2>2
<2> QED
  BY <2>0, <2>1, <2>2, InFlightFrom
<1> QED
  BY <1>0, <1>1, <1>2 DEF OneByOne, Working

LEMMA ReplayedStep ==
  ASSUME TypeOK, OneByOne, Replayed, "expiry" \notin Faults, [Next]_vars
  PROVE  Replayed'
<1> SUFFICES ASSUME NEW r \in Request, reply'[r].code = "created"
             PROVE  /\ idem'[msg[r].key].status = "completed"
                    /\ idem'[msg[r].key].by = reply'[r].user
  BY EnvironmentStays DEF Replayed
<1>0. msg[r].key \in Key
  BY DEF TypeOK, Message
<1>1. CASE reply'[r] = reply[r]
  BY <1>0, <1>1, CompletedStep DEF Replayed
<1>2. CASE Saved(r, "completed") /\ reply'[r].user = r
  BY <1>0, <1>2 DEF Saved, TypeOK
<1> QED
  BY <1>1, <1>2, ReplyFrom

LEMMA KeyStep == KeyInv /\ [Next]_vars => KeyInv'
<1> SUFFICES ASSUME KeyInv, [Next]_vars PROVE KeyInv'
  OBVIOUS
<1>1. TypeOK' /\ Faults' = Faults /\ Overlap' = Overlap
  BY TypeOKStep, EnvironmentStays DEF KeyInv, Faults, Overlap
<1> QED
  BY <1>1, OneByOneStep, ReplayedStep DEF KeyInv

LEMMA InitKeyInv == Init => KeyInv
  BY InitTypeOK, StateNames DEF Init, KeyInv, OneByOne, Working, InFlight, Replayed, NoReply

-----------------------------------------------------------------------------
(* Password rows.  Where the stores of the auth service do not fail, the   *)
(* saga never turns back once the row is there.                            *)

Kept(r) ==
  /\ pc[r] \in {"save_password_bound", "await_activate", "save_activation_pending",
                "save_completed", "done"}
  /\ rpc[r] # "delete" /\ profile[r] # "deleted"

BoundInv ==
  /\ TypeOK /\ Stages
  /\ Faults \cap {"redis", "database"} = {} =>
       \A n \in Username : credential[n] \in Request => Kept(credential[n])

LEMMA KeptStep ==
  ASSUME TypeOK, Stages, Faults \cap {"redis", "database"} = {}, [Next]_vars,
         NEW r \in Request, Kept(r)
  PROVE  Kept(r)'
<1>0. "redis" \notin Faults /\ "database" \notin Faults
  OBVIOUS
<1>f. ASSUME pc'[r] = pc[r], rpc'[r] = rpc[r], profile'[r] = profile[r] PROVE Kept(r)'
  BY <1>f DEF Kept
<1>1. ASSUME NEW q \in Request, q # r,
             Receive(q) \/ AuthService(q) \/ UserService(q) \/ UserServiceFails(q)
      PROVE  Kept(r)'
<2>1. pc'[r] = pc[r] /\ rpc'[r] = rpc[r] /\ profile'[r] = profile[r]
  BY <1>1 DEF TypeOK, Receive, AuthService, GetState, SaveStarted,
     CreateReturns, SaveProfileCreated, CheckBind, CommitBind,
     SavePasswordBound, DeleteReturns, SaveCompensationFailed,
     ActivateReturns, SaveActivationPending, SaveCompleted, CallTimesOut,
     UserService, CheckProfile, InsertProfile, ActivateProfile,
     DeleteProfile, UserServiceFails, Goto, Finish, Call, Compensate
<2> QED
  BY <1>f, <2>1
<1>2. ASSUME Receive(r) \/ AuthService(r) PROVE Kept(r)'
<2> USE DEF TypeOK, Kept, Goto, Finish, Call
<2>1. CASE SavePasswordBound(r)
  BY <1>0, <2>1 DEF SavePasswordBound, SaveRaises
<2>2. CASE ActivateReturns(r)
  BY <2>2 DEF ActivateReturns
<2>3. CASE SaveActivationPending(r) \/ SaveCompleted(r) \/ CallTimesOut(r)
  BY <2>3 DEF SaveActivationPending, SaveCompleted, CallTimesOut
<2>4. ~(\/ Receive(r) \/ GetState(r) \/ SaveStarted(r) \/ CreateReturns(r)
        \/ SaveProfileCreated(r) \/ CheckBind(r) \/ CommitBind(r)
        \/ DeleteReturns(r) \/ SaveCompensationFailed(r))
  BY DEF Receive, GetState, SaveStarted, CreateReturns, SaveProfileCreated, CheckBind,
     CommitBind, DeleteReturns, SaveCompensationFailed
<2> QED
  BY <1>2, <2>1, <2>2, <2>3, <2>4 DEF AuthService
<1>3. ASSUME UserService(r) \/ UserServiceFails(r) PROVE Kept(r)'
  BY <1>3 DEF TypeOK, Kept, UserService, CheckProfile, InsertProfile, ActivateProfile,
     DeleteProfile, UserServiceFails, Call
<1>4. CASE AuthServiceCrashes
  BY <1>4 DEF AuthServiceCrashes, Kept, TypeOK
<1>5. CASE (\E k \in Key : KeyExpires(k)) \/ (\E n \in Username : BindElsewhere(n))
           \/ UNCHANGED vars
  BY <1>5, <1>f DEF KeyExpires, BindElsewhere, vars
<1> QED
  BY <1>1, <1>2, <1>3, <1>4, <1>5 DEF Next, Quiet

\* Where a password row comes from.
LEMMA RowFrom ==
  ASSUME TypeOK, Stages, "database" \notin Faults, [Next]_vars,
         NEW n \in Username, credential'[n] \in Request
  PROVE  \/ credential'[n] = credential[n]
         \/ \E r \in Request : /\ credential'[n] = r /\ pc'[r] = "save_password_bound"
                               /\ rpc'[r] = "idle" /\ profile'[r] = "pending"
<1>1. ASSUME NEW r \in Request, CommitBind(r), credential'[n] # credential[n]
      PROVE  /\ credential'[n] = r /\ pc'[r] = "save_password_bound"
             /\ rpc'[r] = "idle" /\ profile'[r] = "pending"
  BY <1>1 DEF CommitBind, Bound, Goto, Compensate, TypeOK, Stages, Stage
<1>2. ASSUME NEW q \in Username, BindElsewhere(q) PROVE credential'[n] = credential[n]
  BY <1>2 DEF BindElsewhere, TypeOK
<1>3. ASSUME NEW r \in Request,
             Receive(r) \/ (AuthService(r) /\ ~CommitBind(r)) \/ UserService(r)
             \/ UserServiceFails(r)
      PROVE  credential' = credential
  BY <1>3 DEF Receive, AuthService, GetState, SaveStarted, CreateReturns,
     SaveProfileCreated, CheckBind, SavePasswordBound, DeleteReturns,
     SaveCompensationFailed, ActivateReturns, SaveActivationPending,
     SaveCompleted, CallTimesOut, UserService, CheckProfile, InsertProfile,
     ActivateProfile, DeleteProfile, UserServiceFails
<1>4. AuthServiceCrashes \/ (\E k \in Key : KeyExpires(k)) \/ UNCHANGED vars
      => credential' = credential
  BY DEF AuthServiceCrashes, KeyExpires, vars
<1> QED
  BY <1>1, <1>2, <1>3, <1>4 DEF Next, AuthService, Quiet

LEMMA BoundStep == BoundInv /\ [Next]_vars => BoundInv'
<1> SUFFICES ASSUME BoundInv, [Next]_vars PROVE BoundInv'
  OBVIOUS
<1>1. TypeOK /\ Stages /\ TypeOK' /\ Stages' /\ Faults' = Faults
  BY TypeOKStep, StagesStep, EnvironmentStays DEF BoundInv, Faults
<1>2. ASSUME Faults \cap {"redis", "database"} = {}, NEW n \in Username, credential'[n] \in Request
      PROVE  Kept(credential[n])'
<2>1. PICK r \in Request : r = credential'[n]
  BY <1>2
<2>2. Kept(r)'
<3>1. CASE credential'[n] = credential[n]
  BY <1>1, <1>2, <2>1, <3>1, KeptStep DEF BoundInv
<3>2. CASE credential'[n] # credential[n]
<4>0. "database" \notin Faults
  BY <1>2
<4>1. pc'[r] = "save_password_bound" /\ profile'[r] = "pending" /\ rpc'[r] = "idle"
  BY <1>1, <1>2, <2>1, <3>2, <4>0, RowFrom
<4> QED
  BY <4>1 DEF Kept
<3> QED
  BY <3>1, <3>2
<2> QED
  BY <2>1, <2>2 DEF Kept
<1> QED
  BY <1>1, <1>2 DEF BoundInv

-----------------------------------------------------------------------------
(* The theorems.                                                           *)

\* What the code relies on without saying it: how far a coroutine, the handler
\* working for it and the rows of the two databases can be apart.
THEOREM InductiveInvariant == Spec => []IInv
<1>1. Init => IInv
  <2>1. Init => TypeOK /\ Unanswered
    BY InitTypeOK DEF Init, Unanswered
  <2>2. Init => Stages /\ UniqueRows
    BY DEF Init, Stages, Stage, Stored, UniqueRows
  <2>3. Init => SuccessIsUsable
    BY DEF Init, SuccessIsUsable, NoReply
  <2>4. Init => RecordIsTruthful /\ CompensationIsFinal
    BY DEF Init, RecordIsTruthful, CompensationIsFinal, Missing
  <2> QED BY <2>1, <2>2, <2>3, <2>4 DEF IInv
<1>2. IInv /\ [Next]_vars => IInv'
  <2> SUFFICES ASSUME IInv, [Next]_vars PROVE IInv'
    OBVIOUS
  <2>1. TypeOK /\ Stages /\ Claims /\ SuccessIsUsable /\ UniqueRows
    BY ClaimsSplit DEF IInv
  <2>u. Unanswered'
    BY UnansweredStep DEF IInv
  <2>2. TypeOK' /\ Stages' /\ SuccessIsUsable' /\ UniqueRows' /\ Claims'
    BY <2>1, TypeOKStep, StagesStep, ClaimsStep, SuccessStep, UniqueRowsStep
  <2>3. Claims' => RecordIsTruthful' /\ CompensationIsFinal'
    BY DEF Claims, Claim, RecordIsTruthful, CompensationIsFinal
  <2> QED BY <2>u, <2>2, <2>3 DEF IInv
<1> QED BY <1>1, <1>2, PTL DEF Spec

\* The acceptance criterion of the registration: no failure, however the calls
\* interleave, leaves an account that is active and has no password.
THEOREM NoActiveUserWithoutPassword == Spec => []ActiveHasPassword
<1>1. IInv => ActiveHasPassword
  BY DEF IInv, Stages, Stage, ActiveHasPassword
<1> QED BY <1>1, InductiveInvariant, PTL

\* Whoever is told "created", by the saga or by a replay, can log in.
THEOREM SuccessesAreUsable == Spec => []SuccessIsUsable
<1>1. IInv => SuccessIsUsable
  BY DEF IInv
<1> QED BY <1>1, InductiveInvariant, PTL

\* The idempotency record of a key never runs ahead of the databases.
THEOREM RecordsAreTruthful == Spec => []RecordIsTruthful
<1>1. IInv => RecordIsTruthful
  BY DEF IInv
<1> QED BY <1>1, InductiveInvariant, PTL

\* Requests that overlap never give one e-mail or user name to two accounts.
THEOREM IdentitiesAreUnique == Spec => []OneAccountPerIdentity
<1>1. IInv => OneAccountPerIdentity
  BY DEF IInv, UniqueRows, OneAccountPerIdentity, Live, Stored
<1> QED BY <1>1, InductiveInvariant, PTL

\* Retrying is safe: all successes for one identity name one user.
THEOREM RetriesAgree == Spec => []OneUserPerIdentity
<1>1. IInv => OneUserPerIdentity
  <2> SUFFICES ASSUME IInv, NEW r \in Request, NEW s \in Request,
                      reply[r].code = "created", reply[s].code = "created",
                      Clash(r, s)
               PROVE  reply[r].user = reply[s].user
    BY DEF OneUserPerIdentity
  <2> DEFINE u == reply[r].user
             v == reply[s].user
  <2>1. Usable(u, r) /\ Usable(v, s)
    BY DEF IInv, SuccessIsUsable
  <2>2. Clash(u, v)
    BY <2>1 DEF Usable, Clash
  <2> QED BY <2>1, <2>2 DEF IInv, UniqueRows, Stored, Usable
<1> QED BY <1>1, InductiveInvariant, PTL

\* get_state and the replay: while a client waits for its answers and the key
\* has not expired, every 201 under the key names the same user, whatever
\* fails and however often the saga starts again from the top.
THEOREM OneKeyOneUser == Spec => []OneUserPerKey
<1>1. KeyInv => OneUserPerKey
  BY DEF KeyInv, Replayed, OneUserPerKey, Overlap, Faults
<1> QED BY <1>1, InitKeyInv, KeyStep, PTL DEF Spec

\* get_state: no request of a client that waits writes over the response of a
\* completed registration; only the expiry of the key removes it.
THEOREM CompletedStays == Spec => CompletedIsKept
<1>1. KeyInv /\ [Next]_vars =>
        [~Overlap => \A k \in Key : idem[k].status = "completed" => idem'[k] \in {idem[k], Missing}]_vars
  BY CompletedStep DEF KeyInv
<1> QED BY <1>1, InitKeyInv, KeyStep, PTL DEF Spec, CompletedIsKept

\* The except branch around bind_password: a password row is never left behind
\* with a profile that was deleted, whatever the user service and the calls to
\* it do, as long as the two stores of the auth service answer.
THEOREM NoPasswordIsOrphaned == Spec => []NoOrphanCredential
<1>1. Init => BoundInv
  BY InitTypeOK DEF Init, BoundInv, Stages, Stage, Stored
<1>2. BoundInv => NoOrphanCredential
  BY DEF BoundInv, NoOrphanCredential, Kept
<1> QED BY <1>1, <1>2, BoundStep, PTL DEF Spec

-----------------------------------------------------------------------------
(* Refinement.                                                             *)

LEMMA InitRefines == Init => Lifecycle!Init
<1> SUFFICES ASSUME Init PROVE Lifecycle!Init
  OBVIOUS
<1>1. Owned \in [Request -> SUBSET (({"email"} \X Email) \cup ({"name"} \X Username))]
  BY NormalAssumption DEF Init, Message, Owned, ProfileEmail, ProfileName
<1>2. WithPassword = {}
  BY DEF Init, WithPassword
<1>3. Confirmed = {}
  BY DEF Init, Confirmed, NoReply
<1> QED BY <1>1, <1>2, <1>3 DEF Init, Lifecycle!Init

\* No two stored profiles own the same thing.
LEMMA OwnedDisjoint ==
  ASSUME TypeOK, NEW r \in Request, NEW s \in Request, ~Clash(r, s)
  PROVE  Owned[r] \cap Owned[s] = {}
  BY DEF Owned, Clash

LEMMA StepRefines == IInv /\ IInv' /\ [Next]_vars => [Lifecycle!Next]_(Lifecycle!vars)
<1> SUFFICES ASSUME IInv, IInv', [Next]_vars
             PROVE  Lifecycle!Next \/ UNCHANGED Lifecycle!vars
  OBVIOUS
<1> USE DEF Lifecycle!vars
<1>0. Persistent /\ TypeOK /\ Stages
  BY RowsPersist DEF IInv
<1>o. Owned' = Owned
  BY <1>0 DEF Persistent, Owned, ProfileEmail, ProfileName
<1>w. UNCHANGED credential => WithPassword' = WithPassword
  BY DEF WithPassword
<1>t. UNCHANGED reply => Confirmed' = Confirmed
  BY DEF Confirmed
\* An answer other than 201 confirms nothing.
<1>n. ASSUME NEW r \in Request, NEW code, code # "created", pc[r] # "done",
             Finish(r, code, Nobody) \/ UNCHANGED reply
      PROVE  Confirmed' = Confirmed
  <2>1. reply[r].code # "created"
    BY <1>n DEF IInv, Unanswered, NoReply
  <2>2. \A s \in Request : \/ reply'[s] = reply[s]
                           \/ reply[s].code # "created" /\ reply'[s].code # "created"
    BY <1>0, <1>n, <2>1 DEF Finish, TypeOK
  <2> QED BY <2>2 DEF Confirmed
\* A 201 confirms an account that is active.
<1>c. ASSUME NEW r \in Request, NEW u \in Request, pc[r] # "done",
             profile[u] = "active", Finish(r, "created", u)
      PROVE  Confirmed' = Confirmed \cup {u}
  <2>1. reply[r].code # "created"
    BY <1>c DEF IInv, Unanswered, NoReply
  <2>2. /\ \A s \in Request \ {r} : reply'[s] = reply[s]
        /\ reply'[r].code = "created" /\ reply'[r].user = u
    BY <1>0, <1>c DEF Finish, TypeOK
  <2> QED BY <2>1, <2>2 DEF Confirmed
<1>1. ASSUME NEW r \in Request, GetState(r)
      PROVE  Lifecycle!Next \/ UNCHANGED Lifecycle!vars
  <2> DEFINE state == idem[msg[r].key]
  <2>0. pc[r] # "done" /\ UNCHANGED <<profile, credential>>
    BY <1>1 DEF GetState
  <2>1. CASE state # Missing /\ state.status = "completed" /\ Finish(r, "created", state.by)
    <3>1. state.by \in Request
      BY <1>0, <2>1 DEF TypeOK, Message, IdemState
    <3>2. Usable(state.by, state.by)
      BY <1>0, <2>1 DEF IInv, RecordIsTruthful, TypeOK, Message
    <3>3. Lifecycle!Confirm(state.by)
      BY <1>c, <1>o, <1>w, <2>0, <2>1, <3>1, <3>2 DEF Lifecycle!Confirm, Usable
    <3> QED BY <3>1, <3>3 DEF Lifecycle!Next
  <2>2. CASE ~(state # Missing /\ state.status = "completed"
               /\ Finish(r, "created", state.by))
    <3>1. Confirmed' = Confirmed
      BY <1>1, <1>n, <2>0, <2>2 DEF GetState, Goto
    <3> QED BY <1>o, <1>w, <2>0, <3>1
  <2> QED BY <2>1, <2>2
<1>2. ASSUME NEW r \in Request, SaveCompleted(r)
      PROVE  Lifecycle!Next \/ UNCHANGED Lifecycle!vars
  <2>1. pc[r] # "done" /\ profile[r] = "active" /\ UNCHANGED <<profile, credential>>
    BY <1>0, <1>2 DEF SaveCompleted, Stages, Stage
  <2>2. CASE Finish(r, "created", r)
    <3>1. Lifecycle!Confirm(r)
      BY <1>c, <1>o, <1>w, <2>1, <2>2 DEF Lifecycle!Confirm
    <3> QED BY <3>1 DEF Lifecycle!Next
  <2>3. CASE Finish(r, "failed", Nobody)
    BY <1>n, <1>o, <1>w, <2>1, <2>3
  <2> QED BY <1>2, <2>2, <2>3 DEF SaveCompleted
<1>3. ASSUME NEW r \in Request, CommitBind(r)
      PROVE  Lifecycle!Next \/ UNCHANGED Lifecycle!vars
  <2>1. /\ profile[r] = "pending" /\ pc[r] # "done" /\ reply' = reply
        /\ profile' = profile
    BY <1>0, <1>3 DEF CommitBind, Stages, Stage, Goto, Compensate
  <2>2. CASE credential' = credential
    BY <1>o, <1>w, <1>t, <2>1, <2>2
  <2>3. CASE Bound(r) /\ credential[msg[r].username] = Nobody
    <3>1. msg[r].username \in Username
      BY <1>0 DEF TypeOK, Message
    <3>2. WithPassword' = WithPassword \cup {r}
      BY <1>0, <2>3, <3>1 DEF Bound, WithPassword, TypeOK
    <3>3. Lifecycle!SetPassword(r)
      BY <1>o, <1>t, <2>1, <3>2 DEF Lifecycle!SetPassword
    <3> QED BY <3>3 DEF Lifecycle!Next
  <2> QED BY <1>3, <2>2, <2>3 DEF CommitBind
<1>4. ASSUME NEW r \in Request, InsertProfile(r)
      PROVE  Lifecycle!Next \/ UNCHANGED Lifecycle!vars
  <2>1. profile[r] = "absent" /\ UNCHANGED <<reply, credential>>
    BY <1>0, <1>4 DEF InsertProfile, Stages, Stage
  <2>2. CASE profile' = profile
    BY <1>o, <1>w, <1>t, <2>1, <2>2
  <2>3. CASE profile' # profile
    <3>1. /\ profile' = [profile EXCEPT ![r] = "pending"]
          /\ \A s \in Request : Stored(s) => ~Clash(r, s)
      BY <1>4, <2>3 DEF InsertProfile
    <3>2. \A s \in Request : profile[s] # "absent" => Owned[r] \cap Owned[s] = {}
      BY <1>0, <3>1, OwnedDisjoint DEF Stored
    <3>3. Lifecycle!Open(r)
      BY <1>o, <1>w, <1>t, <2>1, <3>1, <3>2 DEF Lifecycle!Open
    <3> QED BY <3>3 DEF Lifecycle!Next
  <2> QED BY <2>2, <2>3
<1>5. ASSUME NEW r \in Request, ActivateProfile(r)
      PROVE  Lifecycle!Next \/ UNCHANGED Lifecycle!vars
  <2>1. r \in WithPassword /\ UNCHANGED <<reply, credential>>
    BY <1>0, <1>5 DEF ActivateProfile, Stages, Stage, WithPassword, TypeOK, Message
  <2>2. CASE profile' = profile
    BY <1>o, <1>w, <1>t, <2>1, <2>2
  <2>3. CASE profile' # profile
    <3>1. Lifecycle!Activate(r)
      BY <1>5, <1>o, <1>w, <1>t, <2>1, <2>3 DEF ActivateProfile, Lifecycle!Activate
    <3> QED BY <3>1 DEF Lifecycle!Next
  <2> QED BY <2>2, <2>3
<1>6. ASSUME NEW r \in Request, DeleteProfile(r)
      PROVE  Lifecycle!Next \/ UNCHANGED Lifecycle!vars
  <2>1. profile[r] # "active" /\ UNCHANGED <<reply, credential>>
    BY <1>0, <1>6 DEF DeleteProfile, Stages, Stage
  <2>2. CASE Live(r)
    <3>1. Lifecycle!GiveUp(r)
      BY <1>6, <1>o, <1>w, <1>t, <2>1, <2>2 DEF DeleteProfile, Live, Lifecycle!GiveUp
    <3> QED BY <3>1 DEF Lifecycle!Next
  <2>3. CASE ~Live(r)
    <3>1. profile' = profile
      BY <1>0, <1>6, <2>3 DEF DeleteProfile, TypeOK
    <3> QED BY <1>o, <1>w, <1>t, <2>1, <3>1
  <2> QED BY <2>2, <2>3
\* Every other step is invisible.
<1>7. ASSUME NEW r \in Request,
             Receive(r) \/ SaveStarted(r) \/ CreateReturns(r)
             \/ SaveProfileCreated(r) \/ CheckBind(r) \/ SavePasswordBound(r)
             \/ DeleteReturns(r) \/ SaveCompensationFailed(r)
             \/ ActivateReturns(r) \/ SaveActivationPending(r)
             \/ CallTimesOut(r) \/ CheckProfile(r) \/ UserServiceFails(r)
      PROVE  UNCHANGED Lifecycle!vars
  <2>1. /\ UNCHANGED <<profile, credential>>
        /\ \/ UNCHANGED reply
           \/ /\ pc[r] # "done"
              /\ \E code : code # "created" /\ Finish(r, code, Nobody)
    BY <1>7 DEF Receive, SaveStarted, CreateReturns, SaveProfileCreated,
       CheckBind, SavePasswordBound, DeleteReturns, SaveCompensationFailed,
       ActivateReturns, SaveActivationPending, CallTimesOut, CheckProfile,
       UserServiceFails, Goto, Compensate
  <2> QED BY <1>n, <1>o, <1>t, <1>w, <2>1
<1>8. CASE AuthServiceCrashes
  <2>1. \A s \in Request : InFlight(s) => reply[s].code # "created"
    BY DEF IInv, Unanswered, NoReply, InFlight, Suspended
  <2>2. \A s \in Request : \/ reply'[s] = reply[s]
                           \/ reply[s].code # "created" /\ reply'[s].code # "created"
    BY <1>8, <2>1 DEF AuthServiceCrashes
  <2>3. Confirmed' = Confirmed
    BY <2>2 DEF Confirmed
  <2> QED BY <1>8, <1>o, <1>w, <2>3 DEF AuthServiceCrashes
<1>9. ASSUME NEW n \in Username, BindElsewhere(n)
      PROVE  UNCHANGED Lifecycle!vars
  <2>1. WithPassword' = WithPassword
    BY <1>0, <1>9 DEF BindElsewhere, WithPassword, TypeOK
  <2> QED BY <1>9, <1>o, <1>t, <2>1 DEF BindElsewhere
<1>10. CASE (\E k \in Key : KeyExpires(k)) \/ UNCHANGED vars
  BY <1>10, <1>o, <1>t, <1>w DEF KeyExpires, vars
<1> QED
  BY <1>1, <1>2, <1>3, <1>4, <1>5, <1>6, <1>7, <1>8, <1>9, <1>10
     DEF Next, AuthService, UserService, Quiet

\* The saga, with every failure and overlap, implements the life of an account
\* as Accounts states it.
THEOREM RegistrationImplementsAccounts == Spec => ImplementsAccounts
<1>1. Init => Lifecycle!Init
  BY InitRefines
<1>2. IInv /\ IInv' /\ [Next]_vars => [Lifecycle!Next]_(Lifecycle!vars)
  BY StepRefines
<1> QED
  BY <1>1, <1>2, InductiveInvariant, PTL
     DEF Spec, ImplementsAccounts, Lifecycle!Spec

=============================================================================
