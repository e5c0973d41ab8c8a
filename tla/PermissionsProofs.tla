------------------------- MODULE PermissionsProofs -------------------------
(***************************************************************************)
(* The permission keys and the audit log of Permissions, for any users,    *)
(* roles and requests in progress, all times to live and every number of   *)
(* changes.                                                                *)
(***************************************************************************)
EXTENDS Permissions, FiniteSetTheorems, TLAPS

USE UserAssumption, RoleAssumption, TimeAssumption, EnvironmentAssumption

-----------------------------------------------------------------------------
(* Type correctness.                                                       *)

CheckStage == {"fetch", "read", "fill", "store", "service", "admitted"}
ChangeStage == {"commit", "clear"}
Leg == {"gateway", "service", "nobody"}
Tables == [assigned : [User -> SUBSET Role], bound : [Role -> SUBSET Permission],
           deleted : SUBSET Role, admin : SUBSET User, gone : SUBSET User]
Entry == [call : Endpoint \cup {Nobody}, actor : User \cup {Nobody},
          subject : User \cup Role \cup {Nobody},
          done : SUBSET {"committed", "logged", "answered"}]
Request == Check \cup Change \cup {Idle}

Keys == [User -> [perms : SUBSET Permission, ttl : 0 .. Ttl]]
History == [User -> [Permission -> 0 .. Horizon]]
Trail == [1 .. MaxChanges -> Entry]

LEMMA Parts ==
  TypeOK <=> /\ env \in Environment /\ db \in Tables /\ key \in Keys
             /\ slot \in [Slot -> Request] /\ changes \in 0 .. MaxChanges
             /\ since \in History /\ trail \in Trail
  BY DEF TypeOK, Tables, Keys, Request, History, Trail, Entry

LEMMA NextParts ==
  TypeOK' <=> /\ env' \in Environment /\ db' \in Tables /\ key' \in Keys
              /\ slot' \in [Slot -> Request] /\ changes' \in 0 .. MaxChanges
              /\ since' \in History' /\ trail' \in Trail
  BY DEF TypeOK, Tables, Keys, Request, History, Trail, Entry

LEMMA UnmovedParts ==
  ASSUME TypeOK, env' = env
  PROVE  /\ env' \in Environment
         /\ db' = db => db' \in Tables
         /\ key' = key => key' \in Keys
         /\ slot' = slot => slot' \in [Slot -> Request]
         /\ changes' = changes => changes' \in 0 .. MaxChanges
         /\ since' = since => since' \in History'
         /\ trail' = trail => trail' \in Trail
<1>1. History' = History
  BY DEF History, Horizon, MaxStale
<1> QED
  BY <1>1, Parts

\* The stage of a request tells what it is.
LEMMA Kinds ==
  ASSUME TypeOK, NEW p \in Slot
  PROVE  /\ slot[p] \in Request
         /\ At(p, "idle") <=> slot[p] = Idle
         /\ slot[p].stage \in CheckStage => slot[p] \in Check
         /\ slot[p].stage \in ChangeStage => slot[p] \in Change
         /\ slot[p].stage \in CheckStage \cup ChangeStage \cup {"idle"}
  BY DEF TypeOK, At, Idle, Check, Change, CheckStage, ChangeStage, Request

LEMMA EnvTypes ==
  ASSUME TypeOK
  PROVE  /\ env.limit \in 0 .. MaxChanges /\ env.limit \in Nat
         /\ env.overlap \in BOOLEAN /\ env.faults \in BOOLEAN
         /\ env.superusers \subseteq User
         /\ MaxStale \in Nat /\ Horizon \in Nat
         /\ MaxStale + Patience < Horizon
<1>1. /\ env.limit \in 0 .. MaxChanges /\ env.limit \in Nat
      /\ env.overlap \in BOOLEAN /\ env.faults \in BOOLEAN
      /\ env.superusers \subseteq User
  BY DEF TypeOK
<1>2. \A m, n \in Nat : m * n \in Nat
  OBVIOUS
<1>3. (2 + env.limit) * Patience \in Nat
  BY <1>1, <1>2
<1> QED
  BY <1>1, <1>3 DEF MaxStale, Horizon

LEMMA CheckUpdates ==
  ASSUME NEW c \in Check, NEW s \in CheckStage
  PROVE  /\ [c EXCEPT !.stage = s] \in Check
         /\ \A l \in Leg : [c EXCEPT !.stage = s, !.leg = l] \in Check
         /\ \A x \in SUBSET Permission : [c EXCEPT !.stage = s, !.perms = x] \in Check
         /\ \A l \in Leg, x \in SUBSET Permission :
              [c EXCEPT !.stage = s, !.leg = l, !.perms = x] \in Check
         /\ \A l \in Leg, u \in User :
              [c EXCEPT !.stage = s, !.leg = l, !.user = u] \in Check
         /\ \A l \in Leg : [c EXCEPT !.leg = l] \in Check
  BY DEF Check, CheckStage, Leg

LEMMA HeldType ==
  ASSUME NEW d \in Tables, NEW u \in User
  PROVE  HeldIn(d, u) \in SUBSET Permission
  BY DEF HeldIn, GetMenusByUserId, Tables

LEMMA InitTypeOK == Init => TypeOK
<1> SUFFICES ASSUME Init PROVE TypeOK
  OBVIOUS
<1>1. env \in Environment /\ env.limit \in Nat /\ env.superusers \subseteq User
  BY DEF Init
<1>2. db \in Tables
<2>1. \A r \in Role : (IF r \in Seeded THEN Bindings[r] ELSE {}) \in SUBSET Permission
  BY DEF Bindings, Permission
<2>2. \A u \in User : (IF u \in Administrator THEN {"admin"} ELSE {"user"}) \in SUBSET Role
  BY DEF Seeded
<2> QED
  BY <1>1, <2>1, <2>2 DEF Init, Tables
<1>3. Horizon \in Nat
<2>1. \A m, n \in Nat : m * n \in Nat
  OBVIOUS
<2>2. (2 + env.limit) * Patience \in Nat
  BY <1>1, <2>1
<2> QED
  BY <2>2 DEF MaxStale, Horizon
<1>4. since \in [User -> [Permission -> 0 .. Horizon]]
  BY <1>3 DEF Init
<1>5. key \in [User -> [perms : SUBSET Permission, ttl : 0 .. Ttl]]
  BY DEF Init, NoKey
<1>6. trail \in [1 .. MaxChanges -> Entry]
  BY DEF Init, Entry
<1>7. slot \in [Slot -> Request] /\ changes \in 0 .. MaxChanges
  BY DEF Init, Request
<1> QED
  BY <1>1, <1>2, <1>4, <1>5, <1>6, <1>7, Parts DEF Keys, History, Trail

\* A step of one request gives its slot a request.
LEMMA SlotType ==
  ASSUME TypeOK, NEW p \in Slot, NEW r \in Request, slot' = [slot EXCEPT ![p] = r],
         UNCHANGED <<env, db, changes, since, trail>>,
         key' \in Keys
  PROVE  TypeOK'
<1>1. slot' \in [Slot -> Request]
  BY Parts
<1> QED
  BY <1>1, UnmovedParts, NextParts

LEMMA KeyType ==
  ASSUME TypeOK, NEW u \in User
  PROVE  /\ DeletePermissions(u) => key' \in Keys
         /\ \A perms \in SUBSET Permission : SetPermissions(u, perms) => key' \in Keys
  BY Parts DEF DeletePermissions, SetPermissions, NoKey, Keys

-----------------------------------------------------------------------------
(* What the steps do to the slot of their request.                         *)

Keeps(p, r) == r.user = slot[p].user /\ r.age = slot[p].age

\* A step of a check that leaves the keys alone.
Moves(p, r) ==
  \/ r = Idle /\ (env.faults \/ slot[p].stage \in CheckStage)
  \/ /\ r.stage = "fetch" /\ r.leg = "gateway" /\ Miss(r.user)
     /\ At(p, "idle") /\ (env.overlap \/ \A q \in Slot : At(q, "idle"))
  \/ /\ r.stage = "service"
     /\ At(p, "idle") /\ (env.overlap \/ \A q \in Slot : At(q, "idle"))
  \/ r.stage = "fetch" /\ r.leg = "nobody" /\ slot[p].stage \in CheckStage
  \/ /\ r.stage = "store" /\ Keeps(p, r) /\ At(p, "fetch") /\ slot[p].leg = "gateway"
     /\ Hit(r.user) /\ r.perms = key[r.user].perms
  \/ /\ r.stage = "admitted" /\ slot[p].stage \in CheckStage
     /\ Hit(r.user) /\ r.perms = key[r.user].perms
  \/ r.stage = "read" /\ Miss(r.user) /\ slot[p].stage \in CheckStage
  \/ /\ r.stage = "fill" /\ Keeps(p, r) /\ At(p, "read") /\ r.perms = Held(r.user)
  \/ /\ r.stage \in {"read", "fill"} /\ r.stage = slot[p].stage
     /\ Keeps(p, r) /\ r.perms = slot[p].perms

\* One that sets a key.
Sets(p, r) ==
  /\ slot[p].stage \in {"fill", "store"} /\ slot[p] \in Check
  /\ SetPermissions(slot[p].user, slot[p].perms)
  /\ \/ r = Idle \/ r.stage = "service"
     \/ r.stage \in {"store", "admitted"} /\ Keeps(p, r) /\ r.perms = slot[p].perms

Checks(p) ==
  \/ \E u \in User, route \in Route : Arrive(p, u, route)
  \/ \E u \in User : MakeUserResponse(p, u)
  \/ LookUp(p) \/ Read(p) \/ Fill(p) \/ Store(p) \/ Finish(p)
  \/ FetchTimesOut(p) \/ Dies(p)

Checked(p) ==
  \E r \in Check \cup {Idle} :
    /\ slot' = [slot EXCEPT ![p] = r]
    /\ UNCHANGED <<env, db, changes, since, trail>>
    /\ (Moves(p, r) /\ UNCHANGED key) \/ Sets(p, r)

LEMMA EndChecked ==
  ASSUME NEW p \in Slot, End(p), env.faults \/ slot[p].stage \in CheckStage,
         UNCHANGED <<env, db, key, changes, since, trail>>
  PROVE  Checked(p)
  BY DEF End, Checked, Moves

LEMMA ArriveChecked ==
  ASSUME TypeOK, NEW p \in Slot, NEW u \in User, NEW route \in Route, Arrive(p, u, route)
  PROVE  Checked(p)
<1> DEFINE r(stage) == [stage |-> stage, leg |-> "gateway", route |-> route,
                        user |-> u, perms |-> {}, age |-> 0]
<1>1. \A s \in CheckStage : r(s) \in Check
  BY DEF Check, CheckStage
<1>2. PICK s \in {"service", "fetch"} :
        slot' = [slot EXCEPT ![p] = r(s)] /\ (s = "fetch" => Miss(u))
  BY DEF Arrive, CheckStage
<1>3. r(s).stage = s /\ r(s).leg = "gateway" /\ r(s).user = u
  OBVIOUS
<1>4. /\ At(p, "idle") /\ (env.overlap \/ \A q \in Slot : At(q, "idle"))
      /\ UNCHANGED <<env, db, key, changes, since, trail>>
  BY DEF Arrive
<1> HIDE DEF r
<1>5. Moves(p, r(s))
  BY <1>2, <1>3, <1>4 DEF Moves
<1>6. r(s) \in Check
  BY <1>1 DEF CheckStage
<1> QED
  BY <1>2, <1>4, <1>5, <1>6 DEF Checked

LEMMA MakeUserResponseChecked ==
  ASSUME TypeOK, NEW p \in Slot, NEW u \in User, MakeUserResponse(p, u)
  PROVE  Checked(p)
<1> DEFINE r == [slot[p] EXCEPT !.stage = "fetch", !.leg = "nobody", !.user = u]
<1>1. slot[p] \in Check /\ slot[p].stage \in CheckStage
  BY Kinds DEF MakeUserResponse, At, CheckStage
<1>2. r \in Check /\ r.stage = "fetch" /\ r.leg = "nobody"
<2>1. r \in Check
  BY <1>1, CheckUpdates DEF CheckStage, Leg
<2> QED
  BY <1>1, <2>1 DEF Check
<1>3. slot' = [slot EXCEPT ![p] = r]
  BY DEF MakeUserResponse
<1> HIDE DEF r
<1>4. Moves(p, r) /\ UNCHANGED <<env, db, key, changes, since, trail>>
  BY <1>1, <1>2 DEF Moves, MakeUserResponse
<1> QED
  BY <1>2, <1>3, <1>4 DEF Checked

LEMMA LookUpChecked ==
  ASSUME TypeOK, NEW p \in Slot, LookUp(p)
  PROVE  Checked(p)
<1> DEFINE leg == IF At(p, "service") THEN "service" ELSE slot[p].leg
           u == slot[p].user
           store == [slot[p] EXCEPT !.stage = "store", !.perms = key[u].perms]
           admitted == [slot[p] EXCEPT !.stage = "admitted", !.leg = leg, !.perms = key[u].perms]
           read == [slot[p] EXCEPT !.stage = "read", !.leg = leg]
<1>1. slot[p] \in Check /\ slot[p].stage \in CheckStage /\ u \in User
  BY Kinds DEF LookUp, At, CheckStage, Check
<1>2. UNCHANGED <<env, db, key, changes, since, trail>>
  BY DEF LookUp
<1>3. key[u].perms \in SUBSET Permission /\ leg \in Leg
  BY <1>1, Parts DEF Keys, Check, Leg
<1>4. \/ End(p)
      \/ Hit(u) /\ leg = "gateway" /\ slot' = [slot EXCEPT ![p] = store]
      \/ Hit(u) /\ slot' = [slot EXCEPT ![p] = admitted]
      \/ Miss(u) /\ slot' = [slot EXCEPT ![p] = read]
<2>1. CASE Hit(u) /\ CASE leg = "nobody"  -> End(p)
                [] leg = "gateway" -> Return(p, "store", key[u].perms)
                [] leg = "service" -> slot' = [slot EXCEPT ![p].stage = "admitted", ![p].leg = leg,
                                                           ![p].perms = key[u].perms]
  BY <1>3, <2>1 DEF Return, Leg
<2> QED
  BY <2>1 DEF LookUp
<1>5. CASE End(p)
  BY <1>1, <1>2, <1>5, EndChecked
<1>6. CASE Hit(u) /\ leg = "gateway" /\ slot' = [slot EXCEPT ![p] = store]
<2>1. store \in Check
  BY <1>1, <1>3, CheckUpdates DEF CheckStage
<2>2. At(p, "fetch") /\ slot[p].leg = "gateway"
  BY <1>6 DEF LookUp
<2>3. store.stage = "store" /\ store.user = u /\ store.age = slot[p].age /\ store.perms = key[u].perms
  BY <1>1 DEF Check
<2> HIDE DEF store
<2>4. Moves(p, store)
  BY <1>6, <2>2, <2>3 DEF Moves, Keeps
<2> QED
  BY <1>2, <1>6, <2>1, <2>4 DEF Checked
<1>7. CASE Hit(u) /\ slot' = [slot EXCEPT ![p] = admitted]
<2>1. admitted \in Check
  BY <1>1, <1>3, CheckUpdates DEF CheckStage
<2>2. admitted.stage = "admitted" /\ admitted.user = u /\ admitted.perms = key[u].perms
  BY <1>1 DEF Check
<2> HIDE DEF admitted
<2>3. Moves(p, admitted)
  BY <1>1, <1>7, <2>2 DEF Moves
<2> QED
  BY <1>2, <1>7, <2>1, <2>3 DEF Checked
<1>8. CASE Miss(u) /\ slot' = [slot EXCEPT ![p] = read]
<2>1. read \in Check
  BY <1>1, <1>3, CheckUpdates DEF CheckStage
<2>2. read.stage = "read" /\ read.user = u
  BY <1>1 DEF Check
<2> HIDE DEF read
<2>3. Moves(p, read)
  BY <1>1, <1>8, <2>2 DEF Moves
<2> QED
  BY <1>2, <1>8, <2>1, <2>3 DEF Checked
<1> QED
  BY <1>4, <1>5, <1>6, <1>7, <1>8

LEMMA ReadChecked ==
  ASSUME TypeOK, NEW p \in Slot, Read(p)
  PROVE  Checked(p)
<1> DEFINE r == [slot[p] EXCEPT !.stage = "fill", !.perms = Held(slot[p].user)]
<1>1. slot[p] \in Check /\ At(p, "read") /\ slot[p].user \in User
  BY Kinds DEF Read, At, CheckStage, Check
<1>2. UNCHANGED <<env, db, key, changes, since, trail>>
  BY DEF Read
<1>3. CASE End(p)
  BY <1>1, <1>2, <1>3, EndChecked DEF At, CheckStage
<1>4. CASE slot' = [slot EXCEPT ![p] = r]
<2>1. Held(slot[p].user) \in SUBSET Permission
  BY <1>1, HeldType, Parts DEF Held
<2>2. r \in Check
  BY <1>1, <2>1, CheckUpdates DEF CheckStage
<2>3. /\ r.stage = "fill" /\ r.user = slot[p].user /\ r.age = slot[p].age
      /\ r.perms = Held(slot[p].user)
  BY <1>1 DEF Check
<2> HIDE DEF r
<2>4. Moves(p, r)
  BY <1>1, <2>3 DEF Moves, Keeps
<2> QED
  BY <1>2, <1>4, <2>2, <2>4 DEF Checked
<1> QED
  BY <1>3, <1>4 DEF Read, Return

LEMMA FillChecked ==
  ASSUME TypeOK, NEW p \in Slot, Fill(p)
  PROVE  Checked(p)
<1> DEFINE r(s) == [slot[p] EXCEPT !.stage = s, !.perms = slot[p].perms]
<1>1. /\ slot[p] \in Check /\ At(p, "fill") /\ slot[p].leg \in Leg
      /\ slot[p].perms \in SUBSET Permission
  BY Kinds DEF Fill, At, CheckStage, Check, Leg
<1>2. UNCHANGED <<env, db, changes, since, trail>> /\ SetPermissions(slot[p].user, slot[p].perms)
  BY DEF Fill
<1>3. \/ slot' = [slot EXCEPT ![p] = Idle]
      \/ \E s \in {"store", "admitted"} : slot' = [slot EXCEPT ![p] = r(s)]
  BY <1>1 DEF Fill, Resume, Return, End, Leg
<1>4. CASE slot' = [slot EXCEPT ![p] = Idle]
<2>1. Sets(p, Idle)
  BY <1>1, <1>2 DEF Sets, At
<2> QED
  BY <1>2, <1>4, <2>1 DEF Checked
<1>5. ASSUME NEW s \in {"store", "admitted"}, slot' = [slot EXCEPT ![p] = r(s)]
      PROVE  Checked(p)
<2>1. r(s) \in Check
  BY <1>1, CheckUpdates DEF CheckStage
<2>2. /\ r(s).stage = s /\ r(s).user = slot[p].user /\ r(s).age = slot[p].age
      /\ r(s).perms = slot[p].perms
  BY <1>1 DEF Check
<2> HIDE DEF r
<2>3. Sets(p, r(s))
  BY <1>1, <1>2, <2>2 DEF Sets, At, Keeps
<2> QED
  BY <1>2, <1>5, <2>1, <2>3 DEF Checked
<1> QED
  BY <1>3, <1>4, <1>5

LEMMA StoreChecked ==
  ASSUME TypeOK, NEW p \in Slot, Store(p)
  PROVE  Checked(p)
<1> DEFINE r == [slot[p] EXCEPT !.stage = "service", !.perms = {}]
<1>1. slot[p] \in Check /\ At(p, "store")
  BY Kinds DEF Store, At, CheckStage
<1>2. UNCHANGED <<env, db, changes, since, trail>> /\ SetPermissions(slot[p].user, slot[p].perms)
  BY DEF Store
<1>3. r \in Check /\ r.stage = "service"
<2>1. r \in Check
  BY <1>1, CheckUpdates DEF CheckStage
<2> QED
  BY <1>1, <2>1 DEF Check
<1>4. slot' = [slot EXCEPT ![p] = Idle] \/ slot' = [slot EXCEPT ![p] = r]
  BY DEF Store, Return, End
<1> HIDE DEF r
<1>5. Sets(p, Idle) /\ Sets(p, r)
  BY <1>1, <1>2, <1>3 DEF Sets, At
<1> QED
  BY <1>2, <1>3, <1>4, <1>5 DEF Checked

LEMMA FetchTimesOutChecked ==
  ASSUME TypeOK, NEW p \in Slot, FetchTimesOut(p)
  PROVE  Checked(p)
<1> DEFINE r == [slot[p] EXCEPT !.leg = "nobody"]
<1>1. slot[p] \in Check /\ slot[p].stage \in {"fetch", "read", "fill"}
  BY Kinds DEF FetchTimesOut, CheckStage
<1>2. r \in Check /\ r.leg = "nobody"
<2>1. slot[p].stage \in CheckStage
  BY <1>1 DEF CheckStage
<2>2. r \in Check
  BY <1>1, <2>1, CheckUpdates DEF Leg
<2> QED
  BY <1>1, <2>2 DEF Check
<1>3. /\ r.stage = slot[p].stage /\ r.user = slot[p].user /\ r.age = slot[p].age
      /\ r.perms = slot[p].perms
  BY <1>1 DEF Check
<1>4. slot' = [slot EXCEPT ![p] = r] /\ UNCHANGED <<env, db, key, changes, since, trail>>
  BY DEF FetchTimesOut
<1> HIDE DEF r
<1>5. Moves(p, r)
  BY <1>1, <1>2, <1>3 DEF Moves, Keeps, CheckStage
<1> QED
  BY <1>2, <1>4, <1>5 DEF Checked

LEMMA CheckSteps ==
  ASSUME TypeOK, NEW p \in Slot, Checks(p)
  PROVE  Checked(p)
<1>1. CASE Finish(p) \/ Dies(p)
  BY <1>1, EndChecked DEF Finish, Dies, At, CheckStage
<1>2. CASE \E u \in User, route \in Route : Arrive(p, u, route)
  BY <1>2, ArriveChecked
<1>3. CASE \E u \in User : MakeUserResponse(p, u)
  BY <1>3, MakeUserResponseChecked
<1> QED
  BY <1>1, <1>2, <1>3, LookUpChecked, ReadChecked, FillChecked, StoreChecked,
     FetchTimesOutChecked DEF Checks

-----------------------------------------------------------------------------
(* What the changes do.                                                    *)

\* Only the users of todo hold something else in the tables d.
Spares(d, todo) == d \in Tables /\ \A v \in User \ todo : HeldIn(d, v) = Held(v)

\* The list of the users whose keys will be cleared.
RightList(r) ==
  IF r.subject \in User THEN r.todo = {r.subject} ELSE r.todo = GetUserIdsByRole(r.subject)

\* The new rows are of the kind of the subject.
Fits(r) == IF r.subject \in User THEN r.new \subseteq Role ELSE r.new \subseteq Permission

\* A change that is committed with its only write, and clears keys or not;
\* and one that has made its statements.
Commits(r, d) ==
  /\ r.stage = "clear" /\ Spares(d, r.todo) /\ d.gone = db.gone /\ d.admin = db.admin
  /\ Become(d)
CommitsPlainly(r, d) ==
  /\ r = Idle /\ ~(env.calls \subseteq Clearing) /\ d \in Tables
  /\ Become(d)
Replaces(r) == r.stage = "commit" /\ RightList(r) /\ Fits(r) /\ UNCHANGED <<db, since>>

\* What the history holds of the change.
Opens(r, t) ==
  /\ t \in Entry /\ trail' = [trail EXCEPT ![changes + 1] = t]
  /\ r = Idle => t.call \notin Clearing /\ t.done = {"committed", "answered"}
  /\ r # Idle =>
       /\ t.call \in Clearing /\ t.actor = r.actor /\ t.subject = r.subject
       /\ t.done = IF r.stage = "clear" THEN {"committed"} ELSE {}

Changed(p) ==
  \E r \in Change \cup {Idle} :
    /\ slot' = [slot EXCEPT ![p] = r] /\ At(p, "admitted")
    /\ changes < env.limit /\ changes' = changes + 1 /\ UNCHANGED <<env, key>>
    /\ r # Idle => r.id = changes + 1
    /\ (\E d : Commits(r, d) \/ CommitsPlainly(r, d)) \/ Replaces(r)
    /\ \E t : Opens(r, t)

\* What holds wherever a change begins.
LEMMA Granted ==
  ASSUME TypeOK, NEW p \in Slot, At(p, "admitted"), changes < env.limit
  PROVE  /\ slot[p] \in Check /\ slot[p].user \in User /\ slot[p].age \in 0 .. Patience
         /\ changes + 1 \in 1 .. MaxChanges /\ db \in Tables
<1>1. slot[p] \in Check
  BY Kinds DEF At, CheckStage
<1> QED
  BY <1>1, Parts, EnvTypes DEF Check

LEMMA AuditedChanged ==
  ASSUME TypeOK, NEW p \in Slot, At(p, "admitted"), changes < env.limit,
         NEW u \in User, NEW d, NEW name \in Clearing, Audited(p, name, u, d, {u}),
         Spares(d, {u}), d.gone = db.gone, d.admin = db.admin
  PROVE  Changed(p)
<1> DEFINE r == [stage |-> "clear", actor |-> slot[p].user, id |-> changes + 1,
                 subject |-> u, seen |-> {}, new |-> {}, todo |-> {u}, age |-> slot[p].age]
<1>1. r \in Change
  BY Granted DEF Change
<1>2. slot' = [slot EXCEPT ![p] = r]
  BY DEF Audited, GoOn
<1>3. /\ r.stage = "clear" /\ r.id = changes + 1 /\ r.todo = {u}
      /\ r.actor = slot[p].user /\ r.subject = u
  OBVIOUS
<1> HIDE DEF r
<1>4. Commits(r, d)
  BY <1>3 DEF Commits, Audited
<1>5. \E t : Opens(r, t)
<2> DEFINE t == [call |-> name, actor |-> slot[p].user, subject |-> u, done |-> {"committed"}]
<2>1. t \in Entry /\ t.call = name /\ t.actor = slot[p].user /\ t.subject = u
      /\ t.done = {"committed"}
  BY Granted DEF Entry, Clearing, Endpoint
<2>2. trail' = [trail EXCEPT ![changes + 1] = t]
  BY DEF Audited, NewChange
<2>3. r # Idle
  BY <1>3 DEF Idle
<2> HIDE DEF t
<2>4. Opens(r, t)
  BY <1>3, <2>1, <2>2, <2>3 DEF Opens
<2> QED
  BY <2>4
<1>6. changes' = changes + 1 /\ UNCHANGED <<env, key>>
  BY DEF Audited, NewChange
<1> QED
  BY <1>1, <1>2, <1>3, <1>4, <1>5, <1>6 DEF Changed

LEMMA PlainChanged ==
  ASSUME TypeOK, NEW p \in Slot, At(p, "admitted"), changes < env.limit,
         NEW d \in Tables, NEW x \in User \cup Role, NEW name \in Endpoint \ Clearing,
         Plain(p, name, x, d), ~(env.calls \subseteq Clearing)
  PROVE  Changed(p)
<1>1. CommitsPlainly(Idle, d)
  BY DEF Plain, CommitsPlainly
<1>2. \E t : Opens(Idle, t)
<2> DEFINE t == [call |-> name, actor |-> slot[p].user, subject |-> x,
                 done |-> {"committed", "answered"}]
<2>1. t \in Entry /\ t.call = name /\ t.done = {"committed", "answered"}
  BY Granted DEF Entry
<2>2. trail' = [trail EXCEPT ![changes + 1] = t]
  BY DEF Plain, NewChange
<2> HIDE DEF t
<2>3. Opens(Idle, t)
  BY <2>1, <2>2 DEF Opens
<2> QED
  BY <2>3
<1>3. /\ slot' = [slot EXCEPT ![p] = Idle] /\ changes' = changes + 1
      /\ UNCHANGED <<env, key>>
  BY DEF Plain, NewChange, End
<1> QED
  BY <1>1, <1>2, <1>3 DEF Changed

LEMMA ReplacingChanged ==
  ASSUME TypeOK, NEW p \in Slot, At(p, "admitted"), changes < env.limit,
         NEW x \in User \cup Role, NEW seen \in SUBSET (Role \cup Permission),
         NEW new, NEW todo \in SUBSET User, NEW name \in Clearing,
         Replacing(p, name, x, seen, new, todo),
         IF x \in User THEN new \subseteq Role ELSE new \subseteq Permission,
         IF x \in User THEN todo = {x} ELSE todo = GetUserIdsByRole(x)
  PROVE  Changed(p)
<1> DEFINE r == [stage |-> "commit", actor |-> slot[p].user, id |-> changes + 1,
                 subject |-> x, seen |-> seen, new |-> new, todo |-> todo, age |-> slot[p].age]
<1>1. r \in Change
  BY Granted DEF Change
<1>2. slot' = [slot EXCEPT ![p] = r]
  BY DEF Replacing, GoOn
<1>3. /\ r.stage = "commit" /\ r.id = changes + 1 /\ r.todo = todo
      /\ r.new = new /\ r.subject = x /\ r.actor = slot[p].user
  OBVIOUS
<1> HIDE DEF r
<1>4. Replaces(r)
  BY <1>3 DEF Replaces, RightList, Fits, Replacing
<1>5. \E t : Opens(r, t)
<2> DEFINE t == [call |-> name, actor |-> slot[p].user, subject |-> x, done |-> {}]
<2>1. t \in Entry /\ t.call = name /\ t.actor = slot[p].user /\ t.subject = x /\ t.done = {}
  BY Granted DEF Entry, Clearing, Endpoint
<2>2. trail' = [trail EXCEPT ![changes + 1] = t]
  BY DEF Replacing, NewChange
<2>3. r # Idle /\ r.stage # "clear"
  BY <1>3 DEF Idle
<2> HIDE DEF t
<2>4. Opens(r, t)
  BY <1>3, <2>1, <2>2, <2>3 DEF Opens
<2> QED
  BY <2>4
<1>6. changes' = changes + 1 /\ UNCHANGED <<env, key>>
  BY DEF Replacing, NewChange
<1> QED
  BY <1>1, <1>2, <1>3, <1>4, <1>5, <1>6 DEF Changed

\* The tables after each of the writes.
LEMMA Writes ==
  ASSUME NEW d \in Tables, d = db
  PROVE  /\ \A u \in User, S \in SUBSET Role :
              [d EXCEPT !.assigned[u] = S] \in Tables
         /\ \A r \in Role, S \in SUBSET Permission :
              [d EXCEPT !.bound[r] = S] \in Tables
         /\ \A S \in SUBSET Role : [d EXCEPT !.deleted = S] \in Tables
         /\ \A S \in SUBSET User : [d EXCEPT !.admin = S] \in Tables
         /\ \A S \in SUBSET User : [d EXCEPT !.gone = S] \in Tables
  BY DEF Tables

\* The roles of one user are nothing to the others.
LEMMA AssignedSpares ==
  ASSUME db \in Tables, NEW u \in User, NEW S \in SUBSET Role,
         NEW d, d = [db EXCEPT !.assigned[u] = S]
  PROVE  Spares(d, {u}) /\ d.gone = db.gone /\ d.admin = db.admin
<1>1. d \in Tables
  BY Writes
<1>2. /\ d.gone = db.gone /\ d.admin = db.admin /\ d.bound = db.bound
      /\ \A v \in User \ {u} : d.assigned[v] = db.assigned[v]
  BY DEF Tables
<1>3. \A v \in User \ {u} : HeldIn(d, v) = Held(v)
<2> TAKE v \in User \ {u}
<2> DEFINE menus(bound, roles) == UNION {bound[r] : r \in roles}
<2>1. menus(d.bound, d.assigned[v]) = menus(db.bound, db.assigned[v])
<3> HIDE DEF menus
<3> QED
  BY <1>2
<2>2. GetMenusByUserId(d, v) = GetMenusByUserId(db, v)
  BY <2>1 DEF GetMenusByUserId
<2> QED
  BY <1>2, <2>2 DEF Held, HeldIn
<1> QED
  BY <1>1, <1>2, <1>3 DEF Spares

LEMMA Names ==
  /\ {"assign_role", "remove_role", "update_user_roles", "update_role_permissions"} = Clearing
  /\ {"delete_role", "assign_menu_to_role", "remove_menu_from_role",
       "update_user_admin", "delete_user"} \subseteq Endpoint \ Clearing
  BY DEF Clearing, Endpoint

LEMMA WriteSteps ==
  ASSUME TypeOK, NEW p \in Slot, Write(p)
  PROVE  Changed(p)
<1>0. db \in Tables
  BY Parts
<1>1. At(p, "admitted") /\ changes < env.limit
  BY DEF Write, AssignRole, UpdateUserRoles, RemoveRole, UpdateRolePermissions,
         DeleteRoleEndpoint, AssignMenu, RemoveMenu, UpdateUserAdmin, DeleteUser, Permitted
<1>2. CASE AssignRole(p)
<2>1. PICK u \in User, r \in Role : AssignRoleToUserService(p, u, r)
  BY <1>2 DEF AssignRole
<2>2. Audited(p, "assign_role", u, AssignRoleToUser(u, r), {u})
  BY <2>1 DEF AssignRoleToUserService
<2>3. AssignRoleToUser(u, r) = [db EXCEPT !.assigned[u] = db.assigned[u] \cup {r}]
  BY <1>0 DEF AssignRoleToUser, Tables
<2>4. db.assigned[u] \cup {r} \in SUBSET Role
  BY <1>0 DEF Tables
<2> QED
  BY <1>0, <1>1, <2>2, <2>3, <2>4, Names, AssignedSpares, AuditedChanged
<1>3. CASE RemoveRole(p)
<2>1. PICK u \in User, r \in Role : RemoveRoleFromUserService(p, u, r)
  BY <1>3 DEF RemoveRole
<2>2. Audited(p, "remove_role", u, RemoveRoleFromUser(u, r), {u})
  BY <2>1 DEF RemoveRoleFromUserService
<2>3. RemoveRoleFromUser(u, r) = [db EXCEPT !.assigned[u] = db.assigned[u] \ {r}]
  BY <1>0 DEF RemoveRoleFromUser, Tables
<2>4. db.assigned[u] \ {r} \in SUBSET Role
  BY <1>0 DEF Tables
<2> QED
  BY <1>0, <1>1, <2>2, <2>3, <2>4, Names, AssignedSpares, AuditedChanged
<1>4. CASE UpdateUserRoles(p)
<2>1. PICK u \in User, roles \in SUBSET Role : UpdateUserRolesService(p, u, roles)
  BY <1>4 DEF UpdateUserRoles
<2>2. Replacing(p, "update_user_roles", u, db.assigned[u], roles, {u}) /\ db.assigned[u] \in SUBSET (Role \cup Permission)
  BY <1>0, <2>1 DEF UpdateUserRolesService, Tables
<2> QED
  BY <1>1, <2>2, Names, ReplacingChanged
<1>5. CASE UpdateRolePermissions(p)
<2>1. PICK r \in Role, menus \in Bundle : UpdateRolePermissionsService(p, r, menus)
  BY <1>5 DEF UpdateRolePermissions
<2>2. /\ Replacing(p, "update_role_permissions", r, db.bound[r], menus, GetUserIdsByRole(r))
      /\ db.bound[r] \in SUBSET (Role \cup Permission)
      /\ GetUserIdsByRole(r) \in SUBSET User
  BY <1>0, <2>1 DEF UpdateRolePermissionsService, Tables, GetUserIdsByRole
<2>3. r \notin User /\ menus \subseteq Permission
  OBVIOUS
<2> QED
  BY <1>1, <2>2, <2>3, Names, ReplacingChanged
<1>6. CASE DeleteRoleEndpoint(p)
<2>1. PICK r \in Role : DeleteRoleService(p, r)
  BY <1>6 DEF DeleteRoleEndpoint
<2>2. DeleteRole(r) \in Tables
  BY <1>0, Writes DEF DeleteRole, Tables
<2>3. ~(env.calls \subseteq Clearing)
  BY <1>6 DEF DeleteRoleEndpoint, Permitted, Clearing
<2> QED
  BY <1>1, <2>1, <2>2, <2>3, Names, PlainChanged DEF DeleteRoleService
<1>7. CASE AssignMenu(p)
<2>1. PICK r \in Role, x \in Permission : AssignMenuToRoleService(p, r, x)
  BY <1>7 DEF AssignMenu
<2>2. AssignMenuToRole(r, x) \in Tables
  BY <1>0, Writes DEF AssignMenuToRole, Tables
<2>3. ~(env.calls \subseteq Clearing)
  BY <1>7 DEF AssignMenu, Permitted, Clearing
<2> QED
  BY <1>1, <2>1, <2>2, <2>3, Names, PlainChanged DEF AssignMenuToRoleService
<1>8. CASE RemoveMenu(p)
<2>1. PICK r \in Role, x \in Permission : RemoveMenuFromRoleService(p, r, x)
  BY <1>8 DEF RemoveMenu
<2>2. RemoveMenuFromRole(r, x) \in Tables
  BY <1>0, Writes DEF RemoveMenuFromRole, Tables
<2>3. ~(env.calls \subseteq Clearing)
  BY <1>8 DEF RemoveMenu, Permitted, Clearing
<2> QED
  BY <1>1, <2>1, <2>2, <2>3, Names, PlainChanged DEF RemoveMenuFromRoleService
<1>9. CASE UpdateUserAdmin(p)
<2>1. PICK u \in User, flag \in BOOLEAN : UpdateUserAdminService(p, u, flag)
  BY <1>9 DEF UpdateUserAdmin
<2>2. SetAdmin(u, flag) \in Tables
  BY <1>0, Writes DEF SetAdmin, Tables
<2>3. ~(env.calls \subseteq Clearing)
  BY <1>9 DEF UpdateUserAdmin, Permitted, Clearing
<2> QED
  BY <1>1, <2>1, <2>2, <2>3, Names, PlainChanged DEF UpdateUserAdminService
<1>10. CASE DeleteUser(p)
<2>1. PICK u \in User : DeleteUserService(p, u)
  BY <1>10 DEF DeleteUser
<2>2. SetDeleted(u) \in Tables
  BY <1>0, Writes DEF SetDeleted, Tables
<2>3. ~(env.calls \subseteq Clearing)
  BY <1>10 DEF DeleteUser, Permitted, Clearing
<2> QED
  BY <1>1, <2>1, <2>2, <2>3, Names, PlainChanged DEF DeleteUserService
<1> QED
  BY <1>2, <1>3, <1>4, <1>5, <1>6, <1>7, <1>8, <1>9, <1>10 DEF Write

-----------------------------------------------------------------------------
(* The end of a change, and the steps that are of no request.              *)

NewFits == \A p \in Slot : At(p, "commit") => Fits(slot[p])
TInv == TypeOK /\ NewFits

\* The commit of another change leaves a request as it is, but for seen.
Alike(r, s) ==
  \/ r = s
  \/ /\ r \in Change /\ s \in Change /\ r.stage = "commit" /\ s.stage = "commit"
     /\ r.id = s.id /\ r.actor = s.actor /\ r.subject = s.subject
     /\ r.new = s.new /\ r.todo = s.todo

LEMMA ChangeUpdates ==
  ASSUME NEW c \in Change
  PROVE  /\ \A s \in ChangeStage : [c EXCEPT !.stage = s] \in Change
         /\ \A S : [c EXCEPT !.seen = @ \ S] \in Change
         /\ \A u : [c EXCEPT !.todo = @ \ {u}] \in Change
  BY DEF Change, ChangeStage

LEMMA CommitEffect ==
  ASSUME TInv, NEW p \in Slot, Commit(p)
  PROVE  /\ slot[p] \in Change /\ slot[p].stage = "commit"
         /\ db' \in Tables /\ db' = Replaced(slot[p].subject, slot[p].seen, slot[p].new)
         /\ slot' \in [Slot -> Request]
         /\ \A q \in Slot \ {p} : Alike(slot[q], slot'[q])
         /\ slot'[p] \in Change /\ slot'[p].stage = "clear" /\ slot'[p].id = slot[p].id
         /\ slot'[p].subject = slot[p].subject /\ slot'[p].todo = slot[p].todo
         /\ slot'[p].actor = slot[p].actor
<1> DEFINE c == slot[p]
           next(q) == IF q = p THEN [c EXCEPT !.stage = "clear"]
                      ELSE IF At(q, "commit") /\ slot[q].subject = c.subject
                      THEN [slot[q] EXCEPT !.seen = @ \ c.seen]
                      ELSE slot[q]
<1>1. c \in Change /\ c.stage = "commit" /\ Fits(c) /\ db \in Tables
  BY Kinds, Parts DEF TInv, Commit, At, ChangeStage, NewFits
<1>2. slot' = [q \in Slot |-> next(q)]
  BY DEF Commit
<1>3. next(p) \in Change
  BY <1>1, ChangeUpdates DEF ChangeStage
<1>4. /\ next(p).stage = "clear" /\ next(p).id = c.id /\ next(p).subject = c.subject
      /\ next(p).todo = c.todo /\ next(p).actor = c.actor
  BY <1>1 DEF Change
<1>5. ASSUME NEW q \in Slot \ {p}
      PROVE  next(q) \in Request /\ Alike(slot[q], next(q))
<2>1. CASE At(q, "commit") /\ slot[q].subject = c.subject
<3> DEFINE n == [slot[q] EXCEPT !.seen = @ \ c.seen]
<3>1. slot[q] \in Change /\ slot[q].stage = "commit"
  BY <2>1, Kinds DEF TInv, At, ChangeStage
<3>2. n \in Change
  BY <3>1, ChangeUpdates
<3>3. n.stage = slot[q].stage /\ n.id = slot[q].id /\ n.subject = slot[q].subject
      /\ n.new = slot[q].new /\ n.todo = slot[q].todo /\ n.actor = slot[q].actor
  BY <3>1 DEF Change
<3>4. next(q) = n
  BY <2>1
<3> HIDE DEF n, next
<3> QED
  BY <3>1, <3>2, <3>3, <3>4 DEF Alike, Request
<2>2. CASE ~(At(q, "commit") /\ slot[q].subject = c.subject)
  BY <2>2, Kinds DEF Alike, TInv
<2> QED
  BY <2>1, <2>2
<1>6. db' \in Tables /\ db' = Replaced(c.subject, c.seen, c.new)
<2>1. db' = Replaced(c.subject, c.seen, c.new)
  BY DEF Commit, Become
<2>2. CASE c.subject \in User
<3>1. (db.assigned[c.subject] \ c.seen) \cup c.new \in SUBSET Role
  BY <1>1, <2>2 DEF Fits, Tables
<3> QED
  BY <1>1, <2>1, <2>2, <3>1 DEF Replaced, Tables
<2>3. CASE c.subject \notin User
<3>1. c.subject \in Role /\ (db.bound[c.subject] \ c.seen) \cup c.new \in SUBSET Permission
  BY <1>1, <2>3 DEF Fits, Tables, Change
<3> QED
  BY <1>1, <2>1, <2>3, <3>1 DEF Replaced, Tables
<2> QED
  BY <2>1, <2>2, <2>3
<1> HIDE DEF next
<1>7. slot'[p] = next(p) /\ \A q \in Slot : slot'[q] = next(q)
  BY <1>2
<1>8. slot' \in [Slot -> Request]
<2>1. \A q \in Slot : next(q) \in Request
  BY <1>3, <1>5 DEF Request
<2> QED
  BY <1>2, <2>1
<1> QED
  BY <1>1, <1>3, <1>4, <1>5, <1>6, <1>7, <1>8

LEMMA ClearEffect ==
  ASSUME TypeOK, NEW p \in Slot, NEW u \in User, Clear(p, u)
  PROVE  \E r \in Change :
           /\ slot[p] \in Change /\ slot[p].stage = "clear"
           /\ slot' = [slot EXCEPT ![p] = r]
           /\ r.stage = "clear" /\ r.id = slot[p].id /\ r.actor = slot[p].actor
           /\ r.subject = slot[p].subject /\ r.todo = slot[p].todo \ {u}
<1> DEFINE r == [slot[p] EXCEPT !.todo = @ \ {u}]
<1>1. slot[p] \in Change /\ slot[p].stage = "clear"
  BY Kinds DEF Clear, At, ChangeStage
<1>2. r \in Change
  BY <1>1, ChangeUpdates
<1>3. /\ r.stage = "clear" /\ r.id = slot[p].id /\ r.actor = slot[p].actor
      /\ r.subject = slot[p].subject /\ r.todo = slot[p].todo \ {u}
  BY <1>1 DEF Change
<1>4. slot' = [slot EXCEPT ![p] = r]
  BY DEF Clear
<1> HIDE DEF r
<1> QED
  BY <1>1, <1>2, <1>3, <1>4

\* A request as time passes.
Older(r) == IF r.stage = "idle" THEN Idle ELSE [r EXCEPT !.age = @ + 1]

LEMMA TickEffect ==
  ASSUME TypeOK, Tick, NEW p \in Slot
  PROVE  /\ slot'[p] = Older(slot[p]) /\ Older(slot[p]) \in Request
         /\ At(p, "idle") => slot'[p] = Idle /\ slot[p] = Idle
         /\ slot[p] \in Check =>
              /\ slot'[p] \in Check /\ slot'[p].stage = slot[p].stage
              /\ slot'[p].leg = slot[p].leg /\ slot'[p].user = slot[p].user
              /\ slot'[p].perms = slot[p].perms /\ slot'[p].age = slot[p].age + 1
              /\ slot[p].age < Patience
         /\ slot[p] \in Change =>
              /\ slot'[p] \in Change /\ slot'[p].stage = slot[p].stage
              /\ slot'[p].id = slot[p].id /\ slot'[p].actor = slot[p].actor
              /\ slot'[p].subject = slot[p].subject /\ slot'[p].todo = slot[p].todo
              /\ slot'[p].new = slot[p].new /\ slot'[p].seen = slot[p].seen
<1>1. slot'[p] = Older(slot[p])
  BY DEF Tick, Older, At
<1>2. ~At(p, "idle") => slot[p].age < Patience
  BY DEF Tick
<1>3. CASE slot[p] = Idle
<2>1. Idle \notin Check /\ Idle \notin Change
<3>1. Idle.stage = "idle"
  BY DEF Idle
<3> QED
  BY <3>1 DEF Check, Change
<2> QED
  BY <1>1, <1>3, <2>1 DEF Older, Request, Idle, At
<1>4. CASE slot[p] \in Check
<2> DEFINE r == [slot[p] EXCEPT !.age = @ + 1]
<2>1. slot[p].stage # "idle"
  BY <1>4 DEF Check
<2>2. slot[p].age + 1 \in 0 .. Patience
  BY <1>2, <1>4, <2>1 DEF Check, At
<2>3. r \in Check /\ r.stage = slot[p].stage /\ r.leg = slot[p].leg /\ r.user = slot[p].user
      /\ r.perms = slot[p].perms /\ r.age = slot[p].age + 1
  BY <1>4, <2>2 DEF Check
<2>4. slot'[p] = r /\ Older(slot[p]) = r
  BY <1>1, <2>1 DEF Older
<2>5. slot[p] \notin Change
  BY <1>4 DEF Check, Change
<2> HIDE DEF r
<2> QED
  BY <1>2, <1>4, <2>1, <2>3, <2>4, <2>5 DEF At, Request
<1>5. CASE slot[p] \in Change
<2> DEFINE r == [slot[p] EXCEPT !.age = @ + 1]
<2>1. slot[p].stage # "idle"
  BY <1>5 DEF Change
<2>2. slot[p].age + 1 \in 0 .. Patience
  BY <1>2, <1>5, <2>1 DEF Change, At
<2>3. r \in Change /\ r.stage = slot[p].stage /\ r.id = slot[p].id /\ r.actor = slot[p].actor
      /\ r.subject = slot[p].subject /\ r.todo = slot[p].todo
      /\ r.new = slot[p].new /\ r.seen = slot[p].seen
  BY <1>5, <2>2 DEF Change
<2>4. slot'[p] = r /\ Older(slot[p]) = r
  BY <1>1, <2>1 DEF Older
<2>5. slot[p] \notin Check
  BY <1>5 DEF Check, Change
<2> HIDE DEF r
<2> QED
  BY <1>5, <2>1, <2>3, <2>4, <2>5 DEF At, Request
<1> QED
  BY <1>3, <1>4, <1>5, Kinds DEF Request

LEMMA SeededTables ==
  ASSUME TypeOK, SeedRbac
  PROVE  db' \in Tables /\ Become(db') /\ db'.gone = db.gone /\ db'.admin = db.admin
<1> DEFINE bound == [r \in Role |->
                      IF r \in Seeded THEN db.bound[r] \cup Bindings[r] ELSE db.bound[r]]
<1>1. db \in Tables
  BY Parts
<1>2. \A r \in Seeded : Bindings[r] \in SUBSET Permission
  BY DEF Bindings, Permission
<1>3. bound \in [Role -> SUBSET Permission]
  BY <1>1, <1>2 DEF Tables
<1>4. db' = [db EXCEPT !.bound = bound] /\ Become(db')
  BY DEF SeedRbac, Become
<1> HIDE DEF bound
<1> QED
  BY <1>1, <1>3, <1>4 DEF Tables

-----------------------------------------------------------------------------
(* Type correctness, with the kind of the rows a replacement will write.   *)

LEMMA BecomeType ==
  ASSUME TypeOK, NEW d \in Tables, Become(d), env' = env
  PROVE  db' \in Tables /\ since' \in History'
<1>1. \A u \in User, x \in Permission : Stamp(d, u, x) \in 0 .. Horizon
  BY Parts, EnvTypes DEF Stamp, History
<1>2. since' \in History
  BY <1>1 DEF Become, History
<1>3. History' = History
  BY DEF History, Horizon, MaxStale
<1> QED
  BY <1>2, <1>3 DEF Become

LEMMA OpensType ==
  ASSUME TypeOK, changes + 1 \in 1 .. MaxChanges, NEW r, NEW t, Opens(r, t)
  PROVE  trail' \in Trail
  BY Parts DEF Opens, Trail

LEMMA DoneType ==
  ASSUME TypeOK, NEW i \in 1 .. MaxChanges, NEW S \in SUBSET {"committed", "logged", "answered"}
  PROVE  [trail EXCEPT ![i].done = S] \in Trail
<1>1. trail \in Trail
  BY Parts
<1>2. [trail[i] EXCEPT !.done = S] \in Entry
  BY <1>1 DEF Trail, Entry
<1> QED
  BY <1>1, <1>2 DEF Trail

LEMMA CheckedTypes ==
  ASSUME TInv, NEW p \in Slot, Checked(p)
  PROVE  TInv'
<1>1. PICK r \in Check \cup {Idle} :
        /\ slot' = [slot EXCEPT ![p] = r]
        /\ UNCHANGED <<env, db, changes, since, trail>>
        /\ (Moves(p, r) /\ UNCHANGED key) \/ Sets(p, r)
  BY DEF Checked
<1>2. key' \in Keys
<2>1. ASSUME Sets(p, r) PROVE key' \in Keys
<3>1. slot[p].user \in User /\ slot[p].perms \in SUBSET Permission
  BY <2>1 DEF Sets, Check
<3> QED
  BY <2>1, <3>1, KeyType DEF Sets, TInv
<2> QED
  BY <1>1, <2>1, Parts DEF TInv
<1>3. TypeOK'
  BY <1>1, <1>2, SlotType DEF TInv, Request
<1>4. NewFits'
<2>1. r.stage # "commit"
  BY DEF Check, Idle
<2>2. slot \in [Slot -> Request]
  BY Parts DEF TInv
<2> QED
  BY <1>1, <2>1, <2>2 DEF NewFits, TInv, At, Fits
<1> QED
  BY <1>3, <1>4 DEF TInv

LEMMA ChangedTypes ==
  ASSUME TInv, NEW p \in Slot, Changed(p)
  PROVE  TInv'
<1>1. PICK r \in Change \cup {Idle} :
    /\ slot' = [slot EXCEPT ![p] = r] /\ At(p, "admitted")
    /\ changes < env.limit /\ changes' = changes + 1 /\ UNCHANGED <<env, key>>
    /\ r # Idle => r.id = changes + 1
    /\ (\E d : Commits(r, d) \/ CommitsPlainly(r, d)) \/ Replaces(r)
    /\ \E t : Opens(r, t)
  BY DEF Changed
<1>2. changes + 1 \in 1 .. MaxChanges /\ slot \in [Slot -> Request]
  BY <1>1, Granted, Parts DEF TInv
<1>3. slot' \in [Slot -> Request] /\ changes' \in 0 .. MaxChanges
  BY <1>1, <1>2 DEF Request
<1>4. db' \in Tables /\ since' \in History'
<2>1. ASSUME NEW d, Commits(r, d)
      PROVE  db' \in Tables /\ since' \in History'
<3>1. d \in Tables /\ Become(d)
  BY <2>1 DEF Commits, Spares
<3> QED
  BY <1>1, <3>1, BecomeType DEF TInv
<2>2. ASSUME NEW d, CommitsPlainly(r, d)
      PROVE  db' \in Tables /\ since' \in History'
  BY <1>1, <2>2, BecomeType, UnmovedParts DEF CommitsPlainly, TInv
<2>3. CASE Replaces(r)
  BY <1>1, <2>3, UnmovedParts DEF Replaces, TInv
<2> QED
  BY <1>1, <2>1, <2>2, <2>3
<1>7. trail' \in Trail
<2>1. PICK t : Opens(r, t)
  BY <1>1
<2> QED
  BY <1>2, <2>1, OpensType DEF TInv
<1>5. TypeOK'
  BY <1>1, <1>3, <1>4, <1>7, UnmovedParts, NextParts DEF TInv
<1>6. NewFits'
<2>1. r.stage = "commit" => Fits(r)
  BY <1>1 DEF Commits, CommitsPlainly, Replaces, Idle
<2> QED
  BY <1>1, <1>2, <2>1 DEF NewFits, TInv, At, Fits
<1> QED
  BY <1>5, <1>6 DEF TInv

LEMMA CommitTypes ==
  ASSUME TInv, NEW p \in Slot, Commit(p)
  PROVE  TInv'
<1>1. /\ slot[p] \in Change /\ db' \in Tables /\ slot' \in [Slot -> Request]
      /\ \A q \in Slot \ {p} : Alike(slot[q], slot'[q])
      /\ slot'[p].stage = "clear"
  BY CommitEffect
<1>2. UNCHANGED <<env, key, changes>> /\ Become(db')
  BY DEF Commit, Become
<1>3. trail' \in Trail
<2>1. slot[p].id \in 1 .. MaxChanges
  BY <1>1 DEF Change
<2> QED
  BY <2>1, DoneType DEF TInv, Commit
<1>4. TypeOK'
  BY <1>1, <1>2, <1>3, BecomeType, UnmovedParts, NextParts DEF TInv
<1>5. NewFits'
<2>1. ASSUME NEW q \in Slot, slot'[q].stage = "commit"
      PROVE  Fits(slot'[q])
<3>1. q # p /\ Alike(slot[q], slot'[q])
  BY <1>1, <2>1
<3>2. slot[q].stage = "commit" /\ slot'[q].subject = slot[q].subject /\ slot'[q].new = slot[q].new
  BY <2>1, <3>1 DEF Alike
<3> QED
  BY <3>2 DEF TInv, NewFits, Fits, At
<2> QED
  BY <2>1 DEF NewFits, At, Fits
<1> QED
  BY <1>4, <1>5 DEF TInv

LEMMA ClearTypes ==
  ASSUME TInv, NEW p \in Slot, NEW u \in User, Clear(p, u)
  PROVE  TInv'
<1>1. PICK r \in Change : slot' = [slot EXCEPT ![p] = r] /\ r.stage = "clear"
  BY ClearEffect DEF TInv
<1>2. key' \in Keys /\ UNCHANGED <<env, db, changes, since, trail>>
  BY KeyType DEF TInv, Clear
<1>3. TypeOK'
  BY <1>1, <1>2, SlotType DEF TInv, Request
<1>4. slot \in [Slot -> Request]
  BY Parts DEF TInv
<1>5. NewFits'
  BY <1>1, <1>4 DEF TInv, NewFits, At, Fits
<1> QED
  BY <1>3, <1>5 DEF TInv

LEMMA AddAuditLogTypes ==
  ASSUME TInv, NEW p \in Slot, AddAuditLog(p)
  PROVE  TInv'
<1>1. slot' = [slot EXCEPT ![p] = Idle] /\ UNCHANGED <<env, db, key, changes, since>>
  BY DEF AddAuditLog, End
<1>2. slot \in [Slot -> Request] /\ trail \in Trail
  BY Parts DEF TInv
<1>3. slot' \in [Slot -> Request]
  BY <1>1, <1>2 DEF Request
<1>4. trail' \in Trail
<2> DEFINE c == slot[p]
           more == (IF HasTenant(c.actor, c.subject) THEN {"logged"} ELSE {}) \cup {"answered"}
<2>1. trail' = [trail EXCEPT ![c.id].done = @ \cup more]
  BY DEF AddAuditLog
<2>2. more \subseteq {"committed", "logged", "answered"}
  OBVIOUS
<2> HIDE DEF more, c
<2>3. \A t \in Entry : [t EXCEPT !.done = @ \cup more] \in Entry
  BY <2>2 DEF Entry
<2>4. trail' = [trail EXCEPT ![c.id] = [trail[c.id] EXCEPT !.done = @ \cup more]]
  BY <2>1
<2> QED
  BY <1>2, <2>3, <2>4 DEF Trail
<1>5. TypeOK'
  BY <1>1, <1>3, <1>4, UnmovedParts, NextParts DEF TInv
<1>6. NewFits'
  BY <1>1, <1>2 DEF TInv, NewFits, At, Fits, Idle
<1> QED
  BY <1>5, <1>6 DEF TInv

LEMMA SeedRbacTypes ==
  ASSUME TInv, SeedRbac
  PROVE  TInv'
<1>1. db' \in Tables /\ Become(db') /\ UNCHANGED <<env, key, slot, trail>>
  BY SeededTables DEF TInv, SeedRbac
<1>2. changes' \in 0 .. MaxChanges
  BY Parts, EnvTypes DEF TInv, SeedRbac
<1>3. TypeOK'
  BY <1>1, <1>2, BecomeType, UnmovedParts, NextParts DEF TInv
<1> QED
  BY <1>1, <1>3 DEF TInv, NewFits, At, Fits

LEMMA TickTypes ==
  ASSUME TInv, Tick
  PROVE  TInv'
<1>1. UNCHANGED <<env, db, changes, trail>> /\ key \in Keys /\ since \in History
  BY Parts DEF TInv, Tick
<1>2. slot' \in [Slot -> Request]
<2>1. slot' = [q \in Slot |-> Older(slot[q])]
  BY DEF Tick, Older, At
<2>2. \A q \in Slot : Older(slot[q]) \in Request
  BY TickEffect DEF TInv
<2> HIDE DEF Older
<2> QED
  BY <2>1, <2>2
<1>3. key' \in Keys
<2>1. \A u \in User : (IF key[u].ttl <= 1 THEN NoKey ELSE [key[u] EXCEPT !.ttl = @ - 1])
                       \in [perms : SUBSET Permission, ttl : 0 .. Ttl]
  BY <1>1 DEF Keys, NoKey
<2> QED
  BY <2>1 DEF Tick, Keys
<1>4. since' \in History'
<2>1. \A u \in User, x \in Permission :
        (IF x \in Held(u) \/ since[u][x] = Horizon THEN since[u][x] ELSE since[u][x] + 1)
          \in 0 .. Horizon
  BY <1>1, EnvTypes, SMTT(20) DEF TInv, History
<2>2. since' \in History
  BY <2>1 DEF Tick, History
<2>3. History' = History
  BY <1>1 DEF History, Horizon, MaxStale
<2> QED
  BY <2>2, <2>3
<1>5. TypeOK'
  BY <1>1, <1>2, <1>3, <1>4, UnmovedParts, NextParts DEF TInv
<1>6. NewFits'
<2>1. ASSUME NEW q \in Slot, slot'[q].stage = "commit"
      PROVE  Fits(slot'[q])
<3>1. slot[q] \in Change
  BY <2>1, TickEffect, Kinds DEF TInv, Request, Check, Idle
<3>2. slot[q].stage = "commit" /\ slot'[q].subject = slot[q].subject /\ slot'[q].new = slot[q].new
  BY <2>1, <3>1, TickEffect DEF TInv
<3> QED
  BY <3>2 DEF TInv, NewFits, Fits, At
<2> QED
  BY <2>1 DEF NewFits, At, Fits
<1> QED
  BY <1>5, <1>6 DEF TInv

LEMMA StepKinds ==
  ASSUME TypeOK, Next
  PROVE  \/ Tick \/ SeedRbac
         \/ \E p \in Slot :
              \/ Checked(p) \/ Changed(p) \/ Commit(p) \/ AddAuditLog(p)
              \/ \E u \in User : Clear(p, u)
<1>1. \A p \in Slot : (Checks(p) => Checked(p)) /\ (Write(p) => Changed(p))
  BY CheckSteps, WriteSteps
<1> QED
  BY <1>1 DEF Next, Checks, Proceed

LEMMA TInvStep == TInv /\ [Next]_vars => TInv'
<1> SUFFICES ASSUME TInv, [Next]_vars PROVE TInv'
  OBVIOUS
<1>1. CASE UNCHANGED vars
  BY <1>1, UnmovedParts, NextParts DEF vars, TInv, NewFits, At, Fits
<1>2. CASE Next
  BY <1>2, StepKinds, TickTypes, SeedRbacTypes, CheckedTypes, ChangedTypes, CommitTypes,
     AddAuditLogTypes, ClearTypes DEF TInv
<1> QED
  BY <1>1, <1>2

LEMMA InitTInv == Init => TInv
  BY InitTypeOK DEF TInv, NewFits, At, Init, Idle

\* Every variable keeps its type, whatever overlaps or fails: a request knows
\* its subject and its age, a key lives no longer than its Ttl, and a
\* replacement writes rows of the kind of its subject.
THEOREM TypeCorrect == Spec => []TypeOK
<1>1. Init => TInv
  BY InitTInv
<1>2. TInv /\ [Next]_vars => TInv'
  BY TInvStep
<1>3. TInv => TypeOK
  BY DEF TInv
<1> QED
  BY <1>1, <1>2, <1>3, PTL DEF Spec

-----------------------------------------------------------------------------
(* The numbers of the changes.                                             *)

Numbered ==
  /\ \A p \in Slot : slot[p] \in Change => slot[p].id <= changes
  /\ \A p, q \in Slot : (slot[p] \in Change /\ slot[q] \in Change /\ slot[p].id = slot[q].id) => p = q
  /\ changes <= env.limit

LEMMA NotChange == (\A r \in Check : r \notin Change) /\ Idle \notin Change
<1>1. Idle.stage = "idle"
  BY DEF Idle
<1> QED
  BY <1>1 DEF Check, Change

\* A slot gets what is no change, or the change it had.
LEMMA NumberedKept ==
  ASSUME TypeOK, Numbered, changes' = changes, env' = env,
         \A q \in Slot : slot'[q] \in Change => slot[q] \in Change /\ slot'[q].id = slot[q].id
  PROVE  Numbered'
  BY DEF Numbered

LEMMA NumberedStep ==
  ASSUME TInv, Numbered, [Next]_vars
  PROVE  Numbered'
<1>0. slot \in [Slot -> Request] /\ changes \in Nat
  BY Parts DEF TInv
<1>1. CASE UNCHANGED vars
  BY <1>1 DEF vars, Numbered
<1>2. ASSUME NEW p \in Slot, Checked(p)
      PROVE  Numbered'
<2>1. PICK r \in Check \cup {Idle} :
        slot' = [slot EXCEPT ![p] = r] /\ UNCHANGED <<env, changes>>
  BY <1>2 DEF Checked
<2> QED
  BY <1>0, <2>1, NotChange, NumberedKept DEF TInv
<1>3. ASSUME NEW p \in Slot, Changed(p)
      PROVE  Numbered'
<2>1. PICK r \in Change \cup {Idle} :
    /\ slot' = [slot EXCEPT ![p] = r] /\ changes' = changes + 1 /\ env' = env
    /\ changes < env.limit /\ (r # Idle => r.id = changes + 1)
  BY <1>3 DEF Changed
<2>2. \A q \in Slot : slot[q] \in Change => slot[q].id \in Nat /\ slot[q].id <= changes
  BY DEF Numbered, Change
<2>3. env.limit \in Nat
  BY EnvTypes DEF TInv
<2> QED
  BY <1>0, <2>1, <2>2, <2>3, NotChange DEF Numbered
<1>4. ASSUME NEW p \in Slot, Commit(p)
      PROVE  Numbered'
<2>1. UNCHANGED <<env, changes>>
  BY <1>4 DEF Commit
<2>2. /\ slot[p] \in Change /\ slot'[p].id = slot[p].id
      /\ \A q \in Slot \ {p} : Alike(slot[q], slot'[q])
  BY <1>4, CommitEffect
<2> QED
  BY <2>1, <2>2, NumberedKept DEF TInv, Alike
<1>5. ASSUME NEW p \in Slot, NEW u \in User, Clear(p, u)
      PROVE  Numbered'
<2>1. PICK r \in Change : slot' = [slot EXCEPT ![p] = r] /\ slot[p] \in Change /\ r.id = slot[p].id
  BY <1>5, ClearEffect DEF TInv
<2>2. UNCHANGED <<env, changes>>
  BY <1>5 DEF Clear
<2> QED
  BY <1>0, <2>1, <2>2, NumberedKept DEF TInv
<1>6. ASSUME NEW p \in Slot, AddAuditLog(p)
      PROVE  Numbered'
<2>1. slot' = [slot EXCEPT ![p] = Idle] /\ UNCHANGED <<env, changes>>
  BY <1>6 DEF AddAuditLog, End
<2> QED
  BY <1>0, <2>1, NotChange, NumberedKept DEF TInv
<1>7. CASE SeedRbac
  BY <1>0, <1>7, EnvTypes DEF SeedRbac, Numbered, TInv, Change
<1>8. CASE Tick
<2>1. UNCHANGED <<env, changes>>
  BY <1>8 DEF Tick
<2>2. \A q \in Slot : slot'[q] \in Change => slot[q] \in Change /\ slot'[q].id = slot[q].id
  BY <1>8, TickEffect, Kinds, NotChange DEF TInv, Request, At
<2> QED
  BY <2>1, <2>2, NumberedKept DEF TInv
<1> QED
  BY <1>1, <1>2, <1>3, <1>4, <1>5, <1>6, <1>7, <1>8, StepKinds DEF TInv

-----------------------------------------------------------------------------
(* The audit log.                                                          *)

\* An entry is of a committed change that is audited; and one of these has its
\* entry, has no tenant to file it under, or is one whose request is going to
\* write the entry.
ToBeLogged(i) == \E p \in Slot : At(p, "clear") /\ slot[p].id = i
Truthful(i) ==
  LET t == trail[i]
  IN /\ "logged" \in t.done => "committed" \in t.done /\ t.call \in Clearing
     /\ ("committed" \in t.done /\ t.call \in Clearing) =>
          \/ "logged" \in t.done \/ {t.actor, t.subject} \subseteq Tenantless
          \/ ToBeLogged(i)
          \/ env.faults /\ "answered" \notin t.done

\* What the history holds of the change request r is making.
Entered(r) ==
  LET t == trail[r.id]
  IN /\ t.call \in Clearing /\ t.actor = r.actor /\ t.subject = r.subject
     /\ t.done = IF r.stage = "clear" THEN {"committed"} ELSE {}

AuditInv ==
  /\ TInv /\ Numbered
  /\ \A i \in 1 .. MaxChanges : Truthful(i)
  /\ \A p \in Slot : slot[p] \in Change => Entered(slot[p])

\* Requests that make a change stay the same as far as the log is concerned.
SameChange(c, n) ==
  /\ n.stage = c.stage /\ n.id = c.id /\ n.actor = c.actor /\ n.subject = c.subject

LEMMA Clears ==
  ASSUME TypeOK, NEW p \in Slot
  PROVE  /\ At(p, "clear") <=> slot[p] \in Change /\ slot[p].stage = "clear"
         /\ slot[p] \in Change => slot[p].stage \in {"commit", "clear"} /\ slot[p].id \in 1 .. MaxChanges
  BY Kinds DEF At, ChangeStage, Change

\* A step that leaves the history alone, and every change under way or, if
\* there are failures, ends it.
LEMMA AuditKept ==
  ASSUME AuditInv, TInv', Numbered', trail' = trail, env' = env,
         \A q \in Slot : slot'[q] \in Change => slot[q] \in Change /\ SameChange(slot[q], slot'[q]),
         \A q \in Slot : slot[q] \in Change => slot'[q] \in Change \/ env.faults
  PROVE  AuditInv'
<1>1. ASSUME NEW q \in Slot, slot'[q] \in Change PROVE Entered(slot[q])'
  BY <1>1 DEF Entered, AuditInv, SameChange
<1>2. ASSUME NEW i \in 1 .. MaxChanges PROVE Truthful(i)'
<2>1. Truthful(i)
  BY DEF AuditInv
<2>2. ASSUME ToBeLogged(i) PROVE ToBeLogged(i)' \/ (env.faults /\ "answered" \notin trail[i].done)
<3>1. PICK p \in Slot : At(p, "clear") /\ slot[p].id = i
  BY <2>2 DEF ToBeLogged
<3>2. slot[p] \in Change /\ slot[p].stage = "clear"
  BY <3>1, Clears DEF AuditInv, TInv
<3>3. CASE slot'[p] \in Change
<4>1. slot'[p].stage = "clear" /\ slot'[p].id = i
  BY <3>1, <3>2, <3>3 DEF SameChange
<4> QED
  BY <4>1 DEF ToBeLogged, At
<3>4. CASE slot'[p] \notin Change
<4>1. Entered(slot[p])
  BY <3>2 DEF AuditInv
<4>2. trail[i].done = {"committed"}
  BY <3>1, <3>2, <4>1 DEF Entered
<4> QED
  BY <3>2, <3>4, <4>2
<3> QED
  BY <3>3, <3>4
<2> QED
  BY <2>1, <2>2 DEF Truthful
<1> QED
  BY <1>1, <1>2 DEF AuditInv

\* A step that gives change i, of slot p, the history t.
Enters(p, i, t) ==
  /\ trail' = [trail EXCEPT ![i] = t] /\ env' = env
  /\ slot[p] \in Change => slot[p].id = i
  /\ \A q \in Slot \ {p} :
       /\ slot'[q] \in Change <=> slot[q] \in Change
       /\ slot[q] \in Change => SameChange(slot[q], slot'[q]) /\ slot[q].id # i

LEMMA OtherEntries ==
  ASSUME AuditInv, NEW i \in 1 .. MaxChanges, NEW t, NEW p \in Slot, Enters(p, i, t)
  PROVE  /\ trail'[i] = t
         /\ \A j \in (1 .. MaxChanges) \ {i} : Truthful(j)'
         /\ \A q \in Slot \ {p} : slot'[q] \in Change => Entered(slot[q])'
<1>1. trail \in Trail /\ TypeOK
  BY Parts DEF AuditInv, TInv
<1>2. trail'[i] = t /\ \A j \in (1 .. MaxChanges) \ {i} : trail'[j] = trail[j]
  BY <1>1 DEF Trail, Enters
<1>3. ASSUME NEW j \in (1 .. MaxChanges) \ {i} PROVE Truthful(j)'
<2>1. Truthful(j)
  BY DEF AuditInv
<2>2. ASSUME ToBeLogged(j) PROVE ToBeLogged(j)'
<3>1. PICK q \in Slot : At(q, "clear") /\ slot[q].id = j
  BY <2>2 DEF ToBeLogged
<3>2. slot[q] \in Change /\ slot[q].stage = "clear" /\ q # p
  BY <1>1, <3>1, Clears DEF Enters
<3>3. slot'[q].stage = "clear" /\ slot'[q].id = j
  BY <3>1, <3>2 DEF SameChange, Enters
<3> QED
  BY <3>3 DEF ToBeLogged, At
<2> QED
  BY <1>2, <2>1, <2>2 DEF Truthful, Enters
<1>4. ASSUME NEW q \in Slot \ {p}, slot'[q] \in Change PROVE Entered(slot[q])'
<2>1. slot[q] \in Change /\ SameChange(slot[q], slot'[q]) /\ slot[q].id # i
  BY <1>4 DEF Enters
<2>2. Entered(slot[q]) /\ slot[q].id \in 1 .. MaxChanges
  BY <1>1, <2>1, Clears DEF AuditInv
<2>3. trail'[slot'[q].id] = trail[slot[q].id]
  BY <1>2, <2>1, <2>2 DEF SameChange
<2> QED
  BY <2>1, <2>2, <2>3 DEF Entered, SameChange
<1> QED
  BY <1>2, <1>3, <1>4

\* Of a request nothing but a failure keeps from its entry.
LEMMA CheckedSlots ==
  ASSUME TInv, NEW p \in Slot, Checked(p)
  PROVE  /\ UNCHANGED <<env, trail>>
         /\ slot'[p] \notin Change /\ \A q \in Slot \ {p} : slot'[q] = slot[q]
         /\ slot[p] \in Change => env.faults
<1>1. PICK r \in Check \cup {Idle} :
        /\ slot' = [slot EXCEPT ![p] = r] /\ UNCHANGED <<env, trail>>
        /\ Moves(p, r) \/ Sets(p, r)
  BY DEF Checked
<1>2. slot \in [Slot -> Request]
  BY Parts DEF TInv
<1>3. slot[p] \in Change => slot[p].stage \notin CheckStage \cup {"idle"}
  BY DEF Change, CheckStage
<1>4. slot[p] \in Change => env.faults
  BY <1>1, <1>3, NotChange DEF Moves, Sets, At, CheckStage
<1> QED
  BY <1>1, <1>2, <1>4, NotChange

LEMMA ChangedAudit ==
  ASSUME AuditInv, TInv', Numbered', NEW p \in Slot, Changed(p)
  PROVE  AuditInv'
<1>0. TypeOK /\ slot \in [Slot -> Request]
  BY Parts DEF AuditInv, TInv
<1>1. PICK r \in Change \cup {Idle} :
    /\ slot' = [slot EXCEPT ![p] = r] /\ At(p, "admitted")
    /\ changes < env.limit /\ UNCHANGED env
    /\ r # Idle => r.id = changes + 1
    /\ \E t : Opens(r, t)
  BY DEF Changed
<1>2. PICK t : Opens(r, t)
  BY <1>1
<1>3. PICK i \in 1 .. MaxChanges : i = changes + 1
  BY <1>0, <1>1, Granted
<1>4. /\ trail' = [trail EXCEPT ![i] = t] /\ slot'[p] = r
      /\ \A q \in Slot \ {p} : slot'[q] = slot[q]
      /\ slot[p] \notin Change
  BY <1>0, <1>1, <1>2, <1>3, Granted, NotChange DEF Opens
<1>5. Enters(p, i, t)
<2>1. \A q \in Slot : slot[q] \in Change => slot[q].id # i
  BY <1>0, <1>3, Clears, Parts DEF AuditInv, Numbered
<2> QED
  BY <1>1, <1>4, <2>1 DEF SameChange, Enters
<1>6. /\ trail'[i] = t
      /\ \A j \in (1 .. MaxChanges) \ {i} : Truthful(j)'
      /\ \A q \in Slot \ {p} : slot'[q] \in Change => Entered(slot[q])'
  BY <1>5, OtherEntries
<1>7. Truthful(i)' /\ (slot'[p] \in Change => Entered(slot[p])')
<2>1. CASE r = Idle
<3>1. t.call \notin Clearing /\ "committed" \in t.done /\ "logged" \notin t.done
  BY <1>2, <2>1 DEF Opens
<3> QED
  BY <1>4, <1>6, <2>1, <3>1, NotChange DEF Truthful
<2>2. CASE r # Idle
<3>1. /\ r \in Change /\ r.id = i /\ t.call \in Clearing /\ t.actor = r.actor
      /\ t.subject = r.subject /\ t.done = IF r.stage = "clear" THEN {"committed"} ELSE {}
  BY <1>1, <1>2, <1>3, <2>2 DEF Opens
<3>2. Entered(slot[p])'
  BY <1>4, <1>6, <3>1 DEF Entered
<3>3. CASE r.stage = "clear"
<4>1. ToBeLogged(i)'
  BY <1>4, <3>1, <3>3 DEF ToBeLogged, At
<4> QED
  BY <1>6, <3>1, <3>2, <3>3, <4>1 DEF Truthful
<3>4. CASE r.stage # "clear"
  BY <1>6, <3>1, <3>2, <3>4 DEF Truthful
<3> QED
  BY <3>3, <3>4
<2> QED
  BY <2>1, <2>2
<1>8. \A j \in 1 .. MaxChanges : Truthful(j)'
  BY <1>6, <1>7
<1>9. \A q \in Slot : slot'[q] \in Change => Entered(slot[q])'
  BY <1>6, <1>7
<1> QED
  BY <1>8, <1>9 DEF AuditInv

LEMMA CommitAudit ==
  ASSUME AuditInv, TInv', Numbered', NEW p \in Slot, Commit(p)
  PROVE  AuditInv'
<1>0. TypeOK /\ slot \in [Slot -> Request]
  BY Parts DEF AuditInv, TInv
<1>1. /\ slot[p] \in Change /\ slot[p].stage = "commit"
      /\ \A q \in Slot \ {p} : Alike(slot[q], slot'[q])
      /\ slot'[p] \in Change /\ slot'[p].stage = "clear" /\ slot'[p].id = slot[p].id
      /\ slot'[p].actor = slot[p].actor /\ slot'[p].subject = slot[p].subject
  BY CommitEffect DEF AuditInv
<1>2. PICK i \in 1 .. MaxChanges : i = slot[p].id
  BY <1>0, <1>1, Clears
<1>3. /\ trail[i].call \in Clearing /\ trail[i].actor = slot[p].actor
      /\ trail[i].subject = slot[p].subject
  BY <1>1, <1>2 DEF AuditInv, Entered
<1>4. PICK t : t = [trail[i] EXCEPT !.done = {"committed"}]
  OBVIOUS
<1>5. trail \in Trail /\ trail[i] \in Entry
  BY <1>0, Parts DEF Trail
<1>6. /\ t.call = trail[i].call /\ t.actor = trail[i].actor /\ t.subject = trail[i].subject
      /\ t.done = {"committed"}
  BY <1>4, <1>5 DEF Entry
<1>7. trail' = [trail EXCEPT ![i] = t] /\ env' = env
  BY <1>2, <1>4 DEF Commit
<1>8. Enters(p, i, t)
<2>1. ASSUME NEW q \in Slot \ {p}
      PROVE  /\ slot'[q] \in Change <=> slot[q] \in Change
             /\ slot[q] \in Change => SameChange(slot[q], slot'[q]) /\ slot[q].id # i
<3>1. Alike(slot[q], slot'[q])
  BY <1>1
<3>2. slot[q] \in Change => slot[q].id # i
  BY <1>1, <1>2 DEF AuditInv, Numbered
<3> QED
  BY <3>1, <3>2 DEF Alike, SameChange
<2> QED
  BY <1>2, <1>7, <2>1 DEF Enters
<1>9. /\ trail'[i] = t
      /\ \A j \in (1 .. MaxChanges) \ {i} : Truthful(j)'
      /\ \A q \in Slot \ {p} : slot'[q] \in Change => Entered(slot[q])'
  BY <1>8, OtherEntries
<1>10. Truthful(i)' /\ Entered(slot[p])'
<2>1. Entered(slot[p])'
  BY <1>1, <1>2, <1>3, <1>6, <1>9 DEF Entered
<2>2. ToBeLogged(i)'
  BY <1>1, <1>2 DEF ToBeLogged, At
<2> QED
  BY <1>6, <1>9, <2>1, <2>2 DEF Truthful
<1>11. \A j \in 1 .. MaxChanges : Truthful(j)'
  BY <1>9, <1>10
<1>12. \A q \in Slot : slot'[q] \in Change => Entered(slot[q])'
  BY <1>9, <1>10
<1> QED
  BY <1>11, <1>12 DEF AuditInv

LEMMA AddAuditLogAudit ==
  ASSUME AuditInv, TInv', Numbered', NEW p \in Slot, AddAuditLog(p)
  PROVE  AuditInv'
<1>0. TypeOK /\ slot \in [Slot -> Request]
  BY Parts DEF AuditInv, TInv
<1>1. slot[p] \in Change /\ slot[p].stage = "clear"
  BY <1>0, Clears DEF AddAuditLog
<1>2. PICK i \in 1 .. MaxChanges : i = slot[p].id
  BY <1>0, <1>1, Clears
<1>3. /\ trail[i].call \in Clearing /\ trail[i].actor = slot[p].actor
      /\ trail[i].subject = slot[p].subject /\ trail[i].done = {"committed"}
  BY <1>1, <1>2 DEF AuditInv, Entered
<1>4. PICK more :
        more = (IF HasTenant(slot[p].actor, slot[p].subject) THEN {"logged"} ELSE {}) \cup {"answered"}
  OBVIOUS
<1>5. PICK t : t = [trail[i] EXCEPT !.done = trail[i].done \cup more]
  OBVIOUS
<1>6. trail \in Trail /\ trail[i] \in Entry
  BY <1>0, Parts DEF Trail
<1>7. /\ t.call \in Clearing /\ t.actor = slot[p].actor /\ t.subject = slot[p].subject
      /\ t.done = {"committed"} \cup more
  BY <1>3, <1>5, <1>6 DEF Entry
<1>8. trail' = [trail EXCEPT ![i] = t] /\ env' = env /\ slot' = [slot EXCEPT ![p] = Idle]
<2>1. trail' = [trail EXCEPT ![slot[p].id].done = @ \cup more]
  BY <1>4 DEF AddAuditLog
<2>2. trail' = [trail EXCEPT ![i] = [trail[i] EXCEPT !.done = trail[i].done \cup more]]
  BY <1>2, <1>6, <2>1 DEF Trail
<2> QED
  BY <1>5, <2>2 DEF AddAuditLog, End
<1>9. slot'[p] = Idle /\ \A q \in Slot \ {p} : slot'[q] = slot[q]
  BY <1>0, <1>8
<1>10. Enters(p, i, t)
<2>1. \A q \in Slot \ {p} : slot[q] \in Change => slot[q].id # i
  BY <1>1, <1>2 DEF AuditInv, Numbered
<2> QED
  BY <1>2, <1>8, <1>9, <2>1 DEF SameChange, Enters
<1>11. /\ trail'[i] = t
       /\ \A j \in (1 .. MaxChanges) \ {i} : Truthful(j)'
       /\ \A q \in Slot \ {p} : slot'[q] \in Change => Entered(slot[q])'
  BY <1>10, OtherEntries
<1>12. Truthful(i)'
<2>1. "logged" \in t.done \/ {t.actor, t.subject} \subseteq Tenantless
  BY <1>4, <1>7 DEF HasTenant
<2> QED
  BY <1>7, <1>11, <2>1 DEF Truthful
<1>13. \A j \in 1 .. MaxChanges : Truthful(j)'
  BY <1>11, <1>12
<1>14. \A q \in Slot : slot'[q] \in Change => Entered(slot[q])'
  BY <1>9, <1>11, NotChange
<1> QED
  BY <1>13, <1>14 DEF AuditInv

LEMMA AuditStep ==
  ASSUME AuditInv, [Next]_vars
  PROVE  AuditInv'
<1>0. TypeOK /\ TInv /\ TInv' /\ Numbered' /\ slot \in [Slot -> Request]
  BY TInvStep, NumberedStep, Parts DEF AuditInv, TInv
<1>1. CASE UNCHANGED vars
  BY <1>0, <1>1, AuditKept DEF vars, SameChange
<1>2. ASSUME NEW p \in Slot, Checked(p)
      PROVE  AuditInv'
  BY <1>0, <1>2, CheckedSlots, AuditKept DEF SameChange
<1>3. ASSUME NEW p \in Slot, NEW u \in User, Clear(p, u)
      PROVE  AuditInv'
<2>1. PICK r \in Change :
           /\ slot[p] \in Change /\ slot[p].stage = "clear" /\ r.stage = "clear"
           /\ slot' = [slot EXCEPT ![p] = r]
           /\ r.id = slot[p].id /\ r.actor = slot[p].actor /\ r.subject = slot[p].subject
  BY <1>0, <1>3, ClearEffect
<2>2. slot'[p] = r /\ \A q \in Slot \ {p} : slot'[q] = slot[q]
  BY <1>0, <2>1
<2>3. UNCHANGED <<env, trail>>
  BY <1>3 DEF Clear
<2>4. \A q \in Slot : slot'[q] \in Change => slot[q] \in Change /\ SameChange(slot[q], slot'[q])
  BY <2>1, <2>2 DEF SameChange
<2>5. \A q \in Slot : slot[q] \in Change => slot'[q] \in Change
  BY <2>2
<2> QED
  BY <1>0, <2>3, <2>4, <2>5, AuditKept
<1>4. CASE SeedRbac
  BY <1>0, <1>4, AuditKept DEF SeedRbac, SameChange
<1>5. CASE Tick
<2>1. UNCHANGED <<env, trail>>
  BY <1>5 DEF Tick
<2>2. \A q \in Slot : slot'[q] \in Change => slot[q] \in Change
  BY <1>0, <1>5, TickEffect, Kinds, NotChange DEF Request, At
<2>3. \A q \in Slot : slot[q] \in Change => slot'[q] \in Change /\ SameChange(slot[q], slot'[q])
  BY <1>0, <1>5, TickEffect DEF SameChange
<2> QED
  BY <1>0, <2>1, <2>2, <2>3, AuditKept
<1> QED
  BY <1>0, <1>1, <1>2, <1>3, <1>4, <1>5, StepKinds, ChangedAudit, CommitAudit, AddAuditLogAudit

LEMMA InitNumbered == Init => Numbered
  BY NotChange DEF Init, Numbered

\* In every interleaving, with any failures: once one of the four changes is in
\* the tables its entry is in the audit log or its request is still at work on
\* it, unless nobody concerned has a tenant or the request died before it
\* answered; and no entry is without its change, or of any of the other five.
THEOREM EntriesFollowChanges == Spec => []AuditFollows
<1>1. Init => AuditInv
<2> SUFFICES ASSUME Init PROVE AuditInv
  OBVIOUS
<2>1. \A i \in 1 .. MaxChanges : Truthful(i)
  BY DEF Init, Truthful
<2>2. \A p \in Slot : slot[p] \notin Change
  BY NotChange DEF Init
<2> QED
  BY <2>1, <2>2, InitTInv, InitNumbered DEF AuditInv
<1>2. AuditInv /\ [Next]_vars => AuditInv'
  BY AuditStep
<1>3. AuditInv => AuditFollows
  BY DEF AuditInv, AuditFollows, Truthful, ToBeLogged
<1> QED
  BY <1>1, <1>2, <1>3, PTL DEF Spec

-----------------------------------------------------------------------------
(* How long a key outlasts a revocation.                                   *)
(*                                                                         *)
(* For each user there is a set C of changes that have cleared the key,    *)
(* and an age e of the key, counted from when it was last missing.  A      *)
(* request that carries permissions to the key saw it missing, so it is no *)
(* younger than that; and what it carries was held when it began, or was   *)
(* in the key, or was in a key that a change in C has cleared since.       *)

\* The time the clears hand on, one request for each.
Slack(C) == Cardinality(C) * Patience

\* A request that may set the key of u without another look at it.
Carrying(r, u) ==
  /\ r.stage \in {"fetch", "read", "fill", "store"} /\ r.user = u
  /\ r.stage = "fetch" => r.leg = "gateway"

Pending(r, u) == r.stage \in {"commit", "clear"} /\ u \in r.todo

Handed(u, C, e, x) == key[u].ttl > 0 /\ since[u][x] <= e + Patience + Slack(C)

RequestFine(r, u, C, e) ==
  /\ Pending(r, u) => r.id \notin C
  /\ Carrying(r, u) =>
       /\ key[u].ttl > 0 => e <= r.age
       /\ r.stage \in {"fill", "store"} =>
            \A x \in r.perms : since[u][x] <= r.age + Slack(C) \/ Handed(u, C, e, x)

KeyFine(u, C, e) ==
  key[u].ttl > 0 =>
    /\ Ttl <= e + key[u].ttl /\ e + key[u].ttl <= Ttl + Patience
    /\ \A x \in key[u].perms : since[u][x] <= e + Patience + Slack(C)

Aged(u, C, e) == KeyFine(u, C, e) /\ \A q \in Slot : RequestFine(slot[q], u, C, e)

HeldNow == \A u \in User : \A x \in Held(u) : since[u][x] = 0
MissingIsEmpty == \A u \in User : key[u].ttl = 0 => key[u].perms = {}
AdmittedFine ==
  \A p \in Slot : At(p, "admitted") =>
    \A x \in slot[p].perms : since[slot[p].user][x] <= MaxStale + slot[p].age

StaleInv ==
  /\ TInv /\ Numbered /\ HeldNow
  /\ ~env.faults =>
       /\ MissingIsEmpty /\ AdmittedFine
       /\ \A u \in User : \E C \in SUBSET (1 .. changes), e \in Nat : Aged(u, C, e)

LEMMA SlackFacts ==
  ASSUME TypeOK, Numbered, NEW C \in SUBSET (1 .. changes)
  PROVE  /\ Slack(C) \in Nat
         /\ Ttl + 2 * Patience + Slack(C) <= MaxStale
         /\ \A i \in (1 .. changes) \ C : Slack(C \cup {i}) = Slack(C) + Patience
<1>1. changes \in Nat /\ env.limit \in Nat /\ changes <= env.limit
  BY Parts, EnvTypes DEF Numbered
<1>2. /\ IsFiniteSet(1 .. changes) /\ Cardinality(1 .. changes) = changes
      /\ IsFiniteSet(C) /\ Cardinality(C) \in Nat /\ Cardinality(C) <= changes
<2>1. IsFiniteSet(1 .. changes) /\ Cardinality(1 .. changes) = changes
  BY <1>1, FS_Interval
<2>2. IsFiniteSet(C) /\ Cardinality(C) <= Cardinality(1 .. changes)
  BY <2>1, FS_Subset
<2> QED
  BY <2>1, <2>2, FS_CardinalityType
<1>3. \A k, m, n \in Nat : /\ m * n \in Nat /\ (k <= m => k * n <= m * n)
                          /\ (m + 1) * n = m * n + n /\ (2 + m) * n = 2 * n + m * n
  OBVIOUS
<1>4. Slack(C) \in Nat /\ Slack(C) <= env.limit * Patience
  BY <1>1, <1>2, <1>3 DEF Slack
<1>5. MaxStale = Ttl + 2 * Patience + env.limit * Patience
  BY <1>1, <1>3 DEF MaxStale
<1>6. ASSUME NEW i \in (1 .. changes) \ C
      PROVE  Slack(C \cup {i}) = Slack(C) + Patience
<2>1. Cardinality(C \cup {i}) = Cardinality(C) + 1
  BY <1>2, FS_AddElement
<2> QED
  BY <1>2, <1>3, <2>1 DEF Slack
<1>7. env.limit * Patience \in Nat
  BY <1>1, <1>3
<1> QED
  BY <1>4, <1>5, <1>6, <1>7

LEMMA RequestKinds ==
  ASSUME NEW r \in Request
  PROVE  /\ r.stage \in CheckStage => r \in Check
         /\ r.stage \in ChangeStage => r \in Change
         /\ r \in Check => /\ r.perms \subseteq Permission /\ r.age \in 0 .. Patience
                          /\ r.age \in Nat /\ r.user \in User /\ r.stage \in CheckStage
         /\ r \in Change => r.stage \in ChangeStage
  BY DEF Request, Check, Change, CheckStage, ChangeStage, Idle

LEMMA SinceTypes ==
  ASSUME TypeOK, NEW u \in User, NEW x \in Permission
  PROVE  since[u][x] \in Nat
<1>1. since \in History /\ Horizon \in Nat
  BY Parts, EnvTypes
<1> QED
  BY <1>1 DEF History

LEMMA NextSinceTypes ==
  ASSUME TypeOK', NEW u \in User, NEW x \in Permission
  PROVE  since'[u][x] \in Nat
  BY NextParts DEF History

\* The key of u stays, no permission was lost earlier than before, and every
\* request is fine by the old key.
LEMMA AgedKept ==
  ASSUME TInv, TInv', NEW u \in User, NEW C, NEW e \in Nat, Slack(C) \in Nat,
         KeyFine(u, C, e), key'[u] = key[u],
         \A x \in Permission : since'[u][x] <= since[u][x],
         \A q \in Slot : RequestFine(slot'[q], u, C, e)
  PROVE  Aged(u, C, e)'
<1>0. \A x \in Permission : since[u][x] \in Nat /\ since'[u][x] \in Nat
  BY SinceTypes, NextSinceTypes DEF TInv
<1>1. key[u].perms \subseteq Permission
  BY Parts DEF TInv, Keys
<1>2. \A q \in Slot : slot'[q] \in Request
  BY NextParts DEF TInv
<1>3. KeyFine(u, C, e)'
  BY <1>0, <1>1 DEF KeyFine, Slack
<1>4. ASSUME NEW q \in Slot
      PROVE  RequestFine(slot[q], u, C, e)'
<2> DEFINE r == slot'[q]
<2>0. r \in Request /\ RequestFine(r, u, C, e)
  BY <1>2
<2>1. ASSUME Carrying(r, u), r.stage \in {"fill", "store"}, NEW x \in r.perms
      PROVE  since'[u][x] <= r.age + Slack(C) \/ (key'[u].ttl > 0 /\ since'[u][x] <= e + Patience + Slack(C))
<3>1. x \in Permission /\ r.age \in Nat
  BY <2>0, <2>1, RequestKinds DEF CheckStage
<3>2. since[u][x] <= r.age + Slack(C) \/ (key[u].ttl > 0 /\ since[u][x] <= e + Patience + Slack(C))
  BY <2>0, <2>1 DEF RequestFine, Handed
<3> HIDE DEF r
<3> QED
  BY <1>0, <3>1, <3>2
<2>2. Pending(r, u) => r.id \notin C
  BY <2>0 DEF RequestFine
<2>3. Carrying(r, u) => (key'[u].ttl > 0 => e <= r.age)
  BY <2>0 DEF RequestFine
<2> QED
  BY <2>1, <2>2, <2>3 DEF RequestFine, Carrying, Pending, Handed, Slack
<1> QED
  BY <1>3, <1>4 DEF Aged

\* A request that carries nothing and has nothing to clear.
LEMMA EmptyHanded ==
  ASSUME NEW r, NEW u, NEW C, NEW e,
         r.stage \in {"idle", "service", "admitted", "audit"} \/ (r.stage = "fetch" /\ r.leg = "nobody")
  PROVE  RequestFine(r, u, C, e)
  BY DEF RequestFine, Carrying, Pending

\* What a step of a check leaves in its slot is fine, if it sets no key.
LEMMA MovesFine ==
  ASSUME TInv, HeldNow, ~env.faults, NEW p \in Slot, NEW r \in Check \cup {Idle}, Moves(p, r),
         NEW u \in User, NEW C, NEW e \in Nat, Slack(C) \in Nat, Aged(u, C, e)
  PROVE  RequestFine(r, u, C, e)
<1>0. Idle.stage = "idle"
  BY DEF Idle
<1>1. RequestFine(slot[p], u, C, e) /\ KeyFine(u, C, e)
  BY DEF Aged
<1>2. CASE \/ r = Idle \/ r.stage \in {"service", "admitted"}
           \/ r.stage = "fetch" /\ r.leg = "nobody"
  BY <1>0, <1>2, EmptyHanded
<1>3. CASE r.stage \in {"fetch", "read"} /\ Miss(r.user)
<2>1. r.user = u => ~(key[u].ttl > 0)
  BY <1>3, Parts DEF Miss, TInv, Keys
<2> QED
  BY <1>3, <2>1 DEF RequestFine, Carrying, Pending
<1>4. CASE /\ r.stage = "store" /\ Keeps(p, r) /\ At(p, "fetch") /\ slot[p].leg = "gateway"
           /\ Hit(r.user) /\ r.perms = key[r.user].perms
<2>1. ASSUME r.user = u
      PROVE  key[u].ttl > 0 /\ e <= r.age /\ \A x \in r.perms : Handed(u, C, e, x)
<3>1. Carrying(slot[p], u) /\ key[u].ttl > 0
  BY <1>4, <2>1 DEF Carrying, Keeps, At, Hit
<3>2. e <= r.age
  BY <1>1, <1>4, <3>1 DEF RequestFine, Keeps
<3> QED
  BY <1>1, <1>4, <2>1, <3>1, <3>2 DEF KeyFine, Handed
<2> QED
  BY <1>4, <2>1 DEF RequestFine, Carrying, Pending
<1>5. CASE r.stage = "fill" /\ Keeps(p, r) /\ At(p, "read") /\ r.perms = Held(r.user)
<2>1. ASSUME r.user = u
      PROVE  key[u].ttl > 0 => e <= r.age
  BY <1>1, <1>5, <2>1 DEF RequestFine, Carrying, Keeps, At
<2>2. ASSUME r.user = u, NEW x \in r.perms
      PROVE  since[u][x] <= r.age + Slack(C)
<3>1. since[u][x] = 0
  BY <1>5, <2>2 DEF HeldNow
<3>2. r.age \in Nat
  BY <1>0, <1>5 DEF Check
<3> QED
  BY <3>1, <3>2
<2> QED
  BY <1>5, <2>1, <2>2 DEF RequestFine, Carrying, Pending
<1>6. CASE /\ r.stage \in {"read", "fill"} /\ r.stage = slot[p].stage
           /\ Keeps(p, r) /\ r.perms = slot[p].perms
  BY <1>1, <1>6 DEF RequestFine, Carrying, Pending, Keeps
<1> QED
  BY <1>2, <1>3, <1>4, <1>5, <1>6 DEF Moves

LEMMA CheckedSlot ==
  ASSUME TypeOK, NEW p \in Slot, NEW r, slot' = [slot EXCEPT ![p] = r]
  PROVE  slot'[p] = r /\ \A q \in Slot \ {p} : slot'[q] = slot[q]
  BY Parts

\* The key of the request is set: its age goes on, or begins.
LEMMA SetsAged ==
  ASSUME TInv, TInv', ~env.faults, NEW p \in Slot, NEW r \in Check \cup {Idle},
         slot' = [slot EXCEPT ![p] = r], Sets(p, r), since' = since,
         NEW u \in User, u = slot[p].user, NEW C, NEW e \in Nat, Slack(C) \in Nat, Aged(u, C, e),
         NEW f \in Nat, f = IF key[u].ttl > 0 THEN e ELSE 0
  PROVE  Aged(u, C, f)'
<1> DEFINE c == slot[p]
<1>0. Idle.stage = "idle"
  BY DEF Idle
<1>1. /\ c \in Check /\ c.stage \in {"fill", "store"} /\ c.perms \subseteq Permission
      /\ c.age \in Nat /\ c.age <= Patience
  BY DEF Sets, Check
<1>2. key'[u].ttl = Ttl /\ key'[u].perms = c.perms
  BY Parts DEF Sets, SetPermissions, TInv, Keys
<1>3. RequestFine(c, u, C, e) /\ Carrying(c, u) /\ KeyFine(u, C, e)
  BY <1>1 DEF Aged, Carrying
<1>4. f \in Nat /\ f <= c.age
  BY <1>1, <1>3 DEF RequestFine
<1>5. \A x \in Permission : since[u][x] \in Nat
  BY SinceTypes DEF TInv
<1>6. \A x \in c.perms : since[u][x] <= c.age + Slack(C) \/ Handed(u, C, e, x)
  BY <1>1, <1>3 DEF RequestFine
<1>7. \A x \in c.perms : since[u][x] <= f + Patience + Slack(C)
<2> TAKE x \in c.perms
<2>1. since[u][x] \in Nat
  BY <1>1, <1>5
<2>2. CASE since[u][x] <= c.age + Slack(C)
  BY <1>1, <1>4, <2>1, <2>2
<2>3. CASE Handed(u, C, e, x)
  BY <2>3 DEF Handed
<2> QED
  BY <1>6, <2>2, <2>3
<1> HIDE DEF c
<1>9. KeyFine(u, C, f)'
  BY <1>1, <1>2, <1>4, <1>7 DEF KeyFine, Slack
<1>10. ASSUME NEW q \in Slot
       PROVE  RequestFine(slot[q], u, C, f)'
<2>1. CASE q # p
<3> DEFINE s == slot[q]
<3>1. slot'[q] = s /\ RequestFine(s, u, C, e) /\ s \in Request
  BY <2>1, CheckedSlot, Parts DEF TInv, Aged
<3>2. Carrying(s, u) => s.age \in Nat /\ s.perms \subseteq Permission
  BY <3>1, RequestKinds DEF Carrying, CheckStage
<3>3. Carrying(s, u) => f <= s.age
  BY <3>1, <3>2 DEF RequestFine
<3>4. ASSUME Carrying(s, u), s.stage \in {"fill", "store"}, NEW x \in s.perms
      PROVE  since[u][x] <= s.age + Slack(C) \/ since[u][x] <= f + Patience + Slack(C)
  BY <3>1, <3>4 DEF RequestFine, Handed
<3>5. Pending(s, u) => s.id \notin C
  BY <3>1 DEF RequestFine
<3> QED
  BY <1>2, <3>1, <3>3, <3>4, <3>5 DEF RequestFine, Carrying, Pending, Handed, Slack
<2>2. CASE q = p
<3>1. slot'[q] = r
  BY <2>2, CheckedSlot DEF TInv
<3>2. CASE r = Idle \/ r.stage \in {"service", "admitted"}
  BY <1>0, <3>1, <3>2 DEF RequestFine, Carrying, Pending
<3>3. CASE r.stage = "store" /\ Keeps(p, r) /\ r.perms = c.perms
<4>1. r.age = c.age
  BY <3>3 DEF Keeps, c
<4> QED
  BY <1>2, <1>4, <1>7, <3>1, <3>3, <4>1 DEF RequestFine, Carrying, Pending, Handed, Slack
<3> QED
  BY <3>2, <3>3 DEF Sets, c
<2> QED
  BY <2>1, <2>2
<1> QED
  BY <1>9, <1>10 DEF Aged

\* A clear hands the time of its request on to those that carry the old key.
LEMMA ClearAged ==
  ASSUME TInv, TInv', Numbered, ~env.faults, NEW p \in Slot, NEW u \in User, Clear(p, u),
         NEW C \in SUBSET (1 .. changes), NEW e \in Nat, Aged(u, C, e)
  PROVE  \E D \in SUBSET (1 .. changes) : Aged(u, D, e)'
<1>1. PICK r \in Change :
        /\ slot[p] \in Change /\ slot[p].stage = "clear"
        /\ slot' = [slot EXCEPT ![p] = r] /\ r.stage = "clear"
        /\ r.id = slot[p].id /\ r.todo = slot[p].todo \ {u}
  BY ClearEffect DEF TInv
<1>2. PICK i : i = slot[p].id
  OBVIOUS
<1>3. PICK D : D = C \cup {i}
  OBVIOUS
<1>4. i \in (1 .. changes) \ C
<2>1. u \in slot[p].todo
  BY DEF Clear
<2>2. i \notin C
  BY <1>1, <1>2, <2>1 DEF Aged, RequestFine, Pending
<2>3. i \in 1 .. MaxChanges /\ i <= changes
  BY <1>1, <1>2 DEF Change, Numbered
<2> QED
  BY <2>2, <2>3, Parts DEF TInv
<1>5. Slack(C) \in Nat /\ Slack(D) = Slack(C) + Patience
  BY <1>3, <1>4, SlackFacts DEF TInv
<1>6. key'[u].ttl = 0 /\ UNCHANGED <<env, changes, since>>
<2>1. key \in Keys
  BY Parts DEF TInv
<2> QED
  BY <2>1 DEF Clear, DeletePermissions, NoKey, Keys
<1>7. \A x \in Permission : since[u][x] \in Nat
  BY SinceTypes DEF TInv
<1>8. ASSUME NEW q \in Slot
      PROVE  RequestFine(slot[q], u, D, e)'
<2>1. CASE q = p
  BY <1>1, <2>1, CheckedSlot DEF RequestFine, Carrying, Pending, TInv
<2>2. CASE q # p
<3> DEFINE s == slot[q]
<3>1. slot'[q] = s /\ RequestFine(s, u, C, e) /\ s \in Request
  BY <1>1, <2>2, CheckedSlot, Parts DEF TInv, Aged
<3>2. Pending(s, u) => s.id \notin D
<4>1. Pending(s, u) => s \in Change
  BY <3>1, RequestKinds DEF Pending, ChangeStage
<4>2. Pending(s, u) => s.id # i
  BY <1>1, <1>2, <2>2, <4>1 DEF Numbered
<4> QED
  BY <1>3, <3>1, <4>2 DEF RequestFine
<3>3. ASSUME Carrying(s, u), s.stage \in {"fill", "store"}, NEW x \in s.perms
      PROVE  since[u][x] <= s.age + Slack(D)
<4>1. s.age \in Nat /\ x \in Permission
  BY <3>1, <3>3, RequestKinds DEF CheckStage
<4>2. since[u][x] <= s.age + Slack(C) \/ (e <= s.age /\ since[u][x] <= e + Patience + Slack(C))
  BY <3>1, <3>3 DEF RequestFine, Handed
<4> HIDE DEF s
<4> QED
  BY <1>5, <1>7, <4>1, <4>2
<3> QED
  BY <1>6, <3>1, <3>2, <3>3 DEF RequestFine, Carrying, Pending, Handed, Slack
<2> QED
  BY <2>1, <2>2
<1>9. KeyFine(u, D, e)'
  BY <1>6 DEF KeyFine
<1>10. D \in SUBSET (1 .. changes)
  BY <1>3, <1>4
<1>11. Aged(u, D, e)'
  BY <1>8, <1>9 DEF Aged
<1> QED
  BY <1>10, <1>11

\* Time passes.  When the key expires, no request that saw it missing is left.
LEMMA TickAged ==
  ASSUME TInv, TInv', HeldNow, Tick, NEW u \in User, NEW C, NEW e \in Nat, Slack(C) \in Nat,
         Aged(u, C, e)
  PROVE  \E f \in Nat : Aged(u, C, f)'
<1>1. key \in Keys /\ \A q \in Slot : slot[q] \in Request
  BY Parts DEF TInv
<1>2. \A x \in Permission : since[u][x] \in Nat /\ since'[u][x] \in Nat /\ since'[u][x] <= since[u][x] + 1
<2> TAKE x \in Permission
<2>1. since[u][x] \in Nat /\ since'[u][x] \in Nat
  BY SinceTypes, NextSinceTypes DEF TInv
<2>2. since'[u][x] = since[u][x] \/ since'[u][x] = since[u][x] + 1
  BY DEF Tick
<2> QED
  BY <2>1, <2>2
<1>3. key'[u] = IF key[u].ttl <= 1 THEN NoKey ELSE [key[u] EXCEPT !.ttl = @ - 1]
  BY DEF Tick
<1>4. key[u].ttl \in 0 .. Ttl /\ key[u].perms \subseteq Permission
  BY <1>1 DEF Keys
\* What a request was before.
<1>5. ASSUME NEW q \in Slot
      PROVE  /\ Pending(slot'[q], u) => Pending(slot[q], u) /\ slot'[q].id = slot[q].id
             /\ Carrying(slot'[q], u) =>
                  /\ Carrying(slot[q], u) /\ slot[q].age \in Nat /\ slot[q].age < Patience
                  /\ slot'[q].age = slot[q].age + 1 /\ slot'[q].stage = slot[q].stage
                  /\ slot'[q].perms = slot[q].perms /\ slot[q].perms \subseteq Permission
<2>1. CASE slot[q] = Idle
  BY <2>1, TickEffect DEF TInv, At, Idle, Pending, Carrying
<2>2. CASE slot[q] \in Check
<3>1. slot'[q].stage \in CheckStage /\ slot[q].age \in Nat /\ slot[q].perms \subseteq Permission
  BY <2>2, TickEffect DEF TInv, Check, CheckStage
<3> QED
  BY <2>2, <3>1, TickEffect DEF TInv, CheckStage, Pending, Carrying
<2>3. CASE slot[q] \in Change
<3>1. slot'[q].stage \in ChangeStage
  BY <2>3, TickEffect DEF TInv, Change, ChangeStage
<3> QED
  BY <2>3, <3>1, TickEffect DEF TInv, ChangeStage, Pending, Carrying
<2> QED
  BY <1>1, <2>1, <2>2, <2>3 DEF Request
<1>6. \A q \in Slot : RequestFine(slot[q], u, C, e)
  BY DEF Aged
<1>7. CASE key[u].ttl > 1
<2>1. PICK f \in Nat : f = e + 1
  OBVIOUS
<2>2. key'[u].ttl = key[u].ttl - 1 /\ key'[u].perms = key[u].perms /\ key'[u].ttl > 0
  BY <1>1, <1>3, <1>4, <1>7 DEF Keys
<2>3. KeyFine(u, C, f)'
<3>1. Ttl <= e + key[u].ttl /\ e + key[u].ttl <= Ttl + Patience
  BY <1>7, <1>4 DEF Aged, KeyFine
<3>2. \A x \in key[u].perms : since[u][x] <= e + Patience + Slack(C)
  BY <1>7, <1>4 DEF Aged, KeyFine
<3>3. \A x \in key[u].perms : since'[u][x] <= f + Patience + Slack(C)
  BY <1>2, <1>4, <2>1, <3>2
<3>4. Ttl <= f + key'[u].ttl /\ f + key'[u].ttl <= Ttl + Patience
  BY <1>4, <2>1, <2>2, <3>1
<3> QED
  BY <2>2, <3>3, <3>4 DEF KeyFine, Slack
<2>4. ASSUME NEW q \in Slot
      PROVE  RequestFine(slot[q], u, C, f)'
<3>1. Pending(slot'[q], u) => slot'[q].id \notin C
  BY <1>5, <1>6 DEF RequestFine
<3>2. ASSUME Carrying(slot'[q], u)
      PROVE  f <= slot'[q].age
<4>1. e <= slot[q].age
  BY <1>4, <1>5, <1>6, <1>7, <3>2 DEF RequestFine
<4> QED
  BY <1>5, <2>1, <3>2, <4>1
<3>3. ASSUME Carrying(slot'[q], u), slot'[q].stage \in {"fill", "store"}, NEW x \in slot'[q].perms
      PROVE  since'[u][x] <= slot'[q].age + Slack(C) \/ since'[u][x] <= f + Patience + Slack(C)
<4>1. since[u][x] <= slot[q].age + Slack(C) \/ since[u][x] <= e + Patience + Slack(C)
  BY <1>5, <1>6, <3>3 DEF RequestFine, Handed
<4>2. x \in Permission /\ slot[q].age \in Nat /\ slot'[q].age = slot[q].age + 1
  BY <1>5, <3>3
<4> QED
  BY <1>2, <2>1, <4>1, <4>2
<3> QED
  BY <2>2, <3>1, <3>2, <3>3 DEF RequestFine, Carrying, Pending, Handed, Slack
<2> QED
  BY <2>3, <2>4 DEF Aged
<1>8. CASE ~(key[u].ttl > 1)
<2>1. key'[u].ttl = 0
  BY <1>3, <1>4, <1>8 DEF NoKey
<2>2. ASSUME NEW q \in Slot
      PROVE  RequestFine(slot[q], u, C, e)'
<3>1. Pending(slot'[q], u) => slot'[q].id \notin C
  BY <1>5, <1>6 DEF RequestFine
<3>2. Carrying(slot'[q], u) => ~(key[u].ttl > 0)
<4> SUFFICES ASSUME Carrying(slot'[q], u), key[u].ttl > 0 PROVE FALSE
  OBVIOUS
<4>1. e <= slot[q].age /\ slot[q].age < Patience /\ slot[q].age \in Nat
  BY <1>5, <1>6 DEF RequestFine
<4>2. Ttl <= e + key[u].ttl
  BY DEF Aged, KeyFine
<4> QED
  BY <1>4, <1>8, <4>1, <4>2
<3>3. ASSUME Carrying(slot'[q], u), slot'[q].stage \in {"fill", "store"}, NEW x \in slot'[q].perms
      PROVE  since'[u][x] <= slot'[q].age + Slack(C)
<4>1. since[u][x] <= slot[q].age + Slack(C)
  BY <1>5, <1>6, <3>2, <3>3 DEF RequestFine, Handed
<4>2. x \in Permission /\ slot[q].age \in Nat /\ slot'[q].age = slot[q].age + 1
  BY <1>5, <3>3
<4> QED
  BY <1>2, <4>1, <4>2
<3> QED
  BY <2>1, <3>1, <3>3 DEF RequestFine, Carrying, Pending, Handed, Slack
<2>3. KeyFine(u, C, e)'
  BY <2>1 DEF KeyFine
<2> QED
  BY <2>2, <2>3 DEF Aged
<1> QED
  BY <1>7, <1>8

-----------------------------------------------------------------------------
(* The steps of the bound.                                                 *)

\* No permission was lost earlier than before, and what is held is held now.
SinceShrinks == \A u \in User, x \in Permission : since'[u][x] <= since[u][x]

LEMMA BecomeSince ==
  ASSUME TInv, NEW d \in Tables, Become(d)
  PROVE  SinceShrinks /\ HeldNow'
<1>1. \A u \in User, x \in Permission : since[u][x] \in Nat /\ since'[u][x] = Stamp(d, u, x)
  BY SinceTypes DEF TInv, Become
<1>2. SinceShrinks
  BY <1>1 DEF Stamp, SinceShrinks
<1>3. HeldNow'
<2> SUFFICES ASSUME NEW u \in User, NEW x \in HeldIn(d, u) PROVE since'[u][x] = 0
<3>1. db' = d
  BY DEF Become
<3>2. \A u \in User : Held(u)' = HeldIn(d, u)
  BY <3>1 DEF Held, HeldIn, GetMenusByUserId
<3> QED
  BY <3>2 DEF HeldNow
<2>1. x \in Permission
  BY HeldType
<2> QED
  BY <1>1, <2>1 DEF Stamp
<1> QED
  BY <1>2, <1>3

LEMMA UnchangedSince ==
  ASSUME TInv, HeldNow, UNCHANGED <<db, since>>
  PROVE  SinceShrinks /\ HeldNow'
<1>1. \A u \in User, x \in Permission : since[u][x] \in Nat
  BY SinceTypes DEF TInv
<1>2. \A u \in User : Held(u)' = Held(u)
  BY DEF Held, HeldIn, GetMenusByUserId
<1> QED
  BY <1>1, <1>2 DEF HeldNow, SinceShrinks

LEMMA SinceStep ==
  ASSUME TInv, HeldNow, Next
  PROVE  HeldNow' /\ (Tick \/ SinceShrinks)
<1>1. CASE Tick
<2>1. \A u \in User : Held(u)' = Held(u)
  BY <1>1 DEF Tick, Held, HeldIn, GetMenusByUserId
<2>2. ASSUME NEW u \in User, NEW x \in Held(u)
      PROVE  since'[u][x] = 0
<3>1. x \in Permission
  BY <2>2, HeldType, Parts DEF Held, TInv
<3>2. since'[u][x] = since[u][x]
  BY <1>1, <2>2, <3>1 DEF Tick
<3> QED
  BY <2>2, <3>2 DEF HeldNow
<2> QED
  BY <1>1, <2>1, <2>2 DEF HeldNow
<1>2. CASE SeedRbac
  BY <1>2, SeededTables, BecomeSince DEF TInv
<1>3. ASSUME NEW p \in Slot, Checked(p) \/ AddAuditLog(p) \/ (\E u \in User : Clear(p, u))
      PROVE  HeldNow' /\ SinceShrinks
  BY <1>3, UnchangedSince DEF Checked, AddAuditLog, Clear
<1>4. ASSUME NEW p \in Slot, Changed(p)
      PROVE  HeldNow' /\ SinceShrinks
<2>1. PICK r \in Change \cup {Idle} :
        (\E d : Commits(r, d) \/ CommitsPlainly(r, d)) \/ Replaces(r)
  BY <1>4 DEF Changed
<2>2. CASE Replaces(r)
  BY <2>2, UnchangedSince DEF Replaces
<2>3. ASSUME NEW d, Commits(r, d) \/ CommitsPlainly(r, d)
      PROVE  HeldNow' /\ SinceShrinks
  BY <2>3, BecomeSince DEF Commits, CommitsPlainly, Spares
<2> QED
  BY <2>1, <2>2, <2>3
<1>5. ASSUME NEW p \in Slot, Commit(p)
      PROVE  HeldNow' /\ SinceShrinks
  BY <1>5, CommitEffect, BecomeSince DEF Commit, Become
<1> QED
  BY <1>1, <1>2, <1>3, <1>4, <1>5, StepKinds DEF TInv

\* A step of a request other than the setting or clearing of a key leaves the
\* keys, and what it leaves in the slots is fine.
LEMMA OtherFine ==
  ASSUME TInv, Numbered, HeldNow, ~env.faults, NEW p \in Slot, NEW u \in User,
         NEW C \in SUBSET (1 .. changes), NEW e \in Nat, Aged(u, C, e),
         \/ \E r \in Check \cup {Idle} :
              slot' = [slot EXCEPT ![p] = r] /\ Moves(p, r) /\ UNCHANGED key
         \/ Changed(p) \/ Commit(p) \/ AddAuditLog(p)
  PROVE  key' = key /\ \A q \in Slot : RequestFine(slot'[q], u, C, e)
<1>0. \A q \in Slot : RequestFine(slot[q], u, C, e)
  BY DEF Aged
<1>1. Slack(C) \in Nat /\ Idle.stage = "idle"
  BY SlackFacts DEF TInv, Idle
<1>2. CASE \E r \in Check \cup {Idle} :
              slot' = [slot EXCEPT ![p] = r] /\ Moves(p, r) /\ UNCHANGED key
<2>1. PICK r \in Check \cup {Idle} :
        slot' = [slot EXCEPT ![p] = r] /\ Moves(p, r) /\ UNCHANGED key
  BY <1>2
<2>2. RequestFine(r, u, C, e)
  BY <1>1, <2>1, MovesFine
<2> QED
  BY <1>0, <2>1, <2>2, CheckedSlot DEF TInv
<1>3. CASE Changed(p)
<2>1. PICK r \in Change \cup {Idle} :
    /\ slot' = [slot EXCEPT ![p] = r] /\ UNCHANGED <<env, key>>
    /\ r # Idle => r.id = changes + 1
  BY <1>3 DEF Changed
<2>2. RequestFine(r, u, C, e)
<3>1. CASE r = Idle
  BY <1>1, <3>1, EmptyHanded
<3>2. CASE r # Idle
<4>1. r.id \notin C
  BY <2>1, <3>2, Parts DEF TInv
<4>2. r.stage \in ChangeStage
  BY <3>2, RequestKinds DEF Request
<4> QED
  BY <4>1, <4>2 DEF RequestFine, Carrying, ChangeStage
<3> QED
  BY <3>1, <3>2
<2> QED
  BY <1>0, <2>1, <2>2, CheckedSlot DEF TInv
<1>4. CASE Commit(p)
<2>1. /\ slot[p].stage = "commit" /\ slot'[p].stage = "clear" /\ slot'[p].id = slot[p].id
      /\ slot'[p].todo = slot[p].todo
      /\ \A q \in Slot \ {p} : Alike(slot[q], slot'[q])
  BY <1>4, CommitEffect
<2>2. ASSUME NEW q \in Slot
      PROVE  RequestFine(slot'[q], u, C, e)
<3>1. CASE q # p /\ slot'[q] = slot[q]
  BY <1>0, <3>1
<3>2. CASE q # p /\ slot'[q] # slot[q]
<4>1. /\ slot[q].stage = "commit" /\ slot'[q].stage = "commit"
      /\ slot'[q].id = slot[q].id /\ slot'[q].todo = slot[q].todo
  BY <2>1, <3>2 DEF Alike
<4> QED
  BY <1>0, <4>1 DEF RequestFine, Carrying, Pending
<3>3. CASE q = p
  BY <1>0, <2>1, <3>3 DEF RequestFine, Carrying, Pending
<3> QED
  BY <3>1, <3>2, <3>3
<2> QED
  BY <1>4, <2>2 DEF Commit
<1>5. CASE AddAuditLog(p)
<2>1. slot' = [slot EXCEPT ![p] = Idle] /\ UNCHANGED key
  BY <1>5 DEF AddAuditLog, End
<2>2. RequestFine(Idle, u, C, e)
  BY <1>1, EmptyHanded
<2> QED
  BY <1>0, <2>1, <2>2, CheckedSlot DEF TInv
<1> QED
  BY <1>2, <1>3, <1>4, <1>5

LEMMA AgedStep ==
  ASSUME StaleInv, TInv', Next, ~env.faults, NEW u \in User
  PROVE  \E C \in SUBSET (1 .. changes), e \in Nat : Aged(u, C, e)'
<1>1. PICK C \in SUBSET (1 .. changes) : \E e \in Nat : Aged(u, C, e)
  BY DEF StaleInv
<1>2. PICK e \in Nat : Aged(u, C, e)
  BY <1>1
<1>3. /\ TInv /\ Numbered /\ HeldNow /\ Slack(C) \in Nat /\ KeyFine(u, C, e)
      /\ \A q \in Slot : RequestFine(slot[q], u, C, e)
  BY <1>2, SlackFacts DEF StaleInv, TInv, Aged
<1>4. CASE Tick
  BY <1>2, <1>3, <1>4, TickAged
<1>5. CASE ~Tick
<2>0. SinceShrinks
  BY <1>3, <1>5, SinceStep
\* The key of u stays.
<2>1. ASSUME key'[u] = key[u], \A q \in Slot : RequestFine(slot'[q], u, C, e)
      PROVE  Aged(u, C, e)'
  BY <1>3, <2>0, <2>1, AgedKept DEF SinceShrinks
<2>2. CASE SeedRbac
  BY <1>3, <2>1, <2>2 DEF SeedRbac
<2>3. ASSUME NEW p \in Slot, Changed(p) \/ Commit(p) \/ AddAuditLog(p)
      PROVE  Aged(u, C, e)'
  BY <1>2, <1>3, <2>1, <2>3, OtherFine
<2>4. ASSUME NEW p \in Slot, Checked(p)
      PROVE  \E f \in Nat : Aged(u, C, f)'
<3>1. PICK r \in Check \cup {Idle} :
        /\ slot' = [slot EXCEPT ![p] = r]
        /\ UNCHANGED <<env, db, changes, since, trail>>
        /\ (Moves(p, r) /\ UNCHANGED key) \/ Sets(p, r)
  BY <2>4 DEF Checked
<3>2. CASE Moves(p, r) /\ UNCHANGED key
  BY <1>2, <1>3, <2>1, <3>1, <3>2, OtherFine
<3>3. CASE Sets(p, r) /\ u = slot[p].user
<4>1. PICK f \in Nat : f = IF key[u].ttl > 0 THEN e ELSE 0
  OBVIOUS
<4> QED
  BY <1>2, <1>3, <3>1, <3>3, <4>1, SetsAged
<3>4. CASE Sets(p, r) /\ u # slot[p].user
<4>1. key'[u] = key[u]
  BY <1>3, <3>4, Parts DEF Sets, SetPermissions, TInv, Keys
<4>2. RequestFine(r, u, C, e)
<5>1. CASE r = Idle \/ r.stage \in {"service", "admitted"}
  BY <5>1, EmptyHanded DEF Idle
<5>2. CASE r.stage = "store" /\ Keeps(p, r)
  BY <3>4, <5>2 DEF RequestFine, Carrying, Pending, Keeps
<5> QED
  BY <3>4, <5>1, <5>2 DEF Sets
<4> QED
  BY <1>3, <2>1, <3>1, <4>1, <4>2, CheckedSlot DEF TInv
<3> QED
  BY <3>1, <3>2, <3>3, <3>4
<2>5. ASSUME NEW p \in Slot, NEW v \in User, Clear(p, v)
      PROVE  \E D \in SUBSET (1 .. changes) : Aged(u, D, e)'
<3>1. CASE u = v
  BY <1>2, <1>3, <2>5, <3>1, ClearAged
<3>2. CASE u # v
<4>1. key'[u] = key[u]
  BY <1>3, <2>5, <3>2, Parts DEF Clear, DeletePermissions, TInv, Keys
<4>2. PICK r \in Change :
        /\ slot[p] \in Change /\ slot[p].stage = "clear"
        /\ slot' = [slot EXCEPT ![p] = r] /\ r.stage = "clear"
        /\ r.id = slot[p].id /\ r.todo = slot[p].todo \ {v}
  BY <1>3, <2>5, ClearEffect DEF TInv
<4>3. RequestFine(r, u, C, e)
  BY <1>3, <4>2 DEF RequestFine, Carrying, Pending
<4> QED
  BY <1>3, <2>1, <4>1, <4>2, <4>3, CheckedSlot DEF TInv
<3> QED
  BY <3>1, <3>2
<2> QED
  BY <1>3, <1>5, <2>2, <2>3, <2>4, <2>5, StepKinds DEF TInv
<1> QED
  BY <1>4, <1>5

LEMMA MissingStep ==
  ASSUME TInv, MissingIsEmpty, Next
  PROVE  MissingIsEmpty'
<1>0. key \in Keys
  BY Parts DEF TInv
<1>1. ASSUME NEW p \in Slot, NEW r, Sets(p, r)
      PROVE  MissingIsEmpty'
  BY <1>0, <1>1 DEF Sets, SetPermissions, MissingIsEmpty, Keys
<1>2. ASSUME NEW p \in Slot, NEW u \in User, Clear(p, u)
      PROVE  MissingIsEmpty'
  BY <1>0, <1>2 DEF Clear, DeletePermissions, NoKey, MissingIsEmpty, Keys
<1>3. CASE Tick
  BY <1>0, <1>3 DEF Tick, NoKey, MissingIsEmpty, Keys
<1>4. CASE UNCHANGED key
  BY <1>4 DEF MissingIsEmpty
<1>5. ASSUME NEW p \in Slot, Checked(p)
      PROVE  MissingIsEmpty'
  BY <1>1, <1>4, <1>5 DEF Checked
<1>6. ASSUME NEW p \in Slot, Changed(p) \/ Commit(p) \/ AddAuditLog(p)
      PROVE  MissingIsEmpty'
  BY <1>4, <1>6 DEF Changed, Commit, AddAuditLog
<1> QED
  BY <1>2, <1>3, <1>4, <1>5, <1>6, StepKinds DEF TInv, SeedRbac

\* What a key or a request on its way to it holds was held MaxStale ago or less.
LEMMA KeyBound ==
  ASSUME StaleInv, ~env.faults, NEW u \in User
  PROVE  /\ \A x \in key[u].perms : since[u][x] <= MaxStale
         /\ \A p \in Slot : (slot[p].stage \in {"fill", "store"} /\ slot[p].user = u) =>
              \A x \in slot[p].perms : since[u][x] <= MaxStale
<1>1. PICK C \in SUBSET (1 .. changes) : \E e \in Nat : Aged(u, C, e)
  BY DEF StaleInv
<1>2. PICK e \in Nat : Aged(u, C, e)
  BY <1>1
<1>3. Slack(C) \in Nat /\ Ttl + 2 * Patience + Slack(C) <= MaxStale /\ MaxStale \in Nat
  BY SlackFacts, EnvTypes DEF StaleInv, TInv
<1>4. key[u].ttl \in 0 .. Ttl /\ key[u].perms \subseteq Permission
  BY Parts DEF StaleInv, TInv, Keys
<1>5. \A x \in Permission : since[u][x] \in Nat
  BY SinceTypes DEF StaleInv, TInv
<1>6. ASSUME NEW x \in key[u].perms
      PROVE  since[u][x] <= MaxStale
<2>1. key[u].ttl > 0
  BY <1>4 DEF StaleInv, MissingIsEmpty
<2>2. e + key[u].ttl <= Ttl + Patience /\ since[u][x] <= e + Patience + Slack(C)
  BY <1>2, <2>1 DEF Aged, KeyFine
<2> QED
  BY <1>3, <1>4, <1>5, <2>1, <2>2
<1>7. ASSUME NEW p \in Slot, slot[p].stage \in {"fill", "store"}, slot[p].user = u,
             NEW x \in slot[p].perms
      PROVE  since[u][x] <= MaxStale
<2>1. slot[p].age \in 0 .. Patience /\ x \in Permission
<3>1. slot[p] \in Check
  BY <1>7, Kinds DEF StaleInv, TInv, CheckStage
<3> QED
  BY <3>1 DEF Check
<2>2. Carrying(slot[p], u) /\ RequestFine(slot[p], u, C, e)
  BY <1>2, <1>7 DEF Aged, Carrying
<2>3. \/ since[u][x] <= slot[p].age + Slack(C)
      \/ e <= slot[p].age /\ since[u][x] <= e + Patience + Slack(C)
  BY <1>7, <2>2 DEF RequestFine, Handed
<2> QED
  BY <1>3, <1>5, <2>1, <2>3
<1> QED
  BY <1>6, <1>7

LEMMA EnvKept ==
  ASSUME TInv, Next
  PROVE  env' = env
<1>1. \A p \in Slot : Checked(p) \/ Changed(p) \/ Commit(p) \/ AddAuditLog(p) => env' = env
  BY DEF Checked, Changed, Commit, AddAuditLog
<1>2. \A p \in Slot, u \in User : Clear(p, u) => env' = env
  BY DEF Clear
<1> QED
  BY <1>1, <1>2, StepKinds DEF TInv, Tick, SeedRbac

\* A request that is admitted now was so before, or holds what was in a key or
\* on its way to one.
LEMMA AdmittedBefore ==
  ASSUME TInv, Next, ~Tick, NEW q \in Slot, slot'[q].stage = "admitted"
  PROVE  \/ slot'[q] = slot[q]
         \/ slot'[q].perms = key[slot'[q].user].perms
         \/ /\ slot[q].stage \in {"fill", "store"} /\ slot[q].user = slot'[q].user
            /\ slot'[q].perms = slot[q].perms
<1>1. ASSUME NEW p \in Slot, Checked(p), slot'[q] # slot[q]
      PROVE  \/ slot'[q].perms = key[slot'[q].user].perms
             \/ /\ slot[q].stage \in {"fill", "store"} /\ slot[q].user = slot'[q].user
                /\ slot'[q].perms = slot[q].perms
<2>1. PICK r \in Check \cup {Idle} :
        slot' = [slot EXCEPT ![p] = r] /\ ((Moves(p, r) /\ UNCHANGED key) \/ Sets(p, r))
  BY <1>1 DEF Checked
<2>2. q = p /\ slot'[q] = r /\ r.stage = "admitted" /\ r # Idle
  BY <1>1, <2>1, CheckedSlot DEF TInv, Idle
<2>3. CASE Moves(p, r)
  BY <2>2, <2>3 DEF Moves
<2>4. CASE Sets(p, r)
  BY <2>2, <2>4 DEF Sets, Keeps
<2> QED
  BY <2>1, <2>3, <2>4
<1>2. ASSUME NEW p \in Slot, Changed(p) \/ AddAuditLog(p)
      PROVE  slot'[q] = slot[q]
<2>1. PICK r \in Change \cup {Idle} : slot' = [slot EXCEPT ![p] = r]
  BY <1>2 DEF Changed, AddAuditLog, End
<2>2. r.stage # "admitted"
  BY DEF Change, Idle
<2> QED
  BY <2>1, <2>2, CheckedSlot DEF TInv
<1>3. ASSUME NEW p \in Slot, Commit(p)
      PROVE  slot'[q] = slot[q]
  BY <1>3, CommitEffect DEF Alike
<1>4. ASSUME NEW p \in Slot, NEW u \in User, Clear(p, u)
      PROVE  slot'[q] = slot[q]
<2>1. PICK r \in Change : slot' = [slot EXCEPT ![p] = r] /\ r.stage = "clear"
  BY <1>4, ClearEffect DEF TInv
<2> QED
  BY <2>1, CheckedSlot DEF TInv
<1> QED
  BY <1>1, <1>2, <1>3, <1>4, StepKinds DEF TInv, SeedRbac

LEMMA AdmittedStep ==
  ASSUME StaleInv, TInv', Next, ~env.faults
  PROVE  AdmittedFine'
<1>0. TInv /\ HeldNow /\ AdmittedFine /\ MaxStale \in Nat
  BY EnvTypes DEF StaleInv, TInv
<1>1. MaxStale' = MaxStale
  BY <1>0, EnvKept DEF MaxStale
<1>2. ASSUME NEW q \in Slot, slot'[q].stage = "admitted", NEW x \in slot'[q].perms
      PROVE  since'[slot'[q].user][x] <= MaxStale + slot'[q].age
<2>1. PICK u \in User : u = slot'[q].user
  BY <1>0, <1>2, NextParts, RequestKinds DEF TInv, CheckStage
<2>2. x \in Permission /\ slot'[q].age \in Nat
  BY <1>0, <1>2, NextParts, RequestKinds DEF TInv, CheckStage
<2>3. since[u][x] \in Nat /\ since'[u][x] \in Nat
  BY <1>0, <2>2, SinceTypes, NextSinceTypes DEF TInv
<2>4. CASE Tick
<3>1. slot[q] \in Check
  BY <1>0, <1>2, <2>4, TickEffect, Kinds DEF TInv, Request, Change, Idle, At
<3>2. /\ slot[q].stage = "admitted" /\ slot[q].user = u /\ x \in slot[q].perms
      /\ slot'[q].age = slot[q].age + 1 /\ slot[q].age \in Nat
  BY <1>0, <1>2, <2>1, <2>4, <3>1, TickEffect DEF TInv, Check
<3>3. since[u][x] <= MaxStale + slot[q].age
  BY <1>0, <3>2 DEF AdmittedFine, At
<3>4. since'[u][x] = since[u][x] \/ since'[u][x] = since[u][x] + 1
  BY <2>2, <2>4 DEF Tick
<3> QED
  BY <1>0, <2>1, <2>3, <3>2, <3>3, <3>4
<2>5. CASE ~Tick
<3>1. since'[u][x] <= since[u][x]
  BY <1>0, <2>2, <2>5, SinceStep DEF SinceShrinks
<3>2. since[u][x] <= MaxStale + slot'[q].age
<4>1. CASE slot'[q] = slot[q]
  BY <1>0, <1>2, <2>1, <4>1 DEF AdmittedFine, At
<4>2. CASE \/ slot'[q].perms = key[u].perms
           \/ /\ slot[q].stage \in {"fill", "store"} /\ slot[q].user = u
              /\ slot'[q].perms = slot[q].perms
<5>1. since[u][x] <= MaxStale
  BY <1>2, <4>2, KeyBound
<5> QED
  BY <1>0, <2>2, <2>3, <5>1
<4> QED
  BY <1>0, <1>2, <2>1, <2>5, <4>1, <4>2, AdmittedBefore
<3> QED
  BY <1>0, <2>1, <2>2, <2>3, <3>1, <3>2
<2> QED
  BY <2>4, <2>5
<1> QED
  BY <1>1, <1>2 DEF AdmittedFine, At

LEMMA StaleStep == StaleInv /\ [Next]_vars => StaleInv'
<1> SUFFICES ASSUME StaleInv, [Next]_vars PROVE StaleInv'
  OBVIOUS
<1>1. TInv /\ Numbered /\ HeldNow /\ TInv' /\ Numbered'
  BY TInvStep, NumberedStep DEF StaleInv
<1>2. CASE Next
<2>1. HeldNow' /\ env' = env
  BY <1>1, <1>2, SinceStep, EnvKept
<2>2. CASE env.faults
  BY <1>1, <2>1, <2>2 DEF StaleInv
<2>3. CASE ~env.faults
<3>1. MissingIsEmpty' /\ AdmittedFine'
  BY <1>1, <1>2, <2>3, MissingStep, AdmittedStep DEF StaleInv
<3>2. changes \in Nat /\ changes' \in Nat /\ changes <= changes'
<4>1. changes' = changes \/ changes' = changes + 1
<5>1. \A p \in Slot : (Checked(p) \/ Commit(p) \/ AddAuditLog(p)) => changes' = changes
  BY DEF Checked, Commit, AddAuditLog
<5>2. \A p \in Slot : Changed(p) => changes' = changes + 1
  BY DEF Changed
<5>3. \A p \in Slot, u \in User : Clear(p, u) => changes' = changes
  BY DEF Clear
<5> QED
  BY <1>1, <1>2, <5>1, <5>2, <5>3, StepKinds DEF TInv, Tick, SeedRbac
<4> QED
  BY <1>1, <4>1, Parts DEF TInv
<3>3. ASSUME NEW u \in User
      PROVE  \E C \in SUBSET (1 .. changes'), e \in Nat : Aged(u, C, e)'
<4>1. PICK C \in SUBSET (1 .. changes) : \E e \in Nat : Aged(u, C, e)'
  BY <1>1, <1>2, <2>3, AgedStep
<4>2. C \in SUBSET (1 .. changes')
  BY <3>2
<4> QED
  BY <4>1, <4>2
<3> QED
  BY <1>1, <2>1, <3>1, <3>3 DEF StaleInv
<2> QED
  BY <2>2, <2>3
<1>3. CASE UNCHANGED vars
  BY <1>1, <1>3 DEF vars, StaleInv, HeldNow, Held, HeldIn, GetMenusByUserId, MissingIsEmpty,
     AdmittedFine, At, MaxStale, Aged, KeyFine, RequestFine, Pending, Carrying, Handed, Slack
<1> QED
  BY <1>2, <1>3

LEMMA InitStaleInv == Init => StaleInv
<1> SUFFICES ASSUME Init PROVE StaleInv
  OBVIOUS
<1>1. TInv /\ Numbered
  BY InitTInv, InitNumbered
<1>2. HeldNow
<2>1. \A u \in User : Held(u) \subseteq Permission
  BY <1>1, HeldType, Parts DEF Held, TInv
<2> QED
  BY <2>1 DEF Init, HeldNow
<1>3. \A u \in User : key[u].ttl = 0 /\ key[u].perms = {}
  BY DEF Init, NoKey
<1>4. \A q \in Slot : slot[q].stage = "idle"
  BY DEF Init, Idle
<1>5. MissingIsEmpty /\ AdmittedFine
  BY <1>3, <1>4 DEF MissingIsEmpty, AdmittedFine, At
<1>6. \A u \in User : Aged(u, {}, 0)
  BY <1>3, <1>4, EmptyHanded DEF Aged, KeyFine
<1> QED
  BY <1>1, <1>2, <1>5, <1>6 DEF StaleInv

\* Unless Redis, the database or a process fails, a permission that was taken
\* away stays in the key of a user no longer than MaxStale and admits no
\* request later than one request after that, whatever checks, fills, stores
\* of the gateway and clears overlap.
THEOREM RevocationsTakeEffect == Spec => []StalenessIsBounded
<1>1. Init => StaleInv
  BY InitStaleInv
<1>2. StaleInv /\ [Next]_vars => StaleInv'
  BY StaleStep
<1>3. StaleInv => StalenessIsBounded
<2> SUFFICES ASSUME StaleInv, ~env.faults PROVE StalenessIsBounded
  BY DEF StalenessIsBounded
<2>1. \A u \in User : \A x \in key[u].perms : since[u][x] <= MaxStale
  BY KeyBound
<2>2. ASSUME NEW p \in Slot, At(p, "admitted"), NEW x \in slot[p].perms
      PROVE  since[slot[p].user][x] <= MaxStale + Patience
<3>1. slot[p].age \in 0 .. Patience /\ slot[p].user \in User /\ x \in Permission
<4>1. slot[p] \in Check
  BY <2>2, Kinds DEF StaleInv, TInv, CheckStage, At
<4> QED
  BY <2>2, <4>1 DEF Check
<3>2. since[slot[p].user][x] <= MaxStale + slot[p].age
  BY <2>2 DEF StaleInv, AdmittedFine
<3>3. MaxStale \in Nat /\ since[slot[p].user][x] \in Nat
  BY <3>1, EnvTypes, SinceTypes DEF StaleInv, TInv
<3> QED
  BY <3>1, <3>2, <3>3
<2> QED
  BY <2>1, <2>2 DEF StalenessIsBounded
<1> QED
  BY <1>1, <1>2, <1>3, PTL DEF Spec

-----------------------------------------------------------------------------
(* Requests one by one.                                                    *)

Serial == ~env.overlap /\ ~env.faults /\ env.calls \subseteq Clearing

OneAtATime == \A p, q \in Slot : At(p, "idle") \/ At(q, "idle") \/ p = q

\* What is on its way to a key is what the user holds.
CarriesHeld(r) == r.stage \in {"fill", "store"} => r.perms = Held(r.user)
ListsRight(r) == r.stage = "commit" => RightList(r)

SerialInv ==
  /\ TInv
  /\ Serial =>
       /\ OneAtATime /\ NextRequestReflects
       /\ \A p \in Slot : CarriesHeld(slot[p]) /\ ListsRight(slot[p])

LEMMA BoundSpares ==
  ASSUME db \in Tables, NEW r \in Role, NEW S \in SUBSET Permission,
         NEW d, d = [db EXCEPT !.bound[r] = S]
  PROVE  Spares(d, GetUserIdsByRole(r))
<1>1. d \in Tables
  BY Writes
<1>2. /\ d.gone = db.gone /\ d.admin = db.admin /\ d.assigned = db.assigned
      /\ \A q \in Role \ {r} : d.bound[q] = db.bound[q]
  BY DEF Tables
<1>3. ASSUME NEW v \in User \ GetUserIdsByRole(r)
      PROVE  HeldIn(d, v) = Held(v)
<2>1. r \notin db.assigned[v] /\ db.assigned[v] \subseteq Role
  BY DEF GetUserIdsByRole, Tables
<2>2. \A q \in db.assigned[v] : d.bound[q] = db.bound[q]
  BY <1>2, <2>1
<2>3. GetMenusByUserId(d, v) = GetMenusByUserId(db, v)
  BY <1>2, <2>2 DEF GetMenusByUserId
<2> QED
  BY <1>2, <2>3 DEF Held, HeldIn
<1> QED
  BY <1>1, <1>3 DEF Spares

\* A replacement changes what the users on its list hold, and no others.
LEMMA ReplacedSpares ==
  ASSUME TInv, NEW p \in Slot, Commit(p), RightList(slot[p])
  PROVE  Spares(db', slot[p].todo)
<1> DEFINE c == slot[p]
<1>1. c \in Change /\ db' = Replaced(c.subject, c.seen, c.new) /\ db \in Tables /\ Fits(c)
  BY CommitEffect, Parts DEF TInv, NewFits, Commit
<1>2. PICK d : d = db'
  OBVIOUS
<1>3. CASE c.subject \in User
<2>1. d = [db EXCEPT !.assigned[c.subject] = (db.assigned[c.subject] \ c.seen) \cup c.new]
  BY <1>1, <1>2, <1>3 DEF Replaced, Tables
<2>2. (db.assigned[c.subject] \ c.seen) \cup c.new \in SUBSET Role
  BY <1>1, <1>3 DEF Fits, Tables
<2>3. c.todo = {c.subject}
  BY <1>3 DEF RightList
<2> HIDE DEF c
<2>4. Spares(d, {c.subject})
  BY <1>1, <1>3, <2>1, <2>2, AssignedSpares
<2> QED
  BY <1>2, <2>3, <2>4 DEF c
<1>4. CASE c.subject \notin User
<2>0. c.subject \in Role
  BY <1>1, <1>4 DEF Change
<2>1. d = [db EXCEPT !.bound[c.subject] = (db.bound[c.subject] \ c.seen) \cup c.new]
  BY <1>1, <1>2, <1>4, <2>0 DEF Replaced, Tables
<2>2. (db.bound[c.subject] \ c.seen) \cup c.new \in SUBSET Permission
  BY <1>1, <1>4, <2>0 DEF Fits, Tables
<2>3. c.todo = GetUserIdsByRole(c.subject)
  BY <1>4 DEF RightList
<2> HIDE DEF c
<2>4. Spares(d, GetUserIdsByRole(c.subject))
  BY <1>1, <2>0, <2>1, <2>2, BoundSpares
<2> QED
  BY <1>2, <2>3, <2>4 DEF c
<1> QED
  BY <1>3, <1>4

\* The slot of one request changes, when no other is in progress or all are
\* idle.
LEMMA OneStays ==
  ASSUME TInv, OneAtATime, NEW p \in Slot, NEW r, slot' = [slot EXCEPT ![p] = r],
         ~At(p, "idle") \/ \A q \in Slot : At(q, "idle")
  PROVE  /\ OneAtATime' /\ slot'[p] = r
         /\ \A q \in Slot \ {p} : At(q, "idle") /\ slot'[q] = Idle
<1>1. slot'[p] = r /\ \A q \in Slot \ {p} : slot'[q] = slot[q]
  BY CheckedSlot DEF TInv
<1>2. \A q \in Slot \ {p} : At(q, "idle") /\ slot[q] = Idle
  BY Kinds DEF OneAtATime, TInv
<1> QED
  BY <1>1, <1>2 DEF OneAtATime, At, Idle

\* The key of a user is missing or right, or is about to be cleared.
KeyReflects(u) ==
  \/ key[u].ttl = 0 \/ key[u].perms = Held(u)
  \/ \E p \in Slot : At(p, "clear") /\ u \in slot[p].todo

LEMMA TablesStay == ASSUME db' = db PROVE \A u : Held(u)' = Held(u)
  BY DEF Held, HeldIn, GetMenusByUserId

LEMMA TickSerial ==
  ASSUME SerialInv, Serial, Tick
  PROVE  /\ OneAtATime' /\ NextRequestReflects'
         /\ \A p \in Slot : CarriesHeld(slot[p])' /\ ListsRight(slot[p])'
<1>0. /\ TypeOK /\ key \in Keys /\ db' = db /\ OneAtATime /\ NextRequestReflects
      /\ \A q \in Slot : slot[q] \in Request /\ CarriesHeld(slot[q]) /\ ListsRight(slot[q])
  BY Parts DEF SerialInv, TInv, Tick
<1>1. ASSUME NEW q \in Slot
      PROVE  /\ slot'[q].stage = slot[q].stage
             /\ slot[q].stage \in CheckStage => slot'[q].user = slot[q].user /\ slot'[q].perms = slot[q].perms
             /\ slot[q].stage \in ChangeStage => slot'[q].subject = slot[q].subject /\ slot'[q].todo = slot[q].todo
  BY <1>0, TickEffect, RequestKinds DEF Request, At, CheckStage, ChangeStage, Idle
<1>2. OneAtATime'
  BY <1>0, <1>1 DEF OneAtATime, At
<1>3. ASSUME NEW q \in Slot
      PROVE  CarriesHeld(slot[q])' /\ ListsRight(slot[q])'
<2>1. CarriesHeld(slot[q]) /\ ListsRight(slot[q])
  BY <1>0
<2>2. CarriesHeld(slot[q])'
  BY <1>0, <1>1, <2>1, TablesStay DEF CarriesHeld, CheckStage
<2>3. \A r : GetUserIdsByRole(r)' = GetUserIdsByRole(r)
  BY <1>0 DEF GetUserIdsByRole
<2>4. ListsRight(slot[q])'
  BY <1>1, <2>1, <2>3 DEF ListsRight, RightList, ChangeStage
<2> QED
  BY <2>2, <2>4
<1>4. ASSUME NEW u \in User
      PROVE  KeyReflects(u)'
<2>1. KeyReflects(u)
  BY <1>0 DEF NextRequestReflects, KeyReflects
<2>2. key'[u].ttl = 0 \/ (key'[u].perms = key[u].perms /\ key[u].ttl # 0)
  BY <1>0 DEF Tick, NoKey, Keys
<2>3. ASSUME NEW p \in Slot, At(p, "clear"), u \in slot[p].todo
      PROVE  KeyReflects(u)'
  BY <1>1, <2>3 DEF KeyReflects, At, ChangeStage
<2>4. CASE key[u].ttl = 0 \/ key[u].perms = Held(u)
  BY <1>0, <2>2, <2>4, TablesStay DEF KeyReflects
<2> QED
  BY <2>1, <2>3, <2>4 DEF KeyReflects
<1> QED
  BY <1>2, <1>3, <1>4 DEF NextRequestReflects, KeyReflects

LEMMA CheckedSerial ==
  ASSUME SerialInv, Serial, NEW p \in Slot, Checked(p)
  PROVE  /\ OneAtATime' /\ NextRequestReflects'
         /\ \A q \in Slot : CarriesHeld(slot[q])' /\ ListsRight(slot[q])'
<1>0. /\ TInv /\ TypeOK /\ key \in Keys /\ OneAtATime /\ NextRequestReflects
      /\ \A q \in Slot : slot[q] \in Request /\ CarriesHeld(slot[q]) /\ ListsRight(slot[q])
  BY Parts DEF SerialInv, TInv
<1>1. PICK r \in Check \cup {Idle} :
        /\ slot' = [slot EXCEPT ![p] = r]
        /\ UNCHANGED <<env, db, changes, since, trail>>
        /\ (Moves(p, r) /\ UNCHANGED key) \/ Sets(p, r)
  BY DEF Checked
<1>2. \/ slot[p].stage \in CheckStage
      \/ At(p, "idle") /\ \A q \in Slot : At(q, "idle")
  BY <1>1 DEF Moves, Sets, Serial, CheckStage, At
<1>3. /\ OneAtATime' /\ slot'[p] = r
      /\ \A q \in Slot \ {p} : At(q, "idle") /\ slot'[q] = Idle
  BY <1>0, <1>1, <1>2, OneStays DEF CheckStage, At
<1>4. \A q \in Slot : ~At(q, "clear")
  BY <1>2, <1>3 DEF At, CheckStage
<1>5. \A u \in User : key[u].ttl = 0 \/ key[u].perms = Held(u)
  BY <1>0, <1>4 DEF NextRequestReflects
<1>6. \A u : Held(u)' = Held(u)
  BY <1>1, TablesStay
<1>7. r.stage \in CheckStage \cup {"idle"} /\ Idle.stage = "idle"
  BY DEF Check, Idle, CheckStage
<1>8. CarriesHeld(r)
<2>1. CASE Moves(p, r)
<3>1. CASE /\ r.stage = "store" /\ Keeps(p, r) /\ At(p, "fetch") /\ slot[p].leg = "gateway"
           /\ Hit(r.user) /\ r.perms = key[r.user].perms
<4>1. r.user \in User
  BY <3>1 DEF Check, Idle
<4> QED
  BY <1>5, <3>1, <4>1 DEF Hit, CarriesHeld
<3>2. CASE r.stage = "fill" /\ Keeps(p, r) /\ At(p, "read") /\ r.perms = Held(r.user)
  BY <3>2 DEF CarriesHeld
<3>3. CASE /\ r.stage \in {"read", "fill"} /\ r.stage = slot[p].stage
           /\ Keeps(p, r) /\ r.perms = slot[p].perms
<4>1. CarriesHeld(slot[p])
  BY <1>0
<4> QED
  BY <3>3, <4>1 DEF CarriesHeld, Keeps
<3>4. CASE r = Idle \/ r.stage \in {"fetch", "service", "admitted", "read"}
  BY <1>7, <3>4 DEF CarriesHeld
<3> QED
  BY <2>1, <3>1, <3>2, <3>3, <3>4 DEF Moves
<2>2. CASE Sets(p, r)
<3>1. CarriesHeld(slot[p])
  BY <1>0
<3>2. CASE r = Idle \/ r.stage \in {"service", "admitted"}
  BY <1>7, <3>2 DEF CarriesHeld
<3>3. CASE r.stage = "store" /\ Keeps(p, r) /\ r.perms = slot[p].perms
  BY <2>2, <3>1, <3>3 DEF CarriesHeld, Keeps, Sets
<3> QED
  BY <2>2, <3>2, <3>3 DEF Sets
<2> QED
  BY <1>1, <2>1, <2>2
<1>9. ASSUME NEW q \in Slot
      PROVE  CarriesHeld(slot[q])' /\ ListsRight(slot[q])'
<2>1. CASE q = p
  BY <1>3, <1>6, <1>7, <1>8, <2>1 DEF CarriesHeld, ListsRight, CheckStage
<2>2. CASE q # p
  BY <1>3, <1>7, <2>2 DEF CarriesHeld, ListsRight
<2> QED
  BY <2>1, <2>2
<1>10. ASSUME NEW u \in User
       PROVE  key'[u].ttl = 0 \/ key'[u].perms = Held(u)
<2>1. CASE key'[u] = key[u]
  BY <1>5, <2>1
<2>2. CASE Sets(p, r) /\ u = slot[p].user
<3>1. key'[u].perms = slot[p].perms
  BY <1>0, <2>2 DEF Sets, SetPermissions, Serial, Keys
<3>2. CarriesHeld(slot[p])
  BY <1>0
<3> QED
  BY <2>2, <3>1, <3>2 DEF CarriesHeld, Sets
<2>3. CASE Sets(p, r) /\ u # slot[p].user
<3>1. key'[u] = key[u]
  BY <1>0, <2>3 DEF Sets, SetPermissions, Keys
<3> QED
  BY <2>1, <3>1
<2> QED
  BY <1>1, <2>1, <2>2, <2>3
<1>11. NextRequestReflects'
  BY <1>6, <1>10 DEF NextRequestReflects
<1> QED
  BY <1>3, <1>9, <1>11

LEMMA ChangedSerial ==
  ASSUME SerialInv, Serial, NEW p \in Slot, Changed(p)
  PROVE  /\ OneAtATime' /\ NextRequestReflects'
         /\ \A q \in Slot : CarriesHeld(slot[q])' /\ ListsRight(slot[q])'
<1>0. /\ TInv /\ TypeOK /\ key \in Keys /\ OneAtATime /\ NextRequestReflects
  BY Parts DEF SerialInv, TInv
<1>1. PICK r \in Change \cup {Idle} :
    /\ slot' = [slot EXCEPT ![p] = r] /\ At(p, "admitted")
    /\ changes < env.limit /\ changes' = changes + 1 /\ UNCHANGED <<env, key>>
    /\ r # Idle => r.id = changes + 1
    /\ (\E d : Commits(r, d) \/ CommitsPlainly(r, d)) \/ Replaces(r)
  BY DEF Changed
<1>2. /\ OneAtATime' /\ slot'[p] = r
      /\ \A q \in Slot \ {p} : At(q, "idle") /\ slot'[q] = Idle
  BY <1>0, <1>1, OneStays DEF At
<1>3. \A u \in User : key[u].ttl = 0 \/ key[u].perms = Held(u)
  BY <1>0, <1>1, <1>2 DEF NextRequestReflects, At
<1>4. Idle.stage = "idle" /\ ~(r.stage \in {"fill", "store"})
  BY DEF Idle, Change
<1>5. ASSUME NEW q \in Slot, slot'[q].stage = "commit" => RightList(r)'
      PROVE  CarriesHeld(slot[q])' /\ ListsRight(slot[q])'
<2>1. slot'[q] = r \/ slot'[q] = Idle
  BY <1>2
<2> QED
  BY <1>4, <1>5, <2>1 DEF CarriesHeld, ListsRight, RightList
<1>6. CASE Replaces(r)
<2>1. \A u : Held(u)' = Held(u)
  BY <1>6, TablesStay DEF Replaces
<2>2. RightList(r)'
  BY <1>6 DEF Replaces, RightList, GetUserIdsByRole
<2>3. NextRequestReflects'
  BY <1>1, <1>3, <2>1 DEF NextRequestReflects
<2> QED
  BY <1>2, <1>5, <2>2, <2>3
<1>7. ASSUME NEW d, Commits(r, d)
      PROVE  /\ OneAtATime' /\ NextRequestReflects'
             /\ \A q \in Slot : CarriesHeld(slot[q])' /\ ListsRight(slot[q])'
<2>1. r.stage = "clear" /\ Spares(d, r.todo) /\ db' = d
  BY <1>7 DEF Commits, Become
<2>2. ASSUME NEW u \in User
      PROVE  KeyReflects(u)'
<3>1. CASE u \in r.todo
  BY <1>2, <2>1, <3>1 DEF KeyReflects, At
<3>2. CASE u \notin r.todo
<4>1. Held(u)' = Held(u)
  BY <2>1, <3>2 DEF Spares, Held
<4> QED
  BY <1>1, <1>3, <4>1 DEF KeyReflects
<3> QED
  BY <3>1, <3>2
<2>3. NextRequestReflects'
  BY <2>2 DEF NextRequestReflects, KeyReflects
<2>4. \A q \in Slot : slot'[q].stage # "commit"
  BY <1>2, <1>4, <2>1
<2> QED
  BY <1>2, <1>5, <2>3, <2>4
<1> QED
  BY <1>1, <1>6, <1>7 DEF CommitsPlainly, Serial

LEMMA CommitSerial ==
  ASSUME SerialInv, Serial, NEW p \in Slot, Commit(p)
  PROVE  /\ OneAtATime' /\ NextRequestReflects'
         /\ \A q \in Slot : CarriesHeld(slot[q])' /\ ListsRight(slot[q])'
<1>0. TInv /\ TypeOK /\ OneAtATime /\ NextRequestReflects /\ ListsRight(slot[p])
  BY DEF SerialInv, TInv
<1>1. /\ slot[p].stage = "commit" /\ slot'[p].stage = "clear" /\ slot'[p].todo = slot[p].todo
      /\ \A q \in Slot \ {p} : Alike(slot[q], slot'[q])
      /\ key' = key
  BY <1>0, CommitEffect DEF Commit
<1>2. \A q \in Slot \ {p} : slot[q] = Idle /\ slot'[q] = Idle
<2>1. \A q \in Slot \ {p} : slot[q] = Idle
  BY <1>0, <1>1, Kinds DEF OneAtATime, At
<2> QED
  BY <1>1, <2>1, NotChange DEF Alike
<1>3. Idle.stage = "idle"
  BY DEF Idle
<1>4. Spares(db', slot[p].todo)
  BY <1>0, <1>1, ReplacedSpares DEF ListsRight
<1>5. \A u \in User : key[u].ttl = 0 \/ key[u].perms = Held(u)
  BY <1>0, <1>1, <1>2, <1>3 DEF NextRequestReflects, At
<1>6. ASSUME NEW u \in User
      PROVE  KeyReflects(u)'
<2>1. CASE u \in slot[p].todo
  BY <1>1, <2>1 DEF KeyReflects, At
<2>2. CASE u \notin slot[p].todo
<3>1. Held(u)' = Held(u)
  BY <1>4, <2>2 DEF Spares, Held, HeldIn, GetMenusByUserId
<3> QED
  BY <1>1, <1>5, <3>1 DEF KeyReflects
<2> QED
  BY <2>1, <2>2
<1>7. NextRequestReflects'
  BY <1>6 DEF NextRequestReflects, KeyReflects
<1>8. OneAtATime'
  BY <1>2, <1>3 DEF OneAtATime, At
<1>9. \A q \in Slot : CarriesHeld(slot[q])' /\ ListsRight(slot[q])'
  BY <1>1, <1>2, <1>3 DEF CarriesHeld, ListsRight
<1> QED
  BY <1>7, <1>8, <1>9

LEMMA ClearSerial ==
  ASSUME SerialInv, Serial, NEW p \in Slot, NEW v \in User, Clear(p, v)
  PROVE  /\ OneAtATime' /\ NextRequestReflects'
         /\ \A q \in Slot : CarriesHeld(slot[q])' /\ ListsRight(slot[q])'
<1>0. TInv /\ TypeOK /\ key \in Keys /\ OneAtATime /\ NextRequestReflects
  BY Parts DEF SerialInv, TInv
<1>1. PICK r \in Change :
        /\ slot[p].stage = "clear" /\ slot' = [slot EXCEPT ![p] = r] /\ r.stage = "clear"
        /\ r.todo = slot[p].todo \ {v}
  BY <1>0, ClearEffect
<1>2. /\ OneAtATime' /\ slot'[p] = r
      /\ \A q \in Slot \ {p} : At(q, "idle") /\ slot'[q] = Idle
  BY <1>0, <1>1, OneStays DEF At
<1>3. Idle.stage = "idle"
  BY DEF Idle
<1>4. key' = [key EXCEPT ![v] = NoKey] /\ db' = db
  BY DEF Clear, DeletePermissions, Serial
<1>5. ASSUME NEW u \in User
      PROVE  KeyReflects(u)'
<2>1. CASE u = v
  BY <1>0, <1>4, <2>1 DEF KeyReflects, NoKey, Keys
<2>2. CASE u # v
<3>1. key'[u] = key[u] /\ Held(u)' = Held(u)
  BY <1>0, <1>4, <2>2, TablesStay DEF Keys
<3>2. KeyReflects(u)
  BY <1>0 DEF NextRequestReflects, KeyReflects
<3>3. CASE \E q \in Slot : At(q, "clear") /\ u \in slot[q].todo
<4>1. u \in slot[p].todo
  BY <1>2, <3>3 DEF At
<4> QED
  BY <1>1, <1>2, <2>2, <4>1 DEF KeyReflects, At
<3> QED
  BY <3>1, <3>2, <3>3 DEF KeyReflects
<2> QED
  BY <2>1, <2>2
<1>6. NextRequestReflects'
  BY <1>5 DEF NextRequestReflects, KeyReflects
<1>7. \A q \in Slot : CarriesHeld(slot[q])' /\ ListsRight(slot[q])'
  BY <1>1, <1>2, <1>3 DEF CarriesHeld, ListsRight
<1> QED
  BY <1>2, <1>6, <1>7

LEMMA AddAuditLogSerial ==
  ASSUME SerialInv, Serial, NEW p \in Slot, AddAuditLog(p)
  PROVE  /\ OneAtATime' /\ NextRequestReflects'
         /\ \A q \in Slot : CarriesHeld(slot[q])' /\ ListsRight(slot[q])'
<1>0. TInv /\ OneAtATime /\ NextRequestReflects
  BY DEF SerialInv
<1>1. /\ At(p, "clear") /\ slot[p].todo = {} /\ slot' = [slot EXCEPT ![p] = Idle]
      /\ UNCHANGED <<db, key>>
  BY DEF AddAuditLog, End
<1>2. /\ OneAtATime' /\ slot'[p] = Idle
      /\ \A q \in Slot \ {p} : At(q, "idle") /\ slot'[q] = Idle
  BY <1>0, <1>1, OneStays DEF At
<1>3. Idle.stage = "idle"
  BY DEF Idle
<1>4. \A u \in User : key[u].ttl = 0 \/ key[u].perms = Held(u)
  BY <1>0, <1>1, <1>2 DEF NextRequestReflects, At
<1>5. NextRequestReflects'
  BY <1>1, <1>4, TablesStay DEF NextRequestReflects
<1>6. \A q \in Slot : CarriesHeld(slot[q])' /\ ListsRight(slot[q])'
  BY <1>2, <1>3 DEF CarriesHeld, ListsRight
<1> QED
  BY <1>2, <1>5, <1>6

LEMMA SerialStep == SerialInv /\ [Next]_vars => SerialInv'
<1> SUFFICES ASSUME SerialInv, [Next]_vars PROVE SerialInv'
  OBVIOUS
<1>1. TInv /\ TInv'
  BY TInvStep DEF SerialInv
<1>2. CASE UNCHANGED vars
<2>1. UNCHANGED <<env, db, key, slot>>
  BY <1>2 DEF vars
<2>2. Serial' <=> Serial
  BY <2>1 DEF Serial
<2>3. \A u : Held(u)' = Held(u)
  BY <2>1 DEF Held
<2>4. OneAtATime' <=> OneAtATime
  BY <2>1 DEF OneAtATime, At
<2>5. NextRequestReflects' <=> NextRequestReflects
  BY <2>1, <2>3 DEF NextRequestReflects, At
<2>6. \A q \in Slot : /\ CarriesHeld(slot[q])' <=> CarriesHeld(slot[q])
                     /\ ListsRight(slot[q])' <=> ListsRight(slot[q])
  BY <2>1, <2>3 DEF CarriesHeld, ListsRight, RightList, GetUserIdsByRole
<2> QED
  BY <1>1, <2>2, <2>4, <2>5, <2>6 DEF SerialInv
<1>3. CASE Next
<2>1. Serial' <=> Serial
  BY <1>1, <1>3, EnvKept DEF Serial
<2>2. Serial => ~SeedRbac
  BY DEF Serial, SeedRbac, Clearing
<2> QED
  BY <1>1, <1>3, <2>1, <2>2, StepKinds, TickSerial, CheckedSerial, ChangedSerial, CommitSerial,
     ClearSerial, AddAuditLogSerial DEF SerialInv, TInv
<1> QED
  BY <1>2, <1>3

\* When requests come one by one and nothing fails, the next request sees what
\* assign_role, update_user_roles, remove_role and update_role_permissions
\* changed: when a change is answered every key is missing or right, also of
\* the users of a role, whom the change listed before its commit.
THEOREM OneByOneReflects == Spec => []SerialRequestsReflect
<1>1. Init => SerialInv
<2> SUFFICES ASSUME Init PROVE SerialInv
  OBVIOUS
<2>1. \A q \in Slot : slot[q] = Idle /\ Idle.stage = "idle"
  BY DEF Init, Idle
<2>2. \A u \in User : key[u].ttl = 0
  BY DEF Init, NoKey
<2> QED
  BY <2>1, <2>2, InitTInv DEF SerialInv, OneAtATime, NextRequestReflects, CarriesHeld, ListsRight, At
<1>2. SerialInv /\ [Next]_vars => SerialInv'
  BY SerialStep
<1>3. SerialInv => SerialRequestsReflect
  BY DEF SerialInv, SerialRequestsReflect, Serial
<1> QED
  BY <1>1, <1>2, <1>3, PTL DEF Spec

=============================================================================
