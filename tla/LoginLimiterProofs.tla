------------------------ MODULE LoginLimiterProofs ------------------------
(***************************************************************************)
(* The bound on failed logins, the end of a lock and the time the failures *)
(* of an address take, for any number of logins that run side by side and  *)
(* all limits and times.                                                   *)
(***************************************************************************)
EXTENDS LoginLimiter, FiniteSetTheorems, TLAPS

USE KeyAssumption, LimitAssumption, SlotAssumption

-----------------------------------------------------------------------------
(* Type correctness.                                                       *)

LEMMA AttemptKinds ==
  ASSUME TypeOK, NEW p \in Slot
  PROVE  /\ At(p, "verify") => /\ attempt[p] \in Verifying
                               /\ attempt[p].username \in Username
                               /\ attempt[p].address \in Address
         /\ At(p, "expire") => /\ attempt[p] \in Counted
                               /\ attempt[p].results \in [Key -> Nat]
  BY DEF TypeOK, At, Idle, Verifying, Counted

LEMMA AnswerTypes ==
  ASSUME TypeOK, NEW p \in Slot, Answer(p)
  PROVE  attempt' \in [Slot -> {Idle} \cup Verifying \cup Counted]
  BY DEF TypeOK, Answer

\* What is stored for a key, a counter or nothing.
LEMMA CounterFields ==
  ASSUME TypeOK
  PROVE  counter \in [Key -> [count : Nat, expires : Nat]]
<1>1. \A k \in Key : counter[k] \in [count : Nat, expires : Nat]
  BY DEF TypeOK, Counter, Missing, Never
<1> QED
  BY <1>1 DEF TypeOK

LEMMA IncrementedType ==
  ASSUME TypeOK, NEW k \in Key
  PROVE  Incremented(k) \in Counter
<1>1. counter[k] \in [count : Nat, expires : Nat]
  BY CounterFields
<1>2. [counter[k] EXCEPT !.count = @ + 1] \in Counter
  BY <1>1 DEF Counter
<1>3. [count |-> 1, expires |-> Never] \in Counter
  BY DEF Counter, Never
<1> QED
  BY <1>2, <1>3 DEF Incremented

LEMMA ExpiryType ==
  ASSUME TypeOK, NEW k \in Key, NEW result \in Nat
  PROVE  Expiry(k, result) \in Nat
  BY CounterFields DEF TypeOK, Expiry

LEMMA InitTypeOK == Init => TypeOK
  BY DEF Init, TypeOK, Missing, Never

LEMMA TypeOKStep == TypeOK /\ [Next]_vars => TypeOK'
<1> SUFFICES ASSUME TypeOK, [Next]_vars PROVE TypeOK'
  OBVIOUS
<1>1. ASSUME NEW p \in Slot, NEW u \in Username, NEW a \in Address, Check(p, u, a)
      PROVE  TypeOK'
<2>1. [step |-> "verify", username |-> u, address |-> a] \in Verifying
  BY DEF Verifying
<2> QED
  BY <1>1, <2>1 DEF Check, TypeOK
<1>2. ASSUME NEW p \in Slot, RecordFailure(p) PROVE TypeOK'
<2> DEFINE keys == {attempt[p].username, attempt[p].address}
           counted == [k \in Key |-> IF k \in keys THEN Incremented(k) ELSE counter[k]]
           results == [k \in Key |-> IF k \in keys THEN counted[k].count ELSE 0]
<2>1. counted \in [Key -> Counter \cup {Missing}]
  BY IncrementedType DEF TypeOK
<2>2. results \in [Key -> Nat]
  BY <2>1 DEF Counter, Missing
<2>3. [step |-> "expire", results |-> results] \in Counted
  BY <2>2 DEF Counted
<2>4. attempt' \in [Slot -> {Idle} \cup Verifying \cup Counted]
  BY <1>2, <2>3 DEF RecordFailure, TypeOK
<2>5. failures' \in [Key -> Seq(Nat)]
<3>1. \A k \in Key : Append(failures[k], clock) \in Seq(Nat)
<4>1. \A k \in Key : failures[k] \in Seq(Nat)
  BY DEF TypeOK
<4> QED
  BY <4>1 DEF TypeOK
<3> QED
  BY <1>2, <3>1 DEF RecordFailure, TypeOK
<2> QED
  BY <1>2, <2>1, <2>4, <2>5 DEF RecordFailure, TypeOK
<1>3. ASSUME NEW p \in Slot, Expire(p) PROVE TypeOK'
<2>1. ASSUME NEW k \in Key, Fails(k) > 0
      PROVE [counter[k] EXCEPT !.expires = Expiry(k, attempt[p].results[k])] \in Counter
<3>1. attempt[p].results[k] \in Nat
  BY <1>3, AttemptKinds DEF Expire
<3>2. Expiry(k, attempt[p].results[k]) \in Nat
  BY <3>1, ExpiryType
<3>3. counter[k] \in Counter
  BY <2>1 DEF TypeOK, Fails, Missing
<3> QED
  BY <3>2, <3>3 DEF Counter
<2>2. counter' \in [Key -> Counter \cup {Missing}]
  BY <1>3, <2>1 DEF Expire, TypeOK
<2> QED
  BY <1>3, <2>2, AnswerTypes DEF Expire, TypeOK
<1>4. ASSUME NEW p \in Slot, Succeed(p) PROVE TypeOK'
<2>1. attempt[p].username \in Key
  BY <1>4, AttemptKinds DEF Succeed, Key
<2>2. counter' \in [Key -> Counter \cup {Missing}]
  BY <1>4 DEF Succeed, TypeOK
<2>3. failures' \in [Key -> Seq(Nat)]
  BY <1>4, <2>1 DEF Succeed, TypeOK
<2> QED
  BY <1>4, <2>2, <2>3, AnswerTypes DEF Succeed, TypeOK
<1>5. ASSUME NEW p \in Slot, Die(p) PROVE TypeOK'
  BY <1>5, AnswerTypes DEF Die, TypeOK
<1>6. ASSUME Tick PROVE TypeOK'
  BY <1>6 DEF Tick, TypeOK
<1>7. ASSUME UNCHANGED vars PROVE TypeOK'
  BY <1>7 DEF vars, TypeOK
<1> QED
  BY <1>1, <1>2, <1>3, <1>4, <1>5, <1>6, <1>7 DEF Next, Refuse

-----------------------------------------------------------------------------
(* The inductive invariant.                                                *)

\* The logins past check_limits that may yet count a failure of k.
Pending(k) ==
  {p \in Slot : At(p, "verify") /\ k \in {attempt[p].username, attempt[p].address}}

\* Each of them has its place in what a blocked counter can still come to.
RoomForPending(k) ==
  Fails(k) >= Limit(k) => Fails(k) + Cardinality(Pending(k)) <= Worst(k)

IInv == TypeOK /\ \A k \in Key : RoomForPending(k)

LEMMA Numbers ==
  ASSUME TypeOK, NEW k \in Key
  PROVE  /\ Fails(k) \in Nat /\ Limit(k) \in Nat \ {0} /\ Worst(k) \in Nat
         /\ Cardinality(Slot) \in Nat
  BY FS_CardinalityType, CounterFields DEF TypeOK, Fails, Limit, Worst

LEMMA PendingSize ==
  ASSUME NEW S, S \subseteq Slot, NEW T, T \subseteq S
  PROVE  /\ IsFiniteSet(S) /\ Cardinality(S) \in Nat /\ Cardinality(T) \in Nat
         /\ Cardinality(T) <= Cardinality(S) /\ Cardinality(S) <= Cardinality(Slot)
<1>1. IsFiniteSet(S) /\ Cardinality(S) <= Cardinality(Slot)
  BY FS_Subset
<1>2. IsFiniteSet(T) /\ Cardinality(T) <= Cardinality(S)
  BY <1>1, FS_Subset
<1> QED
  BY <1>1, <1>2, FS_CardinalityType

\* Fewer failures, or fewer logins that may count one, leave the room.
LEMMA RoomKept ==
  ASSUME TypeOK, TypeOK', NEW k \in Key, RoomForPending(k),
         Fails(k)' = Fails(k) \/ Fails(k)' = 0, Pending(k)' \subseteq Pending(k)
  PROVE  RoomForPending(k)'
<1>1. /\ Cardinality(Pending(k)') \in Nat /\ Cardinality(Pending(k)) \in Nat
      /\ Cardinality(Pending(k)') <= Cardinality(Pending(k))
  BY PendingSize DEF Pending
<1>2. Limit(k) \in Nat \ {0} /\ Fails(k) \in Nat /\ Worst(k) \in Nat
  BY Numbers
<1>3. CASE Fails(k)' = 0
  BY <1>2, <1>3 DEF RoomForPending, Limit
<1>4. CASE Fails(k)' = Fails(k)
  BY <1>1, <1>2, <1>4 DEF RoomForPending, Limit, Worst
<1> QED
  BY <1>3, <1>4

\* A login that is answered, or counts its failure, is no longer pending.
LEMMA PendingShrinks ==
  ASSUME TypeOK, NEW p \in Slot, NEW k \in Key, NEW a, a.step # "verify",
         attempt' = [attempt EXCEPT ![p] = a]
  PROVE  Pending(k)' \subseteq Pending(k) \ {p}
  BY DEF Pending, At, TypeOK

LEMMA CheckRoom ==
  ASSUME IInv, TypeOK', NEW p \in Slot, NEW u \in Username, NEW a \in Address,
         Check(p, u, a), NEW k \in Key
  PROVE  RoomForPending(k)'
<1>1. Fails(k)' = Fails(k)
  BY DEF Check, Fails, Present
<1>2. CASE k \in {u, a}
  BY <1>1, <1>2, Numbers DEF Check, Blocked, RoomForPending, IInv, Limit
<1>3. CASE k \notin {u, a}
<2>1. Pending(k)' \subseteq Pending(k)
  BY <1>3 DEF Check, Pending, At, IInv, TypeOK
<2> QED
  BY <1>1, <2>1, RoomKept DEF IInv
<1> QED
  BY <1>2, <1>3

LEMMA RecordFailureRoom ==
  ASSUME IInv, TypeOK', NEW p \in Slot, RecordFailure(p), NEW k \in Key
  PROVE  RoomForPending(k)'
<1>0. TypeOK
  BY DEF IInv
<1>1. Pending(k)' \subseteq Pending(k) \ {p}
<2>1. PICK a : attempt' = [attempt EXCEPT ![p] = [step |-> "expire", results |-> a]]
  BY DEF RecordFailure
<2> QED
  BY <1>0, <2>1, PendingShrinks
<1>2. CASE k \notin {attempt[p].username, attempt[p].address}
<2>1. Fails(k)' = Fails(k)
  BY <1>0, <1>2 DEF RecordFailure, Fails, Present
<2> QED
  BY <1>0, <1>1, <2>1, RoomKept DEF IInv
<1>3. CASE k \in {attempt[p].username, attempt[p].address}
<2>1. Fails(k)' = Fails(k) + 1
<3>1. counter'[k] = Incremented(k) /\ clock' = clock
  BY <1>0, <1>3 DEF RecordFailure
<3>2. counter[k].count \in Nat /\ counter[k].expires \in Nat
  BY <1>0, CounterFields DEF TypeOK
<3>3. counter[k] \in [count : Nat, expires : Nat]
  BY <1>0, CounterFields DEF TypeOK
<3> QED
  BY <3>1, <3>2, <3>3 DEF Incremented, Fails, Present, Never
<2>2. p \in Pending(k)
  BY <1>3 DEF RecordFailure, Pending
<2>3. /\ Cardinality(Pending(k)') \in Nat /\ Cardinality(Pending(k)) \in Nat
      /\ Cardinality(Pending(k)') <= Cardinality(Pending(k)) - 1
      /\ Cardinality(Pending(k)) <= Cardinality(Slot)
<3>1. IsFiniteSet(Pending(k)) /\ Cardinality(Pending(k)) \in Nat
      /\ Cardinality(Pending(k)) <= Cardinality(Slot)
  BY PendingSize DEF Pending
<3>2. Cardinality(Pending(k) \ {p}) = Cardinality(Pending(k)) - 1
      /\ IsFiniteSet(Pending(k) \ {p})
  BY <2>2, <3>1, FS_RemoveElement
<3>3. IsFiniteSet(Pending(k)') /\ Cardinality(Pending(k)') <= Cardinality(Pending(k) \ {p})
  BY <1>1, <3>2, FS_Subset
<3> QED
  BY <3>1, <3>2, <3>3, FS_CardinalityType
<2>4. /\ Fails(k) \in Nat /\ Limit(k) \in Nat \ {0} /\ Worst(k) \in Nat
      /\ Worst(k) = Limit(k) - 1 + Cardinality(Slot) /\ Cardinality(Slot) \in Nat
  BY <1>0, Numbers DEF Worst
<2>5. Limit(k)' = Limit(k) /\ Worst(k)' = Worst(k)
  BY DEF Limit, Worst
<2>6. Fails(k) >= Limit(k) => Fails(k) + Cardinality(Pending(k)) <= Worst(k)
  BY DEF IInv, RoomForPending
<2> QED
  BY <2>1, <2>3, <2>4, <2>5, <2>6 DEF RoomForPending
<1> QED
  BY <1>2, <1>3

LEMMA ExpireRoom ==
  ASSUME IInv, TypeOK', NEW p \in Slot, Expire(p), NEW k \in Key
  PROVE  RoomForPending(k)'
<1>0. TypeOK
  BY DEF IInv
<1>1. Pending(k)' \subseteq Pending(k)
  BY <1>0, PendingShrinks DEF Expire, Answer, Idle
<1>2. Fails(k)' = Fails(k) \/ Fails(k)' = 0
<2>1. counter'[k].count = counter[k].count
  BY <1>0 DEF Expire, TypeOK
<2>2. CASE counter'[k] = counter[k]
  BY <2>2 DEF Expire, Fails, Present
<2>3. CASE counter'[k] # counter[k]
<3>1. Fails(k) > 0
  BY <2>3 DEF Expire
<3>2. Fails(k) = counter[k].count
  BY <3>1 DEF Fails
<3> QED
  BY <2>1, <3>2 DEF Fails
<2> QED
  BY <2>2, <2>3
<1> QED
  BY <1>0, <1>1, <1>2, RoomKept DEF IInv

LEMMA InitIInv == Init => IInv
<1> SUFFICES ASSUME Init PROVE IInv
  OBVIOUS
<1>1. ASSUME NEW k \in Key PROVE RoomForPending(k)
  BY <1>1 DEF Init, RoomForPending, Fails, Present, Missing, Limit
<1> QED
  BY <1>1, InitTypeOK DEF IInv

LEMMA IInvStep == IInv /\ [Next]_vars => IInv'
<1> SUFFICES ASSUME IInv, [Next]_vars PROVE IInv'
  OBVIOUS
<1>0. TypeOK /\ TypeOK'
  BY TypeOKStep DEF IInv
<1>1. ASSUME NEW k \in Key PROVE RoomForPending(k)'
<2>1. ASSUME NEW p \in Slot, Succeed(p) PROVE RoomForPending(k)'
<3>1. Pending(k)' \subseteq Pending(k)
  BY <1>0, <2>1, PendingShrinks DEF Succeed, Answer, Idle
<3>2. Fails(k)' = Fails(k) \/ Fails(k)' = 0
  BY <1>0, <2>1 DEF Succeed, Fails, Present, Missing, TypeOK
<3> QED
  BY <1>0, <3>1, <3>2, RoomKept DEF IInv
<2>2. ASSUME NEW p \in Slot, Die(p) PROVE RoomForPending(k)'
<3>1. Pending(k)' \subseteq Pending(k)
  BY <1>0, <2>2, PendingShrinks DEF Die, Answer, Idle
<3>2. Fails(k)' = Fails(k)
  BY <2>2 DEF Die, Fails, Present
<3> QED
  BY <1>0, <3>1, <3>2, RoomKept DEF IInv
<2>3. ASSUME Tick PROVE RoomForPending(k)'
<3>1. Pending(k)' \subseteq Pending(k)
  BY <2>3 DEF Tick, Pending, At
<3>2. Fails(k)' = Fails(k) \/ Fails(k)' = 0
  BY <1>0, <2>3, CounterFields DEF Tick, Fails, Present, TypeOK
<3> QED
  BY <1>0, <3>1, <3>2, RoomKept DEF IInv
<2>4. ASSUME UNCHANGED vars PROVE RoomForPending(k)'
<3>1. Pending(k)' \subseteq Pending(k) /\ Fails(k)' = Fails(k)
  BY <2>4 DEF vars, Pending, At, Fails, Present
<3> QED
  BY <1>0, <3>1, RoomKept DEF IInv
<2> QED
  BY <1>0, <2>1, <2>2, <2>3, <2>4, CheckRoom, RecordFailureRoom, ExpireRoom
     DEF Next, Refuse
<1> QED
  BY <1>0, <1>1 DEF IInv

-----------------------------------------------------------------------------
(* The end of a lock.  A counter without a time to live has two logins     *)
(* that see to one: the one that raised it to 1 and those that raised it   *)
(* to the limit or beyond.  They differ when the limit is not 1, so one    *)
(* death leaves one of them.                                               *)

First(k) == \E p \in Slot : At(p, "expire") /\ attempt[p].results[k] = 1
Late(k) == \E p \in Slot : At(p, "expire") /\ attempt[p].results[k] >= Limit(k)

Seen(k) ==
  (counter[k].expires = Never /\ counter[k].count >= 1) =>
    /\ First(k) \/ crashes >= 1
    /\ counter[k].count >= Limit(k) =>
         /\ Late(k) \/ crashes >= 1
         /\ Limit(k) >= 2 => First(k) \/ Late(k) \/ crashes >= 2

SeenInv == TypeOK /\ \A k \in Key : Seen(k)

\* No login is about to set a time to live, or was and is not any more.
LEMMA SeenKept ==
  ASSUME NEW k \in Key, Seen(k), crashes' = crashes,
         counter'[k] = counter[k] \/ counter'[k].count = 0,
         \A p \in Slot : At(p, "expire") => attempt'[p] = attempt[p]
  PROVE  Seen(k)'
<1>1. (First(k) => First(k)') /\ (Late(k) => Late(k)')
  BY DEF First, Late, At, Limit
<1> QED
  BY <1>1 DEF Seen, Limit

LEMMA RecordFailureSeen ==
  ASSUME SeenInv, NEW p \in Slot, RecordFailure(p), NEW k \in Key
  PROVE  Seen(k)'
<1>0. TypeOK /\ Seen(k)
  BY DEF SeenInv
<1>1. \A q \in Slot : At(q, "expire") => attempt'[q] = attempt[q]
  BY <1>0 DEF RecordFailure, At, TypeOK
<1>2. CASE k \notin {attempt[p].username, attempt[p].address}
<2>1. counter'[k] = counter[k] /\ crashes' = crashes
  BY <1>2 DEF RecordFailure
<2> QED
  BY <1>0, <1>1, <2>1, SeenKept
<1>3. CASE k \in {attempt[p].username, attempt[p].address}
<2>1. /\ counter'[k] = Incremented(k) /\ crashes' = crashes
      /\ At(p, "expire")' /\ attempt'[p].results[k] = counter'[k].count
  BY <1>0, <1>3 DEF RecordFailure, At, TypeOK
<2>2. counter[k] \in [count : Nat, expires : Nat] /\ Limit(k) \in Nat \ {0} /\ Limit(k)' = Limit(k)
  BY <1>0, CounterFields DEF TypeOK, Limit
<2>3. counter'[k].count \in Nat /\ counter'[k].count >= 1
  BY <2>1, <2>2 DEF Incremented
<2>4. (First(k) => First(k)') /\ (counter'[k].count >= Limit(k) => Late(k)')
  BY <1>1, <2>1, <2>2 DEF First, Late, At
<2>5. counter'[k].count = 1 => First(k)'
  BY <2>1 DEF First
<2>6. counter'[k].count # 1 => /\ counter[k].count >= 1 /\ counter'[k].expires = counter[k].expires
  BY <2>1, <2>2 DEF Incremented
<2> QED
  BY <1>0, <2>1, <2>2, <2>3, <2>4, <2>5, <2>6 DEF Seen
<1> QED
  BY <1>2, <1>3

LEMMA ExpireSeen ==
  ASSUME SeenInv, NEW p \in Slot, Expire(p), NEW k \in Key
  PROVE  Seen(k)'
<1>0. TypeOK /\ Seen(k) /\ counter[k] \in [count : Nat, expires : Nat] /\ clock \in Nat
  BY CounterFields DEF SeenInv, TypeOK
<1>1. attempt[p].results[k] \in Nat /\ At(p, "expire") /\ crashes' = crashes
  BY <1>0, AttemptKinds DEF Expire
<1>2. Limit(k) \in Nat \ {0} /\ Limit(k)' = Limit(k)
  BY DEF Limit
<1>3. CASE counter[k].expires = Never /\ counter[k].count >= 1
<2>1. Fails(k) > 0
  BY <1>0, <1>3 DEF Fails, Present
<2>2. CASE attempt[p].results[k] = 1 \/ attempt[p].results[k] >= Limit(k)
<3>1. Expiry(k, attempt[p].results[k]) # Never
  BY <1>0, <1>1, <2>2 DEF Expiry, Never
<3>2. counter'[k] = [counter[k] EXCEPT !.expires = Expiry(k, attempt[p].results[k])]
  BY <1>1, <1>2, <2>1, <2>2 DEF Expire
<3> QED
  BY <1>0, <3>1, <3>2 DEF Seen
<2>3. CASE ~(attempt[p].results[k] = 1 \/ attempt[p].results[k] >= Limit(k))
<3>1. counter'[k].expires = counter[k].expires /\ counter'[k].count = counter[k].count
  BY <1>0, <2>3 DEF Expire, Expiry
<3>2. \A q \in Slot \ {p} : attempt'[q] = attempt[q]
  BY <1>0 DEF Expire, Answer, TypeOK
<3>3. (First(k) => First(k)') /\ (Late(k) => Late(k)')
  BY <1>2, <2>3, <3>2 DEF First, Late, At
<3> QED
  BY <1>0, <1>1, <1>2, <3>1, <3>3 DEF Seen
<2> QED
  BY <2>2, <2>3
<1>4. CASE ~(counter[k].expires = Never /\ counter[k].count >= 1)
<2>1. counter'[k].count = counter[k].count
  BY <1>0 DEF Expire
<2>2. counter[k].count >= 1 => counter'[k].expires # Never
  BY <1>0, <1>1, <1>2, <1>4 DEF Expire, Expiry, Never
<2> QED
  BY <2>1, <2>2 DEF Seen
<1> QED
  BY <1>3, <1>4

LEMMA DieSeen ==
  ASSUME SeenInv, NEW p \in Slot, Die(p), NEW k \in Key
  PROVE  Seen(k)'
<1>0. /\ TypeOK /\ Seen(k) /\ crashes \in Nat /\ crashes' = crashes + 1
      /\ counter'[k] = counter[k] /\ \A q \in Slot \ {p} : attempt'[q] = attempt[q]
  BY DEF SeenInv, TypeOK, Die, Answer
<1>1. Limit(k) \in Nat \ {0} /\ Limit(k)' = Limit(k)
  BY DEF Limit
<1>2. (Limit(k) >= 2 /\ First(k) /\ Late(k)) => First(k)' \/ Late(k)'
<2> SUFFICES ASSUME Limit(k) >= 2, First(k), Late(k) PROVE First(k)' \/ Late(k)'
  OBVIOUS
<2>1. PICK q \in Slot : At(q, "expire") /\ attempt[q].results[k] = 1
  BY DEF First
<2>2. PICK r \in Slot : At(r, "expire") /\ attempt[r].results[k] >= Limit(k)
  BY DEF Late
<2>3. q # r
  BY <1>1, <2>1, <2>2
<2>4. CASE q # p
  BY <1>0, <2>1, <2>4 DEF First, At
<2>5. CASE r # p
  BY <1>0, <1>1, <2>2, <2>5 DEF Late, At
<2> QED
  BY <2>3, <2>4, <2>5
<1> QED
  BY <1>0, <1>1, <1>2 DEF Seen

LEMMA SeenStep == SeenInv /\ [Next]_vars => SeenInv'
<1> SUFFICES ASSUME SeenInv, [Next]_vars PROVE SeenInv'
  OBVIOUS
<1>0. TypeOK /\ TypeOK'
  BY TypeOKStep DEF SeenInv
<1>1. ASSUME NEW k \in Key PROVE Seen(k)'
<2>0. Seen(k)
  BY DEF SeenInv
<2>1. ASSUME NEW p \in Slot, NEW u \in Username, NEW a \in Address, Check(p, u, a)
      PROVE  Seen(k)'
  BY <1>0, <2>0, <2>1, SeenKept DEF Check, At, TypeOK
<2>2. ASSUME NEW p \in Slot, Succeed(p) PROVE Seen(k)'
<3>1. counter'[k] = counter[k] \/ counter'[k].count = 0
  BY <1>0, <2>2 DEF Succeed, TypeOK, Missing
<3> QED
  BY <1>0, <2>0, <2>2, <3>1, SeenKept DEF Succeed, Answer, At, TypeOK
<2>3. CASE Tick
  BY <2>0, <2>3, SeenKept DEF Tick
<2>4. CASE UNCHANGED vars
  BY <2>0, <2>4, SeenKept DEF vars
<2> QED
  BY <2>1, <2>2, <2>3, <2>4, RecordFailureSeen, ExpireSeen, DieSeen DEF Next, Refuse
<1> QED
  BY <1>0, <1>1 DEF SeenInv

-----------------------------------------------------------------------------
(* The failures of an address, of times f: the last c are those its        *)
(* counter holds, and e is when the counter expires.  A counter is made    *)
(* when the one before it has expired, which was Shortest or more after    *)
(* its first failure; and no counter holds more than w.                    *)

Shortest == IF Lock < Window THEN Lock ELSE Window

Spaced(f, c, e, now, w) ==
  /\ c <= Len(f) /\ c <= w /\ (c = 0 => Len(f) = 0 /\ e = Never)
  /\ \A i, j \in 1 .. Len(f) : i <= j => f[i] <= f[j]
  /\ \A i \in 1 .. Len(f) : f[i] <= now
  /\ \A i \in 1 .. Len(f) : i <= Len(f) - c + 1 => e = Never \/ f[i] + Shortest <= e
  /\ \A i \in 1 .. Len(f) : (c >= 1 /\ i + w <= Len(f) - c + 1) =>
       f[i] + Shortest <= f[Len(f) - c + 1]
  /\ \A i, j \in 1 .. Len(f) : j - i >= 2 * w - 1 => f[i] + Shortest <= f[j]

LEMMA Appended ==
  ASSUME NEW f \in Seq(Nat), NEW x \in Nat
  PROVE  /\ Append(f, x) \in Seq(Nat) /\ Len(Append(f, x)) = Len(f) + 1 /\ Len(f) \in Nat
         /\ \A i \in 1 .. Len(f) : Append(f, x)[i] = f[i] /\ f[i] \in Nat
         /\ Append(f, x)[Len(f) + 1] = x
  OBVIOUS

\* One more failure in the same counter.
LEMMA SpacedCounts ==
  ASSUME NEW f \in Seq(Nat), NEW c \in Nat, NEW e \in Nat, NEW now \in Nat, NEW w \in Nat,
         Spaced(f, c, e, now, w), c + 1 <= w
  PROVE  Spaced(Append(f, now), c + 1, e, now, w)
<1> DEFINE n == Len(f)
<1>1. PICK g \in Seq(Nat) : g = Append(f, now)
  BY Appended
<1>2. /\ Len(g) = n + 1 /\ n \in Nat /\ g[n + 1] = now
      /\ \A i \in 1 .. n : g[i] = f[i] /\ f[i] \in Nat /\ f[i] <= now
  BY <1>1, Appended DEF Spaced
<1>3. /\ Shortest \in Nat /\ c <= n
      /\ \A i, j \in 1 .. n : i <= j => f[i] <= f[j]
      /\ \A i \in 1 .. n : i <= n - c + 1 => e = Never \/ f[i] + Shortest <= e
      /\ \A i \in 1 .. n : (c >= 1 /\ i + w <= n - c + 1) => f[i] + Shortest <= f[n - c + 1]
      /\ \A i, j \in 1 .. n : j - i >= 2 * w - 1 => f[i] + Shortest <= f[j]
      /\ c = 0 => n = 0 /\ e = Never
  BY DEF Spaced, Shortest
<1> HIDE DEF n
<1>4. \A i, j \in 1 .. n + 1 : i <= j => g[i] <= g[j]
<2> SUFFICES ASSUME NEW i \in 1 .. n + 1, NEW j \in 1 .. n + 1, i <= j PROVE g[i] <= g[j]
  OBVIOUS
<2>1. CASE j = n + 1
  BY <1>2, <2>1
<2>2. CASE j # n + 1
  BY <1>2, <1>3, <2>2
<2> QED
  BY <2>1, <2>2
<1>5. \A i \in 1 .. n + 1 : g[i] <= now
  BY <1>2
<1>6. ASSUME NEW i \in 1 .. n + 1, i <= n - c + 1, e # Never
      PROVE  g[i] + Shortest <= e
<2>1. c >= 1 /\ i \in 1 .. n
  BY <1>2, <1>3, <1>6
<2> QED
  BY <1>2, <1>3, <1>6, <2>1
<1>7. ASSUME NEW i \in 1 .. n + 1, i + w <= n - c + 1
      PROVE  g[i] + Shortest <= g[n - c + 1]
<2>1. c >= 1 /\ i \in 1 .. n /\ n - c + 1 \in 1 .. n
  BY <1>2, <1>3, <1>7
<2> QED
  BY <1>2, <1>3, <1>7, <2>1
<1>8. ASSUME NEW i \in 1 .. n + 1, NEW j \in 1 .. n + 1, j - i >= 2 * w - 1
      PROVE  g[i] + Shortest <= g[j]
<2>1. i \in 1 .. n
  BY <1>2, <1>8
<2>2. CASE j \in 1 .. n
  BY <1>2, <1>3, <1>8, <2>1, <2>2
<2>3. CASE j = n + 1
<3>1. c >= 1 /\ i + w <= n - c + 1 /\ n - c + 1 \in 1 .. n
  BY <1>2, <1>3, <1>8, <2>1, <2>3
<3>2. PICK s \in 1 .. n : s = n - c + 1
  BY <3>1
<3>3. f[i] + Shortest <= f[s] /\ f[s] <= now /\ g[j] = now /\ g[i] = f[i]
  BY <1>2, <1>3, <2>1, <2>3, <3>1, <3>2
<3>4. f[i] \in Nat /\ f[s] \in Nat
  BY <1>2, <2>1
<3> QED
  BY <1>3, <3>3, <3>4, SMTT(20)
<2> QED
  BY <1>2, <2>2, <2>3
<1>9. Len(g) = n + 1 /\ Len(g) - (c + 1) + 1 = n - c + 1
  BY <1>2
<1>10. c + 1 <= Len(g) /\ c + 1 <= w /\ (c + 1 = 0 => Len(g) = 0 /\ e = Never)
  BY <1>2, <1>3
<1> QED
  BY <1>1, <1>4, <1>5, <1>6, <1>7, <1>8, <1>9, <1>10, Zenon DEF Spaced

\* The first failure of a new counter; the old one has expired.
LEMMA SpacedRestarts ==
  ASSUME NEW f \in Seq(Nat), NEW c \in Nat, NEW e \in Nat, NEW now \in Nat, NEW w \in Nat \ {0},
         Spaced(f, c, e, now, w), e # Never, e <= now
  PROVE  Spaced(Append(f, now), 1, Never, now, w)
<1> DEFINE n == Len(f)
<1>1. PICK g \in Seq(Nat) : g = Append(f, now)
  BY Appended
<1>2. /\ Len(g) = n + 1 /\ n \in Nat /\ g[n + 1] = now
      /\ \A i \in 1 .. n : g[i] = f[i] /\ f[i] \in Nat /\ f[i] <= now
  BY <1>1, Appended DEF Spaced
<1>3. /\ Shortest \in Nat /\ c <= n /\ c <= w /\ c >= 1
      /\ \A i, j \in 1 .. n : i <= j => f[i] <= f[j]
      /\ \A i \in 1 .. n : i <= n - c + 1 => f[i] + Shortest <= e
      /\ \A i, j \in 1 .. n : j - i >= 2 * w - 1 => f[i] + Shortest <= f[j]
  BY DEF Spaced, Shortest
<1> HIDE DEF n
<1>4. \A i, j \in 1 .. n + 1 : i <= j => g[i] <= g[j]
<2> SUFFICES ASSUME NEW i \in 1 .. n + 1, NEW j \in 1 .. n + 1, i <= j PROVE g[i] <= g[j]
  OBVIOUS
<2>1. CASE j = n + 1
  BY <1>2, <2>1
<2>2. CASE j # n + 1
  BY <1>2, <1>3, <2>2
<2> QED
  BY <2>1, <2>2
<1>5. \A i \in 1 .. n + 1 : g[i] <= now
  BY <1>2
<1>6. ASSUME NEW i \in 1 .. n + 1, i + w <= n + 1
      PROVE  g[i] + Shortest <= g[n + 1]
<2>1. i \in 1 .. n /\ i <= n - c + 1
  BY <1>2, <1>3, <1>6
<2> QED
  BY <1>2, <1>3, <2>1, SMTT(20)
<1>7. ASSUME NEW i \in 1 .. n + 1, NEW j \in 1 .. n + 1, j - i >= 2 * w - 1
      PROVE  g[i] + Shortest <= g[j]
<2>1. i \in 1 .. n
  BY <1>2, <1>7
<2>2. CASE j \in 1 .. n
  BY <1>2, <1>3, <1>7, <2>1, <2>2
<2>3. CASE j = n + 1
  BY <1>2, <1>6, <1>7, <2>3
<2> QED
  BY <1>2, <2>2, <2>3
<1>8. Len(g) = n + 1 /\ Len(g) - 1 + 1 = n + 1
  BY <1>2
<1>9. 1 <= Len(g) /\ 1 <= w /\ (1 = 0 => Len(g) = 0 /\ e = Never)
  BY <1>2
<1> QED
  BY <1>1, <1>4, <1>5, <1>6, <1>7, <1>8, <1>9, Zenon DEF Spaced

\* The time passes; a time to live is set.
LEMMA SpacedLater ==
  ASSUME NEW f \in Seq(Nat), NEW c \in Nat, NEW e \in Nat, NEW now \in Nat, NEW w \in Nat,
         Spaced(f, c, e, now, w)
  PROVE  /\ Spaced(f, c, e, now + 1, w)
         /\ c >= 1 => /\ Spaced(f, c, now + Window, now, w)
                      /\ Spaced(f, c, now + Lock, now, w)
<1>1. \A i \in 1 .. Len(f) : f[i] \in Nat /\ f[i] <= now
  BY DEF Spaced
<1>2. Spaced(f, c, e, now + 1, w)
  BY <1>1 DEF Spaced
<1>3. ASSUME NEW d \in Nat, Shortest <= d, c >= 1
      PROVE  Spaced(f, c, now + d, now, w)
<2>1. \A i \in 1 .. Len(f) : f[i] + Shortest <= now + d
  BY <1>1, <1>3 DEF Shortest
<2> QED
  BY <1>3, <2>1 DEF Spaced
<1>4. Shortest <= Window /\ Shortest <= Lock
  BY DEF Shortest
<1> QED
  BY <1>2, <1>3, <1>4

SpacedNow(a) == Spaced(failures[a], counter[a].count, counter[a].expires, clock, Worst(a))

SpacedInv == IInv /\ \A a \in Address : SpacedNow(a)

LEMMA RecordFailureSpaced ==
  ASSUME SpacedInv, IInv', NEW p \in Slot, RecordFailure(p), NEW a \in Address
  PROVE  SpacedNow(a)'
<1>0. /\ a \in Key /\ clock' = clock /\ clock \in Nat /\ failures[a] \in Seq(Nat) /\ SpacedNow(a)
      /\ counter[a] \in [count : Nat, expires : Nat] /\ TypeOK /\ Worst(a)' = Worst(a)
  BY CounterFields DEF Key, SpacedInv, IInv, TypeOK, RecordFailure, Worst, Limit
<1>1. CASE a \notin {attempt[p].username, attempt[p].address}
<2>1. failures'[a] = failures[a] /\ counter'[a] = counter[a]
  BY <1>0, <1>1 DEF RecordFailure
<2> QED
  BY <1>0, <2>1 DEF SpacedNow
<1>2. CASE a \in {attempt[p].username, attempt[p].address}
<2>1. failures'[a] = Append(failures[a], clock) /\ counter'[a] = Incremented(a)
  BY <1>0, <1>2 DEF RecordFailure
<2>2. Fails(a)' = counter'[a].count
<3>1. Present(a)'
  BY <1>0, <2>1 DEF Present, Incremented, Never
<3> QED
  BY <3>1 DEF Fails
<2>3. Fails(a)' <= Worst(a) /\ Worst(a) \in Nat
<3>0. Fails(a)' \in Nat
  BY <1>0, <2>1, <2>2, IncrementedType DEF Counter
<3>1. Cardinality(Pending(a)') \in Nat /\ RoomForPending(a)' /\ Fails(a)' \in Nat
  BY <1>0, <3>0, PendingSize DEF Pending, IInv
<3>2. Worst(a) \in Nat /\ Limit(a) \in Nat \ {0} /\ Worst(a) >= Limit(a) - 1
  BY <1>0, Numbers DEF Worst
<3> QED
  BY <1>0, <3>1, <3>2 DEF RoomForPending, Limit
<2>4. CASE Present(a)
<3>1. counter'[a].count = counter[a].count + 1 /\ counter'[a].expires = counter[a].expires
  BY <1>0, <2>1, <2>4 DEF Incremented
<3> QED
  BY <1>0, <2>1, <2>2, <2>3, <3>1, SpacedCounts DEF SpacedNow
<2>5. CASE ~Present(a)
<3>1. counter'[a].count = 1 /\ counter'[a].expires = Never
  BY <2>1, <2>5 DEF Incremented
<3>2. counter[a].expires # Never /\ counter[a].expires <= clock
  BY <1>0, <2>5 DEF Present
<3>3. Worst(a) \in Nat \ {0}
  BY <2>2, <2>3, <3>1
<3> QED
  BY <1>0, <2>1, <3>1, <3>2, <3>3, SpacedRestarts DEF SpacedNow
<2> QED
  BY <2>4, <2>5
<1> QED
  BY <1>1, <1>2

LEMMA ExpireSpaced ==
  ASSUME SpacedInv, NEW p \in Slot, Expire(p), NEW a \in Address
  PROVE  SpacedNow(a)'
<1>0. /\ a \in Key /\ clock' = clock /\ clock \in Nat /\ failures[a] \in Seq(Nat) /\ SpacedNow(a)
      /\ counter[a] \in [count : Nat, expires : Nat] /\ TypeOK /\ Worst(a)' = Worst(a)
      /\ failures'[a] = failures[a] /\ Worst(a) \in Nat
  BY Numbers, CounterFields DEF Key, SpacedInv, IInv, TypeOK, Expire, Worst, Limit
<1>1. CASE ~(attempt[p].results[a] > 0 /\ Fails(a) > 0)
<2>1. counter'[a] = counter[a]
  BY <1>0, <1>1 DEF Expire
<2> QED
  BY <1>0, <2>1 DEF SpacedNow
<1>2. CASE attempt[p].results[a] > 0 /\ Fails(a) > 0
<2>1. /\ counter'[a].count = counter[a].count /\ counter[a].count >= 1
      /\ counter'[a].expires \in {counter[a].expires, clock + Window, clock + Lock}
  BY <1>0, <1>2 DEF Expire, Expiry, Fails
<2>2. PICK e : e = counter'[a].expires
  OBVIOUS
<2>3. \A d \in {counter[a].expires, clock + Window, clock + Lock} :
        Spaced(failures[a], counter[a].count, d, clock, Worst(a))
<3>1. Spaced(failures[a], counter[a].count, counter[a].expires, clock, Worst(a))
  BY <1>0 DEF SpacedNow
<3> QED
  BY <1>0, <2>1, <3>1, SpacedLater
<2>4. Spaced(failures[a], counter[a].count, e, clock, Worst(a))
  BY <2>1, <2>2, <2>3
<2> QED
  BY <1>0, <2>1, <2>2, <2>4 DEF SpacedNow
<1> QED
  BY <1>1, <1>2

LEMMA SpacedStep == SpacedInv /\ [Next]_vars => SpacedInv'
<1> SUFFICES ASSUME SpacedInv, [Next]_vars PROVE SpacedInv'
  OBVIOUS
<1>0. IInv /\ IInv' /\ TypeOK /\ TypeOK'
  BY IInvStep DEF SpacedInv, IInv
<1>1. ASSUME NEW a \in Address PROVE SpacedNow(a)'
<2>0. /\ a \in Key /\ a \notin Username /\ clock \in Nat /\ failures[a] \in Seq(Nat) /\ SpacedNow(a)
      /\ counter[a] \in [count : Nat, expires : Nat] /\ Worst(a)' = Worst(a) /\ Worst(a) \in Nat
  BY <1>0, Numbers, CounterFields DEF Key, SpacedInv, TypeOK, Worst, Limit
<2>1. ASSUME clock' = clock, counter'[a] = counter[a], failures'[a] = failures[a]
      PROVE  SpacedNow(a)'
  BY <2>0, <2>1 DEF SpacedNow
<2>2. ASSUME NEW p \in Slot, Succeed(p) PROVE SpacedNow(a)'
<3>1. attempt[p].username # a
  BY <1>0, <2>0, <2>2, AttemptKinds DEF Succeed
<3> QED
  BY <1>0, <2>0, <2>1, <2>2, <3>1 DEF Succeed, TypeOK
<2>3. CASE Tick
  BY <2>0, <2>3, SpacedLater DEF Tick, SpacedNow
<2>4. ASSUME NEW p \in Slot, NEW u \in Username, NEW b \in Address, Check(p, u, b)
      PROVE  SpacedNow(a)'
  BY <2>1, <2>4 DEF Check
<2>5. ASSUME NEW p \in Slot, Die(p) PROVE SpacedNow(a)'
  BY <2>1, <2>5 DEF Die
<2>6. CASE UNCHANGED vars
  BY <2>1, <2>6 DEF vars
<2> QED
  BY <1>0, <2>2, <2>3, <2>4, <2>5, <2>6, RecordFailureSpaced, ExpireSpaced DEF Next, Refuse
<1> QED
  BY <1>0, <1>1 DEF SpacedInv

-----------------------------------------------------------------------------
(* The theorems.                                                           *)

\* Every variable of the limiter keeps its type.
THEOREM TypeCorrect == Spec => []TypeOK
<1>1. IInv => TypeOK
  BY DEF IInv
<1> QED
  BY <1>1, InitIInv, IInvStep, PTL DEF Spec

\* check_limits and record_failure: a counter never exceeds its limit by more
\* than the logins that can run side by side, less one.
THEOREM GuessesAreBounded == Spec => []OvershootIsBounded
<1>1. IInv => OvershootIsBounded
<2> SUFFICES ASSUME IInv, NEW k \in Key PROVE Fails(k) <= Worst(k)
  BY DEF OvershootIsBounded
<2>1. Cardinality(Pending(k)) \in Nat
  BY PendingSize DEF Pending
<2> QED
  BY <2>1, Numbers DEF IInv, RoomForPending, Worst
<1> QED
  BY <1>1, InitIInv, IInvStep, PTL DEF Spec

\* record_failure sets a time to live after the count is known, in a round trip
\* of its own: a counter at its limit has one or a login is about to set it,
\* also when one login dies in between, unless the limit is the first failure.
THEOREM LocksEnd ==
  ASSUME MaxCrashes <= 1, \A k \in Key : Limit(k) >= 2 \/ MaxCrashes = 0
  PROVE  Spec => []LockExpires
<1>1. Init => SeenInv
<2> SUFFICES ASSUME Init PROVE SeenInv
  OBVIOUS
<2>1. \A k \in Key : counter[k].count = 0
  BY DEF Init, Missing
<2> QED
  BY <2>1, InitTypeOK DEF SeenInv, Seen
<1>2. SeenInv => LockExpires
<2> SUFFICES ASSUME SeenInv, NEW k \in Key, Blocked(k), counter[k].expires = Never
             PROVE  First(k) \/ Late(k)
  BY DEF LockExpires, First, Late
<2>1. counter[k].count >= Limit(k) /\ Limit(k) \in Nat \ {0} /\ crashes \in 0 .. MaxCrashes
  BY DEF Blocked, Fails, Present, SeenInv, TypeOK, Limit
<2>2. counter[k].count \in Nat
  BY CounterFields DEF SeenInv, TypeOK
<2> QED
  BY <2>1, <2>2 DEF SeenInv, Seen
<1> QED
  BY <1>1, <1>2, SeenStep, PTL DEF Spec

\* clear_failures deletes the counter of the name alone: whatever logins succeed
\* in between, as many failures of one address as two counters can hold are
\* spread over the time a counter lives at least.
THEOREM GuessesOfAnAddressTakeTime == Spec => []AddressFailuresAreSpaced
<1>1. Init => SpacedInv
<2> SUFFICES ASSUME Init, NEW a \in Address PROVE SpacedNow(a)
  BY InitIInv DEF SpacedInv
<2>1. a \in Key /\ Worst(a) \in Nat
  BY InitTypeOK, Numbers DEF Key
<2>2. failures[a] = <<>> /\ counter[a].count = 0 /\ counter[a].expires = Never
  BY <2>1 DEF Init, Missing
<2> QED
  BY <2>1, <2>2 DEF SpacedNow, Spaced
<1>2. SpacedInv => AddressFailuresAreSpaced
<2> SUFFICES ASSUME SpacedInv, NEW a \in Address, NEW i \in DOMAIN failures[a],
                    NEW j \in DOMAIN failures[a], j - i >= 2 * Worst(a) - 1
             PROVE  failures[a][j] - failures[a][i] >= Shortest
  BY DEF AddressFailuresAreSpaced, Shortest
<2>1. failures[a] \in Seq(Nat) /\ SpacedNow(a)
  BY DEF SpacedInv, IInv, TypeOK, Key
<2>2. /\ i \in 1 .. Len(failures[a]) /\ j \in 1 .. Len(failures[a])
      /\ failures[a][i] \in Nat /\ failures[a][j] \in Nat
  BY <2>1, SMTT(20)
<2>3. failures[a][i] + Shortest <= failures[a][j]
  BY <2>1, <2>2 DEF SpacedNow, Spaced
<2> QED
  BY <2>2, <2>3, SMTT(20) DEF Shortest
<1> QED
  BY <1>1, <1>2, SpacedStep, PTL DEF Spec
=============================================================================
