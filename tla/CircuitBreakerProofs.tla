----------------------- MODULE CircuitBreakerProofs -----------------------
(***************************************************************************)
(* Safety of CircuitBreaker for every threshold, recovery time and number  *)
(* of services and concurrent requests.                                    *)
(***************************************************************************)
EXTENDS CircuitBreaker, FiniteSetTheorems, TLAPS

USE ServiceAssumption, ThresholdAssumption, SlotAssumption

\* A request in flight knows its service.
LEMMA CallService ==
  ASSUME TypeOK, NEW p \in Slot, call[p].stage # "idle"
  PROVE  call[p].service \in Service
  BY DEF TypeOK, Idle

BreakerType == [state : {"closed", "open", "half_open"},
                failures : 0 .. Threshold, cooldown : 0 .. Recovery]

\* What record_failure makes of a breaker.
LEMMA RecordFailureResult ==
  ASSUME TypeOK, ClosedBelowThreshold, NEW s \in Service, RecordFailure(s)
  PROVE  /\ breaker' \in [Service -> BreakerType]
         /\ \A o \in Service \ {s} : breaker'[o] = breaker[o]
         /\ breaker'[s].state = "closed" <=> breaker'[s].failures < Threshold
<1> DEFINE b == breaker[s]
<1>1. /\ b.state \in {"closed", "open", "half_open"} /\ b.failures \in 0 .. Threshold
      /\ b.cooldown \in 0 .. Recovery /\ b \in BreakerType
      /\ b.state = "closed" <=> b.failures < Threshold
  BY DEF TypeOK, ClosedBelowThreshold, BreakerType
<1>2. OneMore(s) \in 0 .. Threshold /\ (b.state = "half_open" => OneMore(s) = Threshold)
  BY <1>1 DEF OneMore
<1>3. CASE b.state = "half_open" \/ OneMore(s) >= Threshold
<2>1. breaker' = [breaker EXCEPT ![s] =
        [state |-> "open", failures |-> OneMore(s), cooldown |-> Recovery]]
  BY <1>3 DEF RecordFailure
<2> QED
  BY <1>1, <1>2, <1>3, <2>1 DEF TypeOK, BreakerType
<1>4. CASE ~(b.state = "half_open" \/ OneMore(s) >= Threshold)
<2>1. breaker' = [breaker EXCEPT ![s] = [b EXCEPT !.failures = OneMore(s)]]
  BY <1>4 DEF RecordFailure
<2>2. b.state = "closed" /\ OneMore(s) < Threshold
  BY <1>1, <1>2, <1>4 DEF OneMore
<2> QED
  BY <1>1, <1>2, <2>1, <2>2 DEF TypeOK, BreakerType
<1> QED
  BY <1>3, <1>4

-----------------------------------------------------------------------------
(* The inductive invariant.                                                *)

\* A service that never fails is healthy, so no failure of it is recorded.
ReliableIsHealthy == \A s \in Reliable : healthy[s]

IInv == TypeOK /\ ClosedBelowThreshold /\ ReliableIsHealthy /\ ReliableIsNeverCut

LEMMA InitIInv == Init => IInv
  BY DEF Init, IInv, TypeOK, ClosedBelowThreshold, ReliableIsHealthy,
         ReliableIsNeverCut, Closed

LEMMA IInvStep == IInv /\ [Next]_vars => IInv'
<1> SUFFICES ASSUME IInv, [Next]_vars PROVE IInv'
  OBVIOUS
<1>0. breaker \in [Service -> BreakerType]
  BY DEF IInv, TypeOK, BreakerType
<1> DEFINE Breakers == /\ breaker' \in [Service -> BreakerType]
                       /\ ClosedBelowThreshold' /\ ReliableIsNeverCut'
           Calls == call' \in [Slot -> [stage : {"check", "upstream"}, service : Service]
                                         \cup {Idle}]
           Health == healthy' \in [Service -> BOOLEAN] /\ ReliableIsHealthy'
<1>b. ASSUME UNCHANGED breaker PROVE Breakers
  BY <1>0, <1>b DEF IInv, ClosedBelowThreshold, ReliableIsNeverCut
<1>c. ASSUME UNCHANGED call PROVE Calls
  BY <1>c DEF IInv, TypeOK
<1>h. ASSUME UNCHANGED healthy PROVE Health
  BY <1>h DEF IInv, TypeOK, ReliableIsHealthy
<1>i. ASSUME NEW p \in Slot, call' = [call EXCEPT ![p] = Idle] PROVE Calls
  BY <1>i DEF IInv, TypeOK
<1>1. ASSUME NEW p \in Slot, NEW s \in Service, Arrive(p, s)
      PROVE  Breakers /\ Calls /\ Health
<2>1. Calls
  BY <1>1 DEF Arrive, IInv, TypeOK
<2>2. CASE breaker[s].state = "open"
<3>1. breaker' = [breaker EXCEPT ![s].state = "half_open"]
  BY <1>1, <2>2 DEF Arrive, BeforeCall
<3>2. [breaker[s] EXCEPT !.state = "half_open"] \in BreakerType
  BY <1>0 DEF BreakerType
<3>3. s \notin Reliable
  BY <2>2 DEF IInv, ReliableIsNeverCut, Closed
<3>4. Breakers
  BY <1>0, <2>2, <3>1, <3>2, <3>3
     DEF IInv, ClosedBelowThreshold, ReliableIsNeverCut, BreakerType
<3> QED
  BY <1>1, <1>h, <2>1, <3>4 DEF Arrive
<2>3. CASE breaker[s].state # "open"
  BY <1>1, <1>b, <1>h, <2>1, <2>3 DEF Arrive, BeforeCall
<2> QED
  BY <2>2, <2>3
<1>2. ASSUME NEW p \in Slot, CheckFails(p) PROVE Breakers /\ Calls /\ Health
  BY <1>2, <1>b, <1>h, <1>i DEF CheckFails
<1>3. ASSUME NEW p \in Slot, Send(p) PROVE Breakers /\ Calls /\ Health
<2>1. call[p].service \in Service
  BY <1>3, CallService DEF Send, IInv
<2>2. Calls
  BY <1>3, <2>1 DEF Send, IInv, TypeOK, Idle
<2> QED
  BY <1>3, <1>b, <1>h, <2>2 DEF Send
<1>4. ASSUME NEW p \in Slot, Answered(p) PROVE Breakers /\ Calls /\ Health
<2>1. call[p].service \in Service
  BY <1>4, CallService DEF Answered, IInv
<2>2. Closed \in BreakerType /\ Closed.state = "closed" /\ Closed.failures < Threshold
  BY DEF Closed, BreakerType
<2>3. Breakers
  BY <1>0, <1>4, <2>1, <2>2
     DEF Answered, RecordSuccess, IInv, ClosedBelowThreshold, ReliableIsNeverCut
<2> QED
  BY <1>4, <1>h, <1>i, <2>3 DEF Answered
<1>5. ASSUME NEW p \in Slot, Fails(p) PROVE Breakers /\ Calls /\ Health
<2>1. call[p].service \in Service /\ call[p].service \notin Reliable
  BY <1>5, CallService DEF Fails, IInv, ReliableIsHealthy
<2>2. Breakers
  BY <1>5, <2>1, RecordFailureResult
     DEF Fails, IInv, ClosedBelowThreshold, ReliableIsNeverCut
<2> QED
  BY <1>5, <1>h, <1>i, <2>2 DEF Fails
<1>6. ASSUME Tick PROVE Breakers /\ Calls /\ Health
<2>1. ASSUME NEW s \in Service
      PROVE  /\ breaker'[s] = [breaker[s] EXCEPT !.cooldown = IF @ > 0 THEN @ - 1 ELSE 0]
             /\ breaker'[s] \in BreakerType
             /\ breaker'[s].state = breaker[s].state
             /\ breaker'[s].failures = breaker[s].failures
             /\ breaker[s] = Closed => breaker'[s] = Closed
  BY <1>0, <1>6 DEF Tick, BreakerType, Closed
<2>2. Breakers
<3>1. breaker' \in [Service -> BreakerType]
  BY <1>6, <2>1 DEF Tick
<3>2. ClosedBelowThreshold' /\ ReliableIsNeverCut'
  BY <2>1 DEF IInv, ClosedBelowThreshold, ReliableIsNeverCut
<3> QED
  BY <3>1, <3>2
<2> QED
  BY <1>6, <1>c, <1>h, <2>2 DEF Tick
<1>7. ASSUME NEW s \in Service, Turns(s) PROVE Breakers /\ Calls /\ Health
  BY <1>7, <1>b, <1>c DEF Turns, IInv, TypeOK, ReliableIsHealthy
<1>8. ASSUME UNCHANGED vars PROVE Breakers /\ Calls /\ Health
  BY <1>8, <1>b, <1>c, <1>h DEF vars
<1>9. ASSUME NEW p \in Slot, Lost(p) PROVE Breakers /\ Calls /\ Health
  BY <1>9, <1>b, <1>h, <1>i DEF Lost
<1>10. Breakers /\ Calls /\ Health
  BY <1>1, <1>2, <1>3, <1>4, <1>5, <1>6, <1>7, <1>8, <1>9 DEF Next, TurnAway
<1>11. wasted' \in [Service -> Nat]
<2>1. wasted \in [Service -> Nat]
  BY DEF IInv, TypeOK
<2>2. ASSUME NEW p \in Slot, NEW s \in Service, Arrive(p, s)
      PROVE  wasted' \in [Service -> Nat]
  BY <2>1, <2>2 DEF Arrive
<2>3. ASSUME NEW p \in Slot, Answered(p) PROVE wasted' \in [Service -> Nat]
  BY <2>1, <2>3 DEF Answered
<2>4. ASSUME NEW p \in Slot, Fails(p) PROVE wasted' \in [Service -> Nat]
<3>1. call[p].service \in Service
  BY <2>4, CallService DEF Fails, IInv
<3>2. wasted[call[p].service] + 1 \in Nat
  BY <2>1, <3>1
<3> QED
  BY <2>1, <2>4, <3>2 DEF Fails
<2> QED
  BY <2>1, <2>2, <2>3, <2>4
     DEF Next, CheckFails, Send, Lost, TurnAway, Turns, Tick, vars
<1> QED
  BY <1>10, <1>11 DEF IInv, TypeOK, BreakerType

-----------------------------------------------------------------------------
(* What an outage costs.                                                   *)

\* The requests for a service.
InFlight(s) == {p \in Slot : call[p].service = s}

\* A closed circuit has counted what was wasted, a half open one wasted
\* nothing yet; once it is open, each failure is one of a request that was in
\* flight and is not any more.
Cost(s) ==
  /\ breaker[s].state = "closed" => wasted[s] <= breaker[s].failures
  /\ breaker[s].state = "half_open" => wasted[s] = 0
  /\ breaker[s].state = "open" =>
       wasted[s] + Cardinality(InFlight(s)) <= Threshold - 1 + Cardinality(Slot)

CostInv == IInv /\ \A s \in Service : Cost(s)

LEMMA Sizes ==
  ASSUME NEW S, S \subseteq Slot
  PROVE  /\ IsFiniteSet(S) /\ Cardinality(S) \in Nat /\ Cardinality(Slot) \in Nat
         /\ Cardinality(S) <= Cardinality(Slot)
  BY FS_Subset, FS_CardinalityType

\* What is known of a circuit and its requests.
LEMMA CircuitTypes ==
  ASSUME IInv, NEW s \in Service
  PROVE  /\ breaker[s].state \in {"closed", "open", "half_open"}
         /\ breaker[s].failures \in 0 .. Threshold
         /\ breaker[s].state = "closed" <=> breaker[s].failures < Threshold
         /\ wasted[s] \in Nat /\ InFlight(s) \subseteq Slot
         /\ Cardinality(InFlight(s)) \in Nat /\ Cardinality(Slot) \in Nat
         /\ Cardinality(InFlight(s)) <= Cardinality(Slot)
<1>1. InFlight(s) \subseteq Slot
  BY DEF InFlight
<1> QED
  BY <1>1, Sizes DEF IInv, TypeOK, ClosedBelowThreshold

\* Fewer requests in flight, and nothing recorded.
LEMMA CostKept ==
  ASSUME IInv, IInv', NEW s \in Service, Cost(s), wasted'[s] = wasted[s],
         breaker'[s].state = breaker[s].state, breaker'[s].failures = breaker[s].failures,
         InFlight(s)' \subseteq InFlight(s)
  PROVE  Cost(s)'
<1>1. Cardinality(InFlight(s)') <= Cardinality(InFlight(s)) /\ Cardinality(InFlight(s)') \in Nat
<2>1. InFlight(s) \subseteq Slot /\ InFlight(s)' \subseteq Slot
  BY DEF InFlight
<2> QED
  BY <2>1, Sizes, FS_Subset
<1> QED
  BY <1>1, CircuitTypes DEF Cost

\* A request that ends is in flight no more.
LEMMA Ended ==
  ASSUME IInv, NEW p \in Slot, call[p].stage # "idle", call' = [call EXCEPT ![p] = Idle],
         NEW s \in Service
  PROVE  /\ InFlight(s)' = InFlight(s) \ {p}
         /\ s = call[p].service => Cardinality(InFlight(s)') + 1 = Cardinality(InFlight(s))
<1>1. Idle.service # s /\ call \in [Slot -> [stage : {"check", "upstream"}, service : Service] \cup {Idle}]
  BY DEF IInv, TypeOK, Idle
<1>2. InFlight(s)' = InFlight(s) \ {p}
  BY <1>1 DEF InFlight
<1>3. ASSUME s = call[p].service
      PROVE  Cardinality(InFlight(s)') + 1 = Cardinality(InFlight(s))
<2>1. p \in InFlight(s) /\ IsFiniteSet(InFlight(s))
<3>1. InFlight(s) \subseteq Slot
  BY DEF InFlight
<3> QED
  BY <1>3, <3>1, Sizes DEF InFlight
<2>2. Cardinality(InFlight(s) \ {p}) = Cardinality(InFlight(s)) - 1
  BY <2>1, FS_RemoveElement
<2> QED
  BY <1>2, <2>1, <2>2, FS_CardinalityType
<1> QED
  BY <1>2, <1>3

LEMMA CostStep == CostInv /\ [Next]_vars => CostInv'
<1> SUFFICES ASSUME CostInv, [Next]_vars, IInv', NEW s \in Service PROVE Cost(s)'
  BY IInvStep DEF CostInv
<1>0. IInv /\ IInv' /\ Cost(s)
  BY DEF CostInv
<1>c. call \in [Slot -> [stage : {"check", "upstream"}, service : Service] \cup {Idle}]
      /\ breaker \in [Service -> BreakerType] /\ wasted \in [Service -> Nat] /\ Idle.stage = "idle"
  BY <1>0 DEF IInv, TypeOK, Idle, BreakerType
<1>1. ASSUME NEW p \in Slot, NEW o \in Service, Arrive(p, o) PROVE Cost(s)'
<2>1. CASE o # s
<3>1. breaker'[s] = breaker[s] /\ wasted'[s] = wasted[s]
  BY <1>1, <1>c, <2>1 DEF Arrive, BeforeCall
<3>2. InFlight(s)' \subseteq InFlight(s)
  BY <1>1, <1>c, <2>1 DEF Arrive, InFlight
<3> QED
  BY <1>0, <3>1, <3>2, CostKept
<2>2. CASE o = s /\ breaker[s].state = "open"
<3>1. breaker' = [breaker EXCEPT ![s].state = "half_open"]
  BY <1>1, <2>2 DEF Arrive, BeforeCall
<3>2. breaker'[s].state = "half_open"
  BY <1>c, <3>1 DEF BreakerType
<3>3. wasted'[s] = 0
  BY <1>1, <1>c, <2>2, <3>2 DEF Arrive
<3> QED
  BY <3>2, <3>3 DEF Cost
<2>3. CASE o = s /\ breaker[s].state # "open"
<3>1. breaker' = breaker /\ wasted' = wasted
  BY <1>1, <2>3 DEF Arrive, BeforeCall
<3> QED
  BY <1>0, <2>3, <3>1 DEF Cost
<2> QED
  BY <2>1, <2>2, <2>3
<1>2. ASSUME NEW p \in Slot, call[p].stage # "idle", call' = [call EXCEPT ![p] = Idle],
             UNCHANGED <<breaker, wasted>>
      PROVE  Cost(s)'
  BY <1>0, <1>2, Ended, CostKept
<1>3. ASSUME NEW p \in Slot, Send(p) PROVE Cost(s)'
<2>1. InFlight(s)' = InFlight(s)
<3>1. call[p] \in [stage : {"check", "upstream"}, service : Service]
  BY <1>3, <1>c DEF Send
<3> QED
  BY <1>3, <1>c, <3>1 DEF Send, InFlight
<2> QED
  BY <1>0, <1>3, <2>1, CostKept DEF Send
<1>4. ASSUME NEW p \in Slot, Answered(p) PROVE Cost(s)'
<2>1. call[p].stage # "idle"
  BY <1>4 DEF Answered
<2>2. CASE call[p].service = s
<3>1. breaker'[s] = Closed /\ wasted'[s] = 0
  BY <1>4, <1>c, <2>2 DEF Answered, RecordSuccess
<3> QED
  BY <3>1 DEF Cost, Closed
<2>3. CASE call[p].service # s
<3>1. breaker'[s] = breaker[s] /\ wasted'[s] = wasted[s]
  BY <1>4, <1>c, <2>3 DEF Answered, RecordSuccess
<3> QED
  BY <1>0, <1>4, <2>1, <3>1, Ended, CostKept DEF Answered
<2> QED
  BY <2>2, <2>3
<1>5. ASSUME NEW p \in Slot, Fails(p) PROVE Cost(s)'
<2>1. call[p].stage # "idle" /\ call[p].service \in Service
  BY <1>0, <1>5, CallService DEF Fails, IInv
<2>2. CASE call[p].service = s
<3>1. wasted'[s] = wasted[s] + 1
  BY <1>5, <1>c, <2>2 DEF Fails
<3>2. Cardinality(InFlight(s)') + 1 = Cardinality(InFlight(s))
  BY <1>0, <1>5, <2>1, <2>2, Ended DEF Fails
<3>3. \/ breaker'[s].state = "open"
      \/ /\ breaker[s].state # "half_open" /\ breaker'[s].state = breaker[s].state
         /\ breaker'[s].failures = OneMore(s) /\ OneMore(s) < Threshold
  BY <1>5, <1>c, <2>2, CircuitTypes, <1>0 DEF Fails, RecordFailure, BreakerType, OneMore
<3>4. CASE breaker'[s].state = "open"
<4>1. wasted[s] <= Threshold - 1 \/ breaker[s].state = "open"
  BY <1>0, CircuitTypes DEF Cost
<4>2. Cardinality(InFlight(s)') \in Nat
  BY <1>0, Sizes DEF InFlight
<4>3. wasted'[s] + Cardinality(InFlight(s)') <= Threshold - 1 + Cardinality(Slot)
<5>1. CASE breaker[s].state = "open"
  BY <1>0, <3>1, <3>2, <4>2, <5>1, CircuitTypes DEF Cost
<5>2. CASE wasted[s] <= Threshold - 1
  BY <1>0, <3>1, <3>2, <4>2, <5>2, CircuitTypes
<5> QED
  BY <4>1, <5>1, <5>2
<4> QED
  BY <3>4, <4>3 DEF Cost
<3>5. CASE breaker'[s].state # "open"
<4>1. breaker[s].state = "closed" /\ breaker'[s].failures = breaker[s].failures + 1
  BY <1>0, <3>3, <3>5, CircuitTypes DEF OneMore
<4> QED
  BY <1>0, <3>1, <3>3, <3>5, <4>1, CircuitTypes DEF Cost
<3> QED
  BY <3>4, <3>5
<2>3. CASE call[p].service # s
<3>1. breaker'[s] = breaker[s] /\ wasted'[s] = wasted[s]
  BY <1>5, <1>c, <2>1, <2>3 DEF Fails, RecordFailure
<3> QED
  BY <1>0, <1>5, <2>1, <3>1, Ended, CostKept DEF Fails
<2> QED
  BY <2>2, <2>3
<1>6. ASSUME Tick PROVE Cost(s)'
<2>1. breaker'[s].state = breaker[s].state /\ breaker'[s].failures = breaker[s].failures
  BY <1>6, <1>c DEF Tick, BreakerType
<2> QED
  BY <1>0, <1>6, <2>1, CostKept DEF Tick, InFlight
<1>7. ASSUME UNCHANGED <<breaker, call, wasted>> PROVE Cost(s)'
  BY <1>0, <1>7 DEF Cost, InFlight
<1> QED
  BY <1>1, <1>2, <1>3, <1>4, <1>5, <1>6, <1>7
     DEF Next, CheckFails, Lost, TurnAway, Turns, vars

-----------------------------------------------------------------------------
(* The theorems.                                                           *)

\* Every variable of the gateway keeps its type.
THEOREM TypeCorrect == Spec => []TypeOK
<1>1. IInv => TypeOK
  BY DEF IInv
<1> QED
  BY <1>1, InitIInv, IInvStep, PTL DEF Spec

\* record_failure and record_success: the state of a circuit is a function of
\* its failure count, whatever order late outcomes are recorded in.
THEOREM StateFollowsCount == Spec => []ClosedBelowThreshold
<1>1. IInv => ClosedBelowThreshold
  BY DEF IInv
<1> QED
  BY <1>1, InitIInv, IInvStep, PTL DEF Spec

\* before_call never turns away a request to a service that never fails.
THEOREM CircuitsAreIndependent == Spec => []ReliableIsNeverCut
<1>1. IInv => ReliableIsNeverCut
  BY DEF IInv
<1> QED
  BY <1>1, InitIInv, IInvStep, PTL DEF Spec

\* before_call and record_failure: between two probes, and before the first, no
\* more calls fail than the threshold and those already under way, whatever
\* order they end in and however many of them are counted after the opening.
THEOREM OutagesAreCheap == Spec => []OutageCostIsBounded
<1>1. Init => CostInv
  BY InitIInv DEF CostInv, Cost, Init, Closed
<1>2. CostInv => OutageCostIsBounded
<2> SUFFICES ASSUME CostInv, NEW s \in Service
             PROVE  wasted[s] <= Threshold - 1 + Cardinality(Slot)
  BY DEF OutageCostIsBounded
<2> QED
  BY CircuitTypes DEF CostInv, Cost
<1> QED
  BY <1>1, <1>2, CostStep, PTL DEF Spec
=============================================================================
