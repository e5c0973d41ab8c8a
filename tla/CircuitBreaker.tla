-------------------------- MODULE CircuitBreaker --------------------------
(***************************************************************************)
(* The way of a request through the gateway and the circuit breakers on    *)
(* it, one for each upstream service.  The methods of the breaker run      *)
(* under a lock they never have to wait for, so each is part of one step;  *)
(* between before_call and the record of the outcome the request waits for *)
(* the permission check and for the upstream, and other requests run.      *)
(*                                                                         *)
(* Instead of the time a circuit was opened at, a breaker holds the time   *)
(* left until it recovers, and it counts failures only up to the threshold *)
(* they are compared with.                                                 *)
(***************************************************************************)
EXTENDS Naturals, FiniteSets

CONSTANTS
  Service,    \* the names circuits are kept by
  Reliable,   \* services that never fail
  Slot,       \* requests the gateway works on at the same time
  Threshold,  \* CIRCUIT_BREAKER_FAILURE_THRESHOLD
  Recovery,   \* CIRCUIT_BREAKER_RECOVERY_SECONDS
  NoService

ASSUME ServiceAssumption == Reliable \subseteq Service /\ NoService \notin Service
ASSUME ThresholdAssumption == Threshold \in Nat \ {0} /\ Recovery \in Nat
ASSUME SlotAssumption == IsFiniteSet(Slot)

VARIABLES
  breaker,  \* _states; a closed breaker without failures stands for none
  call,     \* call[p]: the request in slot p and how far it is
  healthy,  \* does the service answer? (environment)
  wasted    \* wasted[s]: failures recorded of s since its last success or
            \* since its circuit last went half open (history)

vars == <<breaker, call, healthy, wasted>>

Closed == [state |-> "closed", failures |-> 0, cooldown |-> 0]
Idle == [stage |-> "idle", service |-> NoService]

TypeOK ==
  /\ breaker \in [Service -> [state : {"closed", "open", "half_open"},
                              failures : 0 .. Threshold, cooldown : 0 .. Recovery]]
  /\ call \in [Slot -> [stage : {"check", "upstream"}, service : Service] \cup {Idle}]
  /\ healthy \in [Service -> BOOLEAN]
  /\ wasted \in [Service -> Nat]

Init ==
  /\ breaker = [s \in Service |-> Closed]
  /\ call = [p \in Slot |-> Idle]
  /\ healthy = [s \in Service |-> TRUE]
  /\ wasted = [s \in Service |-> 0]

-----------------------------------------------------------------------------
(* The breaker.                                                            *)

\* Mutant: half open, a breaker admits the probe and nobody else.
RefusesBehindProbe(s) ==
  \/ breaker[s].state = "half_open"
  \/ breaker[s].state = "open" /\ breaker[s].cooldown > 0

\* before_call raises CircuitOpen
Refuses(s) == breaker[s].state = "open" /\ breaker[s].cooldown > 0

\* Mutant: a breaker that goes half open forgets its failures.
BeforeCallForgetting(s) ==
  /\ ~Refuses(s)
  /\ breaker' = IF breaker[s].state = "open"
                THEN [breaker EXCEPT ![s].state = "half_open", ![s].failures = 0]
                ELSE breaker

\* Mutant: before_call raises nothing.
BeforeCallUnchecked(s) ==
  breaker' = IF breaker[s].state = "open" /\ breaker[s].cooldown = 0
             THEN [breaker EXCEPT ![s].state = "half_open"] ELSE breaker

BeforeCall(s) ==
  /\ ~Refuses(s)
  /\ breaker' = IF breaker[s].state = "open"
                THEN [breaker EXCEPT ![s].state = "half_open"] ELSE breaker

RecordSuccess(s) == breaker' = [breaker EXCEPT ![s] = Closed]

\* The failures of a service, one more.
OneMore(s) == IF breaker[s].failures < Threshold
              THEN breaker[s].failures + 1 ELSE Threshold

\* Mutant: the failure after the threshold opens the circuit.
RecordFailureLate(s) ==
  breaker' = [breaker EXCEPT ![s] =
    IF breaker[s].failures >= Threshold
    THEN [state |-> "open", failures |-> Threshold + 1, cooldown |-> Recovery]
    ELSE [@ EXCEPT !.failures = OneMore(s)]]

\* Mutant: all services share one circuit.
RecordFailureOfAll(s) ==
  breaker' = [o \in Service |->
    IF breaker[s].state = "half_open" \/ OneMore(s) >= Threshold
    THEN [state |-> "open", failures |-> Threshold, cooldown |-> Recovery]
    ELSE [breaker[o] EXCEPT !.failures = OneMore(s)]]

RecordFailure(s) ==
  breaker' = [breaker EXCEPT ![s] =
    IF @.state = "half_open" \/ OneMore(s) >= Threshold
    THEN [state |-> "open", failures |-> OneMore(s), cooldown |-> Recovery]
    ELSE [@ EXCEPT !.failures = OneMore(s)]]

-----------------------------------------------------------------------------
(* The requests.                                                           *)

\* A request that passed the rate limit asks the breaker.
Arrive(p, s) ==
  /\ call[p] = Idle
  /\ BeforeCall(s)
  /\ call' = [call EXCEPT ![p] = [stage |-> "check", service |-> s]]
  /\ wasted' = IF breaker'[s].state # breaker[s].state
               THEN [wasted EXCEPT ![s] = 0] ELSE wasted
  /\ UNCHANGED healthy

\* 503 circuit is open
TurnAway(s) == Refuses(s) /\ UNCHANGED vars

\* 401, 403 or 503 of the permission check, 503 for want of the internal token
\* or a client that is gone: nothing is recorded.
CheckFails(p) ==
  /\ call[p].stage = "check"
  /\ call' = [call EXCEPT ![p] = Idle]
  /\ UNCHANGED <<breaker, healthy, wasted>>

Send(p) ==
  /\ call[p].stage = "check"
  /\ call' = [call EXCEPT ![p].stage = "upstream"]
  /\ UNCHANGED <<breaker, healthy, wasted>>

\* The upstream answers with less than 500 ...
Answered(p) ==
  /\ call[p].stage = "upstream"
  /\ RecordSuccess(call[p].service)
  /\ wasted' = [wasted EXCEPT ![call[p].service] = 0]
  /\ call' = [call EXCEPT ![p] = Idle]
  /\ UNCHANGED healthy

\* ... with 500 or more, too late or not at all.
Fails(p) ==
  /\ call[p].stage = "upstream"
  /\ ~healthy[call[p].service]
  /\ RecordFailure(call[p].service)
  /\ wasted' = [wasted EXCEPT ![call[p].service] = @ + 1]
  /\ call' = [call EXCEPT ![p] = Idle]
  /\ UNCHANGED healthy

\* The call ends and nothing is recorded: the client went away, or what was
\* raised is no error of httpx.
Lost(p) ==
  /\ call[p].stage = "upstream"
  /\ call' = [call EXCEPT ![p] = Idle]
  /\ UNCHANGED <<breaker, healthy, wasted>>

\* Time passes for a circuit that recovers.
Tick ==
  /\ \E s \in Service : breaker[s].cooldown > 0
  /\ breaker' = [s \in Service |-> [breaker[s] EXCEPT !.cooldown = IF @ > 0 THEN @ - 1 ELSE 0]]
  /\ UNCHANGED <<call, healthy, wasted>>

\* A service fails or comes back.
Turns(s) ==
  /\ s \notin Reliable
  /\ healthy' = [healthy EXCEPT ![s] = ~@]
  /\ UNCHANGED <<breaker, call, wasted>>

Next ==
  \/ \E p \in Slot : \/ \E s \in Service : Arrive(p, s)
                     \/ CheckFails(p) \/ Send(p) \/ Answered(p) \/ Fails(p) \/ Lost(p)
  \/ \E s \in Service : TurnAway(s) \/ Turns(s)
  \/ Tick

Spec == Init /\ [][Next]_vars

\* Time passes and the gateway works; the HTTP client gives an upstream 10
\* seconds.  Clients keep asking, the checks do not fail all of them, and not
\* every call is lost.
LiveSpec ==
  /\ Spec
  /\ WF_vars(Tick)
  /\ \A p \in Slot : /\ WF_vars(CheckFails(p) \/ Send(p))
                     /\ WF_vars(Answered(p) \/ Fails(p) \/ Lost(p))
  /\ \A s \in Service :
       /\ SF_vars(\E p \in Slot : Arrive(p, s))
       /\ SF_vars(\E p \in Slot : call[p].service = s /\ Send(p))
       /\ SF_vars(\E p \in Slot : call[p].service = s /\ (Answered(p) \/ Fails(p)))

-----------------------------------------------------------------------------
(* What the breaker promises.                                              *)

\* A circuit is closed exactly while failures are missing to the threshold:
\* half open, one more failure is enough to open it again, and so the test of
\* record_failure for half open decides nothing.
ClosedBelowThreshold ==
  \A s \in Service : breaker[s].state = "closed" <=> breaker[s].failures < Threshold

\* Failures of one service never cut off another: circuits are kept by name.
ReliableIsNeverCut == \A s \in Reliable : breaker[s] = Closed

\* What an outage costs: between two openings of a circuit for a probe, and
\* before the first, no more calls of a service fail in a row than the threshold
\* and those that were past before_call when it was reached, although each of
\* these may fail after the circuit opened and be counted late.
OutageCostIsBounded ==
  \A s \in Service : wasted[s] <= Threshold - 1 + Cardinality(Slot)

\* Once a service is back for good, its circuit closes for good: no late
\* failure, lost probe or failed check keeps it open.
Recovers ==
  \A s \in Service : <>[]healthy[s] => <>[](breaker[s].state = "closed")
=============================================================================
