---------------------------- MODULE RateLimiter ----------------------------
(***************************************************************************)
(* The rate limiter of the gateway: for each client and service a bucket   *)
(* that counts the requests of a fixed window.  check runs under a lock it *)
(* never has to wait for, so a call of it is one step.                     *)
(***************************************************************************)
EXTENDS Integers, Sequences

CONSTANTS
  Key,      \* "{client}:{service}"
  Limit,    \* RATE_LIMIT_REQUESTS
  Window,   \* RATE_LIMIT_WINDOW_SECONDS
  MaxClock  \* bound on the clock

ASSUME LimitAssumption == Limit \in Nat \ {0} /\ Window \in Nat /\ MaxClock \in Nat

VARIABLES
  clock,    \* time.monotonic()
  bucket,   \* _buckets; no request counted stands for no bucket
  admitted  \* when the requests of a key were let through (history)

vars == <<clock, bucket, admitted>>

NoBucket == [window_started_at |-> 0, count |-> 0]

TypeOK ==
  /\ clock \in Nat
  /\ bucket \in [Key -> [window_started_at : Nat, count : Nat]]
  /\ admitted \in [Key -> Seq(Nat)]

Init ==
  /\ clock = 0
  /\ bucket = [k \in Key |-> NoBucket]
  /\ admitted = [k \in Key |-> <<>>]

\* Mutant: the second a window ends still belongs to it.
WindowOverLate(k) ==
  bucket[k].count = 0 \/ clock - bucket[k].window_started_at > Window

WindowOver(k) ==
  bucket[k].count = 0 \/ clock - bucket[k].window_started_at >= Window

\* Mutant: one request too many.
RefusesLate(k) == ~WindowOver(k) /\ bucket[k].count > Limit

Refuses(k) == ~WindowOver(k) /\ bucket[k].count >= Limit

Admit(k) == admitted' = [admitted EXCEPT ![k] = Append(@, clock)]

\* Mutant: a new bucket starts with the window before it.
OpenWindowBackdated(k) ==
  /\ WindowOver(k)
  /\ bucket' = [bucket EXCEPT ![k] =
       [window_started_at |-> clock - Window, count |-> 1]]
  /\ Admit(k)
  /\ UNCHANGED clock

\* check: the first request of a window opens its bucket ...
OpenWindow(k) ==
  /\ WindowOver(k)
  /\ bucket' = [bucket EXCEPT ![k] = [window_started_at |-> clock, count |-> 1]]
  /\ Admit(k)
  /\ UNCHANGED clock

\* ... the others are counted ...
Count(k) ==
  /\ ~WindowOver(k)
  /\ ~Refuses(k)
  /\ bucket' = [bucket EXCEPT ![k].count = @ + 1]
  /\ Admit(k)
  /\ UNCHANGED clock

\* ... up to the limit.
Refuse(k) == Refuses(k) /\ UNCHANGED vars

Tick ==
  /\ clock < MaxClock
  /\ clock' = clock + 1
  /\ UNCHANGED <<bucket, admitted>>

Next == Tick \/ \E k \in Key : OpenWindow(k) \/ Count(k) \/ Refuse(k)

Spec == Init /\ [][Next]_vars

-----------------------------------------------------------------------------
(* What the limiter promises.                                              *)

\* Any 2 * Limit requests of a key that are let through one after the other
\* take a window at least: the limit of a fixed window, at its worst where two
\* windows meet.
BurstIsBounded ==
  \A k \in Key : \A i, j \in DOMAIN admitted[k] :
    j - i >= 2 * Limit - 1 => admitted[k][j] - admitted[k][i] >= Window

\* A client is refused only if it was let through Limit times within the last
\* window, whatever other clients do.
RefusedOnlyAtLimit ==
  \A k \in Key : Refuses(k) =>
    LET n == Len(admitted[k]) IN
    n >= Limit /\ clock - admitted[k][n - Limit + 1] < Window

=============================================================================
