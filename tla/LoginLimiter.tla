--------------------------- MODULE LoginLimiter ---------------------------
(***************************************************************************)
(* The limit on failed logins: two counters in Redis, one for the user     *)
(* name and one for the address, read before a password is checked and     *)
(* counted up afterwards.  Each pipeline is a MULTI, so one step; the time *)
(* to live of a counter is set by a second one, after the count is known.  *)
(***************************************************************************)
EXTENDS Integers, Sequences, FiniteSets

CONSTANTS
  Username,
  Address,
  Slot,           \* logins the auth service works on at the same time
  MaxByUsername,  \* LOGIN_FAILURE_MAX_BY_USERNAME
  MaxByAddress,   \* LOGIN_FAILURE_MAX_BY_IP
  Window,         \* LOGIN_FAILURE_WINDOW_SECONDS
  Lock,           \* LOGIN_LOCK_SECONDS
  MaxCrashes,     \* logins that may die half way
  MaxClock        \* bound on the clock

Key == Username \cup Address

ASSUME KeyAssumption == Username \cap Address = {}
ASSUME LimitAssumption ==
  /\ MaxByUsername \in Nat \ {0} /\ MaxByAddress \in Nat \ {0}
  /\ Window \in Nat \ {0} /\ Lock \in Nat \ {0}
  /\ MaxCrashes \in Nat /\ MaxClock \in Nat
ASSUME SlotAssumption == IsFiniteSet(Slot)

VARIABLES
  clock,
  counter,   \* auth:login_fails:user:{name} and auth:login_fails:ip:{address}
  attempt,   \* attempt[p]: the login in slot p and how far it is
  crashes,
  failures   \* when failures were counted; for a name, since its last
             \* success (history)

vars == <<clock, counter, attempt, crashes, failures>>

Never == 0
Missing == [count |-> 0, expires |-> Never]

\* INCR makes a counter and DEL ends it, so a counter there is has counted.
Counter == [count : Nat \ {0}, expires : Nat]

Idle == [step |-> "idle"]
Verifying == [step : {"verify"}, username : Username, address : Address]
Counted == [step : {"expire"}, results : [Key -> Nat]]

TypeOK ==
  /\ clock \in Nat
  /\ counter \in [Key -> Counter \cup {Missing}]
  /\ attempt \in [Slot -> {Idle} \cup Verifying \cup Counted]
  /\ crashes \in 0 .. MaxCrashes
  /\ failures \in [Key -> Seq(Nat)]

Init ==
  /\ clock = 0
  /\ counter = [k \in Key |-> Missing]
  /\ attempt = [p \in Slot |-> Idle]
  /\ crashes = 0
  /\ failures = [k \in Key |-> <<>>]

-----------------------------------------------------------------------------
(* The store.                                                              *)

Limit(k) == IF k \in Username THEN MaxByUsername ELSE MaxByAddress

Present(k) == counter[k].expires = Never \/ clock < counter[k].expires

\* GET
Fails(k) == IF Present(k) THEN counter[k].count ELSE 0

\* INCR keeps the time to live; a counter it creates has none.
Incremented(k) == IF Present(k) THEN [counter[k] EXCEPT !.count = @ + 1]
                                ELSE [count |-> 1, expires |-> Never]

-----------------------------------------------------------------------------
(* A login.                                                                *)

\* Mutant: the last failure allowed is one too many.
BlockedLate(k) == Fails(k) > Limit(k)

Blocked(k) == Fails(k) >= Limit(k)

At(p, step) == attempt[p].step = step
Answer(p) == attempt' = [attempt EXCEPT ![p] = Idle]

\* check_limits passes
Check(p, username, address) ==
  /\ At(p, "idle")
  /\ ~Blocked(username) /\ ~Blocked(address)
  /\ attempt' = [attempt EXCEPT ![p] =
       [step |-> "verify", username |-> username, address |-> address]]
  /\ UNCHANGED <<clock, counter, crashes, failures>>

\* check_limits raises 429
Refuse(username, address) ==
  /\ Blocked(username) \/ Blocked(address)
  /\ UNCHANGED vars

\* Unknown user, broken hash or wrong password: record_failure counts ...
RecordFailure(p) ==
  LET keys == {attempt[p].username, attempt[p].address}
      counted == [k \in Key |-> IF k \in keys THEN Incremented(k) ELSE counter[k]] IN
  /\ At(p, "verify")
  /\ counter' = counted
  /\ attempt' = [attempt EXCEPT ![p] =
       [step |-> "expire",
        results |-> [k \in Key |-> IF k \in keys THEN counted[k].count ELSE 0]]]
  /\ failures' = [k \in Key |-> IF k \in keys THEN Append(failures[k], clock)
                                              ELSE failures[k]]
  /\ UNCHANGED <<clock, crashes>>

\* Mutant: only the first failure sets a time to live.
ExpiryOfFirst(k, result) ==
  IF result = 1 THEN clock + Window ELSE counter[k].expires

\* Mutant: a lock has no end.
ExpiryWithoutLock(k, result) ==
  IF result = 1 THEN clock + Window
  ELSE IF result >= Limit(k) THEN Never ELSE counter[k].expires

\* The expiry record_failure gives a counter that it raised to result.
Expiry(k, result) ==
  IF result = 1 THEN clock + Window
  ELSE IF result >= Limit(k) THEN clock + Lock ELSE counter[k].expires

\* ... and then sets the times to live; EXPIRE of a missing key does nothing.
Expire(p) ==
  /\ At(p, "expire")
  /\ counter' = [k \in Key |->
       IF attempt[p].results[k] > 0 /\ Fails(k) > 0
       THEN [counter[k] EXCEPT !.expires = Expiry(k, attempt[p].results[k])]
       ELSE counter[k]]
  /\ Answer(p)
  /\ UNCHANGED <<clock, crashes, failures>>

\* Mutant: a success clears the failures of the address as well.
SucceedClearingBoth(p) ==
  LET keys == {attempt[p].username, attempt[p].address} IN
  /\ At(p, "verify")
  /\ counter' = [k \in Key |-> IF k \in keys THEN Missing ELSE counter[k]]
  /\ failures' = [failures EXCEPT ![attempt[p].username] = <<>>]
  /\ Answer(p)
  /\ UNCHANGED <<clock, crashes>>

\* Mutant: a success takes one failure back, DECR in place of DEL, which makes
\* a counter of nothing.
SucceedTakingOneBack(p) ==
  LET username == attempt[p].username IN
  /\ At(p, "verify")
  /\ counter' = [counter EXCEPT ![username] = [@ EXCEPT !.count = Fails(username) - 1]]
  /\ failures' = [failures EXCEPT ![username] = <<>>]
  /\ Answer(p)
  /\ UNCHANGED <<clock, crashes>>

\* The right password: clear_failures of the name.
Succeed(p) ==
  /\ At(p, "verify")
  /\ counter' = [counter EXCEPT ![attempt[p].username] = Missing]
  /\ failures' = [failures EXCEPT ![attempt[p].username] = <<>>]
  /\ Answer(p)
  /\ UNCHANGED <<clock, crashes>>

\* The process or Redis fails between two steps.
Die(p) ==
  /\ ~At(p, "idle")
  /\ crashes < MaxCrashes
  /\ crashes' = crashes + 1
  /\ Answer(p)
  /\ UNCHANGED <<clock, counter, failures>>

Tick ==
  /\ clock < MaxClock
  /\ clock' = clock + 1
  /\ UNCHANGED <<counter, attempt, crashes, failures>>

Next ==
  \/ \E p \in Slot :
       \/ \E username \in Username, address \in Address : Check(p, username, address)
       \/ RecordFailure(p) \/ Expire(p) \/ Succeed(p) \/ Die(p)
  \/ \E username \in Username, address \in Address : Refuse(username, address)
  \/ Tick

Spec == Init /\ [][Next]_vars

-----------------------------------------------------------------------------
(* What the limiter promises.                                              *)

\* The failures one counter can come to: logins that run side by side all see
\* the counter before any of them raises it.
Worst(k) == Limit(k) - 1 + Cardinality(Slot)

\* No counter is raised beyond the limit but by the logins that were already
\* past check_limits when it was reached.
OvershootIsBounded == \A k \in Key : Fails(k) <= Worst(k)

\* A lock ends: a counter at its limit expires, or a login that counted is
\* about to see to it.  One login may die on the way, if the limit is not 1.
LockExpires ==
  \A k \in Key : Blocked(k) =>
    \/ counter[k].expires # Never
    \/ \E p \in Slot : /\ At(p, "expire")
                       /\ attempt[p].results[k] = 1 \/ attempt[p].results[k] >= Limit(k)

\* The failures of an address are not forgotten by logging in to some account:
\* as many as two counters can hold take at least as long as a counter lives.
AddressFailuresAreSpaced ==
  \A a \in Address : \A i, j \in DOMAIN failures[a] :
    j - i >= 2 * Worst(a) - 1 =>
      failures[a][j] - failures[a][i] >= IF Lock < Window THEN Lock ELSE Window

=============================================================================
