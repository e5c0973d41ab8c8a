------------------------- MODULE RateLimiterProofs -------------------------
(***************************************************************************)
(* The bounds of RateLimiter for every limit, window and set of clients.   *)
(***************************************************************************)
EXTENDS RateLimiter, TLAPS

USE LimitAssumption

-----------------------------------------------------------------------------
(* The inductive invariant: how a bucket relates to what was let through.  *)

\* The number of requests of k let through.
Total(k) == Len(admitted[k])

\* The bucket counts the last requests, the first of which opened it.
BucketCounts(k) ==
  /\ bucket[k].count <= Limit
  /\ bucket[k].count <= Total(k)
  /\ bucket[k].count = 0 => Total(k) = 0
  /\ bucket[k].count > 0 =>
       admitted[k][Total(k) - bucket[k].count + 1] = bucket[k].window_started_at

\* Requests are let through in the order of time.
InOrder(k) ==
  /\ \A i, j \in 1 .. Total(k) : i <= j => admitted[k][i] <= admitted[k][j]
  /\ \A i \in 1 .. Total(k) : admitted[k][i] <= clock

\* Of those that came before the bucket, all but the last Limit - 1 came a
\* window or more before it.
EarlierIsOld(k) ==
  \A i \in 1 .. Total(k) :
    i <= Total(k) - bucket[k].count - Limit + 1 =>
      admitted[k][i] + Window <= bucket[k].window_started_at

\* BurstIsBounded for one key.
Spaced(k) ==
  \A i, j \in 1 .. Total(k) :
    j - i >= 2 * Limit - 1 => admitted[k][j] - admitted[k][i] >= Window

KeyInv(k) == BucketCounts(k) /\ InOrder(k) /\ EarlierIsOld(k) /\ Spaced(k)

IInv == TypeOK /\ \A k \in Key : KeyInv(k)

-----------------------------------------------------------------------------
(* Type correctness.                                                       *)

LEMMA InitTypeOK == Init => TypeOK
  BY DEF Init, TypeOK, NoBucket

LEMMA TypeOKStep == TypeOK /\ [Next]_vars => TypeOK'
<1> SUFFICES ASSUME TypeOK, [Next]_vars PROVE TypeOK'
  OBVIOUS
<1>1. ASSUME NEW k \in Key, Admit(k) PROVE admitted' \in [Key -> Seq(Nat)]
<2>1. admitted[k] \in Seq(Nat) /\ clock \in Nat
  BY DEF TypeOK
<2>2. Append(admitted[k], clock) \in Seq(Nat)
  BY <2>1
<2>3. admitted' = [admitted EXCEPT ![k] = Append(admitted[k], clock)]
  BY <1>1 DEF Admit
<2> QED
  BY <2>2, <2>3 DEF TypeOK
<1>2. ASSUME NEW k \in Key, OpenWindow(k) PROVE TypeOK'
  BY <1>1, <1>2 DEF TypeOK, OpenWindow
<1>3. ASSUME NEW k \in Key, Count(k) PROVE TypeOK'
<2>1. [bucket[k] EXCEPT !.count = @ + 1] \in [window_started_at : Nat, count : Nat]
  BY SMTT(20) DEF TypeOK
<2>2. admitted' \in [Key -> Seq(Nat)]
  BY <1>1, <1>3 DEF Count
<2> QED
  BY <1>3, <2>1, <2>2 DEF TypeOK, Count
<1>4. ASSUME Tick PROVE TypeOK'
  BY <1>4 DEF TypeOK, Tick
<1>5. ASSUME UNCHANGED vars PROVE TypeOK'
  BY <1>5 DEF TypeOK, vars
<1> QED
  BY <1>2, <1>3, <1>4, <1>5 DEF Next, Refuse

-----------------------------------------------------------------------------
(* The steps of one key.                                                   *)

\* One more request, let through now.
LEMMA Admitted ==
  ASSUME TypeOK, NEW k \in Key, Admit(k)
  PROVE  /\ Total(k)' = Total(k) + 1
         /\ Total(k) \in Nat
         /\ \A i \in 1 .. Total(k) : admitted'[k][i] = admitted[k][i] /\ admitted[k][i] \in Nat
         /\ admitted'[k][Total(k) + 1] = clock
<1>1. admitted[k] \in Seq(Nat) /\ clock \in Nat
  BY DEF TypeOK
<1>2. admitted'[k] = Append(admitted[k], clock)
  BY DEF Admit, TypeOK
<1> QED
  BY <1>1, <1>2 DEF Total

LEMMA OpenWindowKeyInv ==
  ASSUME TypeOK, NEW k \in Key, KeyInv(k), OpenWindow(k)
  PROVE  KeyInv(k)'
<1> DEFINE n == Total(k)
           c == bucket[k].count
           s == bucket[k].window_started_at
<1>1. /\ Total(k)' = n + 1 /\ n \in Nat
      /\ \A i \in 1 .. n : admitted'[k][i] = admitted[k][i] /\ admitted[k][i] \in Nat
      /\ admitted'[k][n + 1] = clock
  BY Admitted DEF OpenWindow
<1>2. /\ bucket'[k].count = 1 /\ bucket'[k].window_started_at = clock
      /\ clock' = clock /\ clock \in Nat /\ c \in Nat /\ s \in Nat
  BY DEF OpenWindow, TypeOK
<1>3. BucketCounts(k)'
  BY <1>1, <1>2 DEF BucketCounts
<1>4. InOrder(k)'
  BY <1>1, <1>2 DEF InOrder, KeyInv
<1>5. ASSUME NEW i \in 1 .. n, i <= n - Limit + 1
      PROVE admitted[k][i] + Window <= clock
<2>1. c > 0 /\ clock - s >= Window
  BY <1>1, <1>2 DEF OpenWindow, WindowOver, KeyInv, BucketCounts
<2>2. i <= n - c + 1 /\ n - c + 1 \in 1 .. n
  BY <1>1, <1>2, <1>5, <2>1 DEF KeyInv, BucketCounts
<2>3. admitted[k][i] <= s
  BY <2>1, <2>2 DEF KeyInv, BucketCounts, InOrder
<2> QED
  BY <1>1, <1>2, <2>1, <2>3
<1>6. EarlierIsOld(k)'
  BY <1>1, <1>2, <1>5 DEF EarlierIsOld
<1>7. Spaced(k)'
  BY <1>1, <1>2, <1>5 DEF Spaced, KeyInv
<1> QED
  BY <1>3, <1>4, <1>6, <1>7 DEF KeyInv

LEMMA CountKeyInv ==
  ASSUME TypeOK, NEW k \in Key, KeyInv(k), Count(k)
  PROVE  KeyInv(k)'
<1> DEFINE n == Total(k)
           c == bucket[k].count
           s == bucket[k].window_started_at
<1>1. /\ Total(k)' = n + 1 /\ n \in Nat
      /\ \A i \in 1 .. n : admitted'[k][i] = admitted[k][i] /\ admitted[k][i] \in Nat
      /\ admitted'[k][n + 1] = clock
  BY Admitted DEF Count
<1>2. /\ bucket'[k].count = c + 1 /\ bucket'[k].window_started_at = s
      /\ clock' = clock /\ clock \in Nat /\ c \in Nat /\ s \in Nat
  BY DEF Count, TypeOK
<1>3. c > 0 /\ c < Limit
  BY <1>2 DEF Count, WindowOver, Refuses
<1>4. n - c + 1 \in 1 .. n /\ admitted[k][n - c + 1] = s /\ s <= clock
  BY <1>1, <1>2, <1>3 DEF KeyInv, BucketCounts, InOrder
<1>5. BucketCounts(k)'
  BY <1>1, <1>2, <1>3, <1>4 DEF BucketCounts, KeyInv
<1>6. InOrder(k)'
  BY <1>1, <1>2 DEF InOrder, KeyInv
<1>7. EarlierIsOld(k)'
  BY <1>1, <1>2, <1>3 DEF EarlierIsOld, KeyInv
<1>8. ASSUME NEW i \in 1 .. n, i <= n - 2 * Limit + 2
      PROVE admitted[k][i] + Window <= clock
  BY <1>1, <1>2, <1>3, <1>4, <1>8 DEF KeyInv, EarlierIsOld
<1>9. Spaced(k)'
  BY <1>1, <1>2, <1>8, SMTT(20) DEF Spaced, KeyInv
<1> QED
  BY <1>5, <1>6, <1>7, <1>9 DEF KeyInv

\* What happens to other keys, and time, leave a key as it is.
LEMMA KeptKeyInv ==
  ASSUME TypeOK, NEW k \in Key, KeyInv(k), bucket'[k] = bucket[k],
         admitted'[k] = admitted[k], clock' \in Nat, clock' >= clock
  PROVE  KeyInv(k)'
<1>1. Total(k)' = Total(k) /\ Total(k) \in Nat /\ clock \in Nat
      /\ \A i \in 1 .. Total(k) : admitted[k][i] \in Nat
  BY DEF Total, TypeOK
<1>2. BucketCounts(k)' /\ EarlierIsOld(k)' /\ Spaced(k)'
  BY <1>1 DEF KeyInv, BucketCounts, EarlierIsOld, Spaced
<1>3. InOrder(k)'
  BY <1>1 DEF KeyInv, InOrder
<1> QED
  BY <1>2, <1>3 DEF KeyInv

LEMMA InitIInv == Init => IInv
<1> SUFFICES ASSUME Init PROVE IInv
  OBVIOUS
<1>1. ASSUME NEW k \in Key PROVE KeyInv(k)
<2>1. Total(k) = 0 /\ bucket[k] = NoBucket
  BY DEF Init, Total
<2> QED
  BY <2>1 DEF KeyInv, BucketCounts, InOrder, EarlierIsOld, Spaced, NoBucket
<1> QED
  BY <1>1, InitTypeOK DEF IInv

LEMMA IInvStep == IInv /\ [Next]_vars => IInv'
<1> SUFFICES ASSUME IInv, [Next]_vars PROVE IInv'
  OBVIOUS
<1>1. TypeOK /\ TypeOK'
  BY TypeOKStep DEF IInv
<1>2. ASSUME NEW k \in Key PROVE KeyInv(k)'
<2>1. ASSUME NEW l \in Key, OpenWindow(l) PROVE KeyInv(k)'
<3>1. CASE l = k
  BY <1>1, <2>1, <3>1, OpenWindowKeyInv DEF IInv
<3>2. CASE l # k
  BY <1>1, <2>1, <3>2, KeptKeyInv DEF IInv, OpenWindow, Admit, TypeOK
<3> QED
  BY <3>1, <3>2
<2>2. ASSUME NEW l \in Key, Count(l) PROVE KeyInv(k)'
<3>1. CASE l = k
  BY <1>1, <2>2, <3>1, CountKeyInv DEF IInv
<3>2. CASE l # k
  BY <1>1, <2>2, <3>2, KeptKeyInv DEF IInv, Count, Admit, TypeOK
<3> QED
  BY <3>1, <3>2
<2>3. ASSUME Tick PROVE KeyInv(k)'
  BY <1>1, <2>3, KeptKeyInv DEF IInv, Tick, TypeOK
<2>4. ASSUME UNCHANGED vars PROVE KeyInv(k)'
  BY <1>1, <2>4, KeptKeyInv DEF IInv, vars, TypeOK
<2> QED
  BY <2>1, <2>2, <2>3, <2>4 DEF Next, Refuse
<1> QED
  BY <1>1, <1>2 DEF IInv

-----------------------------------------------------------------------------
(* The theorems.                                                           *)

\* check never counts or dates a bucket wrongly, whatever the clients do.
THEOREM TypeCorrect == Spec => []TypeOK
<1>1. IInv => TypeOK
  BY DEF IInv
<1> QED
  BY <1>1, InitIInv, IInvStep, PTL DEF Spec

\* check, where two windows meet: any 2 * Limit requests of a client in a row
\* take a window at least.
THEOREM BurstsAreBounded == Spec => []BurstIsBounded
<1>1. IInv => BurstIsBounded
<2> SUFFICES ASSUME IInv, NEW k \in Key, NEW i \in DOMAIN admitted[k],
                    NEW j \in DOMAIN admitted[k], j - i >= 2 * Limit - 1
             PROVE  admitted[k][j] - admitted[k][i] >= Window
  BY DEF BurstIsBounded
<2>1. admitted[k] \in Seq(Nat)
  BY DEF IInv, TypeOK
<2>2. i \in 1 .. Total(k) /\ j \in 1 .. Total(k)
  BY <2>1 DEF Total
<2> QED
  BY <2>2 DEF IInv, KeyInv, Spaced
<1> QED
  BY <1>1, InitIInv, IInvStep, PTL DEF Spec

\* check refuses nobody who was let through less than Limit times within the
\* last window.
THEOREM RefusalsAreDue == Spec => []RefusedOnlyAtLimit
<1>1. IInv => RefusedOnlyAtLimit
<2> SUFFICES ASSUME IInv, NEW k \in Key, Refuses(k)
             PROVE  Total(k) >= Limit /\ clock - admitted[k][Total(k) - Limit + 1] < Window
  BY DEF RefusedOnlyAtLimit, Total
<2>1. bucket[k].count = Limit /\ clock - bucket[k].window_started_at < Window
  BY DEF Refuses, WindowOver, IInv, KeyInv, BucketCounts, TypeOK
<2>2. /\ Total(k) >= Limit
      /\ admitted[k][Total(k) - Limit + 1] = bucket[k].window_started_at
  BY <2>1 DEF IInv, KeyInv, BucketCounts
<2> QED
  BY <2>1, <2>2
<1> QED
  BY <1>1, InitIInv, IInvStep, PTL DEF Spec
=============================================================================
