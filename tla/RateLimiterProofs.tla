-------------------------- MODULE RateLimiterProofs -------------------------
(***************************************************************************)
(* Theorems about RateLimiter, for any number of loops and permits, any    *)
(* rate and any tolerance of the timers.                                   *)
(***************************************************************************)
EXTENDS RateLimiter, TLAPS

\* nextAvailableAt is an interval per permit behind every permit given, and only
\* the head of the chain sleeps, until then.
Scheduled ==
  \A i \in 1..Len(times) :
    times[i] + (Len(times) - i + 1) * IntervalMs <= nextAvailableAt

OneTimer == \A l \in Loops : at[l] = "sleeping" => IsHead(l) /\ due = nextAvailableAt

IInv == TypeOK /\ Scheduled /\ Spaced /\ OneTimer

LEMMA IntervalType == IntervalMs \in Nat
<1>1. Rate \in Nat \ {0}
  BY LimiterAssumption DEF Rate
<1>2. 10000 + Rate - 1 \in Nat
  BY <1>1
<1> QED
  BY <1>1, <1>2 DEF IntervalMs

LEMMA OneMore == \A m \in Int : (m + 1) * IntervalMs = m * IntervalMs + IntervalMs
BY IntervalType

LEMMA InitInv == Init => IInv
BY DEF Init, IInv, TypeOK, Scheduled, Spaced, OneTimer, AtStates

\* A permit is due by the schedule, less what a timer may be early.
LEMMA GrantInv ==
  ASSUME IInv, NEW l \in Loops, IsHead(l), Grant(l), nextAvailableAt <= now + Early
  PROVE  IInv'
<1> DEFINE n == Len(times)
<1>1. /\ IntervalMs \in Nat /\ now \in Nat /\ nextAvailableAt \in Nat /\ Early \in Nat
      /\ n \in Nat /\ times \in Seq(Nat) /\ chain \in Seq(Loops)
  BY IntervalType, LimiterAssumption DEF IInv, TypeOK
<1>2. /\ nextAvailableAt' \in Nat /\ now' = now
      /\ nextAvailableAt + IntervalMs <= nextAvailableAt'
      /\ now + IntervalMs <= nextAvailableAt'
  BY <1>1 DEF Grant, NextAfter
<1>3. /\ times' \in Seq(Nat) /\ Len(times') = n + 1
      /\ \A i \in 1..n : times'[i] = times[i] /\ times[i] \in Nat
      /\ times'[n + 1] = now
  BY <1>1 DEF Grant
<1>4. TypeOK'
  <2>1. chain' \in Seq(Loops)
    BY <1>1 DEF Grant, IsHead
  <2> QED
    BY <1>2, <1>3, <2>1 DEF IInv, TypeOK, Grant, AtStates
<1>5. Scheduled'
  <2> SUFFICES ASSUME NEW i \in 1..(n + 1)
               PROVE  times'[i] + (n + 1 - i + 1) * IntervalMs <= nextAvailableAt'
    BY <1>3, IntervalType DEF Scheduled, IntervalMs, Rate
  <2>1. CASE i = n + 1
    <3>1. (n + 1 - i + 1) * IntervalMs = IntervalMs
      BY <1>1, <2>1
    <3> QED
      BY <1>1, <1>2, <1>3, <2>1, <3>1
  <2>2. CASE i \in 1..n
    <3>1. (n - i + 1) \in Nat /\ n + 1 - i + 1 = (n - i + 1) + 1
      BY <1>1, <2>2
    <3>2. (n + 1 - i + 1) * IntervalMs = (n - i + 1) * IntervalMs + IntervalMs
      BY <3>1, OneMore
    <3>3. times[i] + (n - i + 1) * IntervalMs <= nextAvailableAt
      BY <2>2 DEF IInv, Scheduled
    <3>4. (n - i + 1) * IntervalMs \in Nat
      BY <1>1, <3>1
    <3> HIDE DEF n
    <3> QED
      BY <1>1, <1>2, <1>3, <2>2, <3>2, <3>3, <3>4
  <2> QED
    BY <1>1, <2>1, <2>2
<1>6. Spaced'
  <2> SUFFICES ASSUME NEW j \in 1..(n + 1), NEW i \in 1..(j - 1)
               PROVE  (j - i) * IntervalMs <= times'[j] - times'[i] + Early
    BY <1>3, IntervalType DEF Spaced, IntervalMs, Rate
  <2>1. CASE j \in 1..n
    <3>1. i \in 1..n /\ times'[j] = times[j] /\ times'[i] = times[i]
      BY <1>1, <1>3, <2>1
    <3> QED
      BY <2>1, <3>1 DEF IInv, Spaced
  <2>2. CASE j = n + 1
    <3>1. i \in 1..n /\ n - i + 1 = j - i /\ times'[j] = now /\ times'[i] = times[i]
          /\ times[i] \in Nat
      BY <1>1, <1>3, <2>2
    <3>2. times[i] + (j - i) * IntervalMs <= nextAvailableAt
      BY <3>1 DEF IInv, Scheduled
    <3>3. (j - i) * IntervalMs \in Nat
      BY <1>1, <3>1, <2>2
    <3> HIDE DEF n
    <3> QED
      BY <1>1, <3>1, <3>2, <3>3
  <2>3. j \in 1..n \/ j = n + 1
    BY <1>1
  <2> QED
    BY <2>1, <2>2, <2>3, Zenon
<1>7. OneTimer'
  BY DEF IInv, TypeOK, OneTimer, Grant, IsHead
<1> QED
  BY <1>4, <1>5, <1>6, <1>7 DEF IInv

LEMMA NextInv == IInv /\ [Next]_vars => IInv'
<1> SUFFICES ASSUME IInv, [Next]_vars PROVE IInv'
  OBVIOUS
<1>1. ASSUME UNCHANGED <<nextAvailableAt, times>>, TypeOK', OneTimer'
      PROVE  IInv'
  BY <1>1 DEF IInv, Scheduled, Spaced
<1>2. CASE TimePasses
  BY <1>1, <1>2 DEF TimePasses, IInv, TypeOK, OneTimer, IsHead
<1>3. ASSUME NEW l \in Loops, AcquirePermit(l) PROVE IInv'
  <2>1. chain' \in Seq(Loops) /\ (chain # <<>> => chain' # <<>> /\ Head(chain') = Head(chain))
    BY <1>3 DEF AcquirePermit, IInv, TypeOK
  <2> QED
    BY <1>1, <1>3, <2>1 DEF AcquirePermit, IInv, TypeOK, OneTimer, IsHead, AtStates
<1>4. ASSUME NEW l \in Loops, PreviousReleased(l) PROVE IInv'
  <2>1. CASE nextAvailableAt > now
    BY <1>1, <1>4, <2>1 DEF PreviousReleased, IInv, TypeOK, OneTimer, IsHead, AtStates
  <2>2. CASE ~(nextAvailableAt > now)
    <3>1. nextAvailableAt <= now + Early
      BY <2>2, LimiterAssumption DEF IInv, TypeOK
    <3> QED
      BY <1>4, <2>2, <3>1, GrantInv DEF PreviousReleased
  <2> QED
    BY <2>1, <2>2
<1>5. ASSUME NEW l \in Loops, WakeUp(l) PROVE IInv'
  <2>1. nextAvailableAt <= now + Early
    BY <1>5 DEF WakeUp, IInv, OneTimer
  <2> QED
    BY <1>5, <2>1, GrantInv DEF WakeUp
<1>6. ASSUME NEW l \in Loops, Sent(l) \/ SendFails(l) PROVE IInv'
  BY <1>1, <1>6 DEF Sent, SendFails, IInv, TypeOK, OneTimer, IsHead, AtStates
<1>7. CASE UNCHANGED vars
  BY <1>1, <1>7 DEF vars, IInv, TypeOK, OneTimer, IsHead
<1> QED
  BY <1>2, <1>3, <1>4, <1>5, <1>6, <1>7 DEF Next

LEMMA Inductive == Spec => []IInv
BY InitInv, NextInv, PTL DEF Spec

\* However late or early timers fire and whoever fails, permits keep the
\* interval on average over every stretch of a batch.
THEOREM PermitsAreSpaced == Spec => []Spaced
<1>1. IInv => Spaced
  BY DEF IInv
<1> QED
  BY Inductive, <1>1, PTL

\* Rounding the interval up costs rate, never the other way round.
LEMMA IntervalCoversRate == IntervalMs * Rate >= 10000
<1> DEFINE r == Rate
           n == 10000 + r - 1
<1>1. r \in Nat /\ r > 0 /\ n \in Nat
  BY LimiterAssumption DEF Rate
<1>2. n = r * (n \div r) + (n % r) /\ n % r \in 0..(r - 1) /\ n \div r \in Nat
  <2> HIDE DEF n, r
  <2> QED
    BY <1>1
<1>3. (n \div r) * r = r * (n \div r)
  <2> HIDE DEF n, r
  <2> QED
    BY <1>1, <1>2
<1>4. IntervalMs = n \div r
  BY DEF IntervalMs
<1> HIDE DEF r
<1>5. (n \div r) * r >= 10000
  BY <1>1, <1>2, <1>3
<1> QED
  BY <1>4, <1>5 DEF r

\* Over every stretch of a batch the permits stay below the configured rate.
THEOREM RateIsKept == Spec => []RateKept
<1>1. IInv => RateKept
  <2> SUFFICES ASSUME IInv, NEW j \in 1..Len(times), NEW i \in 1..(j - 1)
               PROVE  (j - i) * 10000 <= (times[j] - times[i] + Early) * Rate
    BY DEF RateKept
  <2> DEFINE k == j - i
             d == times[j] - times[i] + Early
  <2>1. k \in Nat /\ d \in Int /\ IntervalMs \in Nat /\ Rate \in Nat
    BY IntervalType, LimiterAssumption DEF IInv, TypeOK, Rate
  <2>2. k * IntervalMs <= d
    BY DEF IInv, Spaced
  <2> HIDE DEF k, d
  <2>3. (k * IntervalMs) * Rate <= d * Rate
    BY <2>1, <2>2
  <2>4. (k * IntervalMs) * Rate = k * (IntervalMs * Rate)
    BY <2>1
  <2>5. k * 10000 <= k * (IntervalMs * Rate)
    BY <2>1, IntervalCoversRate
  <2> QED
    BY <2>1, <2>3, <2>4, <2>5 DEF k, d
<1> QED
  BY Inductive, <1>1, PTL

=============================================================================
