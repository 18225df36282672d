----------------------------- MODULE RateLimiter ----------------------------
(***************************************************************************)
(* The rate limiter that the send loops of one batch share                 *)
(* (createGlobalRateLimiter in src/relay-executor-controlled-              *)
(* concurrency.js): permits are handed out through a chain of promises,    *)
(* and a timer holds the head of the chain until the next permit is due.   *)
(*                                                                         *)
(* The clock is Date.now() in milliseconds and does not run backwards; a   *)
(* timer may fire late, and up to Early milliseconds before its time.      *)
(***************************************************************************)
EXTENDS Integers, Sequences

CONSTANTS
  Loops,        \* send loops of the batch
  RateTenths,   \* maxMsgsPerSecond, in tenths
  Early,        \* how early a timer may fire
  MaxPermits,   \* bound on permits
  MaxStart,     \* bound: no loop asks for a permit after this time
  MaxTime       \* bound on the clock while no timer is set

ASSUME LimiterAssumption ==
  /\ RateTenths \in Nat /\ Early \in Nat
  /\ MaxPermits \in Nat /\ MaxStart \in Nat /\ MaxTime \in Nat

VARIABLES
  now,
  nextAvailableAt,
  chain,        \* loops whose promise is not released, in order
  at,           \* where each loop is
  due,          \* when the timer of the head of the chain is due
  times         \* when each permit was given

vars == <<now, nextAvailableAt, chain, at, due, times>>

AtStates == {"busy", "chained", "sleeping", "sending", "stopped"}

\* Number(maxMsgsPerSecond || 1); a rate below a tenth would be raised to it.
Rate == IF RateTenths = 0 THEN 10 ELSE RateTenths

\* Mutant: Math.floor.
IntervalRoundedDown == 10000 \div Rate

\* Math.ceil(1000 / rate)
IntervalMs == (10000 + Rate - 1) \div Rate

TypeOK ==
  /\ now \in Nat /\ nextAvailableAt \in Nat /\ due \in Nat
  /\ chain \in Seq(Loops)
  /\ at \in [Loops -> AtStates]
  /\ times \in Seq(Nat)

Init ==
  /\ now = 0
  /\ nextAvailableAt = 0
  /\ chain = <<>>
  /\ at = [l \in Loops |-> "busy"]
  /\ due = 0
  /\ times = <<>>

\* A loop that has marked its recipient asks for a permit: its own promise
\* becomes the end of the chain before it awaits the previous one.
AcquirePermit(l) ==
  /\ at[l] = "busy"
  /\ Len(times) + Len(chain) < MaxPermits /\ now <= MaxStart
  /\ chain' = Append(chain, l)
  /\ at' = [at EXCEPT ![l] = "chained"]
  /\ UNCHANGED <<now, nextAvailableAt, due, times>>

\* Mutant: the next permit is due from the last one on, however late it was.
NextFromSchedule == nextAvailableAt + IntervalMs

NextAfter == (IF nextAvailableAt > now THEN nextAvailableAt ELSE now) + IntervalMs

\* Mutant: the promise is not released.
GrantUnreleased(l) ==
  /\ nextAvailableAt' = NextAfter
  /\ at' = [at EXCEPT ![l] = "sending"]
  /\ times' = Append(times, now)
  /\ UNCHANGED <<now, chain, due>>

\* nextAvailableAt is advanced, the promise released, and the loop sends.
Grant(l) ==
  /\ nextAvailableAt' = NextAfter
  /\ chain' = Tail(chain)
  /\ at' = [at EXCEPT ![l] = "sending"]
  /\ times' = Append(times, now)
  /\ UNCHANGED <<now, due>>

IsHead(l) == chain # <<>> /\ Head(chain) = l

\* The previous promise is released: wait for the rest of the interval, if any.
PreviousReleased(l) ==
  /\ IsHead(l) /\ at[l] = "chained"
  /\ IF nextAvailableAt > now
       THEN /\ at' = [at EXCEPT ![l] = "sleeping"]
            /\ due' = nextAvailableAt
            /\ UNCHANGED <<now, nextAvailableAt, chain, times>>
       ELSE Grant(l)

WakeUp(l) ==
  /\ IsHead(l) /\ at[l] = "sleeping"
  /\ now + Early >= due
  /\ Grant(l)

\* sendMail and the statements after it; an error ends the loop.
Sent(l) ==
  /\ at[l] = "sending"
  /\ at' = [at EXCEPT ![l] = "busy"]
  /\ UNCHANGED <<now, nextAvailableAt, chain, due, times>>

SendFails(l) ==
  /\ at[l] = "sending"
  /\ at' = [at EXCEPT ![l] = "stopped"]
  /\ UNCHANGED <<now, nextAvailableAt, chain, due, times>>

\* Beyond MaxTime the clock only runs for timers that are set.
TimePasses ==
  /\ now < MaxTime \/ (now < due /\ \E l \in Loops : at[l] = "sleeping")
  /\ now' = now + 1
  /\ UNCHANGED <<nextAvailableAt, chain, at, due, times>>

Next ==
  \/ TimePasses
  \/ \E l \in Loops : \/ AcquirePermit(l) \/ PreviousReleased(l) \/ WakeUp(l)
                      \/ Sent(l) \/ SendFails(l)

Spec == Init /\ [][Next]_vars

\* Promises are settled and timers fire; nothing says that a mail is accepted.
FairSpec ==
  /\ Spec
  /\ WF_vars(TimePasses)
  /\ \A l \in Loops : WF_vars(PreviousReleased(l)) /\ WF_vars(WakeUp(l))

-----------------------------------------------------------------------------
(* Properties.                                                             *)

\* Over any stretch of the batch the permits keep the interval on average: an
\* early timer is made up for by the next one, late loops do not catch up.
Spaced ==
  \A j \in 1..Len(times) : \A i \in 1..(j - 1) :
    (j - i) * IntervalMs <= times[j] - times[i] + Early

\* In the same terms as the configuration: messages per second.
RateKept ==
  \A j \in 1..Len(times) : \A i \in 1..(j - 1) :
    (j - i) * 10000 <= (times[j] - times[i] + Early) * Rate

\* Whoever asks is served, although loops fail and mails hang.
EveryoneServed == \A l \in Loops : at[l] = "chained" ~> at[l] = "sending"

=============================================================================
