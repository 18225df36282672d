----------------------------- MODULE WorkerLoop -----------------------------
(***************************************************************************)
(* The service process of src/worker-loop.js: a timer tops up the executor *)
(* children to workerConcurrency, after one round of orphaned batch        *)
(* recovery; SIGTERM and SIGINT are passed on to the children, and the     *)
(* process leaves when they have gone or when the grace period is over.    *)
(*                                                                         *)
(* The loop is one thread: a timer, a signal or an event of a child runs   *)
(* to its end, and so does topUpWorkers behind its only await.             *)
(*                                                                         *)
(* What spawn does (Node): the child runs; or it is emitted 'error' and    *)
(* then 'close' (no such file, no permission, no process left); or spawn   *)
(* throws (no memory); or no file descriptor is left, which gives a child  *)
(* without streams and an 'error' nobody listens to: the process dies.     *)
(***************************************************************************)
EXTENDS Naturals, FiniteSets

CONSTANTS
  Children,            \* process slots; a slot is free again after 'close'
  WorkerConcurrency,   \* DIRECT_DISPATCHER_WORKER_CONCURRENCY, at least 1
  MaxFaults            \* bound on failing spawns and recoveries

ASSUME WorkerAssumption ==
  /\ IsFiniteSet(Children)
  /\ WorkerConcurrency \in Nat \ {0}
  /\ MaxFaults \in Nat

VARIABLES
  activeWorkers,    \* the program's counter
  activeChildren,   \* the program's set
  child,            \* the life of each child, see ChildStates
  topUp,            \* topUpInProgress: "idle" or "recovering"
  phase,            \* "up", "stopping" after requestShutdown, or how it ended
  doubled,          \* how often one child was subtracted twice
  leaked,           \* how often a child was added that never was
  faults

vars == <<activeWorkers, activeChildren, child, topUp, phase, doubled, leaked, faults>>

\* An errored child has emitted 'error' and not yet 'close'.
ChildStates == {"none", "alive", "signalled", "ended", "failed", "errored"}
Phases == {"up", "stopping", "drained", "killed", "crashed"}

In(states) == {c \in Children : child[c] \in states}
Live == In({"alive", "signalled"})
Up == phase \in {"up", "stopping"}

TypeOK ==
  /\ activeWorkers \in 0..WorkerConcurrency
  /\ activeChildren \subseteq Children
  /\ child \in [Children -> ChildStates]
  /\ topUp \in {"idle", "recovering"}
  /\ phase \in Phases
  /\ doubled \in Nat /\ leaked \in Nat /\ faults \in Nat

Init ==
  /\ activeWorkers = 0
  /\ activeChildren = {}
  /\ child = [c \in Children |-> "none"]
  /\ topUp = "idle"
  /\ phase = "up"
  /\ doubled = 0 /\ leaked = 0 /\ faults = 0

Become(S, state) == [c \in Children |-> IF c \in S THEN state ELSE child[c]]

\* The interval or the initial timer: topUpWorkers up to its await.
TimerFires ==
  /\ phase = "up"
  /\ topUp = "idle"
  /\ topUp' = "recovering"
  /\ UNCHANGED <<activeWorkers, activeChildren, child, phase, doubled, leaked, faults>>

\* Mutant: topUpInProgress is not reset after an error.
RecoveryFailsForGood ==
  /\ Up /\ topUp = "recovering"
  /\ faults < MaxFaults /\ faults' = faults + 1
  /\ topUp' = "failed"
  /\ UNCHANGED <<activeWorkers, activeChildren, child, phase, doubled, leaked>>

\* recoverOrphanedRunningBatchesOnce throws; the error is logged.
RecoveryFails ==
  /\ Up /\ topUp = "recovering"
  /\ faults < MaxFaults /\ faults' = faults + 1
  /\ topUp' = "idle"
  /\ UNCHANGED <<activeWorkers, activeChildren, child, phase, doubled, leaked>>

\* Mutant: shutdown is only looked at before the recovery.
MayAlwaysSpawn == TRUE

\* runExecutorOnce looks again: a signal may have arrived during the recovery.
MaySpawn == phase = "up"

Added(S, failing) ==
  /\ activeChildren' = activeChildren \union S
  /\ child' = [c \in Children |-> IF c \in failing THEN "failed"
                                  ELSE IF c \in S THEN "alive" ELSE child[c]]

\* Mutant: the limit is looked at before the first spawn only.
RoomForAll == IF activeWorkers < WorkerConcurrency THEN WorkerConcurrency ELSE 0

\* How many children the loop may add.
Room == WorkerConcurrency - activeWorkers

\* topUpWorkers behind its await, every spawn successful or followed by 'error'.
TopUpWorkers ==
  /\ Up /\ topUp = "recovering"
  /\ topUp' = "idle"
  /\ IF MaySpawn
       THEN \E S \in SUBSET In({"none"}) : \E failing \in SUBSET S :
              /\ Cardinality(S) = Room
              /\ faults + Cardinality(failing) <= MaxFaults
              /\ faults' = faults + Cardinality(failing)
              /\ Added(S, failing)
              /\ activeWorkers' = activeWorkers + Cardinality(S)
       ELSE UNCHANGED <<activeWorkers, activeChildren, child, faults>>
  /\ UNCHANGED <<phase, doubled, leaked>>

\* The spawn after those of S throws: the counter was incremented before it.
SpawnThrows ==
  /\ Up /\ topUp = "recovering"
  /\ MaySpawn
  /\ faults < MaxFaults /\ faults' = faults + 1
  /\ topUp' = "idle"
  /\ \E S \in SUBSET In({"none"}) :
       /\ Cardinality(S) < Room
       /\ Added(S, {})
       /\ activeWorkers' = activeWorkers + Cardinality(S) + 1
  /\ leaked' = leaked + 1
  /\ UNCHANGED <<phase, doubled>>

\* No descriptor left: an exception and an unhandled 'error' end the process.
SpawnCrashes ==
  /\ Up /\ topUp = "recovering"
  /\ MaySpawn
  /\ faults < MaxFaults /\ faults' = faults + 1
  /\ topUp' = "idle"
  /\ \E S \in SUBSET In({"none"}) :
       /\ Cardinality(S) < Room
       /\ Added(S, {})
       /\ activeWorkers' = activeWorkers + Cardinality(S) + 1
  /\ phase' = "crashed"
  /\ UNCHANGED <<doubled, leaked>>

\* Mutant: the first child that goes ends the shutdown.
ExitIfShutdown == phase' = IF phase = "stopping" THEN "drained" ELSE phase

ExitIfShutdownDrained ==
  phase' = IF phase = "stopping" /\ activeWorkers' = 0 THEN "drained" ELSE phase

\* Mutant: without Math.max.
SubtractUnclamped(c) ==
  /\ activeChildren' = activeChildren \ {c}
  /\ activeWorkers' = activeWorkers - 1

\* Both handlers: Math.max(activeWorkers - 1, 0).
Subtract(c) ==
  /\ activeChildren' = activeChildren \ {c}
  /\ activeWorkers' = IF activeWorkers > 0 THEN activeWorkers - 1 ELSE 0

OnError(c) ==
  /\ Up /\ child[c] = "failed"
  /\ child' = Become({c}, "errored")
  /\ Subtract(c)
  /\ ExitIfShutdownDrained
  /\ UNCHANGED <<topUp, doubled, leaked, faults>>

OnClose(c) ==
  /\ Up /\ child[c] \in {"ended", "errored"}
  /\ child' = Become({c}, "none")
  /\ Subtract(c)
  /\ doubled' = IF child[c] = "errored" THEN doubled + 1 ELSE doubled
  /\ ExitIfShutdownDrained
  /\ UNCHANGED <<topUp, leaked, faults>>

\* SIGTERM or SIGINT; a second one is ignored.
RequestShutdown ==
  /\ phase = "up"
  /\ child' = Become(activeChildren \intersect Live, "signalled")
  /\ phase' = IF activeWorkers = 0 THEN "drained" ELSE "stopping"
  /\ UNCHANGED <<activeWorkers, activeChildren, topUp, doubled, leaked, faults>>

\* Mutant: after SIGKILL the loop waits for 'close'.
KillAndWait ==
  /\ phase = "stopping"
  /\ child' = Become(activeChildren \intersect Live, "ended")
  /\ UNCHANGED <<activeWorkers, activeChildren, topUp, phase, doubled, leaked, faults>>

\* The grace period is over: SIGKILL and exit.
ForceKill ==
  /\ phase = "stopping"
  /\ child' = Become(activeChildren \intersect Live, "ended")
  /\ phase' = "killed"
  /\ UNCHANGED <<activeWorkers, activeChildren, topUp, doubled, leaked, faults>>

\* A child ends; 'close' follows when its streams are closed.
ChildEnds(c) ==
  /\ c \in Live
  /\ child' = Become({c}, "ended")
  /\ UNCHANGED <<activeWorkers, activeChildren, topUp, phase, doubled, leaked, faults>>

Next ==
  \/ TimerFires \/ RecoveryFails \/ TopUpWorkers \/ SpawnThrows \/ SpawnCrashes
  \/ RequestShutdown \/ ForceKill
  \/ \E c \in Children : OnError(c) \/ OnClose(c) \/ ChildEnds(c)

Spec == Init /\ [][Next]_vars

\* Timers fire, statements are answered and events are delivered; nothing says
\* that a child ends or that a signal arrives.
FairSpec ==
  /\ Spec
  /\ WF_vars(TimerFires) /\ WF_vars(TopUpWorkers) /\ WF_vars(ForceKill)
  /\ \A c \in Children : WF_vars(OnError(c)) /\ WF_vars(OnClose(c))

-----------------------------------------------------------------------------
(* Properties.                                                             *)

\* The counter is never more than doubled below the children that are still to
\* be subtracted ('error' and 'close' of one child, Math.max, the clamp at 0).
Tracked == In({"alive", "signalled", "ended", "failed"})
CounterCovers == Cardinality(Tracked) <= activeWorkers + doubled

\* At most workerConcurrency executors run at once, plus one for every spawn
\* that failed with an 'error' event before.
ChildrenWithinBudget == Cardinality(Live) <= WorkerConcurrency + doubled

\* A shutdown that is reported complete leaves no executor behind, unless a
\* failed spawn was subtracted twice.
DrainLeavesNobody == phase = "drained" /\ doubled = 0 => Live = {}

\* After a shutdown request every executor has been told, also those that a
\* top-up in progress would have started.
EverybodyTold == phase \in {"stopping", "drained", "killed"} => In({"alive"}) = {}

\* A shutdown ends although children hang.
ShutdownEnds == phase = "stopping" ~> phase \in {"drained", "killed"}

\* Whatever spawns and recoveries failed, executors are started again, unless
\* spawns that threw have used up the counter or the loop is going down.
KeepsStarting == []<>(Live # {} \/ leaked >= WorkerConcurrency \/ phase # "up")

=============================================================================
