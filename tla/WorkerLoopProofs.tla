-------------------------- MODULE WorkerLoopProofs --------------------------
(***************************************************************************)
(* Theorems about WorkerLoop, for any concurrency, any number of process   *)
(* slots and any number of faults.                                         *)
(***************************************************************************)
EXTENDS WorkerLoop, FiniteSetTheorems, TLAPS

\* The counter, the set and the children themselves: what makes the properties
\* inductive is that a child still to be told is in the set, and that a drained
\* loop has counted down to 0.
IInv ==
  /\ TypeOK
  /\ CounterCovers
  /\ EverybodyTold
  /\ In({"alive"}) \subseteq activeChildren
  /\ phase = "drained" => activeWorkers = 0

-----------------------------------------------------------------------------
(* Counting children.                                                      *)

LEMMA CountType ==
  ASSUME NEW S \in SUBSET Children
  PROVE  IsFiniteSet(S) /\ Cardinality(S) \in Nat
BY WorkerAssumption, FS_Subset, FS_CardinalityType

LEMMA TrackedType == Tracked \in SUBSET Children /\ Live \in SUBSET Children
BY DEF Tracked, Live, In

\* Children that are added to the set were not tracked before.
LEMMA AddedCounts ==
  ASSUME TypeOK, NEW S \in SUBSET In({"none"}), NEW failing \in SUBSET S,
         Added(S, failing)
  PROVE  /\ Tracked' = Tracked \union S
         /\ Cardinality(Tracked') = Cardinality(Tracked) + Cardinality(S)
<1>1. S \in SUBSET Children
  BY DEF In
<1>2. Tracked' = Tracked \union S
  BY <1>1 DEF Added, Tracked, In, TypeOK
<1>3. Tracked \intersect S = {}
  BY DEF Tracked, In
<1>4. IsFiniteSet(Tracked) /\ IsFiniteSet(S)
  BY <1>1, TrackedType, CountType
<1>5. Cardinality(Tracked \intersect S) = 0
  BY <1>3, FS_EmptySet
<1>6. Cardinality(Tracked) \in Nat /\ Cardinality(S) \in Nat
  BY <1>1, TrackedType, CountType
<1>7. Cardinality(Tracked \union S) =
        Cardinality(Tracked) + Cardinality(S) - Cardinality(Tracked \intersect S)
  BY <1>4, FS_Union
<1> QED
  BY <1>2, <1>5, <1>6, <1>7

\* A child that is no longer tracked lowers the count by one.
LEMMA DroppedCounts ==
  ASSUME TypeOK, NEW c \in Children, c \in Tracked,
         NEW state \in {"errored", "none"}, child' = Become({c}, state)
  PROVE  Cardinality(Tracked') = Cardinality(Tracked) - 1
<1>1. Tracked' = Tracked \ {c}
  BY DEF Become, Tracked, In, TypeOK
<1>2. IsFiniteSet(Tracked)
  BY TrackedType, CountType
<1> QED
  BY <1>1, <1>2, FS_RemoveElement

-----------------------------------------------------------------------------
(* The invariant.                                                          *)

LEMMA InitInv == Init => IInv
<1> SUFFICES ASSUME Init PROVE IInv
  OBVIOUS
<1>1. TypeOK
  BY WorkerAssumption DEF Init, TypeOK, ChildStates, Phases
<1>2. Tracked = {} /\ In({"alive"}) = {}
  BY DEF Init, Tracked, In
<1>3. Cardinality(Tracked) = 0
  BY <1>2, FS_EmptySet
<1> QED
  BY <1>1, <1>2, <1>3 DEF IInv, Init, CounterCovers, EverybodyTold

LEMMA NextInv == IInv /\ [Next]_vars => IInv'
<1> SUFFICES ASSUME IInv, [Next]_vars PROVE IInv'
  OBVIOUS
<1> USE DEF IInv
<1>n. /\ WorkerConcurrency \in Nat /\ activeWorkers \in Nat /\ doubled \in Nat
      /\ Cardinality(Tracked) \in Nat
      /\ Cardinality(Tracked) <= activeWorkers + doubled
  BY WorkerAssumption, TrackedType, CountType DEF TypeOK, CounterCovers
<1>1. ASSUME UNCHANGED <<activeWorkers, activeChildren, child, phase, doubled, leaked>>,
             topUp' \in {"idle", "recovering"}, faults' \in Nat
      PROVE  IInv'
  BY <1>1 DEF TypeOK, CounterCovers, EverybodyTold, Tracked, In
<1>2. CASE TimerFires \/ RecoveryFails
  BY <1>1, <1>2 DEF TimerFires, RecoveryFails, TypeOK
<1>3. ASSUME NEW S \in SUBSET In({"none"}), NEW failing \in SUBSET S,
             NEW extra \in {0, 1},
             Added(S, failing), phase = "up",
             Cardinality(S) + extra <= Room,
             activeWorkers' = activeWorkers + Cardinality(S) + extra,
             topUp' = "idle", phase' \in {"up", "crashed"},
             doubled' = doubled, leaked' \in Nat, faults' \in Nat
      PROVE  IInv'
  <2>1. Cardinality(S) \in Nat /\ S \in SUBSET Children
    BY CountType DEF In
  <2>2. Cardinality(Tracked') = Cardinality(Tracked) + Cardinality(S)
    BY <1>3, AddedCounts
  <2>3. activeWorkers' \in 0..WorkerConcurrency
    BY <1>3, <1>n, <2>1 DEF Room, TypeOK
  <2>4. CounterCovers'
    BY <1>3, <1>n, <2>1, <2>2 DEF CounterCovers
  <2>5. activeChildren' \subseteq Children /\ child' \in [Children -> ChildStates]
    BY <1>3, <2>1 DEF Added, TypeOK, ChildStates
  <2>6. In({"alive"})' \subseteq activeChildren'
    BY <1>3 DEF Added, In
  <2> QED
    BY <1>3, <2>3, <2>4, <2>5, <2>6 DEF TypeOK, Phases, EverybodyTold
<1>4. CASE TopUpWorkers
  <2>1. CASE MaySpawn
    <3>1. PICK S \in SUBSET In({"none"}) : \E failing \in SUBSET S :
            /\ Cardinality(S) = Room
            /\ faults' = faults + Cardinality(failing)
            /\ Added(S, failing)
            /\ activeWorkers' = activeWorkers + Cardinality(S)
      BY <1>4, <2>1 DEF TopUpWorkers
    <3>2. PICK failing \in SUBSET S :
            /\ Cardinality(S) = Room
            /\ faults' = faults + Cardinality(failing)
            /\ Added(S, failing)
            /\ activeWorkers' = activeWorkers + Cardinality(S)
      BY <3>1
    <3>3. Cardinality(failing) \in Nat /\ Cardinality(S) \in Nat
      BY CountType DEF In
    <3>4. faults' \in Nat /\ Cardinality(S) + 0 <= Room
          /\ activeWorkers' = activeWorkers + Cardinality(S) + 0
      BY <3>2, <3>3, <1>n DEF TypeOK, Room
    <3> QED
      BY <1>3, <1>4, <2>1, <3>2, <3>4 DEF TopUpWorkers, MaySpawn, TypeOK
  <2>2. CASE ~MaySpawn
    BY <1>1, <1>4, <2>2 DEF TopUpWorkers, TypeOK
  <2> QED
    BY <2>1, <2>2
<1>5. CASE SpawnThrows \/ SpawnCrashes
  <2>1. PICK S \in SUBSET In({"none"}) :
          /\ Cardinality(S) < Room
          /\ Added(S, {})
          /\ activeWorkers' = activeWorkers + Cardinality(S) + 1
    BY <1>5 DEF SpawnThrows, SpawnCrashes
  <2>2. Cardinality(S) \in Nat
    BY CountType DEF In
  <2>3. Cardinality(S) + 1 <= Room
    BY <1>n, <2>1, <2>2 DEF Room
  <2>4. /\ phase = "up" /\ topUp' = "idle" /\ phase' \in {"up", "crashed"}
        /\ doubled' = doubled /\ leaked' \in Nat /\ faults' \in Nat
    BY <1>5 DEF SpawnThrows, SpawnCrashes, MaySpawn, TypeOK
  <2> QED
    BY <1>3, <2>1, <2>3, <2>4
<1>6. ASSUME NEW c \in Children, OnError(c)
      PROVE  IInv'
  <2>1. c \in Tracked
    BY <1>6 DEF OnError, Tracked, In
  <2>2. Cardinality(Tracked') = Cardinality(Tracked) - 1
    BY <1>6, <2>1, DroppedCounts DEF OnError
  <2>3. TypeOK'
    BY <1>6, <1>n DEF OnError, Subtract, ExitIfShutdownDrained, Become, TypeOK,
                      ChildStates, Phases
  <2>4. CounterCovers'
    BY <1>6, <1>n, <2>2 DEF OnError, Subtract, CounterCovers
  <2>5. EverybodyTold' /\ In({"alive"})' \subseteq activeChildren'
        /\ (phase' = "drained" => activeWorkers' = 0)
    BY <1>6 DEF OnError, Subtract, ExitIfShutdownDrained, Become, TypeOK, Up,
                EverybodyTold, In
  <2> QED
    BY <2>3, <2>4, <2>5
<1>7. ASSUME NEW c \in Children, OnClose(c)
      PROVE  IInv'
  <2>1. TypeOK'
    BY <1>7, <1>n DEF OnClose, Subtract, ExitIfShutdownDrained, Become, TypeOK,
                      ChildStates, Phases
  <2>2. CounterCovers'
    <3>1. CASE child[c] = "errored"
      <4>1. Tracked' = Tracked
        BY <1>7, <3>1 DEF OnClose, Become, Tracked, In, TypeOK
      <4> QED
        BY <1>7, <1>n, <3>1, <4>1 DEF OnClose, Subtract, CounterCovers
    <3>2. CASE child[c] = "ended"
      <4>1. c \in Tracked
        BY <3>2 DEF Tracked, In
      <4>2. Cardinality(Tracked') = Cardinality(Tracked) - 1
        BY <1>7, <4>1, DroppedCounts DEF OnClose
      <4> QED
        BY <1>7, <1>n, <3>2, <4>2 DEF OnClose, Subtract, CounterCovers
    <3> QED
      BY <1>7, <3>1, <3>2 DEF OnClose
  <2>3. EverybodyTold' /\ In({"alive"})' \subseteq activeChildren'
        /\ (phase' = "drained" => activeWorkers' = 0)
    BY <1>7 DEF OnClose, Subtract, ExitIfShutdownDrained, Become, TypeOK, Up,
                EverybodyTold, In
  <2> QED
    BY <2>1, <2>2, <2>3
<1>8. ASSUME NEW S \in SUBSET Children, NEW state \in {"signalled", "ended"},
             S \subseteq Live, child' = Become(S, state)
      PROVE  Tracked' = Tracked /\ In({"alive"})' = In({"alive"}) \ S
             /\ child' \in [Children -> ChildStates]
  BY <1>8 DEF Become, Tracked, Live, In, TypeOK, ChildStates
<1>9. CASE RequestShutdown
  <2>1. Tracked' = Tracked /\ In({"alive"})' = {} /\ child' \in [Children -> ChildStates]
    BY <1>8, <1>9 DEF RequestShutdown, Live, In, TypeOK
  <2> QED
    BY <1>9, <2>1 DEF RequestShutdown, TypeOK, Phases, CounterCovers, EverybodyTold
<1>10. CASE ForceKill
  <2>1. Tracked' = Tracked /\ In({"alive"})' = {} /\ child' \in [Children -> ChildStates]
    BY <1>8, <1>10 DEF ForceKill, Live, In, TypeOK, EverybodyTold
  <2> QED
    BY <1>10, <2>1 DEF ForceKill, TypeOK, Phases, CounterCovers, EverybodyTold
<1>11. ASSUME NEW c \in Children, ChildEnds(c)
       PROVE  IInv'
  <2>1. {c} \in SUBSET Children /\ {c} \subseteq Live /\ child' = Become({c}, "ended")
    BY <1>11 DEF ChildEnds
  <2>2. Tracked' = Tracked /\ In({"alive"})' = In({"alive"}) \ {c}
        /\ child' \in [Children -> ChildStates]
    BY <1>8, <2>1
  <2> QED
    BY <1>11, <2>2 DEF ChildEnds, TypeOK, CounterCovers, EverybodyTold
<1>12. CASE UNCHANGED vars
  BY <1>1, <1>12 DEF vars, TypeOK
<1> QED
  BY <1>2, <1>4, <1>5, <1>6, <1>7, <1>9, <1>10, <1>11, <1>12 DEF Next

LEMMA Inductive == Spec => []IInv
BY InitInv, NextInv, PTL DEF Spec

-----------------------------------------------------------------------------
(* The theorems.                                                           *)

\* The counter and the states stay within their types: the counter never leaves
\* 0..workerConcurrency, however often 'error' and 'close' both subtract.
THEOREM TypeCorrect == Spec => []TypeOK
<1>1. IInv => TypeOK
  BY DEF IInv
<1> QED
  BY Inductive, <1>1, PTL

\* No more executors run than workerConcurrency and the failed spawns that were
\* subtracted twice.
THEOREM WithinBudget == Spec => []ChildrenWithinBudget
<1>1. IInv => ChildrenWithinBudget
  <2> SUFFICES ASSUME IInv PROVE ChildrenWithinBudget
    OBVIOUS
  <2>1. Live \subseteq Tracked /\ IsFiniteSet(Tracked)
    BY TrackedType, CountType DEF Live, Tracked, In
  <2>2. Cardinality(Live) <= Cardinality(Tracked)
    BY <2>1, FS_Subset
  <2>3. Cardinality(Live) \in Nat /\ Cardinality(Tracked) \in Nat
    BY TrackedType, CountType
  <2> QED
    BY <2>2, <2>3, WorkerAssumption
    DEF IInv, TypeOK, CounterCovers, ChildrenWithinBudget
<1> QED
  BY Inductive, <1>1, PTL

\* A drained shutdown leaves no executor behind when no child was subtracted
\* twice.
THEOREM NobodyLeftBehind == Spec => []DrainLeavesNobody
<1>1. IInv => DrainLeavesNobody
  <2> SUFFICES ASSUME IInv, phase = "drained", doubled = 0 PROVE Live = {}
    BY DEF DrainLeavesNobody
  <2>1. IsFiniteSet(Tracked) /\ Cardinality(Tracked) \in Nat
    BY TrackedType, CountType
  <2>2. Cardinality(Tracked) = 0
    BY <2>1 DEF IInv, CounterCovers
  <2>3. Tracked = {}
    BY <2>1, <2>2, FS_EmptySet
  <2> QED
    BY <2>3 DEF Live, Tracked, In
<1> QED
  BY Inductive, <1>1, PTL

\* After a shutdown request every executor that runs has been told.
THEOREM ShutdownReachesAll == Spec => []EverybodyTold
<1>1. IInv => EverybodyTold
  BY DEF IInv
<1> QED
  BY Inductive, <1>1, PTL

=============================================================================
