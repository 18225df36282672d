SPECIFICATION FairSpec
CONSTANTS
  Children = {k1, k2, k3, k4}
  WorkerConcurrency = 2
  MaxFaults = 2
CHECK_DEADLOCK FALSE
INVARIANTS
  TypeOK
  ChildrenWithinBudget
  DrainLeavesNobody
  EverybodyTold
PROPERTIES
  ShutdownEnds
  KeepsStarting
