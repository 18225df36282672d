SPECIFICATION FairSpec
CONSTANTS
  Loops = {l1, l2, l3}
  RateTenths = 3600
  Early = 1
  MaxPermits = 4
  MaxStart = 4
  MaxTime = 8
CHECK_DEADLOCK FALSE
INVARIANTS
  Spaced
  RateKept
PROPERTIES
  EveryoneServed
