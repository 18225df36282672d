\* One brand, failing runs, recipients that are switched on and off; a slot on
\* the minute of a run is due in two runs.
SPECIFICATION Spec
CONSTANTS
  Brands <- OneBrand
  FullPool = {}
  NumSeeds = 4
  MinPerSlot = 1
  MaxPerSlot = 2
  MaxSlots = 2
  WindowStart = 1
  WindowEnd = 7
  Lookback = 3
  Limit = 999
  Every = 3
  DayEnd = 10
  MaxFailures = 1
  MaxChanges = 1
INVARIANTS
  NoSlotForgotten
  CohortsAreApart
CHECK_DEADLOCK FALSE
