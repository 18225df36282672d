SPECIFICATION Spec
CONSTANTS
  Words = {"a", "b", "c"}
  MaxOriginal = 3
  MaxBody = 4
  MinGram = 2
  MaxGram = 3
  Window = 2
  Buckets <- MCBuckets
  MaxNgramOverlap = 35
  MaxFirstWindowOverlap = 55
  MinChangedLayers = 3
  AttemptSettings <- MCAttempts
INVARIANTS
  NoCopiedPassage
PROPERTIES
  GenerationEnds
CHECK_DEADLOCK FALSE
