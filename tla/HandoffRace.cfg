SPECIFICATION FairSpec
CONSTANTS
  g = g
  p = p
  m1 = m1
  m2 = m2
  none = none
  h1 = h1
  h2 = h2
  e1 = e1
  e2 = e2
  original = original
  rewritten = rewritten
  other = other
  Recipients = {1, 2, 3, 4}
  Global = g
  ParentOrder <- NoParents
  MirrorOrder <- NoParents
  ParentOf <- MCParentOf
  MirrorOf <- MCMirrorOf
  NoDispatch = none
  BatchSize = 2
  Requests <- PlainRequests
  Variants = {}
  FingerprintMode = "disabled"
  EnforceReasons = {}
  Handlers = {h1, h2}
  Executors = {e1, e2}
  MaxHandoffs = 3
  MaxErrors = 1
CHECK_DEADLOCK FALSE
INVARIANTS
  TypeOK
  
  
PROPERTIES
  ReopenedOnlyByRace
  
