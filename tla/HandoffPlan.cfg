SPECIFICATION Spec
CONSTANTS
  g = g
  p = p
  m1 = m1
  m2 = m2
  none = none
  h1 = h1
  h2 = h2
  e1 = e1
  e2 = e2
  original = original
  rewritten = rewritten
  other = other
  Recipients = {1, 2, 3, 4}
  Global = g
  ParentOrder <- OneParent
  MirrorOrder <- TwoMirrors
  ParentOf <- MCParentOf
  MirrorOf <- MCMirrorOf
  NoDispatch = none
  BatchSize = 2
  Requests <- PossibleRequests
  Variants = {rewritten, other}
  FingerprintMode = "enforce"
  EnforceReasons = {"exact_parent_mirror_clone"}
  Handlers = {h1, h2}
  Executors = {}
  MaxHandoffs = 2
  MaxErrors = 1
CHECK_DEADLOCK FALSE
INVARIANTS
  OneWriterPerCampaign
PROPERTIES
  EveryRecipientPlanned
  SplitMailsOneCopy
  NoClonedMirrorQueued
