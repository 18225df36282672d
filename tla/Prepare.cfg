SPECIFICATION FairPrepareSpec
CONSTANTS
  Subscribers = {2, 4, 5}
  Commands = {c1, c2}
  Executors = {e1, e2}
  Targeted = {e2}
  DryRun = {e2}
  BatchSize = 2
  MaxRecipientsPerRun = 1
  MaxCommands = 5
  MaxFailures = 1
  Auditors = {a1}
  MaxAudits = 1
CHECK_DEADLOCK FALSE
INVARIANTS
  PrepareTypeOK
  OncePerBatching
  
  
PROPERTIES
  StrandedOnlyByStalePlan
  IntakeNeverReopens
  PreparedRunEnds
