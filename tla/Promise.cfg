SPECIFICATION Spec
CONSTANTS
  c1 = c1
  c2 = c2
  w1 = w1
  w2 = w2
  w3 = w3
  Campaigns = {c1}
  Batches <- TwoBatches
  Recipients <- Three
  CampaignOf <- MCCampaignOf
  BatchOf <- MCBatchOf
  Workers = {w1, w2}
  Targeted = {}
  DryRun = {}
  Slots = 1
  MaxRecipientsPerRun = 1
  FaultKinds = {"crash", "shutdown", "smtp_retry", "smtp_fatal", "control_plane", "statement"}
  MaxFaults = 2
SYMMETRY WorkerSymmetry
INVARIANTS
  OneOwnerPerBatch
  OkAttemptCompletedBatch

  
