SPECIFICATION Spec
CONSTANTS
  c1 = c1
  c2 = c2
  w1 = w1
  w2 = w2
  w3 = w3
  Campaigns = {c1}
  Batches <- OneBatch
  Recipients <- Pair
  CampaignOf <- MCCampaignOf
  BatchOf <- MCBatchOf
  Workers = {w1, w2, w3}
  Targeted = {w3}
  DryRun = {w3}
  Slots = 1
  MaxRecipientsPerRun = 2
  FaultKinds = {"crash", "shutdown", "smtp_retry", "smtp_fatal", "control_plane", "report", "statement", "stall", "operator_reset"}
  MaxFaults = 1
SYMMETRY WorkerSymmetry
INVARIANTS
  TypeOK
  SentWasMailed
