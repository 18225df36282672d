SPECIFICATION Spec
CONSTANTS
  c1 = c1
  c2 = c2
  w1 = w1
  w2 = w2
  w3 = w3
  Campaigns = {c1}
  Batches <- OneBatch
  Recipients <- Pair
  CampaignOf <- MCCampaignOf
  BatchOf <- MCBatchOf
  Workers = {w1, w2}
  Targeted = {}
  DryRun = {}
  Slots = 2
  MaxRecipientsPerRun = 2
  FaultKinds = {"shutdown", "smtp_retry", "smtp_fatal", "control_plane"}
  MaxFaults = 1
SYMMETRY WorkerSymmetry
INVARIANTS
  AtMostOnceUndisturbed
  VerdictsAgree
