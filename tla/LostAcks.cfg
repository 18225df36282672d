SPECIFICATION FairLostSpec
CONSTANTS
  c1 = c1
  c2 = c2
  w1 = w1
  w2 = w2
  w3 = w3
  Campaigns = {c1}
  Batches <- OneBatch
  Recipients <- Pair
  CampaignOf <- MCCampaignOf
  BatchOf <- MCBatchOf
  Workers = {w1, w2, w3}
  Targeted = {}
  DryRun = {w3}
  Slots = 1
  MaxRecipientsPerRun = 2
  FaultKinds = {"crash", "shutdown", "smtp_retry", "smtp_fatal", "control_plane", "statement"}
  MaxFaults = 1
  MaxLost = 1
INVARIANTS
  OnlyRequeuesAreUnsafe
PROPERTIES
  EveryDispatchCloses
