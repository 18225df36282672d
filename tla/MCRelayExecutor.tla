-------------------------- MODULE MCRelayExecutor ---------------------------
(* Instances of RelayExecutor for TLC: c1 with batches 1 (recipients 1, 2) and   *)
(* 2 (recipient 3), and where used c2 with batch 3 (recipient 4).                *)
EXTENDS RelayExecutor, TLC

CONSTANTS c1, c2, w1, w2, w3

OneBatch == {1}
TwoBatches == {1, 2}
ThreeBatches == {1, 2, 3}
Pair == {1, 2}
Three == {1, 2, 3}
Four == {1, 2, 3, 4}
MCCampaignOf == [b \in Batches |-> IF b = 3 THEN c2 ELSE c1]
MCBatchOf == [r \in Recipients |-> IF Batches = {1} THEN 1 ELSE
                IF r = 3 THEN 2 ELSE IF r = 4 THEN 3 ELSE 1]
WorkerSymmetry == Permutations(Workers \ (Targeted \union DryRun))
=============================================================================
