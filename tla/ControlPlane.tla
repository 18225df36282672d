---------------------------- MODULE ControlPlane ----------------------------
(***************************************************************************)
(* The control_plane tables shared by every process of the dispatcher      *)
(* (sql/001_direct_dispatch_schema.sql), reduced to the columns that the   *)
(* executors read and write:                                               *)
(*   campaign_recipient_queue.recipient_state                              *)
(*   campaign_delivery_batches.batch_state, .updated_at                    *)
(*   campaign_dispatch_queue.queue_state                                   *)
(*   sendy_campaign_registry.direct_dispatch_state                         *)
(* A row is named by its key.  delivery_batch_id and the order of the      *)
(* recipients (sendy_subscriber_id) are naturals, because queries sort by  *)
(* them.  updated_at is abstracted to batch_idle[b]: "b has not been       *)
(* written for longer than the recovery timeout".                          *)
(***************************************************************************)
EXTENDS Naturals, FiniteSets

CONSTANTS
  Campaigns,   \* dispatch campaigns, one registry and one queue row each
  Batches,     \* delivery_batch_id
  Recipients,  \* recipients of all campaigns, numbered by sendy_subscriber_id
  CampaignOf,  \* the campaign of a batch
  BatchOf      \* the batch (batch_key) of a recipient

\* Identifiers are bigserial columns: 0 is never a key.
ASSUME TablesAssumption ==
  /\ Batches \subseteq Nat \ {0}
  /\ Recipients \subseteq Nat \ {0}
  /\ CampaignOf \in [Batches -> Campaigns]
  /\ BatchOf \in [Recipients -> Batches]

VARIABLES
  recipient_state,
  batch_state,
  batch_idle,
  queue_state,
  direct_dispatch_state

tables == <<recipient_state, batch_state, batch_idle, queue_state,
            direct_dispatch_state>>

RecipientStates ==
  {"queued", "batched", "sending", "sent", "dry_run_sent", "failed", "skipped"}
BatchStates ==
  {"queued", "reserved", "running", "completed", "failed", "cancelled"}
OpenQueueStates == {"queued", "reserved", "launching", "retry_wait", "running"}
QueueStates == OpenQueueStates \union {"completed", "failed", "cancelled"}
RegistryStates ==
  {"pending", "snapshotted", "batched", "running", "completed", "failed",
   "cancelled"}

TablesTypeOK ==
  /\ recipient_state \in [Recipients -> RecipientStates]
  /\ batch_state \in [Batches -> BatchStates]
  /\ batch_idle \in [Batches -> BOOLEAN]
  /\ queue_state \in [Campaigns -> QueueStates]
  /\ direct_dispatch_state \in [Campaigns -> RegistryStates]

\* What the handoff leaves behind: everything planned, nothing started.
TablesInit ==
  /\ recipient_state = [r \in Recipients |-> "batched"]
  /\ batch_state = [b \in Batches |-> "queued"]
  /\ batch_idle = [b \in Batches |-> FALSE]
  /\ queue_state = [c \in Campaigns |-> "queued"]
  /\ direct_dispatch_state = [c \in Campaigns |-> "batched"]

-----------------------------------------------------------------------------
(* Queries.                                                                *)

BatchesOf(c) == {b \in Batches : CampaignOf[b] = c}
RecipientsOf(b) == {r \in Recipients : BatchOf[r] = b}

BatchesIn(c, states) == {b \in BatchesOf(c) : batch_state[b] \in states}
RecipientsIn(b, states) == {r \in RecipientsOf(b) : recipient_state[r] \in states}

\* ORDER BY id ASC LIMIT n over the rows S.
Lowest(S, n) == {x \in S : Cardinality({y \in S : y < x}) < n}

-----------------------------------------------------------------------------
(* Statements.  Every UPDATE of a batch sets updated_at = now().           *)

SetRecipients(rs, state) ==
  recipient_state' = [r \in Recipients |->
                        IF r \in rs THEN state ELSE recipient_state[r]]

SetBatches(bs, state) ==
  /\ batch_state' = [b \in Batches |-> IF b \in bs THEN state ELSE batch_state[b]]
  /\ batch_idle' = [b \in Batches |-> IF b \in bs THEN FALSE ELSE batch_idle[b]]

SetQueue(cs, state) ==
  queue_state' = [c \in Campaigns |-> IF c \in cs THEN state ELSE queue_state[c]]

SetRegistry(cs, state) ==
  direct_dispatch_state' =
    [c \in Campaigns |-> IF c \in cs THEN state ELSE direct_dispatch_state[c]]

=============================================================================
