---------------------------- MODULE RelayExecutor ---------------------------
(***************************************************************************)
(* Relay executor processes (src/relay-executor.js with the preload        *)
(* src/relay-executor-controlled-concurrency.js), as worker-loop.js spawns *)
(* them, working on the tables of ControlPlane.                            *)
(*                                                                         *)
(* A process runs main() once: it claims one batch, loads up to            *)
(* maxRecipientsPerRun of its recipients and sends them from Slots         *)
(* concurrent loops.  pc[w] is the statement main() is about to execute,   *)
(* slot[w][i] the one that loop i is about to execute.  A transaction or   *)
(* an autocommitted statement is one action; code between two awaits is    *)
(* part of the action before it.                                           *)
(*                                                                         *)
(* Abstractions: campaign_delivery_attempts keeps the row of the current   *)
(* run only, with STARTED and PROGRESS as one code; the rows of earlier    *)
(* runs are never read.  Which dispatch a claim takes (not_before,     *)
(* priority, SKIP LOCKED) is left open.  Pacing (acquireRatePermit, sleep) *)
(* takes no step here.  mails counts what the relay accepted.              *)
(***************************************************************************)
EXTENDS ControlPlane

CONSTANTS
  Workers,              \* executor processes that may run at the same time
  Targeted,             \* those started for one campaign by environment
  Slots,                \* DIRECT_DISPATCHER_INTRA_BATCH_CONCURRENCY
  MaxRecipientsPerRun,
  DryRun,               \* those in execution mode "dry-run"; the others "smtp-relay"
  FaultKinds,           \* the faults the environment may inject
  MaxFaults             \* how many of them (bounds the state space)

AllFaults ==
  {"crash", "shutdown", "smtp_retry", "smtp_fatal", "control_plane", "report",
   "statement", "stall", "operator_reset"}

ASSUME ExecutorAssumption ==
  /\ Targeted \subseteq Workers /\ DryRun \subseteq Workers
  /\ Slots \in Nat \ {0}
  /\ MaxRecipientsPerRun \in Nat \ {0}
  /\ FaultKinds \subseteq AllFaults
  /\ MaxFaults \in Nat

VARIABLES
  pc,        \* where main() of each process is
  seen,      \* dispatches the claim's SELECT saw as claimable
  batch,     \* the batch being executed
  todo,      \* loaded recipients that no slot has picked yet
  slot,      \* where each send loop is
  item,      \* the recipient each send loop works on
  shutdown,  \* shutdownRequested: SIGTERM or SIGINT was received
  attempt,   \* result code of this run's delivery attempt row
  mails,     \* number of times each recipient's mail was accepted
  faults     \* faults injected so far

local == <<seen, batch, todo, slot, item, shutdown, attempt>>
vars == <<tables, pc, local, mails, faults>>

NoBatch == 0
NoRecipient == 0

OutsideTry ==
  {"starting", "claiming", "locking", "loading", "empty", "mark_registry",
   "mark_queue", "start", "insert_attempt", "dry_run", "dry_run_attempt"}
Finishing == {"finish_requeue", "finish_complete"}
Reporting == {"report_ok", "report_partial"}
Handling ==
  {"shutdown_batch", "shutdown_recipients", "report_shutdown", "recover",
   "report_retry", "fail_batch", "fail_recipients", "report_error"}
Closing ==
  {"close", "close_failed_queue", "close_failed_registry",
   "close_completed_queue", "close_completed_registry"}
PCs == {"off", "sending", "exiting"} \union OutsideTry \union Finishing
         \union Reporting \union Handling \union Closing
SlotPCs == {"top", "marking", "sending", "marking_sent", "progress", "done"}
AttemptCodes ==
  {"none", "open", "ok", "partial", "shutdown", "retry", "error", "empty",
   "dry_run", "stale_requeued", "orphan_requeued"}

TypeOK ==
  /\ TablesTypeOK
  /\ pc \in [Workers -> PCs]
  /\ seen \in [Workers -> SUBSET Campaigns]
  /\ batch \in [Workers -> Batches \union {NoBatch}]
  /\ todo \in [Workers -> SUBSET Recipients]
  /\ slot \in [Workers -> [1..Slots -> SlotPCs]]
  /\ item \in [Workers -> [1..Slots -> Recipients \union {NoRecipient}]]
  /\ shutdown \in [Workers -> BOOLEAN]
  /\ attempt \in [Workers -> AttemptCodes]
  /\ mails \in [Recipients -> Nat]
  /\ faults \in 0..MaxFaults

Init ==
  /\ TablesInit
  /\ pc = [w \in Workers |-> "off"]
  /\ seen = [w \in Workers |-> {}]
  /\ batch = [w \in Workers |-> NoBatch]
  /\ todo = [w \in Workers |-> {}]
  /\ slot = [w \in Workers |-> [i \in 1..Slots |-> "done"]]
  /\ item = [w \in Workers |-> [i \in 1..Slots |-> NoRecipient]]
  /\ shutdown = [w \in Workers |-> FALSE]
  /\ attempt = [w \in Workers |-> "none"]
  /\ mails = [r \in Recipients |-> 0]
  /\ faults = 0

-----------------------------------------------------------------------------

Goto(w, label) == pc' = [pc EXCEPT ![w] = label]

Fault(kind) ==
  /\ kind \in FaultKinds
  /\ faults < MaxFaults
  /\ faults' = faults + 1

\* All local state of a process is gone when it ends.
ProcessGone(w) ==
  /\ Goto(w, "off")
  /\ seen' = [seen EXCEPT ![w] = {}]
  /\ batch' = [batch EXCEPT ![w] = NoBatch]
  /\ todo' = [todo EXCEPT ![w] = {}]
  /\ slot' = [slot EXCEPT ![w] = [i \in 1..Slots |-> "done"]]
  /\ item' = [item EXCEPT ![w] = [i \in 1..Slots |-> NoRecipient]]
  /\ shutdown' = [shutdown EXCEPT ![w] = FALSE]
  /\ attempt' = [attempt EXCEPT ![w] = "none"]

SlotsDone(w) == \A i \in 1..Slots : slot[w][i] = "done"

SetAttempt(w, code) == attempt' = [attempt EXCEPT ![w] = code]

\* The recovery transactions annotate the open attempts of a batch.
AnnotateAttempts(bs, code) ==
  attempt' = [w \in Workers |->
                IF batch[w] \in bs /\ attempt[w] = "open" THEN code ELSE attempt[w]]

-----------------------------------------------------------------------------
(* Claiming a batch.                                                       *)

Spawn(w) ==
  /\ pc[w] = "off"
  /\ Goto(w, "starting")
  /\ UNCHANGED <<tables, local, mails, faults>>

StaleBatchesOfAnyAge == {b \in Batches : batch_state[b] = "running"}
NoStaleBatches == {}
StaleBatches == {b \in Batches : batch_state[b] = "running" /\ batch_idle[b]}

InterruptedForgotten(bs) == {}

\* The rows that a recovery, a shutdown or an operator gives back: in flight in bs.
Interrupted(bs) == UNION {RecipientsIn(b, {"sending"}) : b \in bs}

RecoverStaleRunningBatches(w) ==
  /\ pc[w] = "starting"
  /\ w \notin Targeted
  /\ SetBatches(StaleBatches, "queued")
  /\ SetRecipients(Interrupted(StaleBatches), "batched")
  /\ AnnotateAttempts(StaleBatches, "stale_requeued")
  /\ Goto(w, "claiming")
  /\ UNCHANGED <<queue_state, direct_dispatch_state, seen, batch, todo, slot,
                 item, shutdown, mails, faults>>

Claimable(c) ==
  /\ queue_state[c] \in OpenQueueStates
  /\ BatchesIn(c, {"reserved", "running"}) = {}

\* READ COMMITTED: the NOT EXISTS subquery is evaluated on the statement's
\* snapshot and is not re-evaluated when the row lock is granted; only the
\* condition on the locked row itself is.
SelectDispatch(w) ==
  /\ pc[w] = "claiming"
  /\ seen' = [seen EXCEPT ![w] = {c \in Campaigns : Claimable(c)}]
  /\ Goto(w, "locking")
  /\ UNCHANGED <<tables, batch, todo, slot, item, shutdown, attempt, mails, faults>>

ClaimBatch(w, c) ==
  \E b \in Lowest(BatchesIn(c, {"queued"}), 1) :
    /\ SetBatches({b}, "running")
    /\ SetQueue({c}, "running")
    /\ batch' = [batch EXCEPT ![w] = b]
    /\ Goto(w, "loading")
    /\ UNCHANGED <<recipient_state, direct_dispatch_state>>

ReconcileDispatchWithoutQueuedBatch(w, c) ==
  /\ BatchesIn(c, {"queued"}) = {}
  /\ \/ /\ BatchesIn(c, {"reserved", "running"}) # {}
        /\ UNCHANGED <<queue_state, direct_dispatch_state>>
     \/ /\ BatchesIn(c, {"reserved", "running"}) = {}
        /\ IF \/ BatchesOf(c) = {}
              \/ BatchesIn(c, {"failed"}) # {}
              \/ \E b \in BatchesOf(c) : RecipientsIn(b, {"batched"}) # {}
           THEN /\ SetQueue({c}, "failed")
                /\ SetRegistry({c} \cap {d \in Campaigns :
                                  direct_dispatch_state[d] # "completed"}, "failed")
           ELSE /\ SetQueue({c}, "completed")
                /\ SetRegistry({c} \cap {d \in Campaigns :
                                  direct_dispatch_state[d] # "failed"}, "completed")
  /\ Goto(w, "exiting")
  /\ UNCHANGED <<recipient_state, batch_state, batch_idle, batch>>

StillOpen(w) == {c \in seen[w] : queue_state[c] \in OpenQueueStates}

ClaimNextQueuedBatch(w) ==
  /\ pc[w] = "locking"
  /\ seen' = [seen EXCEPT ![w] = {}]
  /\ \/ \E c \in StillOpen(w) : \/ ClaimBatch(w, c)
                          \/ ReconcileDispatchWithoutQueuedBatch(w, c)
     \/ /\ StillOpen(w) = {}
        /\ Goto(w, "exiting")
        /\ UNCHANGED <<tables, batch>>
  /\ UNCHANGED <<todo, slot, item, shutdown, attempt, mails, faults>>

\* Targeted mode reads a queued batch without claiming it.
LoadBatchByCampaign(w) ==
  /\ pc[w] = "starting"
  /\ w \in Targeted
  /\ \E c \in Campaigns :
       LET first == Lowest(BatchesIn(c, {"queued"}), 1) IN
       \/ /\ first = {}
          /\ Goto(w, "exiting")
          /\ UNCHANGED batch
       \/ \E b \in first :
            /\ batch' = [batch EXCEPT ![w] = b]
            /\ Goto(w, "loading")
  /\ UNCHANGED <<tables, seen, todo, slot, item, shutdown, attempt, mails, faults>>

-----------------------------------------------------------------------------
(* Preparing the run.                                                      *)

SendableInAnyState(b) == RecipientsOf(b)
Sendable(b) == RecipientsIn(b, {"batched"})

LoadRecipients(w) ==
  LET rows == Lowest(Sendable(batch[w]), MaxRecipientsPerRun) IN
  /\ pc[w] = "loading"
  /\ todo' = [todo EXCEPT ![w] = rows]
  /\ Goto(w, IF rows = {} THEN "empty" ELSE "mark_registry")
  /\ UNCHANGED <<tables, seen, batch, slot, item, shutdown, attempt, mails, faults>>

FailBatchAndDispatch(w) ==
  LET b == batch[w]
      c == CampaignOf[b] IN
  /\ pc[w] = "empty"
  /\ SetBatches({b} \cap {x \in Batches : batch_state[x] \in {"queued", "running"}},
                "failed")
  /\ SetQueue({c} \cap {d \in Campaigns : queue_state[d] \in OpenQueueStates}, "failed")
  /\ SetRegistry({c} \cap {d \in Campaigns : direct_dispatch_state[d] # "completed"},
                 "failed")
  /\ SetAttempt(w, "empty")
  /\ Goto(w, "exiting")
  /\ UNCHANGED <<recipient_state, seen, batch, todo, slot, item, shutdown, mails, faults>>

MarkRegistryLaunching(w) ==
  /\ pc[w] = "mark_registry"
  /\ SetRegistry({CampaignOf[batch[w]]}, "launching")
  /\ Goto(w, "mark_queue")
  /\ UNCHANGED <<recipient_state, batch_state, batch_idle, queue_state, local,
                 mails, faults>>

MarkRegistryRunning(w) ==
  /\ pc[w] = "mark_registry"
  /\ SetRegistry({CampaignOf[batch[w]]} \cap {c \in Campaigns :
       direct_dispatch_state[c] \in {"pending", "snapshotted", "batched"}}, "running")
  /\ Goto(w, "mark_queue")
  /\ UNCHANGED <<recipient_state, batch_state, batch_idle, queue_state, local,
                 mails, faults>>

MarkQueueRunning(w) ==
  /\ pc[w] = "mark_queue"
  /\ SetQueue({CampaignOf[batch[w]]} \cap {c \in Campaigns :
       queue_state[c] \in {"queued", "reserved", "launching", "retry_wait"}}, "running")
  /\ Goto(w, IF w \in DryRun THEN "dry_run" ELSE "start")
  /\ UNCHANGED <<recipient_state, batch_state, batch_idle, direct_dispatch_state,
                 local, mails, faults>>

-----------------------------------------------------------------------------
(* Dry run: one transaction, then the attempt row.                         *)

ExecuteDryRun(w) ==
  LET b == batch[w]
      listed == todo[w] \cap RecipientsIn(b, {"batched"}) IN
  /\ pc[w] = "dry_run"
  /\ SetRecipients(listed, "dry_run_sent")
  /\ SetBatches({b}, IF RecipientsIn(b, {"batched"}) \ listed # {}
                       THEN "queued" ELSE "completed")
  /\ todo' = [todo EXCEPT ![w] = {}]
  /\ Goto(w, "dry_run_attempt")
  /\ UNCHANGED <<queue_state, direct_dispatch_state, seen, batch, slot, item,
                 shutdown, attempt, mails, faults>>

InsertDryRunAttempt(w) ==
  /\ pc[w] = "dry_run_attempt"
  /\ SetAttempt(w, "dry_run")
  /\ Goto(w, "close")
  /\ UNCHANGED <<tables, seen, batch, todo, slot, item, shutdown, mails, faults>>

-----------------------------------------------------------------------------
(* smtp-relay: the send loops.                                             *)

StartBatch(w) ==
  /\ pc[w] = "start"
  /\ SetBatches({batch[w]}, "running")
  /\ Goto(w, "insert_attempt")
  /\ UNCHANGED <<recipient_state, queue_state, direct_dispatch_state, local,
                 mails, faults>>

InsertAttempt(w) ==
  /\ pc[w] = "insert_attempt"
  /\ SetAttempt(w, "open")
  /\ IF shutdown[w]
       THEN /\ Goto(w, "shutdown_batch")
            /\ UNCHANGED slot
       ELSE /\ Goto(w, "sending")
            /\ slot' = [slot EXCEPT ![w] =
                 [i \in 1..Slots |-> IF i <= Cardinality(todo[w]) THEN "top" ELSE "done"]]
  /\ UNCHANGED <<tables, seen, batch, todo, item, shutdown, mails, faults>>

MoveSlot(w, i, label) == slot' = [slot EXCEPT ![w][i] = label]

\* The first loop that throws rejects Promise.all: main() enters the catch
\* block at once, while the other loops run on.
Throws(w, i, handler) ==
  /\ MoveSlot(w, i, "done")
  /\ pc' = IF pc[w] = "sending" THEN [pc EXCEPT ![w] = handler] ELSE pc

TakeWithoutAdvancing(w, r) == UNCHANGED todo

\* recipients[nextRecipientIndex], nextRecipientIndex += 1.
Take(w, r) == todo' = [todo EXCEPT ![w] = @ \ {r}]

\* The top of the loop: no await between the checks and the pick.
\* fatalError is set exactly when main() has left "sending".
PickRecipient(w, i) ==
  /\ slot[w][i] = "top"
  /\ \/ /\ todo[w] = {}
        /\ MoveSlot(w, i, "done")
        /\ UNCHANGED <<pc, todo, item>>
     \/ /\ todo[w] # {}
        /\ shutdown[w] \/ pc[w] # "sending"
        /\ Throws(w, i, "shutdown_batch")
        /\ UNCHANGED <<todo, item>>
     \/ /\ ~shutdown[w]
        /\ pc[w] = "sending"
        /\ \E r \in Lowest(todo[w], 1) :
             /\ Take(w, r)
             /\ item' = [item EXCEPT ![w][i] = r]
             /\ MoveSlot(w, i, "marking")
        /\ UNCHANGED pc
  /\ UNCHANGED <<tables, seen, batch, shutdown, attempt, mails, faults>>

MarkSentBeforeSending(w, i) ==
  /\ slot[w][i] = "marking"
  /\ SetRecipients({item[w][i]}, "sent")
  /\ MoveSlot(w, i, "sending")
  /\ UNCHANGED <<batch_state, batch_idle, queue_state, direct_dispatch_state, pc,
                 seen, batch, todo, item, shutdown, attempt, mails, faults>>

MarkSending(w, i) ==
  /\ slot[w][i] = "marking"
  /\ SetRecipients({item[w][i]}, "sending")
  /\ MoveSlot(w, i, "sending")
  /\ UNCHANGED <<batch_state, batch_idle, queue_state, direct_dispatch_state, pc,
                 seen, batch, todo, item, shutdown, attempt, mails, faults>>

\* After cpDb.close() the pool refuses the UPDATE that would follow.
SendMail(w, i) ==
  /\ slot[w][i] = "sending"
  /\ mails' = [mails EXCEPT ![item[w][i]] = @ + 1]
  /\ MoveSlot(w, i, IF pc[w] = "exiting" THEN "done" ELSE "marking_sent")
  /\ UNCHANGED <<tables, pc, seen, batch, todo, item, shutdown, attempt, faults>>

\* A connection lost before the reply may leave the mail accepted.
SendMailFails(w, i) ==
  /\ slot[w][i] = "sending"
  /\ \/ /\ Fault("smtp_retry")
        /\ Throws(w, i, "recover")
        /\ \/ UNCHANGED mails
           \/ mails' = [mails EXCEPT ![item[w][i]] = @ + 1]
     \/ /\ Fault("smtp_fatal")
        /\ Throws(w, i, "fail_batch")
        /\ UNCHANGED mails
  /\ UNCHANGED <<tables, seen, batch, todo, item, shutdown, attempt>>

MarkSent(w, i) ==
  /\ slot[w][i] = "marking_sent"
  /\ SetRecipients({item[w][i]}, "sent")
  /\ MoveSlot(w, i, IF pc[w] = "exiting" THEN "done" ELSE "progress")
  /\ UNCHANGED <<batch_state, batch_idle, queue_state, direct_dispatch_state, pc,
                 seen, batch, todo, item, shutdown, attempt, mails, faults>>

\* Either the attempt row is rewritten (and the batch not touched), or the
\* heartbeat is due and touches the batch, or neither.
RecordProgress(w, i) ==
  /\ slot[w][i] = "progress"
  /\ \/ /\ SetAttempt(w, "open")
        /\ UNCHANGED batch_idle
     \/ /\ batch_idle' = [batch_idle EXCEPT ![batch[w]] = FALSE]
        /\ UNCHANGED attempt
     \/ UNCHANGED <<batch_idle, attempt>>
  /\ MoveSlot(w, i, "top")
  /\ UNCHANGED <<recipient_state, batch_state, queue_state, direct_dispatch_state,
                 pc, seen, batch, todo, item, shutdown, mails, faults>>

\* A statement of a send loop fails, for good, with a connection error of
\* the control plane or with any other error.
SlotStatementFails(w, i) ==
  /\ slot[w][i] \in {"marking", "marking_sent", "progress"}
  /\ \/ Fault("control_plane") /\ Throws(w, i, "recover")
     \/ Fault("statement") /\ Throws(w, i, "fail_batch")
  /\ UNCHANGED <<tables, seen, batch, todo, item, shutdown, attempt, mails>>

\* The pool is closed: the statement of a left-over loop is refused.
SlotStatementRefused(w, i) ==
  /\ pc[w] = "exiting"
  /\ slot[w][i] \in {"marking", "marking_sent", "progress"}
  /\ MoveSlot(w, i, "done")
  /\ UNCHANGED <<tables, pc, seen, batch, todo, item, shutdown, attempt, mails, faults>>

-----------------------------------------------------------------------------
(* finishBatchOrRequeue and the attempt's result.                          *)

CountRemaining(w) ==
  /\ pc[w] = "sending"
  /\ SlotsDone(w)
  /\ Goto(w, IF RecipientsIn(batch[w], {"batched"}) # {}
               THEN "finish_requeue" ELSE "finish_complete")
  /\ UNCHANGED <<tables, local, mails, faults>>

FinishBatchOrRequeue(w) ==
  /\ \/ /\ pc[w] = "finish_requeue"
        /\ SetBatches({batch[w]}, "queued")
        /\ Goto(w, "report_partial")
     \/ /\ pc[w] = "finish_complete"
        /\ SetBatches({batch[w]}, "completed")
        /\ Goto(w, "report_ok")
  /\ UNCHANGED <<recipient_state, queue_state, direct_dispatch_state, local,
                 mails, faults>>

Reports ==
  [report_ok |-> "ok", report_partial |-> "partial", report_shutdown |-> "shutdown",
   report_retry |-> "retry", report_error |-> "error"]

ReportAttempt(w) ==
  /\ pc[w] \in DOMAIN Reports
  /\ SetAttempt(w, Reports[pc[w]])
  /\ Goto(w, IF pc[w] = "report_error" THEN "exiting" ELSE "close")
  /\ UNCHANGED <<tables, seen, batch, todo, slot, item, shutdown, mails, faults>>

\* The finishing UPDATE (or the count before it) or the report fails inside the
\* try block; after a recovery the failing report is only logged.
FinishFails(w) ==
  /\ \/ pc[w] \in Finishing /\ Fault("control_plane") /\ Goto(w, "recover")
     \/ pc[w] \in Finishing /\ Fault("statement") /\ Goto(w, "fail_batch")
     \/ /\ pc[w] \in Reporting
        /\ Fault("report")
        /\ Goto(w, "recover") \/ Goto(w, "fail_batch")
     \/ pc[w] = "report_retry" /\ Fault("report") /\ Goto(w, "close")
  /\ UNCHANGED <<tables, local, mails>>

-----------------------------------------------------------------------------
(* The catch block.                                                        *)

RequeueBatchForShutdown(w) ==
  /\ \/ /\ pc[w] = "shutdown_batch"
        /\ SetBatches({batch[w]}, "queued")
        /\ Goto(w, "shutdown_recipients")
        /\ UNCHANGED recipient_state
     \/ /\ pc[w] = "shutdown_recipients"
        /\ SetRecipients(Interrupted({batch[w]}), "batched")
        /\ Goto(w, "report_shutdown")
        /\ UNCHANGED <<batch_state, batch_idle>>
  /\ UNCHANGED <<queue_state, direct_dispatch_state, local, mails, faults>>

RecoverByRequeueing(w) ==
  /\ pc[w] = "recover"
  /\ SetRecipients(Interrupted({batch[w]}), "batched")
  /\ SetBatches({batch[w]}, "queued")
  /\ Goto(w, "report_retry")
  /\ UNCHANGED <<queue_state, direct_dispatch_state, local, mails, faults>>

RecoverBatchAfterControlPlaneError(w) ==
  LET b == batch[w] IN
  /\ pc[w] = "recover"
  /\ SetRecipients(Interrupted({b}), "batched")
  /\ SetBatches({b}, IF RecipientsIn(b, {"batched", "sending"}) # {}
                       THEN "queued" ELSE "completed")
  /\ Goto(w, "report_retry")
  /\ UNCHANGED <<queue_state, direct_dispatch_state, local, mails, faults>>

FailBatch(w) ==
  /\ \/ /\ pc[w] = "fail_batch"
        /\ SetBatches({batch[w]}, "failed")
        /\ Goto(w, "fail_recipients")
        /\ UNCHANGED recipient_state
     \/ /\ pc[w] = "fail_recipients"
        /\ SetRecipients(RecipientsIn(batch[w], {"batched", "sending"}), "failed")
        /\ Goto(w, "report_error")
        /\ UNCHANGED <<batch_state, batch_idle>>
  /\ UNCHANGED <<queue_state, direct_dispatch_state, local, mails, faults>>

-----------------------------------------------------------------------------
(* closeDispatchIfDone and the end of the process.                         *)

CountOpenBatches(w) ==
  LET c == CampaignOf[batch[w]] IN
  /\ pc[w] = "close"
  /\ Goto(w, IF BatchesIn(c, {"queued", "reserved", "running"}) # {} THEN "exiting"
             ELSE IF BatchesIn(c, {"failed"}) # {} THEN "close_failed_queue"
             ELSE "close_completed_queue")
  /\ UNCHANGED <<tables, local, mails, faults>>

CloseQueue(w) ==
  LET c == CampaignOf[batch[w]] IN
  /\ \/ /\ pc[w] = "close_failed_queue"
        /\ SetQueue({c}, "failed")
        /\ Goto(w, "close_failed_registry")
     \/ /\ pc[w] = "close_completed_queue"
        /\ SetQueue({c}, "completed")
        /\ Goto(w, "close_completed_registry")
  /\ UNCHANGED <<recipient_state, batch_state, batch_idle, direct_dispatch_state,
                 local, mails, faults>>

CloseRegistryAsCompleted(w) ==
  /\ pc[w] \in {"close_failed_registry", "close_completed_registry"}
  /\ SetRegistry({CampaignOf[batch[w]]}, "completed")
  /\ Goto(w, "exiting")
  /\ UNCHANGED <<recipient_state, batch_state, batch_idle, queue_state, local,
                 mails, faults>>

CloseRegistry(w) ==
  LET c == CampaignOf[batch[w]] IN
  /\ \/ /\ pc[w] = "close_failed_registry"
        /\ SetRegistry({c}, "failed")
     \/ /\ pc[w] = "close_completed_registry"
        /\ SetRegistry({c}, "completed")
  /\ Goto(w, "exiting")
  /\ UNCHANGED <<recipient_state, batch_state, batch_idle, queue_state, local,
                 mails, faults>>

\* A process whose pool is closed lives until its loops have ended.
Exit(w) ==
  /\ pc[w] = "exiting"
  /\ SlotsDone(w)
  /\ ProcessGone(w)
  /\ UNCHANGED <<tables, mails, faults>>

\* A statement outside the try block, or in a handler, throws: main() only
\* logs, closes the pool and exits with code 1.
Uncaught(w) ==
  /\ pc[w] \in OutsideTry \union (Handling \ {"report_retry"}) \union Closing
  /\ Fault("statement")
  /\ Goto(w, "exiting")
  /\ UNCHANGED <<tables, local, mails>>

\* The process is killed (shutdown_force_kill, out of memory, redeploy).
Crash(w) ==
  /\ pc[w] # "off"
  /\ Fault("crash")
  /\ ProcessGone(w)
  /\ UNCHANGED <<tables, mails>>

RequestShutdown(w) ==
  /\ pc[w] # "off"
  /\ ~shutdown[w]
  /\ Fault("shutdown")
  /\ shutdown' = [shutdown EXCEPT ![w] = TRUE]
  /\ UNCHANGED <<tables, pc, seen, batch, todo, slot, item, attempt, mails>>

-----------------------------------------------------------------------------
(* The worker loop's recovery, time, and the operator.                     *)

Orphaned ==
  {b \in StaleBatches : /\ RecipientsIn(b, {"sending"}) = {}
                        /\ RecipientsIn(b, {"batched"}) # {}}

RecoverOrphanedRunningBatches ==
  /\ Orphaned # {}
  /\ SetBatches(Orphaned, "queued")
  /\ SetQueue({CampaignOf[b] : b \in Orphaned} \cap
                {c \in Campaigns : queue_state[c] \in OpenQueueStates}, "running")
  /\ AnnotateAttempts(Orphaned, "orphan_requeued")
  /\ UNCHANGED <<recipient_state, direct_dispatch_state, pc, seen, batch, todo,
                 slot, item, shutdown, mails, faults>>

Attended(b) == \E w \in Workers : batch[w] = b /\ pc[w] # "off"

\* The recovery timeout elapses without a write to batch b.  While a process
\* still works on b that is a fault: some await took longer than the timeout.
BatchGoesIdle(b) ==
  /\ batch_state[b] = "running"
  /\ ~batch_idle[b]
  /\ batch_idle' = [batch_idle EXCEPT ![b] = TRUE]
  /\ IF Attended(b) THEN Fault("stall") ELSE UNCHANGED faults
  /\ UNCHANGED <<recipient_state, batch_state, queue_state, direct_dispatch_state,
                 pc, local, mails>>

\* The "safe reset" transaction of docs/live-diagnostics-runbook.md, which
\* takes the latest running batch of a campaign.
OperatorReset(b) ==
  /\ batch_state[b] = "running"
  /\ \A later \in BatchesIn(CampaignOf[b], {"running"}) : later <= b
  /\ Fault("operator_reset")
  /\ SetRecipients(Interrupted({b}), "batched")
  /\ SetBatches({b}, "queued")
  /\ UNCHANGED <<queue_state, direct_dispatch_state, pc, local, mails>>

-----------------------------------------------------------------------------

SlotStep(w, i) ==
  \/ PickRecipient(w, i) \/ MarkSending(w, i) \/ SendMail(w, i)
  \/ MarkSent(w, i) \/ RecordProgress(w, i) \/ SlotStatementRefused(w, i)

MainStep(w) ==
  \/ Spawn(w) \/ RecoverStaleRunningBatches(w) \/ SelectDispatch(w)
  \/ ClaimNextQueuedBatch(w) \/ LoadBatchByCampaign(w) \/ LoadRecipients(w)
  \/ FailBatchAndDispatch(w) \/ MarkRegistryRunning(w) \/ MarkQueueRunning(w)
  \/ ExecuteDryRun(w) \/ InsertDryRunAttempt(w) \/ StartBatch(w)
  \/ InsertAttempt(w) \/ CountRemaining(w) \/ FinishBatchOrRequeue(w)
  \/ ReportAttempt(w) \/ RequeueBatchForShutdown(w)
  \/ RecoverBatchAfterControlPlaneError(w) \/ FailBatch(w)
  \/ CountOpenBatches(w) \/ CloseQueue(w) \/ CloseRegistry(w) \/ Exit(w)

Disturbance(w) ==
  \/ FinishFails(w) \/ Uncaught(w) \/ Crash(w) \/ RequestShutdown(w)
  \/ \E i \in 1..Slots : SendMailFails(w, i) \/ SlotStatementFails(w, i)

Next ==
  \/ \E w \in Workers : \/ MainStep(w)
                        \/ \E i \in 1..Slots : SlotStep(w, i)
                        \/ Disturbance(w)
  \/ RecoverOrphanedRunningBatches
  \/ \E b \in Batches : BatchGoesIdle(b) \/ OperatorReset(b)

Spec == Init /\ [][Next]_vars

-----------------------------------------------------------------------------
(* Safety.                                                                 *)

\* A recipient is reported 'sent' only if the relay accepted its mail, whatever
\* fails and whoever else works on the same batch: neither a requeue nor a
\* left-over send loop ever reports a mail that did not leave.
SentWasMailed ==
  \A r \in Recipients : recipient_state[r] = "sent" => mails[r] > 0

\* Repeated mails are the price of faults, one for one: re-running a batch after
\* a requeue, however often, mails only what was in flight (loadRecipients).
RepetitionsBounded == \A r \in Recipients : mails[r] <= 1 + faults

\* Without any fault nobody is mailed twice, although several send loops share
\* the recipient list and several executors the tables.
AtMostOnceUndisturbed ==
  faults = 0 => \A r \in Recipients : mails[r] <= 1

\* While main() is at one of these statements it may still change the state
\* of its batch.
Owning ==
  (OutsideTry \ {"starting", "claiming", "locking", "dry_run_attempt"})
    \union {"sending", "shutdown_batch", "recover", "fail_batch"}
    \union Finishing

Owns(w, b) == pc[w] \in Owning /\ batch[w] = b

\* Two executors never own the same batch: neither the claim on a snapshot nor
\* a stale or orphaned recovery hands out a batch that is still being executed.
OneOwnerPerBatch ==
  \A b \in Batches : \A v, w \in Workers : Owns(v, b) /\ Owns(w, b) => v = w

\* A dispatch closed as completed has no recipient left behind, although
\* finishBatchOrRequeue only counts 'batched' rows and closeDispatchIfDone and
\* reconcileDispatchWithoutQueuedBatch only look at batches.
CompletedIsDelivered ==
  \A b \in Batches :
    queue_state[CampaignOf[b]] = "completed" =>
      \A r \in RecipientsOf(b) : recipient_state[r] \in {"sent", "dry_run_sent"}

\* An attempt reported SMTP_RELAY_COMPLETED stands for a completed batch as long
\* as its process lives: nobody has requeued the batch behind its back.
OkAttemptCompletedBatch ==
  \A w \in Workers : attempt[w] = "ok" => batch_state[batch[w]] = "completed"

\* When nobody is at work, a closed dispatch has the same verdict in the queue
\* and in the registry, which are written by separate statements.
VerdictsAgree ==
  (\A w \in Workers : pc[w] = "off") =>
    \A c \in Campaigns : queue_state[c] \in {"completed", "failed"} =>
      direct_dispatch_state[c] = queue_state[c]

\* Shutdowns, lost connections and retryable SMTP errors never fail a dispatch:
\* no handler requeues a batch that has nothing left to send.
RetriesDoNotFail == \A c \in Campaigns : queue_state[c] # "failed"

-----------------------------------------------------------------------------
(* Inductive invariants behind SentWasMailed, OneOwnerPerBatch and         *)
(* OkAttemptCompletedBatch.                                                *)

\* A loop that holds a recipient has picked it from the loaded rows, and it is
\* about to report 'sent' only what it has mailed.
MailedInv ==
  /\ SentWasMailed
  /\ \A w \in Workers : \A i \in 1..Slots :
       /\ slot[w][i] \in {"marking", "sending", "marking_sent"} =>
            item[w][i] \in Recipients
       /\ slot[w][i] = "marking_sent" => mails[item[w][i]] > 0

\* A batch with an owner is running and its heartbeat is fresh: neither the claim
\* nor a recovery can take it.
OwnedInv ==
  /\ OneOwnerPerBatch
  /\ \A w \in Workers : \A b \in Batches :
       Owns(w, b) => batch_state[b] = "running" /\ ~batch_idle[b]

Unclaimed == {"off", "starting", "claiming", "locking"}

\* A batch that was finished, and is still to be reported or reported so, has no
\* owner any more; a process without a batch has neither an attempt nor a loop.
ReportedInv ==
  /\ OwnedInv
  /\ \A w \in Workers :
       /\ pc[w] = "report_ok" \/ attempt[w] = "ok" =>
            batch[w] \in Batches /\ batch_state[batch[w]] = "completed"
       /\ pc[w] \in Owning => batch[w] \in Batches
       /\ pc[w] \in Unclaimed => attempt[w] = "none" /\ SlotsDone(w)

-----------------------------------------------------------------------------
(* Liveness.  worker-loop.js spawns executors for ever and node runs what is  *)
(* ready, so each process that can take its next step does; a batch nobody   *)
(* works on ages.  No fault has to happen.                                   *)

Fairness ==
  /\ \A w \in Workers : /\ WF_vars(MainStep(w))
                        /\ \A i \in 1..Slots : WF_vars(SlotStep(w, i))
  /\ \A b \in Batches : WF_vars(~Attended(b) /\ BatchGoesIdle(b))

FairSpec == Spec /\ Fairness

\* Every dispatch is closed for good, whichever process dies or fails at which
\* statement: the recoveries and the reconciliation leave none behind.
EveryDispatchCloses ==
  \A c \in Campaigns : <>[](queue_state[c] \in {"completed", "failed"})

\* If only shutdowns and retryable errors happen, everybody is reported sent.
EveryRecipientIsSent ==
  \A r \in Recipients : <>[](recipient_state[r] = "sent")

=============================================================================
