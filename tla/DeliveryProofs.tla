--------------------------- MODULE DeliveryProofs ---------------------------
(***************************************************************************)
(* What the executors of RelayExecutor deliver: they implement             *)
(* DispatchPromise, and statements that LostAcks executes twice are safe   *)
(* to repeat, requeues excepted.                                           *)
(***************************************************************************)
EXTENDS RelayPromise, LostAcks, RelayExecutorProofs

-----------------------------------------------------------------------------
(* The executors implement DispatchPromise.                                *)

\* Without dry-run executors no row becomes dry_run_sent.
Wet ==
  /\ \A w \in Workers : pc[w] \notin {"dry_run", "dry_run_attempt"}
  /\ \A r \in Recipients : recipient_state[r] # "dry_run_sent"

LEMMA WetStep ==
  ASSUME TypeOK, DryRun = {}, Wet, [Next]_vars
  PROVE  Wet'
<1> USE DEF tables, local
<1>1. ASSUME NEW w \in Workers, NEW label, label \notin {"dry_run", "dry_run_attempt"},
             Goto(w, label)
      PROVE  \A v \in Workers : pc'[v] \notin {"dry_run", "dry_run_attempt"}
  BY <1>1 DEF Goto, TypeOK, Wet
<1>2. ASSUME NEW rs, NEW state, state # "dry_run_sent", SetRecipients(rs, state)
      PROVE  \A r \in Recipients : recipient_state'[r] # "dry_run_sent"
  BY <1>2 DEF SetRecipients, Wet
<1>3. ASSUME NEW w \in Workers, MainStep(w)
      PROVE  Wet'
  <2>1. CASE \/ Spawn(w) \/ SelectDispatch(w) \/ LoadBatchByCampaign(w) \/ LoadRecipients(w)
             \/ FailBatchAndDispatch(w) \/ MarkRegistryRunning(w) \/ MarkQueueRunning(w)
             \/ StartBatch(w) \/ InsertAttempt(w) \/ CountRemaining(w)
    <3>1. UNCHANGED recipient_state
      BY <2>1
      DEF Spawn, SelectDispatch, LoadBatchByCampaign, LoadRecipients, FailBatchAndDispatch,
          MarkRegistryRunning, MarkQueueRunning, StartBatch, InsertAttempt, CountRemaining
    <3>2. \E label : label \notin {"dry_run", "dry_run_attempt"} /\ Goto(w, label)
      BY <2>1
      DEF Spawn, SelectDispatch, LoadBatchByCampaign, LoadRecipients, FailBatchAndDispatch,
          MarkRegistryRunning, MarkQueueRunning, StartBatch, InsertAttempt, CountRemaining
    <3> QED
      BY <1>1, <3>1, <3>2 DEF Wet
  <2>2. CASE \/ FinishBatchOrRequeue(w) \/ ReportAttempt(w) \/ CountOpenBatches(w)
             \/ CloseQueue(w) \/ CloseRegistry(w) \/ ClaimNextQueuedBatch(w)
    <3>1. UNCHANGED recipient_state
      BY <2>2
      DEF FinishBatchOrRequeue, ReportAttempt, CountOpenBatches, CloseQueue, CloseRegistry,
          ClaimNextQueuedBatch, ClaimBatch, ReconcileDispatchWithoutQueuedBatch
    <3>2. \E label : label \notin {"dry_run", "dry_run_attempt"} /\ Goto(w, label)
      BY <2>2
      DEF FinishBatchOrRequeue, ReportAttempt, CountOpenBatches, CloseQueue, CloseRegistry,
          ClaimNextQueuedBatch, ClaimBatch, ReconcileDispatchWithoutQueuedBatch
    <3> QED
      BY <1>1, <3>1, <3>2 DEF Wet
  <2>3. CASE \/ RecoverStaleRunningBatches(w) \/ RequeueBatchForShutdown(w)
             \/ RecoverBatchAfterControlPlaneError(w) \/ FailBatch(w)
    <3>1. \/ UNCHANGED recipient_state
          \/ \E rs, state : state # "dry_run_sent" /\ SetRecipients(rs, state)
      BY <2>3
      DEF RecoverStaleRunningBatches, RequeueBatchForShutdown,
          RecoverBatchAfterControlPlaneError, FailBatch
    <3>2. \E label : label \notin {"dry_run", "dry_run_attempt"} /\ Goto(w, label)
      BY <2>3
      DEF RecoverStaleRunningBatches, RequeueBatchForShutdown,
          RecoverBatchAfterControlPlaneError, FailBatch
    <3> QED
      BY <1>1, <1>2, <3>1, <3>2 DEF Wet
  <2>4. CASE ExecuteDryRun(w) \/ InsertDryRunAttempt(w)
    BY <2>4 DEF ExecuteDryRun, InsertDryRunAttempt, Wet
  <2>5. CASE Exit(w)
    BY <2>5, <1>1 DEF Exit, ProcessGone, Wet
  <2> QED
    BY <1>3, <2>1, <2>2, <2>3, <2>4, <2>5 DEF MainStep
<1>4. ASSUME NEW w \in Workers, NEW i \in 1..Slots,
             SlotStep(w, i) \/ SendMailFails(w, i) \/ SlotStatementFails(w, i)
      PROVE  Wet'
  <2>1. \/ UNCHANGED pc
        \/ \E label : label \notin {"dry_run", "dry_run_attempt"} /\ Goto(w, label)
    BY <1>4
    DEF SlotStep, PickRecipient, Throws, MarkSending, SendMail, MarkSent, RecordProgress,
        SlotStatementRefused, SendMailFails, SlotStatementFails, Goto
  <2>2. \/ UNCHANGED recipient_state
        \/ \E rs, state : state # "dry_run_sent" /\ SetRecipients(rs, state)
    BY <1>4
    DEF SlotStep, PickRecipient, MarkSending, SendMail, MarkSent, RecordProgress,
        SlotStatementRefused, SendMailFails, SlotStatementFails
  <2> QED
    BY <1>1, <1>2, <2>1, <2>2 DEF Wet
<1>5. ASSUME NEW w \in Workers,
             FinishFails(w) \/ Uncaught(w) \/ Crash(w) \/ RequestShutdown(w)
      PROVE  Wet'
  BY <1>1, <1>5 DEF FinishFails, Uncaught, Crash, ProcessGone, RequestShutdown, Wet
<1>6. CASE \/ RecoverOrphanedRunningBatches
           \/ \E b \in Batches : BatchGoesIdle(b) \/ OperatorReset(b)
           \/ UNCHANGED vars
  BY <1>2, <1>6 DEF RecoverOrphanedRunningBatches, BatchGoesIdle, OperatorReset, vars, Wet
<1> QED
  BY <1>3, <1>4, <1>5, <1>6 DEF Next, Disturbance

\* What a reader of the promise sees of a step.
SentKept == \A r \in Recipients : recipient_state'[r] = "sent" <=> recipient_state[r] = "sent"
VerdictsKept ==
  \A c \in Campaigns :
    queue_state'[c] = queue_state[c]
      \/ (queue_state[c] \in OpenQueueStates /\ queue_state'[c] \in OpenQueueStates)

LEMMA SeenUnchanged ==
  /\ SentKept => Reported' = Reported
  /\ VerdictsKept => Verdict' = Verdict
BY DEF SentKept, Reported, VerdictsKept, Verdict, OpenQueueStates

\* Only MarkSent reports, and nothing takes a report back.
LEMMA SentStep ==
  ASSUME TypeOK, Delivery, [Next]_vars
  PROVE  SentKept \/ \E w \in Workers : \E i \in 1..Slots : MarkSent(w, i)
<1> USE DEF tables, local
<1>1. ASSUME NEW rs, \A r \in rs \cap Recipients : recipient_state[r] # "sent",
             NEW state, state # "sent", SetRecipients(rs, state)
      PROVE  SentKept
  BY <1>1 DEF SetRecipients, SentKept
<1>2. \A bs : \A r \in Interrupted(bs) : recipient_state[r] # "sent"
  BY DEF Interrupted, RecipientsIn
<1>3. UNCHANGED recipient_state => SentKept
  BY DEF SentKept
<1>4. ASSUME NEW w \in Workers, MainStep(w)
      PROVE  SentKept
  <2>1. CASE RecoverStaleRunningBatches(w)
    BY <1>1, <1>2, <2>1 DEF RecoverStaleRunningBatches
  <2>2. CASE ExecuteDryRun(w)
    <3>1. SetRecipients(todo[w] \cap RecipientsIn(batch[w], {"batched"}), "dry_run_sent")
      BY <2>2 DEF ExecuteDryRun
    <3> QED
      BY <1>1, <3>1 DEF RecipientsIn
  <2>3. CASE RequeueBatchForShutdown(w)
    BY <1>1, <1>2, <1>3, <2>3 DEF RequeueBatchForShutdown
  <2>4. CASE RecoverBatchAfterControlPlaneError(w)
    BY <1>1, <1>2, <2>4 DEF RecoverBatchAfterControlPlaneError
  <2>5. CASE FailBatch(w)
    <3>1. \A r \in RecipientsIn(batch[w], {"batched", "sending"}) : recipient_state[r] # "sent"
      BY DEF RecipientsIn
    <3> QED
      BY <1>1, <1>3, <2>5, <3>1 DEF FailBatch
  <2> QED
    BY <1>3, <1>4, <2>1, <2>2, <2>3, <2>4, <2>5
    DEF MainStep, Spawn, SelectDispatch, ClaimNextQueuedBatch, ClaimBatch,
        ReconcileDispatchWithoutQueuedBatch, LoadBatchByCampaign, LoadRecipients,
        FailBatchAndDispatch, MarkRegistryRunning, MarkQueueRunning, InsertDryRunAttempt,
        StartBatch, InsertAttempt, CountRemaining, FinishBatchOrRequeue, ReportAttempt,
        CountOpenBatches, CloseQueue, CloseRegistry, Exit
<1>5. ASSUME NEW w \in Workers, NEW i \in 1..Slots, MarkSending(w, i)
      PROVE  SentKept
  <2>1. recipient_state[item[w][i]] # "sent" /\ SetRecipients({item[w][i]}, "sending")
    BY <1>5 DEF MarkSending, Delivery, Held, Holding
  <2> QED
    BY <1>1, <2>1
<1>6. ASSUME NEW w \in Workers, NEW i \in 1..Slots, SlotStep(w, i), ~MarkSent(w, i)
      PROVE  SentKept
  BY <1>3, <1>5, <1>6
  DEF SlotStep, PickRecipient, SendMail, RecordProgress, SlotStatementRefused
<1>7. ASSUME NEW w \in Workers, Disturbance(w)
      PROVE  SentKept
  BY <1>3, <1>7
  DEF Disturbance, FinishFails, Uncaught, Crash, RequestShutdown, SendMailFails,
      SlotStatementFails
<1>8. ASSUME NEW b \in Batches, OperatorReset(b)
      PROVE  SentKept
  BY <1>1, <1>2, <1>8 DEF OperatorReset
<1>9. CASE \/ RecoverOrphanedRunningBatches
           \/ \E b \in Batches : BatchGoesIdle(b)
           \/ UNCHANGED vars
  BY <1>3, <1>9 DEF RecoverOrphanedRunningBatches, BatchGoesIdle, vars
<1> QED
  BY <1>4, <1>6, <1>7, <1>8, <1>9 DEF Next

\* A dispatch is judged by a step of its own.
LEMMA VerdictStep ==
  ASSUME TypeOK, [Next]_vars
  PROVE  \/ VerdictsKept
         \/ /\ UNCHANGED <<recipient_state, mails, faults>>
            /\ \E c \in Campaigns : \A d \in Campaigns \ {c} : queue_state'[d] = queue_state[d]
<1> DEFINE Judges == /\ UNCHANGED <<recipient_state, mails, faults>>
                     /\ \E c \in Campaigns :
                          \A d \in Campaigns \ {c} : queue_state'[d] = queue_state[d]
<1> USE DEF tables, local
<1>1. UNCHANGED queue_state => VerdictsKept
  BY DEF VerdictsKept
<1>2. ASSUME NEW cs, \A c \in cs \cap Campaigns : queue_state[c] \in OpenQueueStates,
             SetQueue(cs, "running")
      PROVE  VerdictsKept
  BY <1>2 DEF SetQueue, VerdictsKept, OpenQueueStates
<1>3. ASSUME NEW cs, NEW c, cs \subseteq {c}, NEW state, SetQueue(cs, state),
             UNCHANGED <<recipient_state, mails, faults>>
      PROVE  VerdictsKept \/ Judges
  <2>1. \A d \in Campaigns \ {c} : queue_state'[d] = queue_state[d]
    BY <1>3 DEF SetQueue
  <2>2. CASE c \in Campaigns
    BY <1>3, <2>1, <2>2
  <2>3. CASE c \notin Campaigns
    BY <2>1, <2>3 DEF VerdictsKept
  <2> QED
    BY <2>2, <2>3
<1> HIDE DEF Judges
<1>4. ASSUME NEW w \in Workers, MainStep(w)
      PROVE  VerdictsKept \/ Judges
  <2>1. CASE ClaimNextQueuedBatch(w)
    <3>1. ASSUME NEW c \in StillOpen(w), ClaimBatch(w, c)
          PROVE  VerdictsKept
      BY <1>2, <3>1 DEF ClaimBatch, StillOpen
    <3>2. ASSUME NEW c \in StillOpen(w), ReconcileDispatchWithoutQueuedBatch(w, c)
          PROVE  VerdictsKept \/ Judges
      <4>1. UNCHANGED <<recipient_state, mails, faults>>
        BY <2>1, <3>2 DEF ClaimNextQueuedBatch, ReconcileDispatchWithoutQueuedBatch
      <4>2. UNCHANGED queue_state \/ SetQueue({c}, "failed") \/ SetQueue({c}, "completed")
        BY <3>2 DEF ReconcileDispatchWithoutQueuedBatch
      <4> QED
        BY <1>1, <1>3, <4>1, <4>2
    <3> QED
      BY <1>1, <2>1, <3>1, <3>2 DEF ClaimNextQueuedBatch
  <2>2. CASE MarkQueueRunning(w)
    <3>1. SetQueue({CampaignOf[batch[w]]} \cap {c \in Campaigns :
            queue_state[c] \in {"queued", "reserved", "launching", "retry_wait"}}, "running")
      BY <2>2 DEF MarkQueueRunning
    <3> QED
      BY <1>2, <3>1 DEF OpenQueueStates
  <2>3. CASE FailBatchAndDispatch(w)
    <3>1. /\ SetQueue({CampaignOf[batch[w]]} \cap
                        {d \in Campaigns : queue_state[d] \in OpenQueueStates}, "failed")
          /\ UNCHANGED <<recipient_state, mails, faults>>
      BY <2>3 DEF FailBatchAndDispatch
    <3> QED
      BY <1>3, <3>1
  <2>4. CASE CloseQueue(w)
    <3>1. /\ UNCHANGED <<recipient_state, mails, faults>>
          /\ \/ SetQueue({CampaignOf[batch[w]]}, "failed")
             \/ SetQueue({CampaignOf[batch[w]]}, "completed")
      BY <2>4 DEF CloseQueue
    <3> QED
      BY <1>3, <3>1
  <2> QED
    BY <1>1, <1>4, <2>1, <2>2, <2>3, <2>4
    DEF MainStep, Spawn, SelectDispatch, LoadRecipients, LoadBatchByCampaign,
        InsertDryRunAttempt, InsertAttempt, CountRemaining, ReportAttempt, CountOpenBatches,
        Exit, RecoverStaleRunningBatches, MarkRegistryRunning, ExecuteDryRun, StartBatch,
        FinishBatchOrRequeue, RequeueBatchForShutdown, RecoverBatchAfterControlPlaneError,
        FailBatch, CloseRegistry
<1>5. ASSUME NEW w \in Workers, NEW i \in 1..Slots,
             SlotStep(w, i) \/ SendMailFails(w, i) \/ SlotStatementFails(w, i)
      PROVE  VerdictsKept
  BY <1>1, <1>5
  DEF SlotStep, PickRecipient, MarkSending, SendMail, MarkSent, RecordProgress,
      SlotStatementRefused, SendMailFails, SlotStatementFails
<1>6. ASSUME NEW w \in Workers,
             FinishFails(w) \/ Uncaught(w) \/ Crash(w) \/ RequestShutdown(w)
      PROVE  VerdictsKept
  BY <1>1, <1>6 DEF FinishFails, Uncaught, Crash, RequestShutdown
<1>7. CASE RecoverOrphanedRunningBatches
  <2>1. SetQueue({CampaignOf[b] : b \in Orphaned} \cap
                   {c \in Campaigns : queue_state[c] \in OpenQueueStates}, "running")
    BY <1>7 DEF RecoverOrphanedRunningBatches
  <2> QED
    BY <1>2, <2>1
<1>8. CASE \/ \E b \in Batches : BatchGoesIdle(b) \/ OperatorReset(b)
           \/ UNCHANGED vars
  BY <1>1, <1>8 DEF BatchGoesIdle, OperatorReset, vars
<1> QED
  BY <1>4, <1>5, <1>6, <1>7, <1>8 DEF Next, Disturbance, Judges

\* Mails leave in two places, and faults are counted one by one.
LEMMA MailStep ==
  ASSUME TypeOK, [Next]_vars
  PROVE  /\ \/ UNCHANGED mails
            \/ \E w \in Workers : \E i \in 1..Slots : SendMail(w, i) \/ SendMailFails(w, i)
         /\ faults' = faults \/ faults' = faults + 1
<1>1. ASSUME NEW w \in Workers, MainStep(w)
      PROVE  UNCHANGED <<mails, faults>>
  BY <1>1
  DEF MainStep, Spawn, RecoverStaleRunningBatches, SelectDispatch,
      ClaimNextQueuedBatch, LoadBatchByCampaign, LoadRecipients, FailBatchAndDispatch,
      MarkRegistryRunning, MarkQueueRunning, ExecuteDryRun, InsertDryRunAttempt,
      StartBatch, InsertAttempt, CountRemaining, FinishBatchOrRequeue, ReportAttempt,
      RequeueBatchForShutdown, RecoverBatchAfterControlPlaneError, FailBatch,
      CountOpenBatches, CloseQueue, CloseRegistry, Exit
<1>2. ASSUME NEW w \in Workers, NEW i \in 1..Slots, SlotStep(w, i)
      PROVE  faults' = faults /\ (UNCHANGED mails \/ SendMail(w, i))
  BY <1>2 DEF SlotStep, PickRecipient, MarkSending, SendMail, MarkSent, RecordProgress,
              SlotStatementRefused
<1>3. ASSUME NEW w \in Workers, Disturbance(w)
      PROVE  /\ faults' = faults + 1
             /\ UNCHANGED mails \/ \E i \in 1..Slots : SendMailFails(w, i)
  BY <1>3 DEF Disturbance, FinishFails, Uncaught, Crash, RequestShutdown, SendMailFails,
              SlotStatementFails, Fault
<1>4. ASSUME \/ RecoverOrphanedRunningBatches
             \/ \E b \in Batches : BatchGoesIdle(b) \/ OperatorReset(b)
             \/ UNCHANGED vars
      PROVE  UNCHANGED mails /\ (faults' = faults \/ faults' = faults + 1)
  BY <1>4 DEF RecoverOrphanedRunningBatches, BatchGoesIdle, OperatorReset, Fault, vars
<1> QED
  BY <1>1, <1>2, <1>3, <1>4 DEF Next

\* A dispatch that is judged had an open verdict, and the verdict is justified.
LEMMA JudgedOnce ==
  ASSUME TypeOK, ReportedInv, Verdicts, Delivery, FailedQueue, Wet, Populated, OnTime',
         Calm' => Supplied', [Next]_vars, NEW c \in Campaigns,
         faults \in Nat, UNCHANGED <<recipient_state, mails, faults>>
  PROVE  \/ queue_state'[c] = queue_state[c]
         \/ queue_state[c] \in OpenQueueStates /\ queue_state'[c] \in OpenQueueStates
         \/ /\ queue_state[c] \in OpenQueueStates /\ queue_state'[c] = "completed"
            /\ \A b \in BatchesOf(c) : \A r \in RecipientsOf(b) : recipient_state[r] = "sent"
         \/ /\ queue_state[c] \in OpenQueueStates /\ queue_state'[c] = "failed"
            /\ ~Calm'
<1>1. Judging(c)
  BY JudgingStep
<1>2. /\ queue_state[c] = "completed" => AllCompleted(c)
      /\ queue_state[c] = "failed" => SomeFailed(c)
      /\ queue_state[c] \in OpenQueueStates \union Final
      /\ \A w \in Workers : CampaignOf[batch[w]] = c =>
           /\ pc[w] = "close_failed_queue" => SomeFailed(c)
           /\ pc[w] = "close_completed_queue" => AllCompleted(c)
           /\ pc[w] = "close_failed_registry" => queue_state[c] = "failed"
           /\ pc[w] = "close_completed_registry" => queue_state[c] = "completed"
  BY DEF Verdicts, CompletedQueue, CountStands, ClosingFailed, ClosingCompleted, QueueFirst,
         FailedQueue
<1>3. ~(AllCompleted(c) /\ SomeFailed(c))
  BY DEF AllCompleted, SomeFailed
<1>4. ASSUME AllCompleted(c)
      PROVE  \A b \in BatchesOf(c) : \A r \in RecipientsOf(b) : recipient_state[r] = "sent"
  BY <1>4 DEF AllCompleted, BatchesOf, RecipientsOf, Delivery, RowStages, Delivered, Wet
<1>5. ASSUME queue_state[c] # "failed", queue_state'[c] = "failed", Calm'
      PROVE  FALSE
  <2>1. SomeFailed(c)'
    BY <1>5, FailingStep
  <2> QED
    BY <1>5, <2>1 DEF Supplied, BatchSupplied, SomeFailed, BatchesOf
<1>6. "failed" \notin OpenQueueStates /\ "completed" \notin OpenQueueStates
  BY DEF OpenQueueStates
<1>7. \/ queue_state'[c] = queue_state[c]
      \/ queue_state[c] \in OpenQueueStates /\ queue_state'[c] \in OpenQueueStates
      \/ queue_state[c] \in OpenQueueStates /\ queue_state'[c] = "failed"
      \/ queue_state[c] \in OpenQueueStates /\ queue_state'[c] = "completed" /\ AllCompleted(c)
      \/ SomeFailed(c) /\ queue_state'[c] = "failed"
      \/ AllCompleted(c) /\ queue_state'[c] = "completed"
  BY <1>1, <1>2 DEF Judging, Judged
<1> QED
  BY <1>2, <1>3, <1>4, <1>5, <1>6, <1>7 DEF Final

\* Every step of the executors is a step of the promise, or none.
LEMMA PromiseStep ==
  ASSUME TypeOK, MailedInv, ReportedInv, Verdicts, Delivery, FailedQueue, Wet, Populated,
         OnTime', Calm' => Supplied', Slots = 1, [Next]_vars
  PROVE  [Promise!Next]_Promise!promised
<1> DEFINE Goal == Promise!Next \/ UNCHANGED Promise!promised
<1>0. faults \in Nat /\ mails \in [Recipients -> Nat]
  BY FaultsGrow DEF TypeOK
<1>1. ASSUME SentKept, VerdictsKept, UNCHANGED mails, faults' = faults \/ faults' = faults + 1
      PROVE  Goal
  BY <1>1, SeenUnchanged DEF Promise!Next, Promise!Disturbed, Promise!promised
<1>2. ASSUME NEW r \in Recipients, mails[r] <= faults, mails' = [mails EXCEPT ![r] = @ + 1],
             faults' = faults \/ faults' = faults + 1, SentKept, VerdictsKept
      PROVE  Goal
  BY <1>2, SeenUnchanged DEF Promise!Next, Promise!Mail, Promise!FaultCount
<1>3. ASSUME NEW w \in Workers, NEW i \in 1..Slots, SendMail(w, i) \/ SendMailFails(w, i)
      PROVE  Goal
  <2>1. SentKept /\ VerdictsKept
    BY <1>3 DEF SendMail, SendMailFails, tables, SentKept, VerdictsKept
  <2>2. /\ faults' = faults \/ faults' = faults + 1
        /\ slot[w][i] = "sending"
        /\ UNCHANGED mails \/ mails' = [mails EXCEPT ![item[w][i]] = @ + 1]
    BY <1>3 DEF SendMail, SendMailFails, Fault
  <2>3. item[w][i] \in Recipients /\ mails[item[w][i]] <= faults
    BY <2>2, Unsettled DEF Delivery, Paid
  <2> HIDE DEF Goal
  <2> QED
    BY <1>1, <1>2, <2>1, <2>2, <2>3
<1>4. ASSUME NEW w \in Workers, NEW i \in 1..Slots, MarkSent(w, i)
      PROVE  Goal
  <2> DEFINE r == item[w][i]
  <2>1. /\ slot[w][i] = "marking_sent" /\ SetRecipients({r}, "sent")
        /\ UNCHANGED <<queue_state, mails, faults>>
    BY <1>4 DEF MarkSent
  <2>2. r \in Recipients /\ mails[r] > 0
    BY <2>1 DEF MailedInv
  <2>3. Reported' = Reported \union {r}
    BY <2>1, <2>2 DEF SetRecipients, Reported
  <2>4. Verdict' = Verdict
    BY <2>1 DEF Verdict
  <2> HIDE DEF r
  <2> QED
    BY <2>1, <2>2, <2>3, <2>4 DEF Promise!Next, Promise!Report
<1>5. ASSUME NEW c \in Campaigns, \A d \in Campaigns \ {c} : queue_state'[d] = queue_state[d],
             UNCHANGED <<recipient_state, mails, faults>>
      PROVE  Goal
  <2>0. UNCHANGED <<Reported, mails, faults>> /\ SentKept
    BY <1>5 DEF Reported, SentKept
  <2>1. CASE \/ queue_state'[c] = queue_state[c]
             \/ queue_state[c] \in OpenQueueStates /\ queue_state'[c] \in OpenQueueStates
    <3>1. VerdictsKept
      BY <1>5, <2>1 DEF VerdictsKept
    <3> HIDE DEF Goal
    <3> QED
      BY <1>1, <1>5, <2>0, <3>1
  <2>2. ASSUME queue_state[c] \in OpenQueueStates,
               NEW verdict \in {"completed", "failed"}, queue_state'[c] = verdict
        PROVE  Verdict[c] = "open" /\ Verdict' = [Verdict EXCEPT ![c] = verdict]
    BY <1>5, <2>2 DEF Verdict, OpenQueueStates
  <2>3. CASE /\ queue_state[c] \in OpenQueueStates /\ queue_state'[c] = "completed"
             /\ \A b \in BatchesOf(c) : \A r \in RecipientsOf(b) : recipient_state[r] = "sent"
    <3>1. Planned[c] \subseteq Reported
      BY <2>3 DEF Planned, Reported, RecipientsOf
    <3> QED
      BY <2>0, <2>2, <2>3, <3>1 DEF Promise!Next, Promise!CloseCompleted
  <2>4. CASE /\ queue_state[c] \in OpenQueueStates /\ queue_state'[c] = "failed"
             /\ ~Calm'
    <3>1. faults > 0
      BY <1>0, <1>5, <2>4 DEF Calm, Orderly
    <3> QED
      BY <2>0, <2>2, <2>4, <3>1 DEF Promise!Next, Promise!CloseFailed
  <2> HIDE DEF Goal
  <2> QED
    BY <1>0, <1>5, <2>1, <2>3, <2>4, JudgedOnce
<1> HIDE DEF Goal
<1>6. Goal
  BY <1>1, <1>3, <1>4, <1>5, SentStep, VerdictStep, MailStep
<1> QED
  BY <1>6 DEF Goal

\* The refinement: with one loop per executor, any number of executors and faults of
\* any kind that leaves the heartbeat to its owner keep the promise to each dispatch.
THEOREM PromiseIsKept ==
  ASSUME Timely, Slots = 1, DryRun = {}, Populated
  PROVE  Spec => KeepsPromise
<1>1. Init => Promise!Init
  BY DEF Init, TablesInit, Promise!Init, Reported, Verdict
<1>2. Init => Wet
  BY DEF Init, TablesInit, Wet
<1>3. TypeOK /\ Wet /\ [Next]_vars => Wet'
  BY WetStep
<1>4. Spec => []Wet
  BY <1>2, <1>3, TypeCorrect, PTL DEF Spec
<1>5. OnTime /\ Orderly /\ OnTime'
  BY DEF OnTime, Timely, Orderly
<1>6. TypeOK /\ MailedInv /\ (OnTime => ReportedInv) /\ (OnTime => Verdicts)
        /\ (Orderly => Delivery) /\ (Orderly => FailedQueue) /\ (Calm => Supplied)' /\ Wet
        /\ [Next]_vars => [Promise!Next]_Promise!promised
  BY <1>5, PromiseStep
<1>7. Spec => []MailedInv
  BY AlwaysMailedInv
<1> QED
  BY <1>1, <1>4, <1>6, <1>7, TypeCorrect, AlwaysReportedInv, AlwaysVerdicts, AlwaysDelivery,
     AlwaysFailedQueue, AlwaysSupplied, PTL DEF KeepsPromise, Promise!Spec, Spec

-----------------------------------------------------------------------------
(* Statements that are executed twice: OnlyRequeuesAreUnsafe, with one loop *)
(* per executor.  The invariants above do not survive a first execution:    *)
(* an owner may find its batch completed or failed by itself, a loop its    *)
(* row already marked, and a completed batch may yet be failed.             *)

\* What the owner of a batch may find it in: running, or what the statement it is
\* about to repeat, or has given up repeating, has made of it.
OwnedStage(label, state) ==
  \/ state = "running"
  \/ state = "completed" /\ label \in {"finish_complete", "dry_run", "recover", "fail_batch"}
  \/ state = "failed" /\ label = "fail_batch"

Fenced ==
  /\ OneOwnerPerBatch
  /\ \A w \in Workers : \A b \in Batches :
       Owns(w, b) => OwnedStage(pc[w], batch_state[b]) /\ ~batch_idle[b]

\* The rows that are loaded and not picked are still to be sent, except those of
\* a dry run that is committed and not answered.
Loading == {"mark_registry", "mark_queue", "start", "insert_attempt"}
LoadedAgain ==
  \A w \in Workers : pc[w] \in Loading \union {"sending"} =>
    todo[w] \subseteq RecipientsIn(batch[w], {"batched"})

\* A loop may find its row as its own statement will leave it.
RowStagesAt(label) ==
  {"batched", "sending"} \union (IF label = "marking_sent" THEN {"sent"} ELSE {})
HeldAgain ==
  \A w \in Workers : \A i \in 1..Slots : slot[w][i] \in Holding =>
    /\ item[w][i] \in RecipientsOf(batch[w]) /\ item[w][i] \notin todo[w]
    /\ recipient_state[item[w][i]] \in RowStagesAt(slot[w][i])

Working(w, r) == \E i \in 1..Slots : slot[w][i] \in Holding /\ item[w][i] = r
InFlightAgain ==
  \A r \in Recipients : recipient_state[r] = "sending" =>
    /\ batch_state[BatchOf[r]] \in {"running", "failed"}
    /\ \A w \in Workers : Owns(w, BatchOf[r]) =>
         pc[w] \in {"recover", "fail_batch"} \/ Working(w, r)

\* A dispatch is closed as completed over delivered rows, whatever becomes of the
\* batches that were counted.
AllServed(c) == \A b \in BatchesOf(c) : AllDelivered(b)
FoundAgain ==
  /\ \A w \in Workers :
       /\ pc[w] = "fail_recipients" => batch_state[batch[w]] = "failed"
       /\ pc[w] = "finish_complete" => AllDelivered(batch[w])
       /\ pc[w] \in ClosingCompleted => AllServed(CampaignOf[batch[w]])
  /\ \A c \in Campaigns : queue_state[c] = "completed" => AllServed(c)

Repeatable ==
  /\ BatchStages /\ BatchHeld /\ LoopsInside /\ Paid /\ RowStages
  /\ Fenced /\ LoadedAgain /\ HeldAgain /\ InFlightAgain /\ FoundAgain

-----------------------------------------------------------------------------
(* Steps in which the processes stay as they are, except one that moves      *)
(* without its loop.                                                         *)

Unmoved(v) ==
  /\ pc'[v] = pc[v] /\ batch'[v] = batch[v] /\ todo'[v] = todo[v]
  /\ slot'[v] = slot[v] /\ item'[v] = item[v]

Stepped(v) ==
  /\ pc'[v] # "sending" /\ SlotsDone(v)'
  /\ (\A i \in 1..Slots : slot[v][i] # "marking_sent") \/ faults < faults'
  /\ pc'[v] \notin Detached => batch'[v] \in Batches
  /\ pc'[v] \in Loading => todo'[v] \subseteq RecipientsIn(batch[v], {"batched"})'
  /\ pc'[v] \in Owning =>
       /\ Owns(v, batch'[v]) \/ batch_state[batch'[v]] = "queued"
       /\ OwnedStage(pc'[v], batch_state'[batch'[v]]) /\ ~batch_idle'[batch'[v]]
       /\ pc'[v] \notin {"recover", "fail_batch"} => Landed(batch[v])'
  /\ pc'[v] = "fail_recipients" => batch_state'[batch'[v]] = "failed"
  /\ pc'[v] = "finish_complete" => AllDelivered(batch[v])'
  /\ pc'[v] \in ClosingCompleted => AllServed(CampaignOf[batch[v]])'

\* A batch stays failed, and once completed it can only be failed.
BatchWritten(b) ==
  /\ batch_state[b] # "failed"
  /\ batch_state'[b] \in {"queued", "running"} \union Final
  /\ batch_state[b] = "completed" => batch_state'[b] = "failed"
  /\ batch_state'[b] \in {"running", "failed"} \/ Landed(b)'
  /\ batch_state'[b] = "completed" => AllDelivered(b)'

\* It is written by its owner, or has none.
BatchRewritten(b) ==
  /\ batch_idle'[b] => batch_idle[b] \/ \A v \in Workers : ~Owns(v, b)
  /\ \/ batch_state'[b] = batch_state[b]
     \/ BatchWritten(b) /\ \A v \in Workers : Owns(v, b) => Stepped(v)

RowRewritten(r) ==
  \/ recipient_state'[r] = recipient_state[r]
  \/ recipient_state[r] = "sending" /\ recipient_state'[r] = "batched"
  \/ /\ recipient_state[r] = "batched" /\ recipient_state'[r] = "dry_run_sent"
     /\ \E v \in Workers : Stepped(v) /\ Owns(v, BatchOf[r])
  \/ /\ recipient_state[r] \in {"batched", "sending"} /\ recipient_state'[r] = "failed"
     /\ batch_state[BatchOf[r]] = "failed"

QueueRewritten(c) ==
  queue_state'[c] = "completed" => queue_state[c] = "completed" \/ AllServed(c)

LEMMA OwnedBatch ==
  ASSUME Repeatable, NEW w \in Workers, pc[w] \in Owning
  PROVE  /\ batch[w] \in Batches /\ Owns(w, batch[w])
         /\ OwnedStage(pc[w], batch_state[batch[w]]) /\ ~batch_idle[batch[w]]
         /\ \A v \in Workers : Owns(v, batch[w]) => v = w
<1>1. pc[w] \notin Detached
  BY OwningLabels DEF Detached
<1> QED
  BY <1>1 DEF Repeatable, BatchHeld, Fenced, OneOwnerPerBatch, Owns

LEMMA StepRepeatable ==
  ASSUME TypeOK, Repeatable, faults \in Nat, faults' \in Nat, faults <= faults',
         NEW w, \A v \in Workers : Unmoved(v) \/ (v = w /\ Stepped(v)),
         \A b \in Batches : BatchRewritten(b),
         \A r \in Recipients : RowRewritten(r) /\ MailMove(r),
         \A c \in Campaigns : QueueRewritten(c)
  PROVE  Repeatable'
<1>0. /\ \A r \in Recipients : BatchOf[r] \in Batches
      /\ mails \in [Recipients -> Nat]
  BY TablesAssumption DEF TypeOK
<1>1. LoopsInside' /\ BatchHeld'
  BY DEF Repeatable, LoopsInside, BatchHeld, Unmoved, Stepped, SlotsDone
<1>2. BatchStages'
  BY DEF Repeatable, BatchStages, BatchRewritten, BatchWritten
\* An owner that does not move keeps its batch and its rows.
<1>3. ASSUME NEW v \in Workers, Unmoved(v), ~Stepped(v), pc[v] \in Owning
      PROVE  /\ batch_state'[batch[v]] = batch_state[batch[v]] /\ ~batch_idle'[batch[v]]
             /\ pc[v] # "fail_batch" => \A r \in RecipientsOf(batch[v]) :
                  \/ recipient_state'[r] = recipient_state[r]
                  \/ recipient_state[r] = "sending" /\ recipient_state'[r] = "batched"
  <2>1. /\ batch[v] \in Batches /\ Owns(v, batch[v])
        /\ OwnedStage(pc[v], batch_state[batch[v]]) /\ ~batch_idle[batch[v]]
        /\ \A u \in Workers : Owns(u, batch[v]) => u = v
    BY <1>3, OwnedBatch
  <2>2. BatchRewritten(batch[v])
    BY <2>1
  <2>3. pc[v] # "fail_batch" => batch_state[batch[v]] # "failed"
    BY <2>1 DEF OwnedStage
  <2> QED
    BY <1>3, <2>1, <2>2, <2>3 DEF BatchRewritten, BatchWritten, RowRewritten, RecipientsOf
<1>4. \A b \in Batches : AllDelivered(b) => AllDelivered(b)'
  BY DEF AllDelivered, RowRewritten, Delivered, RecipientsOf
<1>5. Fenced'
  <2>1. ASSUME NEW v \in Workers, NEW b \in Batches, Owns(v, b)'
        PROVE  OwnedStage(pc[v], batch_state[b])' /\ ~batch_idle'[b]
    <3>1. CASE Stepped(v)
      BY <2>1, <3>1 DEF Owns, Stepped
    <3>2. CASE Unmoved(v) /\ ~Stepped(v)
      <4>1. pc[v] \in Owning /\ batch[v] = b /\ pc'[v] = pc[v]
        BY <2>1, <3>2 DEF Owns, Unmoved
      <4>2. OwnedStage(pc[v], batch_state[b])
        BY <4>1, OwnedBatch
      <4> QED
        BY <1>3, <3>2, <4>1, <4>2
    <3> QED
      BY <3>1, <3>2
  <2>2. ASSUME NEW v \in Workers, NEW b \in Batches, Owns(v, b)', ~Owns(v, b)
        PROVE  v = w /\ \A u \in Workers : ~Owns(u, b)
    <3>1. v = w /\ batch_state[b] = "queued"
      BY <2>2 DEF Owns, Unmoved, Stepped
    <3>2. \A u \in Workers : Owns(u, b) => OwnedStage(pc[u], batch_state[b])
      BY DEF Repeatable, Fenced
    <3> QED
      BY <3>1, <3>2 DEF OwnedStage
  <2>3. OneOwnerPerBatch'
    <3> SUFFICES ASSUME NEW b \in Batches, NEW u \in Workers, NEW v \in Workers,
                        Owns(u, b)', Owns(v, b)'
                 PROVE  u = v
      BY DEF OneOwnerPerBatch
    <3>1. CASE Owns(u, b) /\ Owns(v, b)
      BY <3>1 DEF Repeatable, Fenced, OneOwnerPerBatch
    <3>2. CASE ~Owns(u, b)
      <4>1. u = w /\ ~Owns(v, b)
        BY <2>2, <3>2
      <4> QED
        BY <2>2, <4>1
    <3>3. CASE ~Owns(v, b)
      <4>1. v = w /\ ~Owns(u, b)
        BY <2>2, <3>3
      <4> QED
        BY <2>2, <4>1
    <3> QED
      BY <3>1, <3>2, <3>3
  <2> QED
    BY <2>1, <2>3 DEF Fenced
<1>6. LoadedAgain'
  <2> SUFFICES ASSUME NEW v \in Workers, pc'[v] \in Loading \union {"sending"}, ~Stepped(v)
               PROVE  todo'[v] \subseteq RecipientsIn(batch[v], {"batched"})'
    BY DEF LoadedAgain, Stepped
  <2>1. Unmoved(v) /\ pc[v] \in Owning /\ pc[v] # "fail_batch"
    BY OwningLabels DEF Loading, Unmoved
  <2>2. todo[v] \subseteq RecipientsIn(batch[v], {"batched"})
    BY <2>1 DEF Repeatable, LoadedAgain, Unmoved
  <2> QED
    BY <1>3, <2>1, <2>2 DEF Unmoved, RecipientsIn, RecipientsOf
<1>7. HeldAgain'
  <2> SUFFICES ASSUME NEW v \in Workers, NEW i \in 1..Slots, slot'[v][i] \in Holding
               PROVE  /\ item'[v][i] \in RecipientsOf(batch[v])' /\ item'[v][i] \notin todo'[v]
                      /\ recipient_state'[item'[v][i]] \in RowStagesAt(slot'[v][i])
    BY DEF HeldAgain
  <2>1. Unmoved(v) /\ ~Stepped(v)
    BY DEF Stepped, SlotsDone, Holding
  <2>2. pc[v] = "sending"
    BY <2>1 DEF Repeatable, LoopsInside, SlotsDone, Unmoved, Holding
  <2>3. /\ item[v][i] \in RecipientsOf(batch[v]) /\ item[v][i] \notin todo[v]
        /\ recipient_state[item[v][i]] \in RowStagesAt(slot[v][i])
    BY <2>1 DEF Repeatable, HeldAgain, Unmoved
  <2>4. \/ recipient_state'[item[v][i]] = recipient_state[item[v][i]]
        \/ recipient_state'[item[v][i]] = "batched"
    BY <1>3, <2>1, <2>2, <2>3, OwningLabels
  <2> QED
    BY <2>1, <2>3, <2>4 DEF Unmoved, RowStagesAt, RecipientsOf
<1>8. Paid'
  <2> SUFFICES ASSUME NEW r \in Recipients
               PROVE  mails'[r] <= faults' \/ (Settling(r)' /\ mails'[r] <= 1 + faults')
    BY DEF Paid
  <2>1. MailMove(r) /\ mails[r] \in Nat
    BY <1>0
  <2>2. mails[r] <= faults \/ (Settling(r) /\ mails[r] <= 1 + faults)
    BY DEF Repeatable, Paid
  <2>3. CASE recipient_state[r] = "sent"
    BY <2>1, <2>2, <2>3 DEF RowRewritten, Settling, MailMove
  <2>4. ASSUME NEW v \in Workers, NEW i \in 1..Slots,
               slot[v][i] = "marking_sent", item[v][i] = r
        PROVE  Settling(r)' \/ faults < faults'
    BY <2>4 DEF Settling, Unmoved, Stepped
  <2>5. CASE ~Settling(r)
    BY <2>1, <2>2, <2>5 DEF MailMove
  <2>6. CASE Settling(r)' \/ faults < faults'
    BY <2>1, <2>2, <2>5, <2>6 DEF MailMove
  <2> QED
    BY <2>3, <2>4, <2>5, <2>6 DEF Settling
<1>9. InFlightAgain'
  <2> SUFFICES ASSUME NEW r \in Recipients, recipient_state'[r] = "sending"
               PROVE  /\ batch_state'[BatchOf[r]] \in {"running", "failed"}
                      /\ \A v \in Workers : Owns(v, BatchOf[r])' =>
                           pc'[v] \in {"recover", "fail_batch"} \/ Working(v, r)'
    BY DEF InFlightAgain
  <2>1. recipient_state[r] = "sending"
    BY DEF RowRewritten
  <2>2. /\ batch_state[BatchOf[r]] \in {"running", "failed"}
        /\ \A v \in Workers : Owns(v, BatchOf[r]) =>
             pc[v] \in {"recover", "fail_batch"} \/ Working(v, r)
    BY <2>1 DEF Repeatable, InFlightAgain
  <2>3. ~Landed(BatchOf[r])'
    BY <1>0 DEF Landed, RecipientsOf
  <2>4. batch_state'[BatchOf[r]] \in {"running", "failed"}
    BY <1>0, <2>2, <2>3 DEF BatchRewritten, BatchWritten
  <2>5. ASSUME NEW v \in Workers, Owns(v, BatchOf[r])'
        PROVE  pc'[v] \in {"recover", "fail_batch"} \/ Working(v, r)'
    <3>1. CASE Unmoved(v)
      BY <2>2, <2>5, <3>1 DEF Unmoved, Owns, Working
    <3>2. CASE Stepped(v)
      BY <2>3, <2>5, <3>2 DEF Stepped, Owns
    <3> QED
      BY <3>1, <3>2
  <2> QED
    BY <2>4, <2>5
<1>10. RowStages'
  <2> SUFFICES ASSUME NEW r \in Recipients
               PROVE  /\ recipient_state'[r] \in {"batched", "sending", "failed"} \union Delivered
                      /\ recipient_state'[r] = "failed" => batch_state'[BatchOf[r]] = "failed"
                      /\ batch_state'[BatchOf[r]] = "completed" =>
                           recipient_state'[r] \in Delivered
    BY DEF RowStages
  <2>1. RowRewritten(r) /\ BatchRewritten(BatchOf[r]) /\ r \in RecipientsOf(BatchOf[r])
    BY <1>0 DEF RecipientsOf
  <2>2. /\ recipient_state[r] \in {"batched", "sending", "failed"} \union Delivered
        /\ recipient_state[r] = "failed" => batch_state[BatchOf[r]] = "failed"
        /\ batch_state[BatchOf[r]] = "completed" => recipient_state[r] \in Delivered
    BY DEF Repeatable, RowStages
  <2>3. batch_state'[BatchOf[r]] = "completed" => recipient_state'[r] \in Delivered
    BY <2>1, <2>2 DEF RowRewritten, BatchRewritten, BatchWritten, AllDelivered, Delivered
  <2> QED
    BY <2>1, <2>2, <2>3 DEF RowRewritten, BatchRewritten, BatchWritten, Delivered
<1>11. FoundAgain'
  <2>0. \A c : AllServed(c) => AllServed(c)'
    BY <1>4 DEF AllServed, BatchesOf
  <2>1. ASSUME NEW v \in Workers, Unmoved(v)
        PROVE  /\ pc'[v] = "fail_recipients" => batch_state'[batch'[v]] = "failed"
               /\ pc'[v] = "finish_complete" => AllDelivered(batch[v])'
               /\ pc'[v] \in ClosingCompleted => AllServed(CampaignOf[batch[v]])'
    <3>1. pc[v] = "fail_recipients" => batch_state'[batch[v]] = "failed"
      BY DEF Repeatable, BatchHeld, Detached, Unclaimed, FoundAgain, BatchRewritten, BatchWritten
    <3>2. pc[v] = "finish_complete" => AllDelivered(batch[v])'
      BY <1>4, <2>1, OwnedBatch, OwningLabels DEF Repeatable, FoundAgain, AllDelivered, Unmoved
    <3>3. pc[v] \in ClosingCompleted => AllServed(CampaignOf[batch[v]])'
      BY <2>0, <2>1 DEF Repeatable, FoundAgain, Unmoved
    <3> QED
      BY <2>1, <3>1, <3>2, <3>3 DEF Unmoved
  <2>2. \A c \in Campaigns : queue_state'[c] = "completed" => AllServed(c)'
    BY <2>0 DEF Repeatable, FoundAgain, QueueRewritten
  <2> QED
    BY <2>1, <2>2 DEF FoundAgain, Stepped
<1> QED
  BY <1>1, <1>2, <1>5, <1>6, <1>7, <1>8, <1>9, <1>10, <1>11 DEF Repeatable

\* A step of main() of w to label, or a first execution that leaves it there.
LEMMA MainAgain ==
  ASSUME TypeOK, Repeatable, faults \in Nat, NEW w \in Workers, SlotsDone(w),
         NEW label, label # "sending", Goto(w, label),
         faults' = faults \/ faults' = faults + 1,
         UNCHANGED <<slot, item, mails>>,
         \A v \in Workers \ {w} : batch'[v] = batch[v] /\ todo'[v] = todo[v],
         label \notin Detached => batch'[w] \in Batches,
         label \in Loading => todo'[w] \subseteq RecipientsIn(batch[w], {"batched"})',
         label \in Owning =>
           /\ Owns(w, batch'[w]) \/ batch_state[batch'[w]] = "queued"
           /\ OwnedStage(label, batch_state'[batch'[w]]) /\ ~batch_idle'[batch'[w]]
           /\ label \notin {"recover", "fail_batch"} => Landed(batch[w])',
         label = "fail_recipients" => batch_state'[batch'[w]] = "failed",
         label = "finish_complete" => AllDelivered(batch[w])',
         label \in ClosingCompleted => AllServed(CampaignOf[batch[w]])',
         \A b \in Batches :
           /\ batch_idle'[b] => batch_idle[b]
           /\ \/ batch_state'[b] = batch_state[b]
              \/ BatchWritten(b) /\ \A v \in Workers : Owns(v, b) => v = w,
         \A r \in Recipients :
           \/ RowRewritten(r)
           \/ /\ recipient_state[r] = "batched" /\ recipient_state'[r] = "dry_run_sent"
              /\ Owns(w, BatchOf[r]),
         \A c \in Campaigns : QueueRewritten(c)
  PROVE  Repeatable'
<1>1. pc'[w] = label /\ \A v \in Workers \ {w} : pc'[v] = pc[v]
  BY DEF Goto, TypeOK
<1>2. \A v \in Workers \ {w} : Unmoved(v)
  BY <1>1 DEF Unmoved
<1>3. SlotsDone(w)' /\ \A i \in 1..Slots : slot[w][i] # "marking_sent"
  BY DEF SlotsDone
<1>4. Stepped(w)
  BY <1>1, <1>3 DEF Stepped
<1>5. \A b \in Batches : BatchRewritten(b)
  BY <1>4 DEF BatchRewritten
<1>6. \A r \in Recipients : RowRewritten(r) /\ MailMove(r)
  BY <1>4 DEF RowRewritten, MailMove
<1>7. faults' \in Nat /\ faults <= faults'
  OBVIOUS
<1> QED
  BY <1>2, <1>4, <1>5, <1>6, <1>7, StepRepeatable

\* The same when w writes neither rows nor batches.
LEMMA QuietAgain ==
  ASSUME TypeOK, Repeatable, faults \in Nat, NEW w \in Workers, SlotsDone(w),
         NEW label, label \notin {"sending", "fail_recipients"}, Goto(w, label),
         faults' = faults \/ faults' = faults + 1,
         UNCHANGED <<slot, item, mails, batch, recipient_state, batch_state, batch_idle>>,
         \A v \in Workers \ {w} : todo'[v] = todo[v],
         label \notin Detached => pc[w] \notin Detached,
         label \in Loading => todo'[w] \subseteq RecipientsIn(batch[w], {"batched"}),
         label \in Owning =>
           /\ pc[w] \in Owning /\ OwnedStage(label, batch_state[batch[w]])
           /\ label \notin {"recover", "fail_batch"} => Landed(batch[w]),
         label = "finish_complete" => AllDelivered(batch[w]),
         label \in ClosingCompleted => AllServed(CampaignOf[batch[w]]),
         \A c \in Campaigns :
           queue_state'[c] = "completed" => queue_state[c] = "completed" \/ AllServed(c)
  PROVE  Repeatable'
<1>1. /\ \A b : (Landed(b) => Landed(b)') /\ (AllDelivered(b) => AllDelivered(b)')
      /\ \A c : AllServed(c) => AllServed(c)'
      /\ RecipientsIn(batch[w], {"batched"})' = RecipientsIn(batch[w], {"batched"})
  BY DEF Landed, AllDelivered, AllServed, RecipientsIn, RecipientsOf, BatchesOf
<1>2. pc[w] \in Owning => Owns(w, batch[w]) /\ ~batch_idle[batch[w]]
  BY OwnedBatch
<1>3. label \notin Detached => batch[w] \in Batches
  BY DEF Repeatable, BatchHeld
<1>4. /\ \A r \in Recipients : RowRewritten(r)
      /\ \A c \in Campaigns : QueueRewritten(c)
  BY <1>1 DEF RowRewritten, QueueRewritten
<1> QED
  BY <1>1, <1>2, <1>3, <1>4, MainAgain

\* What holds of the batch of an owner whose loops have ended.
LEMMA LandedAgain ==
  ASSUME Repeatable, NEW w \in Workers, SlotsDone(w),
         pc[w] \in Owning \ {"recover", "fail_batch"}
  PROVE  Landed(batch[w])
<1>1. ~\E r : Working(w, r)
  BY DEF Working, SlotsDone, Holding
<1>2. batch[w] \in Batches /\ Owns(w, batch[w])
  BY OwnedBatch
<1> QED
  BY <1>1, <1>2 DEF Landed, Repeatable, InFlightAgain, RecipientsOf

\* A batch without rows to send, or in flight, is delivered unless it has failed.
LEMMA NothingLeft ==
  ASSUME Repeatable, NEW b \in Batches, batch_state[b] # "failed",
         RecipientsIn(b, {"batched"}) = {}, Landed(b)
  PROVE  AllDelivered(b)
BY DEF Repeatable, RowStages, AllDelivered, Landed, RecipientsIn, RecipientsOf

LEMMA QuietMainAgain ==
  ASSUME TypeOK, Repeatable, faults \in Nat, Targeted = {}, NEW w \in Workers,
         \/ Spawn(w) \/ SelectDispatch(w) \/ LoadBatchByCampaign(w) \/ LoadRecipients(w)
         \/ MarkRegistryRunning(w) \/ MarkQueueRunning(w) \/ InsertDryRunAttempt(w)
         \/ CountRemaining(w) \/ ReportAttempt(w)
         \/ CountOpenBatches(w) \/ CloseQueue(w) \/ CloseRegistry(w)
  PROVE  Repeatable'
<1> USE DEF tables, local
<1>1. pc[w] # "sending" => SlotsDone(w)
  BY DEF Repeatable, LoopsInside
<1>2. pc[w] \in Owning \ {"recover", "fail_batch"} /\ SlotsDone(w) => Landed(batch[w])
  BY LandedAgain
<1>3. pc[w] \in Owning => batch[w] \in Batches /\ OwnedStage(pc[w], batch_state[batch[w]])
  BY OwnedBatch
<1>4. CASE Spawn(w) \/ SelectDispatch(w)
  <2>1. PICK label \in {"starting", "locking"} : Goto(w, label)
    BY <1>4 DEF Spawn, SelectDispatch
  <2>2. /\ label \in Detached \ Owning /\ label \notin Loading /\ label \notin ClosingCompleted
        /\ SlotsDone(w)
    BY <1>1, <1>4, OwningLabels
    DEF Detached, Unclaimed, Loading, ClosingCompleted, Spawn, SelectDispatch
  <2> QED
    BY <1>4, <2>1, <2>2, QuietAgain DEF Spawn, SelectDispatch
<1>5. CASE LoadRecipients(w)
  <2> DEFINE rows == Lowest(Sendable(batch[w]), MaxRecipientsPerRun)
             label == IF rows = {} THEN "empty" ELSE "mark_registry"
  <2>1. /\ pc[w] = "loading" /\ Goto(w, label) /\ todo' = [todo EXCEPT ![w] = rows]
        /\ UNCHANGED <<slot, item, mails, tables, batch, faults>>
    BY <1>5 DEF LoadRecipients
  <2>2. rows \subseteq RecipientsIn(batch[w], {"batched"})
    BY LowestSubset DEF Sendable
  <2>3. label \in {"empty", "mark_registry"}
    OBVIOUS
  <2>4. todo'[w] = rows /\ \A v \in Workers \ {w} : todo'[v] = todo[v]
    BY <2>1 DEF TypeOK
  <2>5. Landed(batch[w]) /\ OwnedStage(label, batch_state[batch[w]])
    BY <1>1, <1>2, <1>3, <2>1, OwningLabels DEF OwnedStage
  <2> HIDE DEF rows, label
  <2> QED
    BY <1>1, <2>1, <2>2, <2>3, <2>4, <2>5, QuietAgain, OwningLabels
    DEF Detached, Unclaimed, ClosingCompleted
<1>6. CASE MarkRegistryRunning(w)
  <2>1. /\ Landed(batch[w]) /\ todo[w] \subseteq RecipientsIn(batch[w], {"batched"})
        /\ OwnedStage("mark_queue", batch_state[batch[w]])
    BY <1>1, <1>2, <1>3, <1>6, OwningLabels
    DEF MarkRegistryRunning, Repeatable, LoadedAgain, Loading, OwnedStage
  <2> QED
    BY <1>1, <1>6, <2>1, QuietAgain, OwningLabels
    DEF MarkRegistryRunning, Detached, Unclaimed, ClosingCompleted
<1>7. CASE MarkQueueRunning(w)
  <2>1. PICK label \in {"dry_run", "start"} : Goto(w, label)
    BY <1>7 DEF MarkQueueRunning
  <2>2. /\ Landed(batch[w]) /\ todo[w] \subseteq RecipientsIn(batch[w], {"batched"})
        /\ OwnedStage(label, batch_state[batch[w]])
    BY <1>1, <1>2, <1>3, <1>7, OwningLabels
    DEF MarkQueueRunning, Repeatable, LoadedAgain, Loading, OwnedStage
  <2>3. \A c \in Campaigns : queue_state'[c] = "completed" => queue_state[c] = "completed"
    BY <1>7 DEF MarkQueueRunning, SetQueue
  <2> QED
    BY <1>1, <1>7, <2>1, <2>2, <2>3, QuietAgain, OwningLabels
    DEF MarkQueueRunning, Detached, Unclaimed, ClosingCompleted
<1>8. CASE InsertDryRunAttempt(w)
  BY <1>1, <1>8, QuietAgain, OwningLabels
  DEF InsertDryRunAttempt, Closing, Loading, ClosingCompleted, Detached, Unclaimed
<1>9. CASE CountRemaining(w)
  <2>1. /\ SlotsDone(w) /\ Landed(batch[w]) /\ batch[w] \in Batches
        /\ batch_state[batch[w]] = "running"
    BY <1>2, <1>3, <1>9, OwningLabels DEF CountRemaining, OwnedStage
  <2>2. RecipientsIn(batch[w], {"batched"}) = {} => AllDelivered(batch[w])
    BY <2>1, NothingLeft
  <2> QED
    BY <1>9, <2>1, <2>2, QuietAgain, OwningLabels
    DEF CountRemaining, Loading, OwnedStage, ClosingCompleted, Detached, Unclaimed
<1>10. CASE ReportAttempt(w)
  <2>1. /\ pc[w] # "sending" /\ pc[w] \notin Detached
        /\ UNCHANGED <<slot, item, mails, batch, todo, tables, faults>>
    BY <1>10 DEF ReportAttempt, Reports, Detached, Unclaimed
  <2>2. PICK label \in {"exiting", "close"} : Goto(w, label)
    BY <1>10 DEF ReportAttempt
  <2> QED
    BY <1>1, <2>1, <2>2, QuietAgain, OwningLabels DEF Closing, Loading, ClosingCompleted
<1>11. CASE CountOpenBatches(w)
  <2> DEFINE c == CampaignOf[batch[w]]
             label == IF BatchesIn(c, {"queued", "reserved", "running"}) # {} THEN "exiting"
                      ELSE IF BatchesIn(c, {"failed"}) # {} THEN "close_failed_queue"
                      ELSE "close_completed_queue"
  <2>1. /\ pc[w] = "close" /\ Goto(w, label)
        /\ UNCHANGED <<slot, item, mails, batch, todo, tables, faults>>
    BY <1>11 DEF CountOpenBatches
  <2>2. ASSUME label = "close_completed_queue"
        PROVE  AllServed(c)
    <3>1. \A b \in BatchesOf(c) : batch_state[b] = "completed"
      BY <2>2 DEF BatchesIn, BatchesOf, Repeatable, BatchStages, Final
    <3> QED
      BY <3>1 DEF AllServed, AllDelivered, BatchesOf, RecipientsOf, Repeatable, RowStages
  <2>3. label \in {"exiting", "close_failed_queue", "close_completed_queue"}
    OBVIOUS
  <2> HIDE DEF c, label
  <2>4. c = CampaignOf[batch[w]]
    BY DEF c
  <2> QED
    BY <1>1, <2>1, <2>2, <2>3, <2>4, QuietAgain, OwningLabels
    DEF Closing, Loading, ClosingCompleted, Detached, Unclaimed
<1>12. CASE CloseQueue(w)
  <2>1. PICK label \in {"close_failed_registry", "close_completed_registry"} : Goto(w, label)
    BY <1>12 DEF CloseQueue
  <2>2. /\ pc[w] \in {"close_failed_queue", "close_completed_queue"} /\ label \in Closing
        /\ UNCHANGED <<slot, item, mails, batch, todo, recipient_state, batch_state,
                       batch_idle, faults>>
    BY <1>12, <2>1 DEF CloseQueue, Closing
  <2>3. label = "close_completed_registry" => pc[w] = "close_completed_queue"
    BY <1>12, <2>1 DEF CloseQueue, Goto, TypeOK
  <2>4. pc[w] = "close_completed_queue" => AllServed(CampaignOf[batch[w]])
    BY DEF Repeatable, FoundAgain, ClosingCompleted
  <2>5. \A c \in Campaigns : queue_state'[c] = "completed" =>
          queue_state[c] = "completed" \/ AllServed(c)
    BY <1>12, <2>4 DEF CloseQueue, SetQueue
  <2> QED
    BY <1>1, <2>1, <2>2, <2>3, <2>4, <2>5, QuietAgain, OwningLabels
    DEF Loading, ClosingCompleted, Detached, Unclaimed
<1>13. CASE CloseRegistry(w)
  BY <1>1, <1>13, QuietAgain, OwningLabels
  DEF CloseRegistry, Loading, ClosingCompleted, Detached
<1>14. CASE LoadBatchByCampaign(w)
  BY <1>14 DEF LoadBatchByCampaign
<1> QED
  BY <1>4, <1>5, <1>6, <1>7, <1>8, <1>9, <1>10, <1>11, <1>12, <1>13, <1>14

\* A recovery gives back what was in flight in the batches it requeues.
LEMMA GiveBackAgain ==
  ASSUME NEW bs, SetRecipients(Interrupted(bs), "batched")
  PROVE  /\ \A r \in Recipients : RowRewritten(r)
         /\ \A b \in bs : Landed(b)'
<1>1. \A r \in Recipients :
        r \in Interrupted(bs) => recipient_state[r] = "sending"
  BY DEF Interrupted, RecipientsIn
<1>2. \A b \in bs : \A r \in RecipientsOf(b) :
        recipient_state[r] = "sending" => r \in Interrupted(bs)
  BY DEF Interrupted, RecipientsIn, RecipientsOf
<1> QED
  BY <1>1, <1>2 DEF SetRecipients, RowRewritten, Landed, RecipientsOf

LEMMA NothingRewritten ==
  /\ UNCHANGED recipient_state =>
       /\ \A r \in Recipients : RowRewritten(r)
       /\ \A b : (Landed(b) => Landed(b)') /\ (AllDelivered(b) => AllDelivered(b)')
  /\ UNCHANGED queue_state => \A c \in Campaigns : QueueRewritten(c)
BY DEF RowRewritten, Landed, AllDelivered, RecipientsOf, QueueRewritten

\* The owner of a batch requeues, completes or fails it.
LEMMA OwnerRewrites ==
  ASSUME Repeatable, NEW w \in Workers, pc[w] \in Owning, NEW state,
         state \in {"queued", "running"} \union Final, SetBatches({batch[w]}, state),
         batch_state[batch[w]] \in {"running", state},
         state \in {"running", "failed"} \/ Landed(batch[w])',
         state = "completed" => AllDelivered(batch[w])',
         UNCHANGED batch
  PROVE  /\ \A b \in Batches :
              /\ batch_idle'[b] => batch_idle[b]
              /\ \/ batch_state'[b] = batch_state[b]
                 \/ BatchWritten(b) /\ \A v \in Workers : Owns(v, b) => v = w
         /\ batch_state'[batch'[w]] = state /\ ~batch_idle'[batch'[w]]
<1>1. /\ batch[w] \in Batches /\ ~batch_idle[batch[w]]
      /\ \A v \in Workers : Owns(v, batch[w]) => v = w
  BY OwnedBatch
<1>2. \A b \in Batches :
        /\ b # batch[w] => batch_state'[b] = batch_state[b]
        /\ b = batch[w] => batch_state'[b] = state
        /\ batch_idle'[b] => batch_idle[b]
  BY DEF SetBatches
<1>3. /\ \A b \in Batches : b = batch[w] => Landed(b)' = Landed(batch[w])'
      /\ \A b \in Batches : b = batch[w] => AllDelivered(b)' = AllDelivered(batch[w])'
  BY DEF Landed, AllDelivered, RecipientsOf
<1>4. ASSUME NEW b \in Batches, batch_state'[b] # batch_state[b]
      PROVE  BatchWritten(b) /\ \A v \in Workers : Owns(v, b) => v = w
  <2>1. b = batch[w] /\ batch_state'[b] = state /\ batch_state[b] = "running"
    BY <1>2, <1>4
  <2> QED
    BY <1>1, <1>3, <2>1 DEF BatchWritten
<1> QED
  BY <1>1, <1>2, <1>4

\* A recovery of stale batches: they have no owner, so their batches are free.
LEMMA StaleAgain ==
  ASSUME TypeOK, Repeatable, faults \in Nat, NEW w \in Workers, pc[w] = "starting",
         NEW label \in {"starting", "claiming"}, Goto(w, label),
         SetBatches(StaleBatches, "queued"),
         SetRecipients(Interrupted(StaleBatches), "batched"),
         UNCHANGED <<queue_state, batch, todo, slot, item, mails, faults>>
  PROVE  Repeatable'
<1>1. \A b \in StaleBatches : \A v \in Workers : ~Owns(v, b)
  BY DEF StaleBatches, Repeatable, Fenced
<1>2. \A b \in Batches :
        /\ batch_idle'[b] => batch_idle[b]
        /\ \/ batch_state'[b] = batch_state[b]
           \/ BatchWritten(b) /\ \A v \in Workers : Owns(v, b) => v = w
  BY <1>1, GiveBackAgain DEF SetBatches, BatchWritten, StaleBatches
<1>3. SlotsDone(w)
  BY DEF Repeatable, LoopsInside
<1> QED
  BY <1>2, <1>3, GiveBackAgain, NothingRewritten, MainAgain, OwningLabels
  DEF Detached, Unclaimed, Loading, ClosingCompleted

LEMMA DryRunAgain ==
  ASSUME TypeOK, Repeatable, faults \in Nat, NEW w \in Workers, pc[w] = "dry_run",
         NEW listed, listed = todo[w] \cap RecipientsIn(batch[w], {"batched"}),
         NEW state, state = IF RecipientsIn(batch[w], {"batched"}) \ listed # {}
                              THEN "queued" ELSE "completed",
         NEW label \in {"dry_run", "dry_run_attempt"}, Goto(w, label),
         label = "dry_run" => state = "completed",
         SetRecipients(listed, "dry_run_sent"), SetBatches({batch[w]}, state),
         \A v \in Workers \ {w} : todo'[v] = todo[v],
         UNCHANGED <<queue_state, batch, slot, item, mails, faults>>
  PROVE  Repeatable'
<1> DEFINE b == batch[w]
<1>1. SlotsDone(w) /\ pc[w] \in Owning
  BY OwningLabels DEF Repeatable, LoopsInside
<1>2. /\ Landed(b) /\ b \in Batches
      /\ batch_state[b] \in {"running", "completed"}
  BY <1>1, OwnedBatch, LandedAgain DEF OwnedStage
<1>3. \A r \in Recipients :
        recipient_state'[r] = IF r \in listed THEN "dry_run_sent" ELSE recipient_state[r]
  BY DEF SetRecipients
<1>4. \A r \in listed : recipient_state[r] = "batched" /\ Owns(w, BatchOf[r])
  BY <1>1 DEF RecipientsIn, RecipientsOf, Owns
<1>5. Landed(batch[w])'
  BY <1>2, <1>3 DEF Landed, RecipientsOf
<1>6. state = "completed" => AllDelivered(batch[w])'
  <2> SUFFICES ASSUME state = "completed", NEW r \in RecipientsOf(b)
               PROVE  recipient_state'[r] \in Delivered
    BY DEF AllDelivered, RecipientsOf
  <2>1. recipient_state[r] = "batched" => r \in listed
    BY DEF RecipientsIn
  <2>2. recipient_state[r] \in {"batched"} \union Delivered
    BY <1>2 DEF Repeatable, RowStages, Landed, RecipientsOf
  <2> QED
    BY <1>3, <2>1, <2>2 DEF Delivered, RecipientsOf
<1>7. batch_state[b] = "completed" => state = "completed"
  BY <1>2 DEF Repeatable, RowStages, RecipientsIn, RecipientsOf, Delivered
<1>8. state \in {"queued", "completed"}
  OBVIOUS
<1>9. /\ \A x \in Batches :
           /\ batch_idle'[x] => batch_idle[x]
           /\ \/ batch_state'[x] = batch_state[x]
              \/ BatchWritten(x) /\ \A v \in Workers : Owns(v, x) => v = w
      /\ batch_state'[batch'[w]] = state /\ ~batch_idle'[batch'[w]]
  <2>1. /\ state \in {"queued", "running"} \union Final
        /\ batch_state[batch[w]] \in {"running", state}
    BY <1>2, <1>7, <1>8 DEF Final
  <2> HIDE DEF b
  <2> QED
    BY <1>1, <1>5, <1>6, <2>1, OwnerRewrites
<1>10. \A r \in Recipients :
         \/ RowRewritten(r)
         \/ /\ recipient_state[r] = "batched" /\ recipient_state'[r] = "dry_run_sent"
            /\ Owns(w, BatchOf[r])
  BY <1>3, <1>4 DEF RowRewritten
<1>11. label = "dry_run" => Owns(w, batch'[w]) /\ OwnedStage(label, batch_state'[batch'[w]])
  BY <1>9 , OwningLabels DEF Owns, OwnedStage
<1> QED
  BY <1>1, <1>2, <1>5, <1>9, <1>10, <1>11, NothingRewritten, MainAgain, OwningLabels
  DEF Loading, ClosingCompleted

\* The statements by which the owner of a batch writes it, executed for the last
\* time or, with the same label, once too early.
LEMMA OwnerAgain ==
  ASSUME TypeOK, Repeatable, faults \in Nat, NEW w \in Workers, NEW label, NEW state,
         \/ /\ pc[w] = "start" /\ state = "running"
            /\ label \in {"start", "insert_attempt"}
         \/ pc[w] = "finish_requeue" /\ state = "queued" /\ label = "report_partial"
         \/ /\ pc[w] = "finish_complete" /\ state = "completed"
            /\ label \in {"finish_complete", "report_ok"}
         \/ pc[w] = "shutdown_batch" /\ state = "queued" /\ label = "shutdown_recipients"
         \/ pc[w] = "empty" /\ state = "failed" /\ label = "exiting",
         Goto(w, label), SetBatches({batch[w]}, state),
         \A c \in Campaigns : QueueRewritten(c),
         UNCHANGED <<recipient_state, batch, todo, slot, item, mails, faults>>
  PROVE  Repeatable'
<1>1. /\ SlotsDone(w) /\ pc[w] \in Owning \ {"recover", "fail_batch"}
      /\ label \notin {"sending", "fail_recipients"}
  BY OwningLabels DEF Repeatable, LoopsInside
<1>2. /\ batch[w] \in Batches /\ Landed(batch[w])
      /\ batch_state[batch[w]] \in {"running", state}
      /\ Owns(w, batch[w])
  BY <1>1, OwnedBatch, LandedAgain DEF OwnedStage
<1>3. Landed(batch[w])'
  BY <1>2 DEF Landed, RecipientsOf
<1>4. pc[w] = "finish_complete" => AllDelivered(batch[w])'
  BY DEF Repeatable, FoundAgain, AllDelivered, RecipientsOf
<1>5. state \in {"queued", "running"} \union Final
  BY DEF Final
<1>6. /\ \A b \in Batches :
           /\ batch_idle'[b] => batch_idle[b]
           /\ \/ batch_state'[b] = batch_state[b]
              \/ BatchWritten(b) /\ \A v \in Workers : Owns(v, b) => v = w
      /\ batch_state'[batch'[w]] = state /\ ~batch_idle'[batch'[w]]
  <2>1. /\ state \in {"running", "failed"} \/ Landed(batch[w])'
        /\ state = "completed" => AllDelivered(batch[w])'
    BY <1>3, <1>4
  <2> QED
    BY <1>1, <1>2, <1>5, <2>1, OwnerRewrites
<1>7. label \in Owning => label = pc[w] \/ label = "insert_attempt"
  BY OwningLabels DEF Reporting
<1>8. label \in Owning => Owns(w, batch'[w]) /\ OwnedStage(label, batch_state'[batch'[w]])
  BY <1>2, <1>6, <1>7, <1>1 DEF OwnedStage
<1>9. label \in Loading => todo'[w] \subseteq RecipientsIn(batch[w], {"batched"})'
  <2>1. label \in Loading => pc[w] = "start"
    BY DEF Loading
  <2> QED
    BY <2>1 DEF Repeatable, LoadedAgain, Loading, RecipientsIn, RecipientsOf
<1>10. label = "finish_complete" => pc[w] = "finish_complete"
  OBVIOUS
<1>11. label \notin ClosingCompleted
  BY DEF ClosingCompleted
<1> QED
  BY <1>1, <1>2, <1>3, <1>4, <1>6, <1>8, <1>9, <1>10, <1>11, NothingRewritten, MainAgain

LEMMA RecoverAgain ==
  ASSUME TypeOK, Repeatable, faults \in Nat, NEW w \in Workers,
         RecoverBatchAfterControlPlaneError(w)
  PROVE  Repeatable'
<1> DEFINE b == batch[w]
           state == IF RecipientsIn(b, {"batched", "sending"}) # {} THEN "queued"
                                                                    ELSE "completed"
<1>1. /\ pc[w] = "recover" /\ Goto(w, "report_retry")
      /\ SetRecipients(Interrupted({b}), "batched") /\ SetBatches({b}, state)
      /\ UNCHANGED <<queue_state, batch, todo, slot, item, mails, faults>>
  BY DEF RecoverBatchAfterControlPlaneError, local
<1>2. /\ SlotsDone(w) /\ pc[w] \in Owning
  BY <1>1, OwningLabels DEF Repeatable, LoopsInside
<1>3. b \in Batches /\ batch_state[b] \in {"running", "completed"}
  BY <1>1, <1>2, OwnedBatch DEF OwnedStage
<1>4. Landed(b)' /\ \A r \in Recipients : RowRewritten(r)
  BY <1>1, GiveBackAgain
<1>5. state = "completed" => AllDelivered(b)
  BY <1>3 DEF Repeatable, RowStages, AllDelivered, RecipientsIn, RecipientsOf
<1>6. batch_state[b] = "completed" => state = "completed"
  BY <1>3 DEF Repeatable, RowStages, RecipientsIn, RecipientsOf, Delivered
<1>7. state \in {"queued", "completed"}
  OBVIOUS
<1> HIDE DEF state
<1>8. state = "completed" => AllDelivered(b)'
  BY <1>1, <1>4, <1>5 DEF AllDelivered, RowRewritten, RecipientsOf, Delivered
<1>9. \A x \in Batches :
        /\ batch_idle'[x] => batch_idle[x]
        /\ \/ batch_state'[x] = batch_state[x]
           \/ BatchWritten(x) /\ \A v \in Workers : Owns(v, x) => v = w
  <2>1. /\ state \in {"queued", "running"} \union Final
        /\ batch_state[batch[w]] \in {"running", state}
        /\ Landed(batch[w])' /\ (state = "completed" => AllDelivered(batch[w])')
    BY <1>3, <1>4, <1>6, <1>7, <1>8 DEF Final
  <2>2. SetBatches({batch[w]}, state) /\ UNCHANGED batch
    BY <1>1
  <2> HIDE DEF b
  <2> QED
    BY <1>2, <2>1, <2>2, OwnerRewrites
<1>10. /\ "report_retry" \notin Loading /\ "report_retry" \notin ClosingCompleted
  BY DEF Loading, ClosingCompleted
<1> QED
  BY <1>1, <1>2, <1>3, <1>4, <1>9, <1>10, NothingRewritten, MainAgain, OwningLabels

LEMMA FailAgain ==
  ASSUME TypeOK, Repeatable, faults \in Nat, NEW w \in Workers,
         NEW label \in {"fail_batch", "fail_recipients"},
         pc[w] = "fail_batch", Goto(w, label), SetBatches({batch[w]}, "failed"),
         UNCHANGED <<recipient_state, queue_state, batch, todo, slot, item, mails, faults>>
  PROVE  Repeatable'
<1>1. SlotsDone(w) /\ pc[w] \in Owning
  BY OwningLabels DEF Repeatable, LoopsInside
<1>2. /\ batch[w] \in Batches /\ ~batch_idle[batch[w]] /\ Owns(w, batch[w])
      /\ \A v \in Workers : Owns(v, batch[w]) => v = w
  BY <1>1, OwnedBatch
<1>3. /\ \A b \in Batches :
           /\ batch_idle'[b] => batch_idle[b]
           /\ \/ batch_state'[b] = batch_state[b]
              \/ BatchWritten(b) /\ \A v \in Workers : Owns(v, b) => v = w
      /\ batch_state'[batch'[w]] = "failed" /\ ~batch_idle'[batch'[w]]
  BY <1>2 DEF SetBatches, BatchWritten, Final
<1>4. OwnedStage("fail_batch", "failed")
  BY DEF OwnedStage
<1>5. label \notin Loading /\ label \notin ClosingCompleted
  BY DEF Loading, ClosingCompleted
<1> QED
  BY <1>1, <1>2, <1>3, <1>4, <1>5, NothingRewritten, MainAgain, OwningLabels

\* The rows of a failed batch are failed, and those of any batch given back.
LEMMA HandlerAgain ==
  ASSUME TypeOK, Repeatable, faults \in Nat, NEW w \in Workers, NEW label,
         \/ /\ pc[w] = "shutdown_recipients" /\ label = "report_shutdown"
            /\ SetRecipients(Interrupted({batch[w]}), "batched")
         \/ /\ pc[w] = "fail_recipients" /\ label \in {"fail_recipients", "report_error"}
            /\ SetRecipients(RecipientsIn(batch[w], {"batched", "sending"}), "failed"),
         Goto(w, label),
         UNCHANGED <<batch_state, batch_idle, queue_state, batch, todo, slot, item, mails,
                     faults>>
  PROVE  Repeatable'
<1>1. SlotsDone(w) /\ pc[w] \notin Detached
  BY DEF Repeatable, LoopsInside, Detached, Unclaimed
<1>2. batch[w] \in Batches
  BY <1>1 DEF Repeatable, BatchHeld
<1>3. pc[w] = "fail_recipients" => batch_state[batch[w]] = "failed"
  BY DEF Repeatable, FoundAgain
<1>4. \A r \in Recipients : RowRewritten(r)
  <2>1. CASE SetRecipients(Interrupted({batch[w]}), "batched")
    BY <2>1, GiveBackAgain
  <2>2. CASE /\ pc[w] = "fail_recipients"
             /\ SetRecipients(RecipientsIn(batch[w], {"batched", "sending"}), "failed")
    BY <1>3, <2>2 DEF SetRecipients, RecipientsIn, RecipientsOf, RowRewritten
  <2> QED
    BY <2>1, <2>2
<1>5. /\ label \notin Loading /\ label \notin ClosingCompleted /\ label \notin Owning
      /\ label = "fail_recipients" => pc[w] = "fail_recipients"
      /\ label \notin {"sending", "finish_complete"}
  BY OwningLabels DEF Loading, ClosingCompleted
<1> QED
  BY <1>1, <1>2, <1>3, <1>4, <1>5, NothingRewritten, MainAgain

\* A claim takes a queued batch, in which nothing is in flight and which has no owner.
LEMMA ClaimAgain ==
  ASSUME TypeOK, Repeatable, faults \in Nat, NEW w \in Workers, pc[w] = "locking",
         NEW c, NEW b \in Lowest(BatchesIn(c, {"queued"}), 1),
         SetBatches({b}, "running"), SetQueue({c}, "running"),
         NEW label \in {"loading", "claiming"}, Goto(w, label),
         label = "loading" => batch'[w] = b,
         \A v \in Workers \ {w} : batch'[v] = batch[v],
         UNCHANGED <<recipient_state, todo, slot, item, mails, faults>>
  PROVE  Repeatable'
<1>1. b \in Batches /\ batch_state[b] = "queued" /\ SlotsDone(w)
  BY FirstBatch DEF Repeatable, LoopsInside
<1>2. \A v \in Workers : ~Owns(v, b)
  BY <1>1 DEF Repeatable, Fenced, OwnedStage
<1>3. label = "loading" => Landed(batch[w])'
  BY <1>1 DEF Landed, Repeatable, InFlightAgain, RecipientsOf
<1>4. /\ \A x \in Batches :
           /\ batch_idle'[x] => batch_idle[x]
           /\ \/ batch_state'[x] = batch_state[x]
              \/ BatchWritten(x) /\ \A v \in Workers : Owns(v, x) => v = w
      /\ batch_state'[b] = "running" /\ ~batch_idle'[b]
  BY <1>1, <1>2 DEF SetBatches, BatchWritten
<1>5. \A d \in Campaigns : QueueRewritten(d)
  BY DEF SetQueue, QueueRewritten
<1>6. OwnedStage(label, "running")
  BY DEF OwnedStage
<1>7. /\ label \notin Loading /\ label \notin ClosingCompleted
      /\ label = "claiming" => label \in Detached /\ label \notin Owning
  BY OwningLabels DEF Loading, ClosingCompleted, Detached, Unclaimed
<1> QED
  BY <1>1, <1>3, <1>4, <1>5, <1>6, <1>7, NothingRewritten, MainAgain

\* The reconciliation closes a dispatch as completed over delivered rows.
LEMMA ReconcileAgain ==
  ASSUME TypeOK, Repeatable, faults \in Nat, NEW w \in Workers, pc[w] = "locking",
         NEW c, ReconcileDispatchWithoutQueuedBatch(w, c),
         UNCHANGED <<todo, slot, item, mails, faults>>
  PROVE  Repeatable'
<1>1. /\ SlotsDone(w) /\ Goto(w, "exiting")
      /\ UNCHANGED <<recipient_state, batch_state, batch_idle, batch>>
  BY DEF ReconcileDispatchWithoutQueuedBatch, Repeatable, LoopsInside
<1>2. ASSUME NEW d \in Campaigns, queue_state'[d] = "completed", queue_state[d] # "completed"
      PROVE  AllServed(d)
  <2>1. /\ d = c /\ BatchesIn(c, {"queued"}) = {}
        /\ BatchesIn(c, {"reserved", "running"}) = {} /\ BatchesIn(c, {"failed"}) = {}
    BY <1>2 DEF ReconcileDispatchWithoutQueuedBatch, SetQueue
  <2>2. \A b \in BatchesOf(c) : batch_state[b] = "completed"
    BY <2>1 DEF BatchesIn, BatchesOf, Repeatable, BatchStages, Final
  <2> QED
    BY <2>1, <2>2
    DEF AllServed, AllDelivered, BatchesOf, RecipientsOf, Repeatable, RowStages
<1> QED
  BY <1>1, <1>2, QuietAgain, OwningLabels DEF Loading, ClosingCompleted, Detached

\* A step of the loops of w, which goes on sending.
LEMMA LoopAgain ==
  ASSUME TypeOK, Repeatable, NEW w \in Workers,
         pc[w] \in {"insert_attempt", "sending"}, pc'[w] = "sending",
         \A v \in Workers \ {w} : Unmoved(v),
         UNCHANGED <<batch, batch_state, queue_state, faults>>,
         \A b \in Batches : batch_idle'[b] => batch_idle[b],
         \A r \in Recipients :
           \/ recipient_state'[r] = recipient_state[r]
           \/ /\ BatchOf[r] = batch[w] /\ recipient_state[r] \in {"batched", "sending"}
              /\ recipient_state'[r] \in {"sending", "sent"},
         todo'[w] \subseteq RecipientsIn(batch[w], {"batched"})',
         \A i \in 1..Slots : slot'[w][i] \in Holding =>
           /\ item'[w][i] \in RecipientsOf(batch[w]) /\ item'[w][i] \notin todo'[w]
           /\ recipient_state'[item'[w][i]] \in RowStagesAt(slot'[w][i]),
         \A r \in RecipientsOf(batch[w]) : recipient_state'[r] = "sending" => Working(w, r)',
         Paid'
  PROVE  Repeatable'
<1>0. /\ \A r \in Recipients : BatchOf[r] \in Batches
      /\ pc[w] \in Owning /\ pc'[w] \in Owning
      /\ pc[w] # "fail_batch"
  BY TablesAssumption, OwningLabels
<1>1. /\ batch[w] \in Batches /\ Owns(w, batch[w]) /\ batch_state[batch[w]] = "running"
      /\ ~batch_idle[batch[w]]
      /\ \A v \in Workers : Owns(v, batch[w]) => v = w
  BY <1>0, OwnedBatch DEF OwnedStage
<1>2. \A v \in Workers \ {w}, r \in Recipients :
        Owns(v, BatchOf[r]) => recipient_state'[r] = recipient_state[r]
  BY <1>1
<1>3. /\ LoopsInside' /\ BatchHeld' /\ BatchStages'
  BY <1>1, <1>0 DEF Repeatable, LoopsInside, BatchHeld, BatchStages, Unmoved, SlotsDone
<1>4. Fenced'
  <2>1. \A v \in Workers, b \in Batches : Owns(v, b)' => Owns(v, b) /\ (v = w \/ pc'[v] = pc[v])
    BY <1>0 DEF Owns, Unmoved
  <2>2. OneOwnerPerBatch'
    BY <2>1 DEF Repeatable, Fenced, OneOwnerPerBatch
  <2>3. ASSUME NEW v \in Workers, NEW b \in Batches, Owns(v, b)'
        PROVE  OwnedStage(pc'[v], batch_state'[b]) /\ ~batch_idle'[b]
    <3>1. CASE v = w
      BY <1>1, <2>3, <3>1 DEF Owns, OwnedStage
    <3>2. CASE v # w
      BY <2>1, <2>3, <3>2 DEF Repeatable, Fenced
    <3> QED
      BY <3>1, <3>2
  <2> QED
    BY <2>2, <2>3 DEF Fenced
<1>5. LoadedAgain'
  <2>1. ASSUME NEW v \in Workers \ {w}, pc'[v] \in Loading \union {"sending"}
        PROVE  todo'[v] \subseteq RecipientsIn(batch[v], {"batched"})'
    <3>1. pc[v] \in Owning /\ todo[v] \subseteq RecipientsIn(batch[v], {"batched"})
      BY <2>1, OwningLabels DEF Repeatable, LoadedAgain, Unmoved, Loading
    <3> QED
      BY <1>2, <2>1, <3>1 DEF Unmoved, RecipientsIn, RecipientsOf, Owns
  <2> QED
    BY <2>1 DEF LoadedAgain
<1>6. HeldAgain'
  <2>1. ASSUME NEW v \in Workers \ {w}, NEW i \in 1..Slots, slot'[v][i] \in Holding
        PROVE  /\ item'[v][i] \in RecipientsOf(batch'[v]) /\ item'[v][i] \notin todo'[v]
               /\ recipient_state'[item'[v][i]] \in RowStagesAt(slot'[v][i])
    <3>1. /\ item[v][i] \in RecipientsOf(batch[v]) /\ item[v][i] \notin todo[v]
          /\ recipient_state[item[v][i]] \in RowStagesAt(slot[v][i])
      BY <2>1 DEF Repeatable, HeldAgain, Unmoved
    <3>2. pc[v] = "sending"
      BY <2>1 DEF Repeatable, LoopsInside, SlotsDone, Unmoved, Holding
    <3>3. Owns(v, BatchOf[item[v][i]]) /\ item[v][i] \in Recipients
      BY <3>1, <3>2, OwningLabels DEF Owns, RecipientsOf
    <3> QED
      BY <1>2, <2>1, <3>1, <3>3 DEF Unmoved
  <2> QED
    BY <2>1 DEF HeldAgain, RecipientsOf
<1>7. InFlightAgain'
  <2> SUFFICES ASSUME NEW r \in Recipients, recipient_state'[r] = "sending"
               PROVE  /\ batch_state[BatchOf[r]] \in {"running", "failed"}
                      /\ \A v \in Workers : Owns(v, BatchOf[r])' =>
                           pc'[v] \in {"recover", "fail_batch"} \/ Working(v, r)'
    BY DEF InFlightAgain
  <2>1. CASE BatchOf[r] = batch[w]
    <3>1. \A v \in Workers : Owns(v, BatchOf[r])' => v = w
      BY <1>1, <2>1 DEF Owns, Unmoved
    <3> QED
      BY <1>1, <2>1, <3>1 DEF RecipientsOf
  <2>2. CASE BatchOf[r] # batch[w]
    <3>1. recipient_state[r] = "sending"
      BY <2>2
    <3>2. \A v \in Workers \ {w} : Owns(v, BatchOf[r])' =>
            pc'[v] \in {"recover", "fail_batch"} \/ Working(v, r)'
      BY <3>1 DEF Repeatable, InFlightAgain, Owns, Unmoved, Working
    <3>3. ~Owns(w, BatchOf[r])'
      BY <2>2 DEF Owns
    <3> QED
      BY <3>1, <3>2, <3>3 DEF Repeatable, InFlightAgain
  <2> QED
    BY <2>1, <2>2
<1>8. RowStages'
  BY <1>0, <1>1 DEF Repeatable, RowStages, Delivered
<1>9. FoundAgain'
  <2>1. \A b : AllDelivered(b) => AllDelivered(b)'
    BY DEF AllDelivered, RecipientsOf, Delivered
  <2>2. \A c : AllServed(c) => AllServed(c)'
    BY <2>1 DEF AllServed, BatchesOf
  <2>3. ASSUME NEW v \in Workers \ {w}
        PROVE  /\ pc'[v] = "fail_recipients" => batch_state'[batch'[v]] = "failed"
               /\ pc'[v] = "finish_complete" => AllDelivered(batch[v])'
               /\ pc'[v] \in ClosingCompleted => AllServed(CampaignOf[batch[v]])'
    <3>1. pc[v] = "finish_complete" => AllDelivered(batch[v])'
      BY DEF Repeatable, FoundAgain, AllDelivered, RecipientsOf, Delivered
    <3>2. pc[v] \in ClosingCompleted => AllServed(CampaignOf[batch[v]])'
      BY <2>2 DEF Repeatable, FoundAgain
    <3> QED
      BY <3>1, <3>2 DEF Unmoved, Repeatable, FoundAgain
  <2> QED
    BY <2>2, <2>3 DEF FoundAgain, Repeatable, ClosingCompleted
<1> QED
  BY <1>3, <1>4, <1>5, <1>6, <1>7, <1>8, <1>9 DEF Repeatable

\* Loops start on the loaded rows, before any of them is in flight.
LEMMA InsertAttemptAgain ==
  ASSUME TypeOK, Repeatable, faults \in Nat, NEW w \in Workers, InsertAttempt(w)
  PROVE  Repeatable'
<1>1. /\ pc[w] = "insert_attempt" /\ SlotsDone(w) /\ Landed(batch[w])
      /\ todo[w] \subseteq RecipientsIn(batch[w], {"batched"})
      /\ OwnedStage("shutdown_batch", batch_state[batch[w]])
  BY LandedAgain, OwnedBatch, OwningLabels
  DEF InsertAttempt, Repeatable, LoopsInside, LoadedAgain, Loading, OwnedStage
<1>2. UNCHANGED <<tables, mails, faults, batch, todo, item, shutdown>>
  BY DEF InsertAttempt
<1>3. CASE shutdown[w]
  <2>1. Goto(w, "shutdown_batch") /\ UNCHANGED slot
    BY <1>3 DEF InsertAttempt
  <2> QED
    BY <1>1, <1>2, <2>1, QuietAgain, OwningLabels
    DEF tables, Loading, ClosingCompleted, Detached, Unclaimed
<1>4. CASE ~shutdown[w]
  <2> DEFINE loops == [i \in 1..Slots |->
                         IF i <= Cardinality(todo[w]) THEN "top" ELSE "done"]
  <2>1. Goto(w, "sending") /\ slot' = [slot EXCEPT ![w] = loops]
    BY <1>4 DEF InsertAttempt
  <2>2. \A i \in 1..Slots : loops[i] \notin Holding
    BY DEF Holding
  <2> HIDE DEF loops
  <2> USE DEF tables
  <2>3. /\ pc'[w] = "sending" /\ slot'[w] = loops
        /\ \A v \in Workers \ {w} : pc'[v] = pc[v] /\ slot'[v] = slot[v]
    BY <2>1 DEF Goto, TypeOK
  <2>4. \A v \in Workers \ {w} : Unmoved(v)
    BY <1>2, <2>3 DEF Unmoved
  <2>5. Paid'
    <3>1. \A r \in Recipients : Settling(r) => Settling(r)'
      <4> SUFFICES ASSUME NEW r \in Recipients, NEW v \in Workers, NEW i \in 1..Slots,
                          slot[v][i] = "marking_sent", item[v][i] = r
                   PROVE  Settling(r)'
        BY <1>2 DEF Settling
      <4>1. v # w
        BY <1>1 DEF SlotsDone
      <4> QED
        BY <1>2, <2>3, <4>1 DEF Settling
    <3> QED
      BY <1>2, <3>1 DEF Repeatable, Paid
  <2>6. todo'[w] \subseteq RecipientsIn(batch[w], {"batched"})'
    BY <1>1, <1>2 DEF RecipientsIn, RecipientsOf
  <2>7. \A r \in RecipientsOf(batch[w]) : recipient_state'[r] # "sending"
    BY <1>1, <1>2 DEF Landed
  <2> QED
    BY <1>1, <1>2, <2>2, <2>3, <2>4, <2>5, <2>6, <2>7, LoopAgain
<1> QED
  BY <1>3, <1>4

\* A loop that has not ended belongs to the owner of its batch.
LEMMA LoopFactsAgain ==
  ASSUME Repeatable, NEW w \in Workers, NEW i \in 1..Slots, slot[w][i] # "done"
  PROVE  /\ pc[w] = "sending" /\ batch[w] \in Batches /\ batch_state[batch[w]] = "running"
         /\ Owns(w, batch[w]) /\ ~batch_idle[batch[w]]
         /\ todo[w] \subseteq RecipientsIn(batch[w], {"batched"})
         /\ \A r \in RecipientsOf(batch[w]) : recipient_state[r] = "sending" => Working(w, r)
         /\ \A v \in Workers : \A j \in 1..Slots :
              slot[v][j] \in Holding /\ item[v][j] \in RecipientsOf(batch[w]) => v = w
<1>1. pc[w] = "sending"
  BY DEF Repeatable, LoopsInside, SlotsDone
<1>2. /\ pc[w] \in Owning /\ batch[w] \in Batches /\ batch_state[batch[w]] = "running"
      /\ Owns(w, batch[w]) /\ ~batch_idle[batch[w]]
  BY <1>1, OwnedBatch, OwningLabels DEF OwnedStage
<1>3. todo[w] \subseteq RecipientsIn(batch[w], {"batched"})
  BY <1>1 DEF Repeatable, LoadedAgain
<1>4. \A r \in RecipientsOf(batch[w]) : recipient_state[r] = "sending" => Working(w, r)
  BY <1>1, <1>2 DEF Repeatable, InFlightAgain, RecipientsOf
<1>5. ASSUME NEW v \in Workers, NEW j \in 1..Slots,
             slot[v][j] \in Holding, item[v][j] \in RecipientsOf(batch[w])
      PROVE  v = w
  <2>1. pc[v] \in Owning
    BY <1>5, OwningLabels DEF Repeatable, LoopsInside, SlotsDone, Holding
  <2>2. batch[v] = batch[w]
    BY <1>5 DEF Repeatable, HeldAgain, RecipientsOf
  <2> QED
    BY <1>2, <2>1, <2>2, OwnedBatch DEF Owns
<1> QED
  BY <1>1, <1>2, <1>3, <1>4, <1>5

\* A row that a loop is about to mail is not reported, nor about to be.
LEMMA UnsettledAgain ==
  ASSUME Repeatable, Slots = 1, NEW w \in Workers, NEW i \in 1..Slots,
         slot[w][i] = "sending"
  PROVE  item[w][i] \in Recipients /\ ~Settling(item[w][i])
<1>1. /\ item[w][i] \in RecipientsOf(batch[w]) /\ recipient_state[item[w][i]] # "sent"
      /\ \A v \in Workers : \A j \in 1..Slots :
           slot[v][j] \in Holding /\ item[v][j] = item[w][i] => v = w /\ j = i
  BY LoopFactsAgain DEF Repeatable, HeldAgain, RowStagesAt, Holding
<1> QED
  BY <1>1 DEF Settling, Holding, RecipientsOf

\* A loop that fails is the only one of its process.
LEMMA ThrowAgain ==
  ASSUME TypeOK, Repeatable, faults \in Nat, Slots = 1,
         NEW w \in Workers, NEW i \in 1..Slots, slot[w][i] # "done",
         NEW handler \in {"recover", "fail_batch", "shutdown_batch"}, Throws(w, i, handler),
         UNCHANGED <<tables, batch, todo, item>>,
         \A r \in Recipients : MailMove(r),
         \/ faults' = faults /\ slot[w][i] = "top"
         \/ faults' = faults + 1 /\ handler # "shutdown_batch"
  PROVE  Repeatable'
<1> USE DEF tables
<1>1. /\ pc[w] = "sending" /\ batch[w] \in Batches /\ Owns(w, batch[w])
      /\ batch_state[batch[w]] = "running" /\ ~batch_idle[batch[w]]
      /\ \A r \in RecipientsOf(batch[w]) : recipient_state[r] = "sending" => Working(w, r)
  BY LoopFactsAgain
<1>2. MoveSlot(w, i, "done") /\ pc' = [pc EXCEPT ![w] = handler]
  BY <1>1 DEF Throws
<1>3. /\ pc'[w] = handler /\ SlotsDone(w)'
      /\ \A v \in Workers \ {w} : pc'[v] = pc[v] /\ slot'[v] = slot[v]
  BY <1>2, SlotMoves DEF TypeOK, SlotsDone
<1>4. handler \notin Loading /\ handler \notin ClosingCompleted
  BY DEF Loading, ClosingCompleted
<1>5. handler = "shutdown_batch" => Landed(batch[w])'
  BY <1>1 DEF Landed, Working, Holding, RecipientsOf
<1>6. (\A j \in 1..Slots : slot[w][j] # "marking_sent") \/ faults < faults'
  OBVIOUS
<1>7. Stepped(w)
  BY <1>1, <1>3, <1>4, <1>5, <1>6 DEF Stepped, OwnedStage
<1>8. \A v \in Workers \ {w} : Unmoved(v)
  BY <1>3 DEF Unmoved
<1>9. /\ \A r \in Recipients : RowRewritten(r)
      /\ \A b \in Batches : BatchRewritten(b)
      /\ \A c \in Campaigns : QueueRewritten(c)
      /\ faults' \in Nat /\ faults <= faults'
  BY DEF RowRewritten, BatchRewritten, QueueRewritten
<1> QED
  BY <1>7, <1>8, <1>9, StepRepeatable

LEMMA PickAgain ==
  ASSUME TypeOK, Repeatable, faults \in Nat, Slots = 1,
         NEW w \in Workers, NEW i \in 1..Slots, PickRecipient(w, i)
  PROVE  Repeatable'
<1> USE DEF tables
<1>1. /\ slot[w][i] = "top" /\ \A j \in 1..Slots : j = i
      /\ UNCHANGED <<tables, batch, shutdown, mails, faults>>
  BY DEF PickRecipient
<1>2. /\ pc[w] = "sending" /\ batch[w] \in Batches
      /\ todo[w] \subseteq RecipientsIn(batch[w], {"batched"})
      /\ \A r \in RecipientsOf(batch[w]) : recipient_state[r] # "sending"
  BY <1>1, LoopFactsAgain DEF Working, Holding
<1>3. ASSUME Throws(w, i, "shutdown_batch"), UNCHANGED <<todo, item>>
      PROVE  Repeatable'
  <2>1. \A r \in Recipients : MailMove(r)
    BY <1>1 DEF MailMove
  <2> QED
    BY <1>1, <1>3, <2>1, ThrowAgain
<1>4. ASSUME NEW label, label \notin {"sending", "marking_sent"}, MoveSlot(w, i, label),
             UNCHANGED pc, todo'[w] \subseteq todo[w],
             \A v \in Workers \ {w} : todo'[v] = todo[v] /\ item'[v] = item[v],
             label \in Holding => label = "marking" /\ item'[w][i] \in todo[w] \ todo'[w]
      PROVE  Repeatable'
  <2>1. slot'[w][i] = label /\ \A v \in Workers \ {w} : slot'[v] = slot[v]
    BY <1>4, SlotMoves
  <2>2. \A v \in Workers \ {w} : Unmoved(v)
    BY <1>1, <1>4, <2>1 DEF Unmoved
  <2>3. todo'[w] \subseteq RecipientsIn(batch[w], {"batched"})'
    BY <1>1, <1>2, <1>4 DEF RecipientsIn, RecipientsOf
  <2>4. ASSUME NEW j \in 1..Slots, slot'[w][j] \in Holding
        PROVE  /\ item'[w][j] \in RecipientsOf(batch[w]) /\ item'[w][j] \notin todo'[w]
               /\ recipient_state'[item'[w][j]] \in RowStagesAt(slot'[w][j])
    BY <1>1, <1>2, <1>4, <2>1, <2>4 DEF RecipientsIn, RowStagesAt
  <2>5. Paid'
    <3>1. \A r \in Recipients : Settling(r) => Settling(r)'
      BY <1>1, <1>4, <2>1 DEF Settling
    <3> QED
      BY <1>1, <3>1 DEF Repeatable, Paid
  <2> QED
    BY <1>1, <1>2, <1>4, <2>2, <2>3, <2>4, <2>5, LoopAgain
<1>5. ASSUME todo[w] = {}, MoveSlot(w, i, "done"), UNCHANGED <<pc, todo, item>>
      PROVE  Repeatable'
  BY <1>4, <1>5 DEF Holding
<1>6. ASSUME NEW r \in Lowest(todo[w], 1), Take(w, r), item' = [item EXCEPT ![w][i] = r],
             MoveSlot(w, i, "marking"), UNCHANGED pc
      PROVE  Repeatable'
  <2>1. r \in todo[w]
    BY LowestSubset
  <2>2. /\ item'[w][i] = r
        /\ \A v \in Workers \ {w} : todo'[v] = todo[v] /\ item'[v] = item[v]
        /\ todo'[w] = todo[w] \ {r}
    BY <1>6 DEF Take, TypeOK
  <2> QED
    BY <1>4, <1>6, <2>1, <2>2
<1> QED
  BY <1>3, <1>5, <1>6 DEF PickRecipient

\* A loop goes on with its row: it marks it in flight, mails it, or reports it, or a
\* first execution of its statement does so while the loop stays where it is.
LEMMA WorkAgain ==
  ASSUME TypeOK, Repeatable, faults \in Nat, Slots = 1,
         NEW w \in Workers, NEW i \in 1..Slots,
         slot[w][i] \in {"marking", "sending", "marking_sent", "progress"},
         \A v \in Workers \ {w} : slot'[v] = slot[v],
         UNCHANGED <<pc, batch, todo, item, batch_state, queue_state, faults>>,
         \A b \in Batches : batch_idle'[b] => batch_idle[b],
         \/ /\ slot[w][i] = "marking" /\ slot'[w][i] \in {"marking", "sending"}
            /\ SetRecipients({item[w][i]}, "sending") /\ UNCHANGED mails
         \/ /\ slot[w][i] = "sending" /\ slot'[w][i] = "marking_sent"
            /\ mails' = [mails EXCEPT ![item[w][i]] = @ + 1] /\ UNCHANGED recipient_state
         \/ /\ slot[w][i] = "marking_sent" /\ slot'[w][i] \in {"marking_sent", "progress"}
            /\ SetRecipients({item[w][i]}, "sent") /\ UNCHANGED mails
         \/ /\ slot[w][i] = "progress" /\ slot'[w][i] = "top"
            /\ UNCHANGED <<recipient_state, mails>>
  PROVE  Repeatable'
<1>1. \A j \in 1..Slots : j = i
  OBVIOUS
<1>2. /\ pc[w] = "sending" /\ batch[w] \in Batches
      /\ todo[w] \subseteq RecipientsIn(batch[w], {"batched"})
      /\ \A r \in RecipientsOf(batch[w]) : recipient_state[r] = "sending" =>
           slot[w][i] \in Holding /\ item[w][i] = r
  BY <1>1, LoopFactsAgain DEF Working
<1>3. slot[w][i] # "progress" =>
        /\ item[w][i] \in RecipientsOf(batch[w]) /\ item[w][i] \notin todo[w]
        /\ recipient_state[item[w][i]] \in RowStagesAt(slot[w][i])
  BY DEF Repeatable, HeldAgain, Holding
<1>4. \A r \in Recipients :
        \/ recipient_state'[r] = recipient_state[r]
        \/ /\ r = item[w][i] /\ BatchOf[r] = batch[w]
           /\ recipient_state[r] \in {"batched", "sending"}
           /\ recipient_state'[r] \in {"sending", "sent"}
  BY <1>3 DEF SetRecipients, RowStagesAt, RecipientsOf
<1>5. \A v \in Workers \ {w} : Unmoved(v)
  BY DEF Unmoved
<1>6. todo'[w] \subseteq RecipientsIn(batch[w], {"batched"})'
  <2>1. \A r \in todo[w] : recipient_state'[r] = recipient_state[r]
    BY <1>2, <1>3 DEF SetRecipients, RecipientsIn, RecipientsOf
  <2> QED
    BY <1>2, <2>1 DEF RecipientsIn, RecipientsOf
<1>7. ASSUME NEW j \in 1..Slots, slot'[w][j] \in Holding
      PROVE  /\ item'[w][j] \in RecipientsOf(batch[w]) /\ item'[w][j] \notin todo'[w]
             /\ recipient_state'[item'[w][j]] \in RowStagesAt(slot'[w][j])
  <2>1. j = i /\ slot[w][i] # "progress"
    BY <1>1, <1>7 DEF Holding
  <2>2. recipient_state'[item[w][i]] \in RowStagesAt(slot'[w][i])
    BY <1>3, <1>7, <2>1 DEF SetRecipients, RowStagesAt, RecipientsOf, Holding
  <2> QED
    BY <1>3, <2>1, <2>2
<1>8. ASSUME NEW r \in RecipientsOf(batch[w]), recipient_state'[r] = "sending"
      PROVE  Working(w, r)'
  <2>1. item[w][i] = r /\ slot[w][i] # "progress"
    BY <1>2, <1>4, <1>8 DEF Holding, RecipientsOf
  <2>2. slot'[w][i] \in Holding
    BY <1>8, <2>1 DEF SetRecipients, Holding, RecipientsOf
  <2> QED
    BY <2>1, <2>2 DEF Working
<1>9. Paid'
  <2> SUFFICES ASSUME NEW r \in Recipients
               PROVE  mails'[r] <= faults \/ (Settling(r)' /\ mails'[r] <= 1 + faults)
    BY DEF Paid
  <2>1. mails[r] <= faults \/ (Settling(r) /\ mails[r] <= 1 + faults)
    BY DEF Repeatable, Paid
  <2>2. Settling(r) => Settling(r)'
    <3>1. CASE recipient_state[r] = "sent"
      BY <1>4, <3>1 DEF Settling
    <3>2. ASSUME NEW v \in Workers, NEW j \in 1..Slots,
                 slot[v][j] = "marking_sent", item[v][j] = r
          PROVE  Settling(r)'
      BY <1>1, <3>2 DEF Settling, SetRecipients
    <3> QED
      BY <3>1, <3>2 DEF Settling
  <2>3. CASE mails'[r] = mails[r]
    BY <2>1, <2>2, <2>3
  <2>4. CASE mails'[r] # mails[r]
    <3>1. slot[w][i] = "sending" /\ slot'[w][i] = "marking_sent" /\ r = item[w][i]
      BY <2>4 DEF TypeOK
    <3>2. mails[r] \in Nat /\ mails'[r] = mails[r] + 1
      BY <3>1 DEF TypeOK
    <3>3. ~Settling(r) /\ Settling(r)'
      BY <3>1, UnsettledAgain DEF Settling
    <3> QED
      BY <2>1, <3>2, <3>3
  <2> QED
    BY <2>3, <2>4
<1> QED
  BY <1>2, <1>4, <1>5, <1>6, <1>7, <1>8, <1>9, LoopAgain

LEMMA SlotAgain ==
  ASSUME TypeOK, Repeatable, faults \in Nat, Slots = 1,
         NEW w \in Workers, NEW i \in 1..Slots, SlotStep(w, i)
  PROVE  Repeatable'
<1> USE DEF tables
<1>1. slot[w][i] # "done" => pc[w] = "sending" /\ ~batch_idle[batch[w]]
  BY LoopFactsAgain
<1>2. CASE MarkSending(w, i)
  BY <1>2, SlotMoves, WorkAgain DEF MarkSending
<1>3. CASE SendMail(w, i)
  <2>1. slot[w][i] = "sending" /\ MoveSlot(w, i, "marking_sent")
    BY <1>1, <1>3 DEF SendMail
  <2>2. slot'[w][i] = "marking_sent" /\ \A v \in Workers \ {w} : slot'[v] = slot[v]
    BY <2>1, SlotMoves
  <2> QED
    BY <1>3, <2>1, <2>2, WorkAgain DEF SendMail
<1>4. CASE MarkSent(w, i)
  BY <1>1, <1>4, SlotMoves, WorkAgain DEF MarkSent
<1>5. CASE RecordProgress(w, i)
  <2>1. \A b \in Batches : batch_idle'[b] => batch_idle[b]
    BY <1>5 DEF RecordProgress, TypeOK, TablesTypeOK
  <2>2. /\ slot[w][i] = "progress" /\ MoveSlot(w, i, "top")
        /\ UNCHANGED <<pc, batch, todo, item, batch_state, queue_state, faults,
                       recipient_state, mails>>
    BY <1>5 DEF RecordProgress
  <2>3. slot'[w][i] = "top" /\ \A v \in Workers \ {w} : slot'[v] = slot[v]
    BY <2>2, SlotMoves
  <2> QED
    BY <2>1, <2>2, <2>3, WorkAgain
<1>6. CASE SlotStatementRefused(w, i)
  BY <1>1, <1>6 DEF SlotStatementRefused
<1> QED
  BY <1>2, <1>3, <1>4, <1>5, <1>6, PickAgain DEF SlotStep

\* Steps that touch no row, no loop and no statement of a process.
LEMMA AsideAgain ==
  ASSUME TypeOK, Repeatable, faults \in Nat,
         faults' = faults \/ faults' = faults + 1,
         UNCHANGED <<recipient_state, pc, batch, todo, slot, item, mails>>,
         \A b \in Batches :
           /\ batch_idle'[b] => batch_idle[b] \/ \A v \in Workers : ~Owns(v, b)
           /\ \/ batch_state'[b] = batch_state[b]
              \/ BatchWritten(b) /\ \A v \in Workers : ~Owns(v, b),
         \A c \in Campaigns : QueueRewritten(c)
  PROVE  Repeatable'
<1>1. \A v \in Workers : Unmoved(v)
  BY DEF Unmoved
<1>2. \A b \in Batches : BatchRewritten(b)
  BY DEF BatchRewritten
<1>3. \A r \in Recipients : RowRewritten(r) /\ MailMove(r)
  BY DEF RowRewritten, MailMove
<1>4. faults' \in Nat /\ faults <= faults'
  OBVIOUS
<1> QED
  BY <1>1, <1>2, <1>3, <1>4, StepRepeatable

\* The end of a process: a mail that it has not reported is paid for by the crash.
LEMMA GoneAgain ==
  ASSUME TypeOK, Repeatable, faults \in Nat, NEW w \in Workers, ProcessGone(w),
         UNCHANGED <<tables, mails>>,
         faults' = faults + 1 \/ (SlotsDone(w) /\ faults' = faults)
  PROVE  Repeatable'
<1> USE DEF tables
<1>1. /\ pc'[w] = "off" /\ SlotsDone(w)'
      /\ \A v \in Workers \ {w} :
           /\ pc'[v] = pc[v] /\ batch'[v] = batch[v] /\ todo'[v] = todo[v]
           /\ slot'[v] = slot[v] /\ item'[v] = item[v]
  BY DEF ProcessGone, Goto, TypeOK, SlotsDone
<1>2. /\ "off" \notin Owning \union Loading \union ClosingCompleted
      /\ "off" \in Detached
  BY OwningLabels DEF Unclaimed, Loading, ClosingCompleted, Detached
<1>3. (\A i \in 1..Slots : slot[w][i] # "marking_sent") \/ faults < faults'
  BY DEF SlotsDone
<1>4. Stepped(w)
  BY <1>1, <1>2, <1>3 DEF Stepped
<1>5. \A v \in Workers \ {w} : Unmoved(v)
  BY <1>1 DEF Unmoved
<1>6. /\ \A r \in Recipients : RowRewritten(r) /\ MailMove(r)
      /\ \A b \in Batches : BatchRewritten(b)
      /\ \A c \in Campaigns : QueueRewritten(c)
      /\ faults' \in Nat /\ faults <= faults'
  BY DEF RowRewritten, MailMove, BatchRewritten, QueueRewritten
<1> QED
  BY <1>4, <1>5, <1>6, StepRepeatable

LEMMA MainStepAgain ==
  ASSUME TypeOK, Repeatable, faults \in Nat, Targeted = {}, NEW w \in Workers, MainStep(w)
  PROVE  Repeatable'
<1> USE DEF tables, local
<1>1. CASE RecoverStaleRunningBatches(w)
  BY <1>1, StaleAgain DEF RecoverStaleRunningBatches
<1>2. CASE ClaimNextQueuedBatch(w)
  <2>1. pc[w] = "locking" /\ UNCHANGED <<todo, slot, item, mails, faults>>
    BY <1>2 DEF ClaimNextQueuedBatch
  <2>2. ASSUME NEW c, ClaimBatch(w, c)
        PROVE  Repeatable'
    <3>1. PICK b \in Lowest(BatchesIn(c, {"queued"}), 1) :
            /\ SetBatches({b}, "running") /\ SetQueue({c}, "running")
            /\ batch' = [batch EXCEPT ![w] = b] /\ Goto(w, "loading")
            /\ UNCHANGED recipient_state
      BY <2>2 DEF ClaimBatch
    <3>2. batch'[w] = b /\ \A v \in Workers \ {w} : batch'[v] = batch[v]
      BY <3>1 DEF TypeOK
    <3> QED
      BY <2>1, <3>1, <3>2, ClaimAgain
  <2>3. ASSUME NEW c, ReconcileDispatchWithoutQueuedBatch(w, c)
        PROVE  Repeatable'
    BY <2>1, <2>3, ReconcileAgain
  <2>4. CASE Goto(w, "exiting") /\ UNCHANGED <<tables, batch>>
    <3>1. SlotsDone(w)
      BY <2>1 DEF Repeatable, LoopsInside
    <3> QED
      BY <2>1, <2>4, <3>1, QuietAgain, OwningLabels DEF Loading, ClosingCompleted, Detached
  <2> QED
    BY <1>2, <2>2, <2>3, <2>4 DEF ClaimNextQueuedBatch
<1>3. CASE FailBatchAndDispatch(w)
  <2>1. /\ pc[w] = "empty" /\ Goto(w, "exiting")
        /\ SetBatches({batch[w]} \cap {x \in Batches : batch_state[x] \in {"queued", "running"}},
                      "failed")
        /\ UNCHANGED <<recipient_state, batch, todo, slot, item, mails, faults>>
    BY <1>3 DEF FailBatchAndDispatch
  <2>2. batch[w] \in Batches /\ batch_state[batch[w]] = "running"
    BY <2>1, OwnedBatch, OwningLabels DEF OwnedStage
  <2>3. SetBatches({batch[w]}, "failed")
    BY <2>1, <2>2 DEF SetBatches
  <2>4. \A c \in Campaigns : QueueRewritten(c)
    BY <1>3 DEF FailBatchAndDispatch, SetQueue, QueueRewritten
  <2> QED
    BY <2>1, <2>3, <2>4, OwnerAgain
<1>4. CASE ExecuteDryRun(w)
  <2> DEFINE listed == todo[w] \cap RecipientsIn(batch[w], {"batched"})
             state == IF RecipientsIn(batch[w], {"batched"}) \ listed # {} THEN "queued"
                                                                          ELSE "completed"
  <2>1. /\ pc[w] = "dry_run" /\ Goto(w, "dry_run_attempt")
        /\ SetRecipients(listed, "dry_run_sent") /\ SetBatches({batch[w]}, state)
        /\ todo' = [todo EXCEPT ![w] = {}]
        /\ UNCHANGED <<queue_state, batch, slot, item, mails, faults>>
    BY <1>4 DEF ExecuteDryRun
  <2>2. \A v \in Workers \ {w} : todo'[v] = todo[v]
    BY <2>1 DEF TypeOK
  <2> QED
    BY <2>1, <2>2, DryRunAgain
<1>5. CASE StartBatch(w) \/ FinishBatchOrRequeue(w)
  <2>1. \A c \in Campaigns : QueueRewritten(c)
    BY <1>5, NothingRewritten DEF StartBatch, FinishBatchOrRequeue
  <2> QED
    BY <1>5, <2>1, OwnerAgain DEF StartBatch, FinishBatchOrRequeue
<1>6. CASE RequeueBatchForShutdown(w)
  <2>1. \A c \in Campaigns : QueueRewritten(c)
    BY <1>6, NothingRewritten DEF RequeueBatchForShutdown
  <2> QED
    BY <1>6, <2>1, OwnerAgain, HandlerAgain DEF RequeueBatchForShutdown
<1>7. CASE FailBatch(w)
  BY <1>7, FailAgain, HandlerAgain DEF FailBatch
<1>8. CASE Exit(w)
  BY <1>8, GoneAgain DEF Exit
<1> QED
  BY <1>1, <1>2, <1>3, <1>4, <1>5, <1>6, <1>7, <1>8, QuietMainAgain, RecoverAgain,
     InsertAttemptAgain DEF MainStep

LEMMA DisturbedAgain ==
  ASSUME TypeOK, Repeatable, OnTime', Slots = 1, faults \in Nat, NEW w \in Workers,
         Disturbance(w)
  PROVE  Repeatable'
<1> USE DEF tables, local
<1>1. pc[w] # "sending" => SlotsDone(w)
  BY DEF Repeatable, LoopsInside
<1>2. CASE FinishFails(w)
  <2>1. ~Fault("report")
    BY NoLateFault DEF Late
  <2>2. /\ pc[w] \in Finishing /\ faults' = faults + 1
        /\ UNCHANGED <<tables, batch, todo, slot, item, mails>>
    BY <1>2, <2>1 DEF FinishFails, Fault
  <2>3. PICK label \in {"recover", "fail_batch"} : Goto(w, label)
    BY <1>2, <2>1 DEF FinishFails
  <2>4. pc[w] \in Owning /\ pc[w] \notin Detached /\ SlotsDone(w)
    BY <1>1, <2>2, OwningLabels DEF Finishing, Detached, Unclaimed
  <2>5. OwnedStage(label, batch_state[batch[w]])
    BY <2>2, <2>4, OwnedBatch DEF OwnedStage, Finishing
  <2> QED
    BY <2>2, <2>3, <2>4, <2>5, QuietAgain DEF Loading, ClosingCompleted
<1>3. CASE Uncaught(w)
  <2>1. /\ pc[w] # "sending" /\ Goto(w, "exiting") /\ faults' = faults + 1
        /\ UNCHANGED <<tables, batch, todo, slot, item, mails>>
    BY <1>3 DEF Uncaught, Fault, OutsideTry, Handling, Closing
  <2> QED
    BY <1>1, <2>1, QuietAgain, OwningLabels DEF Loading, ClosingCompleted, Detached
<1>4. CASE Crash(w)
  BY <1>4, GoneAgain DEF Crash, Fault
<1>5. CASE RequestShutdown(w)
  <2>1. \A c \in Campaigns : QueueRewritten(c)
    BY <1>5, NothingRewritten DEF RequestShutdown
  <2> QED
    BY <1>5, <2>1, AsideAgain DEF RequestShutdown, Fault
<1>6. ASSUME NEW i \in 1..Slots, SendMailFails(w, i)
      PROVE  Repeatable'
  <2>1. /\ slot[w][i] = "sending" /\ faults' = faults + 1
        /\ UNCHANGED <<tables, batch, todo, item>>
        /\ \E handler \in {"recover", "fail_batch"} : Throws(w, i, handler)
    BY <1>6 DEF SendMailFails, Fault
  <2>2. item[w][i] \in Recipients /\ ~Settling(item[w][i])
    BY <2>1, UnsettledAgain
  <2>3. \A r \in Recipients : MailMove(r)
    BY <1>6, <2>1, <2>2 DEF SendMailFails, MailMove, TypeOK
  <2> QED
    BY <2>1, <2>3, ThrowAgain
<1>7. ASSUME NEW i \in 1..Slots, SlotStatementFails(w, i)
      PROVE  Repeatable'
  <2>1. /\ slot[w][i] # "done" /\ faults' = faults + 1
        /\ UNCHANGED <<tables, batch, todo, item, mails>>
        /\ \E handler \in {"recover", "fail_batch"} : Throws(w, i, handler)
    BY <1>7 DEF SlotStatementFails, Fault
  <2>2. \A r \in Recipients : MailMove(r)
    BY <2>1 DEF MailMove
  <2> QED
    BY <2>1, <2>2, ThrowAgain
<1> QED
  BY <1>2, <1>3, <1>4, <1>5, <1>6, <1>7 DEF Disturbance

LEMMA NextAgain ==
  ASSUME TypeOK, Repeatable, OnTime', Slots = 1, Next
  PROVE  Repeatable'
<1> USE DEF tables, local
<1>1. faults \in Nat /\ Targeted = {}
  BY ExecutorAssumption DEF TypeOK, OnTime
<1>2. CASE RecoverOrphanedRunningBatches
  <2>1. /\ SetBatches(Orphaned, "queued")
        /\ UNCHANGED <<recipient_state, pc, batch, todo, slot, item, mails, faults>>
    BY <1>2 DEF RecoverOrphanedRunningBatches
  <2>2. \A b \in Orphaned :
          /\ batch_state[b] = "running" /\ Landed(b) /\ \A v \in Workers : ~Owns(v, b)
    BY DEF Orphaned, StaleBatches, RecipientsIn, RecipientsOf, Landed, Repeatable, Fenced
  <2>3. \A b \in Batches :
          /\ batch_idle'[b] => batch_idle[b]
          /\ \/ batch_state'[b] = batch_state[b]
             \/ BatchWritten(b) /\ \A v \in Workers : ~Owns(v, b)
    BY <2>1, <2>2, NothingRewritten DEF SetBatches, BatchWritten
  <2>4. \A c \in Campaigns : QueueRewritten(c)
    BY <1>2 DEF RecoverOrphanedRunningBatches, SetQueue, QueueRewritten
  <2> QED
    BY <1>1, <2>1, <2>3, <2>4, AsideAgain
<1>3. ASSUME NEW b \in Batches, BatchGoesIdle(b)
      PROVE  Repeatable'
  <2>1. ~Attended(b)
    BY <1>3, NoLateFault DEF BatchGoesIdle, Late
  <2>2. \A v \in Workers : ~Owns(v, b)
    BY <2>1, OwningLabels DEF Owns, Attended, Unclaimed
  <2>3. /\ UNCHANGED <<batch_state, queue_state, recipient_state, pc, batch, todo, slot,
                       item, mails, faults>>
        /\ \A x \in Batches \ {b} : batch_idle'[x] = batch_idle[x]
    BY <1>3, <2>1 DEF BatchGoesIdle, TypeOK, TablesTypeOK
  <2> QED
    BY <1>1, <2>2, <2>3, NothingRewritten, AsideAgain
<1>4. ASSUME NEW b \in Batches, OperatorReset(b)
      PROVE  Repeatable'
  BY <1>4, NoLateFault DEF OperatorReset, Late
<1> QED
  BY <1>1, <1>2, <1>3, <1>4, MainStepAgain, SlotAgain, DisturbedAgain DEF Next

\* A first execution leaves the process where it is; whoever repeats a requeue is
\* not followed any further.
LEMMA LostAgain ==
  ASSUME TypeOK, Repeatable, Slots = 1, NEW w \in Workers, AnswerLost(w), ~requeueLost'
  PROVE  Repeatable'
<1>1. /\ faults \in Nat /\ UNCHANGED <<batch, todo, slot, item, mails, faults>>
  BY ExecutorAssumption
  DEF TypeOK, AnswerLost, ClaimAnswerLost, StaleRecoveryAnswerLost, RecoveryAnswerLost,
      DryRunAnswerLost, BatchAnswerLost, HandlerAnswerLost, CloseAnswerLost,
      RecipientAnswerLost, LoseAnswer
<1>2. UNCHANGED pc => Goto(w, pc[w])
  BY DEF Goto, TypeOK
<1>3. UNCHANGED queue_state => \A c \in Campaigns : QueueRewritten(c)
  BY NothingRewritten
<1>4. CASE ClaimAnswerLost(w)
  <2>1. PICK c \in StillOpen(w) : \E b \in Lowest(BatchesIn(c, {"queued"}), 1) :
          SetBatches({b}, "running") /\ SetQueue({c}, "running")
    BY <1>4 DEF ClaimAnswerLost
  <2>2. pc[w] = "locking" /\ Goto(w, "claiming") /\ UNCHANGED recipient_state
    BY <1>4 DEF ClaimAnswerLost, ClaimFromTheStart
  <2> QED
    BY <1>1, <2>1, <2>2, ClaimAgain
<1>5. CASE StaleRecoveryAnswerLost(w)
  BY <1>1, <1>2, <1>5, StaleAgain DEF StaleRecoveryAnswerLost
<1>6. CASE RecoveryAnswerLost(w)
  BY <1>6 DEF RecoveryAnswerLost, LoseAnswer
<1>7. CASE DryRunAnswerLost(w)
  <2> DEFINE listed == todo[w] \cap RecipientsIn(batch[w], {"batched"})
             state == IF RecipientsIn(batch[w], {"batched"}) \ listed # {} THEN "queued"
                                                                          ELSE "completed"
  <2>1. /\ pc[w] = "dry_run" /\ Goto(w, "dry_run") /\ UNCHANGED queue_state
        /\ RecipientsIn(batch[w], {"batched"}) \ todo[w] = {}
        /\ SetRecipients(listed, "dry_run_sent") /\ SetBatches({batch[w]}, "completed")
    <3>1. listed = RecipientsIn(batch[w], {"batched"}) \cap todo[w]
      OBVIOUS
    <3> HIDE DEF listed
    <3> QED
      BY <1>2, <1>7, <3>1 DEF DryRunAnswerLost, LoseAnswer
  <2>2. state = "completed"
    BY <2>1
  <2> HIDE DEF state
  <2>3. state = IF RecipientsIn(batch[w], {"batched"}) \ listed # {} THEN "queued"
                                                                    ELSE "completed"
    BY DEF state
  <2> QED
    BY <1>1, <2>1, <2>2, <2>3, DryRunAgain
<1>8. CASE BatchAnswerLost(w)
  <2>1. /\ pc[w] \in {"start", "finish_complete", "fail_batch"}
        /\ SetBatches({batch[w]}, BatchStatement[pc[w]])
        /\ UNCHANGED <<recipient_state, queue_state, pc>>
    BY <1>8 DEF BatchAnswerLost, LoseAnswer, BatchStatement
  <2>2. CASE pc[w] = "start"
    BY <1>1, <1>2, <1>3, <2>1, <2>2, OwnerAgain DEF BatchStatement
  <2>3. CASE pc[w] = "finish_complete"
    BY <1>1, <1>2, <1>3, <2>1, <2>3, OwnerAgain DEF BatchStatement
  <2>4. CASE pc[w] = "fail_batch"
    BY <1>1, <1>2, <2>1, <2>4, FailAgain DEF BatchStatement
  <2> QED
    BY <2>1, <2>2, <2>3, <2>4
<1>9. CASE HandlerAnswerLost(w)
  <2>1. /\ pc[w] = "fail_recipients"
        /\ SetRecipients(RecipientsIn(batch[w], {"batched", "sending"}), "failed")
        /\ UNCHANGED <<batch_state, batch_idle, queue_state, pc>>
    BY <1>9 DEF HandlerAnswerLost, LoseAnswer
  <2> QED
    BY <1>1, <1>2, <2>1, HandlerAgain
<1>10. CASE CloseAnswerLost(w)
  <2>1. /\ pc[w] \in Closing
        /\ UNCHANGED <<recipient_state, batch_state, batch_idle, pc>>
    BY <1>10 DEF CloseAnswerLost, Closing
  <2>2. \A c \in Campaigns : queue_state'[c] = "completed" =>
          queue_state[c] = "completed" \/ AllServed(c)
    BY <1>10 DEF CloseAnswerLost, SetQueue, Repeatable, FoundAgain, ClosingCompleted
  <2>3. \A c \in Campaigns : QueueRewritten(c)
    BY <1>1, <2>1, <2>2
    DEF QueueRewritten, AllServed, AllDelivered, BatchesOf, RecipientsOf
  <2> QED
    BY <1>1, <2>1, <2>3, AsideAgain
<1>11. ASSUME NEW i \in 1..Slots, RecipientAnswerLost(w, i)
       PROVE  Repeatable'
  BY <1>1, <1>11, WorkAgain DEF RecipientAnswerLost, SlotStatement
<1> QED
  BY <1>4, <1>5, <1>6, <1>7, <1>8, <1>9, <1>10, <1>11 DEF AnswerLost

LEMMA LostType ==
  ASSUME TypeOK, NEW w \in Workers, AnswerLost(w)
  PROVE  TypeOK'
<1>1. UNCHANGED <<batch, todo, slot, item, shutdown, mails, faults>>
  BY DEF AnswerLost, ClaimAnswerLost, StaleRecoveryAnswerLost, RecoveryAnswerLost,
         DryRunAnswerLost, BatchAnswerLost, HandlerAnswerLost, CloseAnswerLost,
         RecipientAnswerLost, LoseAnswer
<1>2. /\ {"queued", "running", "completed", "failed"} \subseteq BatchStates
      /\ {"batched", "sending", "sent", "dry_run_sent", "failed"} \subseteq RecipientStates
      /\ {"running", "completed", "failed"} \subseteq QueueStates
      /\ {"completed", "failed"} \subseteq RegistryStates
      /\ "claiming" \in PCs /\ "stale_requeued" \in AttemptCodes
  BY DEF BatchStates, RecipientStates, QueueStates, OpenQueueStates, RegistryStates, PCs,
         OutsideTry, AttemptCodes
<1>3. /\ \/ UNCHANGED recipient_state
         \/ \E rs : \E state \in {"batched", "sending", "sent", "dry_run_sent", "failed"} :
              SetRecipients(rs, state)
      /\ \/ UNCHANGED <<batch_state, batch_idle>>
         \/ \E bs : \E state \in {"queued", "running", "completed", "failed"} :
              SetBatches(bs, state)
      /\ \/ UNCHANGED queue_state
         \/ \E cs : \E state \in {"running", "completed", "failed"} : SetQueue(cs, state)
      /\ \/ UNCHANGED direct_dispatch_state
         \/ \E cs : \E state \in {"completed", "failed"} : SetRegistry(cs, state)
      /\ UNCHANGED pc \/ Goto(w, "claiming")
      /\ UNCHANGED seen \/ seen' = [seen EXCEPT ![w] = {}]
      /\ UNCHANGED attempt \/ \E bs : AnnotateAttempts(bs, "stale_requeued")
  <2>1. CASE ClaimAnswerLost(w)
    BY <2>1 DEF ClaimAnswerLost, ClaimFromTheStart
  <2>2. CASE StaleRecoveryAnswerLost(w)
    BY <2>2 DEF StaleRecoveryAnswerLost
  <2>3. CASE RecoveryAnswerLost(w)
    BY <2>3 DEF RecoveryAnswerLost
  <2>4. CASE DryRunAnswerLost(w)
    BY <2>4 DEF DryRunAnswerLost
  <2>5. CASE BatchAnswerLost(w)
    <3>1. BatchStatement[pc[w]] \in {"queued", "running", "completed", "failed"}
      BY <2>5 DEF BatchAnswerLost, BatchStatement
    <3> QED
      BY <2>5, <3>1 DEF BatchAnswerLost
  <2>6. CASE HandlerAnswerLost(w)
    BY <2>6 DEF HandlerAnswerLost
  <2>7. CASE CloseAnswerLost(w)
    BY <2>7 DEF CloseAnswerLost
  <2>8. CASE \E i \in 1..Slots : RecipientAnswerLost(w, i)
    <3>1. PICK i \in 1..Slots : RecipientAnswerLost(w, i)
      BY <2>8
    <3>2. SlotStatement[slot[w][i]] \in {"sending", "sent"}
      BY <3>1 DEF RecipientAnswerLost, SlotStatement
    <3> QED
      BY <3>1, <3>2 DEF RecipientAnswerLost
  <2> QED
    BY <2>1, <2>2, <2>3, <2>4, <2>5, <2>6, <2>7, <2>8 DEF AnswerLost
<1> QED
  BY <1>1, <1>2, <1>3, SetRecipientsType, SetBatchesType, SetQueueType, SetRegistryType,
     GotoType, AnnotateAttemptsType DEF TypeOK, TablesTypeOK

LEMMA AlwaysRepeatable ==
  ASSUME Timely, Slots = 1
  PROVE  LostSpec => [](TypeOK /\ (requeueLost \/ Repeatable))
<1>1. LostInit => TypeOK /\ (requeueLost \/ Repeatable)
  <2> SUFFICES ASSUME LostInit
               PROVE  TypeOK /\ Repeatable
    OBVIOUS
  <2>1. Init
    BY DEF LostInit
  <2>2. \A w \in Workers : pc[w] = "off" /\ SlotsDone(w)
    BY <2>1 DEF Init, SlotsDone
  <2>3. "off" \in Detached \ Owning
    BY OwningLabels DEF Unclaimed, Detached
  <2>4. /\ \A r \in Recipients : recipient_state[r] = "batched" /\ mails[r] = 0
        /\ \A b \in Batches : batch_state[b] = "queued"
        /\ \A c \in Campaigns : queue_state[c] = "queued"
        /\ faults = 0
    BY <2>1 DEF Init, TablesInit
  <2>5. /\ BatchStages /\ BatchHeld /\ LoopsInside /\ Paid
        /\ \A r \in Recipients : BatchOf[r] \in Batches
    BY <2>2, <2>3, <2>4, TablesAssumption DEF BatchStages, BatchHeld, LoopsInside, Paid
  <2>6. RowStages
    BY <2>4, <2>5 DEF RowStages
  <2>7. Fenced /\ LoadedAgain /\ HeldAgain /\ InFlightAgain /\ FoundAgain
    BY <2>2, <2>3, <2>4
    DEF Fenced, OneOwnerPerBatch, Owns, LoadedAgain, Loading, HeldAgain, Holding, SlotsDone,
        InFlightAgain, FoundAgain, ClosingCompleted
  <2> QED
    BY <2>1, <2>5, <2>6, <2>7, InitTypeOK DEF Repeatable
<1>2. ASSUME TypeOK, requeueLost \/ Repeatable, [LostNext]_lostVars
      PROVE  TypeOK' /\ (requeueLost \/ Repeatable)'
  <2>1. OnTime'
    BY DEF Timely, OnTime
  <2>2. CASE Next /\ UNCHANGED <<lost, requeueLost>>
    <3>1. TypeOK'
      BY <1>2, <2>2, NextTypeOK
    <3>2. Repeatable => Repeatable'
      BY <1>2, <2>1, <2>2, NextAgain
    <3> QED
      BY <1>2, <2>2, <3>1, <3>2
  <2>3. ASSUME NEW w \in Workers, AnswerLost(w)
        PROVE  TypeOK' /\ (requeueLost \/ Repeatable)'
    <3>1. requeueLost => requeueLost'
      BY <2>3
      DEF AnswerLost, ClaimAnswerLost, StaleRecoveryAnswerLost, RecoveryAnswerLost,
          DryRunAnswerLost, BatchAnswerLost, HandlerAnswerLost, CloseAnswerLost,
          RecipientAnswerLost, LoseAnswer
    <3> QED
      BY <1>2, <2>3, <3>1, LostType, LostAgain
  <2>4. CASE UNCHANGED lostVars
    <3>1. UNCHANGED vars /\ UNCHANGED requeueLost
      BY <2>4 DEF lostVars
    <3>2. TypeOK'
      BY <1>2, <3>1, NextTypeOK
    <3>3. Repeatable => Repeatable'
      <4>1. UNCHANGED <<recipient_state, pc, batch, todo, slot, item, mails, faults,
                        batch_state, batch_idle, queue_state>>
        BY <3>1 DEF vars, tables, local
      <4>2. faults \in Nat
        BY <1>2, ExecutorAssumption DEF TypeOK
      <4> QED
        BY <1>2, <4>1, <4>2, NothingRewritten, AsideAgain
    <3> QED
      BY <1>2, <3>1, <3>2, <3>3
  <2> QED
    BY <1>2, <2>2, <2>3, <2>4 DEF LostNext
<1> QED
  BY <1>1, <1>2, PTL DEF LostSpec

\* Everything that withRetry runs again is safe to repeat, except a requeue: however
\* many answers are lost, no batch gets a second executor, no dispatch is closed
\* before its recipients are served, and a mail is repeated by faults only, as long
\* as no requeue was executed twice.
THEOREM RepetitionIsSafe ==
  ASSUME Timely, Slots = 1
  PROVE  LostSpec => []OnlyRequeuesAreUnsafe
<1>1. TypeOK /\ (requeueLost \/ Repeatable) => OnlyRequeuesAreUnsafe
  <2> SUFFICES ASSUME TypeOK, Repeatable
               PROVE  OneOwnerPerBatch /\ CompletedIsDelivered /\ RepetitionsBounded
    BY DEF OnlyRequeuesAreUnsafe
  <2>1. OneOwnerPerBatch
    BY DEF Repeatable, Fenced
  <2>2. CompletedIsDelivered
    BY TablesAssumption
    DEF CompletedIsDelivered, Repeatable, FoundAgain, AllServed, AllDelivered, Delivered,
        BatchesOf
  <2>3. \A r \in Recipients : mails[r] \in Nat /\ faults \in Nat
    BY ExecutorAssumption DEF TypeOK
  <2>4. RepetitionsBounded
    BY <2>3 DEF RepetitionsBounded, Repeatable, Paid
  <2> QED
    BY <2>1, <2>2, <2>4
<1> QED
  BY <1>1, AlwaysRepeatable, PTL

LEMMA LostMailed ==
  ASSUME TypeOK, MailedInv, NEW w \in Workers, AnswerLost(w)
  PROVE  MailedInv'
<1>1. UNCHANGED <<slot, item, mails>>
  BY DEF AnswerLost, ClaimAnswerLost, StaleRecoveryAnswerLost, RecoveryAnswerLost,
         DryRunAnswerLost, BatchAnswerLost, HandlerAnswerLost, CloseAnswerLost,
         RecipientAnswerLost, LoseAnswer
<1>2. ASSUME \/ ClaimAnswerLost(w) \/ StaleRecoveryAnswerLost(w) \/ RecoveryAnswerLost(w)
             \/ DryRunAnswerLost(w) \/ BatchAnswerLost(w) \/ HandlerAnswerLost(w)
             \/ CloseAnswerLost(w)
      PROVE  MailedInv'
  <2>1. \A r \in Recipients : recipient_state'[r] = "sent" => recipient_state[r] = "sent"
    BY <1>2, SetRecipientsFrame
    DEF ClaimAnswerLost, StaleRecoveryAnswerLost, RecoveryAnswerLost, DryRunAnswerLost,
        BatchAnswerLost, HandlerAnswerLost, CloseAnswerLost
  <2> QED
    BY <1>1, <2>1, FramePreservesMailedInv DEF MailsFrame
<1>3. ASSUME NEW i \in 1..Slots, RecipientAnswerLost(w, i)
      PROVE  MailedInv'
  <2>1. \A r \in Recipients : recipient_state'[r] = "sent" =>
          recipient_state[r] = "sent" \/ (slot[w][i] = "marking_sent" /\ r = item[w][i])
    BY <1>3 DEF RecipientAnswerLost, SetRecipients, SlotStatement
  <2> QED
    BY <1>1, <2>1 DEF MailedInv, SentWasMailed
<1> QED
  BY <1>2, <1>3 DEF AnswerLost

\* Whatever is executed twice, requeues too, and whatever else fails: who is reported
\* 'sent' has been mailed.
THEOREM RepeatedReportsAreTrue == LostSpec => []SentWasMailed
<1>1. LostInit => TypeOK /\ MailedInv
  BY InitTypeOK DEF LostInit, Init, TablesInit, MailedInv, SentWasMailed
<1>2. ASSUME TypeOK, MailedInv, [LostNext]_lostVars
      PROVE  TypeOK' /\ MailedInv'
  <2>1. [Next]_vars \/ \E w \in Workers : AnswerLost(w)
    BY <1>2 DEF LostNext, lostVars
  <2>2. CASE [Next]_vars
    BY <1>2, <2>2, NextTypeOK, NextMailedInv
  <2>3. CASE \E w \in Workers : AnswerLost(w)
    BY <1>2, <2>3, LostType, LostMailed
  <2> QED
    BY <2>1, <2>2, <2>3
<1>3. MailedInv => SentWasMailed
  BY DEF MailedInv
<1> QED
  BY <1>1, <1>2, <1>3, PTL DEF LostSpec

=============================================================================
