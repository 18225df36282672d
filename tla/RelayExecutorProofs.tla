------------------------ MODULE RelayExecutorProofs -------------------------
(***************************************************************************)
(* Theorems about RelayExecutor, for any number of workers, batches,       *)
(* recipients, send loops and faults: claims are exclusive, reports are    *)
(* true, the verdicts of a dispatch agree, and nobody is mailed more often *)
(* than faults explain.                                                    *)
(***************************************************************************)
EXTENDS RelayExecutor, FiniteSetTheorems, WellFoundedInduction, TLAPS

-----------------------------------------------------------------------------
(* Type correctness.  The statements of ControlPlane keep the columns within *)
(* the CHECKs of the schema.                                               *)

LEMMA SetRecipientsType ==
  ASSUME NEW rs, NEW state \in RecipientStates, TypeOK, SetRecipients(rs, state)
  PROVE  recipient_state' \in [Recipients -> RecipientStates]
BY DEF SetRecipients, TypeOK, TablesTypeOK

LEMMA SetBatchesType ==
  ASSUME NEW bs, NEW state \in BatchStates, TypeOK, SetBatches(bs, state)
  PROVE  /\ batch_state' \in [Batches -> BatchStates]
         /\ batch_idle' \in [Batches -> BOOLEAN]
BY DEF SetBatches, TypeOK, TablesTypeOK

LEMMA SetQueueType ==
  ASSUME NEW cs, NEW state \in QueueStates, TypeOK, SetQueue(cs, state)
  PROVE  queue_state' \in [Campaigns -> QueueStates]
BY DEF SetQueue, TypeOK, TablesTypeOK

LEMMA SetRegistryType ==
  ASSUME NEW cs, NEW state \in RegistryStates, TypeOK, SetRegistry(cs, state)
  PROVE  direct_dispatch_state' \in [Campaigns -> RegistryStates]
BY DEF SetRegistry, TypeOK, TablesTypeOK

LEMMA GotoType ==
  ASSUME NEW w \in Workers, NEW label \in PCs, TypeOK, Goto(w, label)
  PROVE  pc' \in [Workers -> PCs]
BY DEF Goto, TypeOK

LEMMA SetAttemptType ==
  ASSUME NEW w \in Workers, NEW code \in AttemptCodes, TypeOK, SetAttempt(w, code)
  PROVE  attempt' \in [Workers -> AttemptCodes]
BY DEF SetAttempt, TypeOK

LEMMA AnnotateAttemptsType ==
  ASSUME NEW bs, NEW code \in AttemptCodes, TypeOK, AnnotateAttempts(bs, code)
  PROVE  attempt' \in [Workers -> AttemptCodes]
BY DEF AnnotateAttempts, TypeOK

LEMMA MoveSlotType ==
  ASSUME NEW w \in Workers, NEW i \in 1..Slots, NEW label \in SlotPCs, TypeOK,
         MoveSlot(w, i, label)
  PROVE  slot' \in [Workers -> [1..Slots -> SlotPCs]]
BY DEF MoveSlot, TypeOK

LEMMA ThrowsType ==
  ASSUME NEW w \in Workers, NEW i \in 1..Slots, NEW handler \in Handling, TypeOK,
         Throws(w, i, handler)
  PROVE  /\ slot' \in [Workers -> [1..Slots -> SlotPCs]]
         /\ pc' \in [Workers -> PCs]
<1>1. "done" \in SlotPCs /\ handler \in PCs
  BY DEF SlotPCs, PCs
<1> QED
  BY <1>1, MoveSlotType DEF Throws, TypeOK

LEMMA FaultType ==
  ASSUME NEW kind, TypeOK, Fault(kind)
  PROVE  faults' \in 0..MaxFaults
BY ExecutorAssumption DEF Fault, TypeOK

LEMMA ProcessGoneType ==
  ASSUME NEW w \in Workers, TypeOK, ProcessGone(w)
  PROVE  /\ pc' \in [Workers -> PCs]
         /\ seen' \in [Workers -> SUBSET Campaigns]
         /\ batch' \in [Workers -> Batches \union {NoBatch}]
         /\ todo' \in [Workers -> SUBSET Recipients]
         /\ slot' \in [Workers -> [1..Slots -> SlotPCs]]
         /\ item' \in [Workers -> [1..Slots -> Recipients \union {NoRecipient}]]
         /\ shutdown' \in [Workers -> BOOLEAN]
         /\ attempt' \in [Workers -> AttemptCodes]
BY DEF ProcessGone, Goto, TypeOK, PCs, SlotPCs, AttemptCodes

LEMMA LowestSubset ==
  ASSUME NEW S, NEW n
  PROVE  Lowest(S, n) \subseteq S
BY DEF Lowest

LEMMA MailsType ==
  ASSUME NEW r, TypeOK, mails' = [mails EXCEPT ![r] = @ + 1]
  PROVE  mails' \in [Recipients -> Nat]
<1>1. mails \in [Recipients -> Nat]
  BY DEF TypeOK
<1>2. mails' = [x \in Recipients |-> IF x = r THEN mails[x] + 1 ELSE mails[x]]
  BY <1>1
<1>3. \A x \in Recipients : mails[x] + 1 \in Nat
  BY <1>1
<1> QED
  BY <1>1, <1>2, <1>3

LEMMA FirstBatch ==
  ASSUME NEW c, NEW states, NEW b \in Lowest(BatchesIn(c, states), 1)
  PROVE  b \in Batches /\ CampaignOf[b] = c /\ batch_state[b] \in states
BY DEF Lowest, BatchesIn, BatchesOf

LEMMA InitTypeOK == Init => TypeOK
BY ExecutorAssumption
DEF Init, TablesInit, TypeOK, TablesTypeOK, RecipientStates, BatchStates, QueueStates,
    OpenQueueStates, RegistryStates, PCs, SlotPCs, AttemptCodes, NoBatch, NoRecipient

\* The actions of main() keep the types.
LEMMA MainStepTypeOK ==
  ASSUME TypeOK, NEW w \in Workers, MainStep(w)
  PROVE  TypeOK'
<1> USE DEF TypeOK, TablesTypeOK, tables, local
<1>1. CASE Spawn(w)
  BY <1>1, GotoType DEF Spawn, PCs, OutsideTry
<1>2. CASE RecoverStaleRunningBatches(w)
  BY <1>2, GotoType, SetBatchesType, SetRecipientsType, AnnotateAttemptsType
  DEF RecoverStaleRunningBatches, PCs, OutsideTry, BatchStates, RecipientStates, AttemptCodes
<1>3. CASE SelectDispatch(w)
  BY <1>3, GotoType DEF SelectDispatch, PCs, OutsideTry
<1>4. CASE ClaimNextQueuedBatch(w)
  <2>1. CASE \E c \in StillOpen(w) : ClaimBatch(w, c)
    <3>0. PICK c \in StillOpen(w) : ClaimBatch(w, c)
      BY <2>1
    <3>1. PICK b \in Lowest(BatchesIn(c, {"queued"}), 1) :
            /\ SetBatches({b}, "running")
            /\ SetQueue({c}, "running")
            /\ batch' = [batch EXCEPT ![w] = b]
            /\ Goto(w, "loading")
            /\ UNCHANGED <<recipient_state, direct_dispatch_state>>
      BY <3>0 DEF ClaimBatch
    <3>2. batch' \in [Workers -> Batches \union {NoBatch}]
      BY <3>1, FirstBatch
    <3>3. /\ batch_state' \in [Batches -> BatchStates]
          /\ batch_idle' \in [Batches -> BOOLEAN]
      BY <3>1, SetBatchesType DEF BatchStates
    <3>4. queue_state' \in [Campaigns -> QueueStates]
      BY <3>1, SetQueueType DEF QueueStates, OpenQueueStates
    <3>5. pc' \in [Workers -> PCs]
      BY <3>1, GotoType DEF PCs, OutsideTry
    <3> QED
      BY <1>4, <3>1, <3>2, <3>3, <3>4, <3>5 DEF ClaimNextQueuedBatch
  <2>2. CASE \E c \in StillOpen(w) : ReconcileDispatchWithoutQueuedBatch(w, c)
    BY <1>4, <2>2, GotoType, SetQueueType, SetRegistryType
    DEF ClaimNextQueuedBatch, ReconcileDispatchWithoutQueuedBatch, PCs, QueueStates, RegistryStates
  <2>3. CASE StillOpen(w) = {}
    BY <1>4, <2>3, GotoType DEF ClaimNextQueuedBatch, PCs
  <2> QED
    BY <1>4, <2>1, <2>2, <2>3 DEF ClaimNextQueuedBatch
<1>5. CASE LoadBatchByCampaign(w)
  <2>1. batch' \in [Workers -> Batches \union {NoBatch}]
    BY <1>5, FirstBatch DEF LoadBatchByCampaign
  <2>2. pc' \in [Workers -> PCs]
    BY <1>5, GotoType DEF LoadBatchByCampaign, PCs, OutsideTry
  <2> QED
    BY <1>5, <2>1, <2>2 DEF LoadBatchByCampaign
<1>6. CASE LoadRecipients(w)
  <2>1. Lowest(Sendable(batch[w]), MaxRecipientsPerRun) \subseteq Recipients
    BY LowestSubset DEF Sendable, RecipientsIn, RecipientsOf
  <2> QED
    BY <1>6, <2>1, GotoType DEF LoadRecipients, PCs, OutsideTry
<1>7. CASE FailBatchAndDispatch(w)
  BY <1>7, GotoType, SetBatchesType, SetQueueType, SetRegistryType, SetAttemptType
  DEF FailBatchAndDispatch, PCs, BatchStates, QueueStates, RegistryStates, AttemptCodes
<1>8. CASE MarkRegistryRunning(w)
  BY <1>8, GotoType, SetRegistryType DEF MarkRegistryRunning, PCs, OutsideTry, RegistryStates
<1>9. CASE MarkQueueRunning(w)
  BY <1>9, GotoType, SetQueueType
  DEF MarkQueueRunning, PCs, OutsideTry, QueueStates, OpenQueueStates
<1>10. CASE ExecuteDryRun(w)
  BY <1>10, GotoType, SetBatchesType, SetRecipientsType
  DEF ExecuteDryRun, PCs, OutsideTry, BatchStates, RecipientStates
<1>11. CASE InsertDryRunAttempt(w)
  BY <1>11, GotoType, SetAttemptType DEF InsertDryRunAttempt, PCs, Closing, AttemptCodes
<1>12. CASE StartBatch(w)
  BY <1>12, GotoType, SetBatchesType DEF StartBatch, PCs, OutsideTry, BatchStates
<1>13. CASE InsertAttempt(w)
  <2>1. slot' \in [Workers -> [1..Slots -> SlotPCs]]
    <3> DEFINE loops == [i \in 1..Slots |->
                           IF i <= Cardinality(todo[w]) THEN "top" ELSE "done"]
    <3>1. loops \in [1..Slots -> SlotPCs]
      BY DEF SlotPCs
    <3>2. slot' = slot \/ slot' = [slot EXCEPT ![w] = loops]
      BY <1>13 DEF InsertAttempt
    <3> HIDE DEF loops
    <3> QED
      BY <3>1, <3>2
  <2>2. pc' \in [Workers -> PCs]
    BY <1>13, GotoType DEF InsertAttempt, PCs, Handling
  <2> QED
    BY <1>13, <2>1, <2>2, SetAttemptType DEF InsertAttempt, AttemptCodes
<1>14. CASE CountRemaining(w)
  BY <1>14, GotoType DEF CountRemaining, PCs, Finishing
<1>15. CASE FinishBatchOrRequeue(w)
  BY <1>15, GotoType, SetBatchesType DEF FinishBatchOrRequeue, PCs, Reporting, BatchStates
<1>16. CASE ReportAttempt(w)
  <2>1. Reports[pc[w]] \in AttemptCodes
    BY <1>16 DEF ReportAttempt, Reports, AttemptCodes
  <2> QED
    BY <1>16, <2>1, GotoType, SetAttemptType DEF ReportAttempt, PCs, Closing
<1>17. CASE RequeueBatchForShutdown(w)
  BY <1>17, GotoType, SetBatchesType, SetRecipientsType
  DEF RequeueBatchForShutdown, PCs, Handling, BatchStates, RecipientStates
<1>18. CASE RecoverBatchAfterControlPlaneError(w)
  BY <1>18, GotoType, SetBatchesType, SetRecipientsType
  DEF RecoverBatchAfterControlPlaneError, PCs, Handling, BatchStates, RecipientStates
<1>19. CASE FailBatch(w)
  BY <1>19, GotoType, SetBatchesType, SetRecipientsType
  DEF FailBatch, PCs, Handling, BatchStates, RecipientStates
<1>20. CASE CountOpenBatches(w)
  BY <1>20, GotoType DEF CountOpenBatches, PCs, Closing
<1>21. CASE CloseQueue(w)
  BY <1>21, GotoType, SetQueueType DEF CloseQueue, PCs, Closing, QueueStates
<1>22. CASE CloseRegistry(w)
  BY <1>22, GotoType, SetRegistryType DEF CloseRegistry, PCs, RegistryStates
<1>23. CASE Exit(w)
  BY <1>23, ProcessGoneType DEF Exit
<1> QED
  BY <1>1, <1>2, <1>3, <1>4, <1>5, <1>6, <1>7, <1>8, <1>9, <1>10, <1>11, <1>12, <1>13,
     <1>14, <1>15, <1>16, <1>17, <1>18, <1>19, <1>20, <1>21, <1>22, <1>23 DEF MainStep

\* The send loops keep the types.
LEMMA SlotStepTypeOK ==
  ASSUME TypeOK, NEW w \in Workers, NEW i \in 1..Slots, SlotStep(w, i)
  PROVE  TypeOK'
<1> USE DEF TypeOK, TablesTypeOK, tables
<1>1. CASE PickRecipient(w, i)
  <2>1. Lowest(todo[w], 1) \subseteq Recipients
    BY LowestSubset
  <2>2. CASE UNCHANGED <<todo, item>>
    <3>1. /\ slot' \in [Workers -> [1..Slots -> SlotPCs]]
          /\ pc' \in [Workers -> PCs]
      BY <1>1, <2>1, <2>2, MoveSlotType, ThrowsType
      DEF PickRecipient, Take, SlotPCs, Handling
    <3> QED
      BY <1>1, <2>2, <3>1 DEF PickRecipient
  <2>3. CASE ~UNCHANGED <<todo, item>>
    <3>1. PICK r \in Lowest(todo[w], 1) :
            /\ Take(w, r)
            /\ item' = [item EXCEPT ![w][i] = r]
            /\ MoveSlot(w, i, "marking")
            /\ UNCHANGED pc
      BY <1>1, <2>3 DEF PickRecipient
    <3>2. slot' \in [Workers -> [1..Slots -> SlotPCs]]
      BY <3>1, MoveSlotType DEF SlotPCs
    <3>3. item' \in [Workers -> [1..Slots -> Recipients \union {NoRecipient}]]
      BY <2>1, <3>1
    <3>4. todo' \in [Workers -> SUBSET Recipients]
      BY <3>1 DEF Take
    <3> QED
      BY <1>1, <3>1, <3>2, <3>3, <3>4 DEF PickRecipient
  <2> QED
    BY <2>2, <2>3
<1>2. CASE MarkSending(w, i)
  BY <1>2, MoveSlotType, SetRecipientsType DEF MarkSending, SlotPCs, RecipientStates
<1>3. CASE SendMail(w, i)
  BY <1>3, MoveSlotType, MailsType DEF SendMail, SlotPCs
<1>4. CASE MarkSent(w, i)
  BY <1>4, MoveSlotType, SetRecipientsType DEF MarkSent, SlotPCs, RecipientStates
<1>5. CASE RecordProgress(w, i)
  BY <1>5, MoveSlotType, SetAttemptType DEF RecordProgress, SlotPCs, AttemptCodes
<1>6. CASE SlotStatementRefused(w, i)
  BY <1>6, MoveSlotType DEF SlotStatementRefused, SlotPCs
<1> QED
  BY <1>1, <1>2, <1>3, <1>4, <1>5, <1>6 DEF SlotStep

\* Faults of a process keep the types.
LEMMA DisturbanceTypeOK ==
  ASSUME TypeOK, NEW w \in Workers, Disturbance(w)
  PROVE  TypeOK'
<1> USE DEF TypeOK, TablesTypeOK, tables, local
<1>1. CASE FinishFails(w)
  BY <1>1, GotoType, FaultType DEF FinishFails, PCs, Handling, Closing
<1>2. CASE Uncaught(w)
  BY <1>2, GotoType, FaultType DEF Uncaught, PCs
<1>3. CASE Crash(w)
  BY <1>3, ProcessGoneType, FaultType DEF Crash
<1>4. CASE RequestShutdown(w)
  BY <1>4, FaultType DEF RequestShutdown
<1>5. ASSUME NEW i \in 1..Slots, SendMailFails(w, i)
      PROVE  TypeOK'
  BY <1>5, ThrowsType, FaultType, MailsType DEF SendMailFails, Handling
<1>6. ASSUME NEW i \in 1..Slots, SlotStatementFails(w, i)
      PROVE  TypeOK'
  BY <1>6, ThrowsType, FaultType DEF SlotStatementFails, Handling
<1> QED
  BY <1>1, <1>2, <1>3, <1>4, <1>5, <1>6 DEF Disturbance

LEMMA NextTypeOK == TypeOK /\ [Next]_vars => TypeOK'
<1> SUFFICES ASSUME TypeOK, [Next]_vars
             PROVE  TypeOK'
  OBVIOUS
<1>1. CASE RecoverOrphanedRunningBatches
  BY <1>1, SetBatchesType, SetQueueType, AnnotateAttemptsType
  DEF RecoverOrphanedRunningBatches, TypeOK, TablesTypeOK, BatchStates, QueueStates,
      OpenQueueStates, AttemptCodes
<1>2. ASSUME NEW b \in Batches, BatchGoesIdle(b)
      PROVE  TypeOK'
  BY <1>2, FaultType DEF BatchGoesIdle, TypeOK, TablesTypeOK, local
<1>3. ASSUME NEW b \in Batches, OperatorReset(b)
      PROVE  TypeOK'
  BY <1>3, FaultType, SetBatchesType, SetRecipientsType
  DEF OperatorReset, TypeOK, TablesTypeOK, local, BatchStates, RecipientStates
<1>4. CASE UNCHANGED vars
  BY <1>4 DEF vars, tables, local, TypeOK, TablesTypeOK
<1> QED
  BY <1>1, <1>2, <1>3, <1>4, MainStepTypeOK, SlotStepTypeOK, DisturbanceTypeOK DEF Next

\* Whatever happens, every column keeps a value that its CHECK admits and every
\* variable of a process the values main() gives it.
THEOREM TypeCorrect == Spec => []TypeOK
BY InitTypeOK, NextTypeOK, PTL DEF Spec

-----------------------------------------------------------------------------
(* SentWasMailed, by the inductive invariant MailedInv.                    *)

Holding == {"marking", "sending", "marking_sent"}

\* No mail, nothing newly reported sent, no loop that newly holds a recipient.
MailsFrame ==
  /\ mails' = mails
  /\ \A r \in Recipients : recipient_state'[r] = "sent" => recipient_state[r] = "sent"
  /\ \A v \in Workers : \A i \in 1..Slots :
       slot'[v][i] \in Holding => slot'[v][i] = slot[v][i] /\ item'[v][i] = item[v][i]

LEMMA FramePreservesMailedInv ==
  ASSUME MailedInv, MailsFrame
  PROVE  MailedInv'
BY DEF MailedInv, MailsFrame, SentWasMailed, Holding

LEMMA SetRecipientsFrame ==
  ASSUME NEW rs, NEW state, state # "sent", SetRecipients(rs, state)
  PROVE  \A r \in Recipients : recipient_state'[r] = "sent" => recipient_state[r] = "sent"
BY DEF SetRecipients

LEMMA ProcessGoneFrame ==
  ASSUME NEW w \in Workers, TypeOK, ProcessGone(w)
  PROVE  \A v \in Workers : \A i \in 1..Slots :
           slot'[v][i] \in Holding => slot'[v][i] = slot[v][i] /\ item'[v][i] = item[v][i]
BY DEF ProcessGone, TypeOK, Holding

LEMMA MoveSlotFrame ==
  ASSUME NEW w \in Workers, NEW j \in 1..Slots, NEW label, label \notin Holding, TypeOK,
         MoveSlot(w, j, label), item' = item
  PROVE  \A v \in Workers : \A i \in 1..Slots :
           slot'[v][i] \in Holding => slot'[v][i] = slot[v][i] /\ item'[v][i] = item[v][i]
BY DEF MoveSlot, TypeOK

LEMMA MainStepFrame ==
  ASSUME TypeOK, NEW w \in Workers, MainStep(w)
  PROVE  MailsFrame
<1> USE DEF tables, local, MailsFrame
<1>1. CASE \/ Spawn(w) \/ SelectDispatch(w) \/ ClaimNextQueuedBatch(w)
           \/ LoadBatchByCampaign(w) \/ LoadRecipients(w) \/ FailBatchAndDispatch(w)
           \/ MarkRegistryRunning(w) \/ MarkQueueRunning(w) \/ InsertDryRunAttempt(w)
           \/ StartBatch(w) \/ CountRemaining(w) \/ FinishBatchOrRequeue(w)
           \/ ReportAttempt(w) \/ CountOpenBatches(w) \/ CloseQueue(w) \/ CloseRegistry(w)
  <2>1. UNCHANGED <<recipient_state, slot, item, mails>>
    BY <1>1
    DEF Spawn, SelectDispatch, ClaimNextQueuedBatch, ClaimBatch,
        ReconcileDispatchWithoutQueuedBatch, LoadBatchByCampaign, LoadRecipients,
        FailBatchAndDispatch, MarkRegistryRunning, MarkQueueRunning, InsertDryRunAttempt,
        StartBatch, CountRemaining, FinishBatchOrRequeue, ReportAttempt, CountOpenBatches,
        CloseQueue, CloseRegistry
  <2> QED
    BY <2>1
<1>2. CASE \/ RecoverStaleRunningBatches(w) \/ ExecuteDryRun(w)
           \/ RequeueBatchForShutdown(w) \/ RecoverBatchAfterControlPlaneError(w)
           \/ FailBatch(w)
  <2>1. UNCHANGED <<slot, item, mails>>
    BY <1>2
    DEF RecoverStaleRunningBatches, ExecuteDryRun, RequeueBatchForShutdown,
        RecoverBatchAfterControlPlaneError, FailBatch
  <2>2. \/ recipient_state' = recipient_state
        \/ \E rs : \E state \in {"batched", "dry_run_sent", "failed"} : SetRecipients(rs, state)
    BY <1>2
    DEF RecoverStaleRunningBatches, ExecuteDryRun, RequeueBatchForShutdown,
        RecoverBatchAfterControlPlaneError, FailBatch
  <2> QED
    BY <2>1, <2>2, SetRecipientsFrame
<1>3. CASE InsertAttempt(w)
  <2>1. UNCHANGED <<recipient_state, item, mails>>
    BY <1>3 DEF InsertAttempt
  <2>2. \A v \in Workers : \A i \in 1..Slots :
          slot'[v][i] \in Holding => slot'[v][i] = slot[v][i]
    BY <1>3 DEF InsertAttempt, TypeOK, Holding
  <2> QED
    BY <2>1, <2>2
<1>4. CASE Exit(w)
  BY <1>4, ProcessGoneFrame DEF Exit
<1> QED
  BY <1>1, <1>2, <1>3, <1>4 DEF MainStep

LEMMA SlotStepMailedInv ==
  ASSUME TypeOK, MailedInv, NEW w \in Workers, NEW j \in 1..Slots, SlotStep(w, j)
  PROVE  MailedInv'
<1> USE DEF tables
<1>1. CASE PickRecipient(w, j)
  <2>1. CASE MoveSlot(w, j, "done") /\ UNCHANGED item
    BY <1>1, <2>1, MoveSlotFrame, FramePreservesMailedInv
    DEF PickRecipient, MailsFrame, Holding
  <2>2. CASE \E r \in Lowest(todo[w], 1) :
               item' = [item EXCEPT ![w][j] = r] /\ MoveSlot(w, j, "marking")
    <3>1. PICK r \in Lowest(todo[w], 1) :
            item' = [item EXCEPT ![w][j] = r] /\ MoveSlot(w, j, "marking")
      BY <2>2
    <3>2. r \in Recipients
      BY <3>1, LowestSubset DEF TypeOK
    <3>3. UNCHANGED <<recipient_state, mails>>
      BY <1>1 DEF PickRecipient
    <3>4. \A v \in Workers : \A i \in 1..Slots :
            /\ slot'[v][i] = IF v = w /\ i = j THEN "marking" ELSE slot[v][i]
            /\ item'[v][i] = IF v = w /\ i = j THEN r ELSE item[v][i]
      BY <3>1 DEF MoveSlot, TypeOK
    <3> QED
      BY <3>2, <3>3, <3>4 DEF MailedInv, SentWasMailed
  <2> QED
    BY <1>1, <2>1, <2>2 DEF PickRecipient, Throws
<1>2. CASE MarkSending(w, j)
  <2>1. \A r \in Recipients : recipient_state'[r] = "sent" => recipient_state[r] = "sent"
    BY <1>2, SetRecipientsFrame DEF MarkSending
  <2>2. UNCHANGED <<item, mails>>
    BY <1>2 DEF MarkSending
  <2>3. \A v \in Workers : \A i \in 1..Slots :
          slot'[v][i] = IF v = w /\ i = j THEN "sending" ELSE slot[v][i]
    BY <1>2 DEF MarkSending, MoveSlot, TypeOK
  <2>4. slot[w][j] = "marking"
    BY <1>2 DEF MarkSending
  <2> QED
    BY <2>1, <2>2, <2>3, <2>4 DEF MailedInv, SentWasMailed
<1>3. CASE SendMail(w, j)
  <2>1. item[w][j] \in Recipients
    BY <1>3 DEF SendMail, MailedInv
  <2>2. UNCHANGED <<recipient_state, item>>
    BY <1>3 DEF SendMail
  <2>3. \A r \in Recipients : mails'[r] \in Nat /\ mails'[r] >= mails[r]
    BY <1>3, <2>1 DEF SendMail, TypeOK
  <2>4. mails'[item[w][j]] > 0
    BY <1>3, <2>1 DEF SendMail, TypeOK
  <2>5. \A v \in Workers : \A i \in 1..Slots :
          slot'[v][i] \in Holding => slot'[v][i] = slot[v][i] \/ (v = w /\ i = j)
    BY <1>3 DEF SendMail, MoveSlot, TypeOK
  <2>6. \A r \in Recipients : mails[r] \in Nat
    BY DEF TypeOK
  <2> QED
    BY <2>1, <2>2, <2>3, <2>4, <2>5, <2>6 DEF MailedInv, SentWasMailed, Holding
<1>4. CASE MarkSent(w, j)
  <2>1. mails[item[w][j]] > 0
    BY <1>4 DEF MarkSent, MailedInv
  <2>2. UNCHANGED <<item, mails>>
    BY <1>4 DEF MarkSent
  <2>3. \A r \in Recipients : recipient_state'[r] = "sent" =>
          recipient_state[r] = "sent" \/ r = item[w][j]
    BY <1>4 DEF MarkSent, SetRecipients
  <2>4. MoveSlot(w, j, "done") \/ MoveSlot(w, j, "progress")
    BY <1>4 DEF MarkSent
  <2>5. \A v \in Workers : \A i \in 1..Slots :
          slot'[v][i] \in Holding => slot'[v][i] = slot[v][i] /\ item'[v][i] = item[v][i]
    BY <2>2, <2>4, MoveSlotFrame DEF Holding
  <2> QED
    BY <2>1, <2>2, <2>3, <2>5 DEF MailedInv, SentWasMailed, Holding
<1>5. CASE RecordProgress(w, j)
  BY <1>5, MoveSlotFrame, FramePreservesMailedInv DEF RecordProgress, MailsFrame, Holding
<1>6. CASE SlotStatementRefused(w, j)
  BY <1>6, MoveSlotFrame, FramePreservesMailedInv DEF SlotStatementRefused, MailsFrame, Holding
<1> QED
  BY <1>1, <1>2, <1>3, <1>4, <1>5, <1>6 DEF SlotStep

\* A send that fails may still have been accepted: the count only grows.
LEMMA SendMailFailsMailedInv ==
  ASSUME TypeOK, MailedInv, NEW w \in Workers, NEW j \in 1..Slots, SendMailFails(w, j)
  PROVE  MailedInv'
<1>1. item[w][j] \in Recipients
  BY DEF SendMailFails, MailedInv
<1>2. \A r \in Recipients : mails'[r] \in Nat /\ mails'[r] >= mails[r]
  BY <1>1 DEF SendMailFails, TypeOK
<1>3. MoveSlot(w, j, "done") /\ UNCHANGED <<recipient_state, item>>
  BY DEF SendMailFails, Throws, tables
<1>4. \A v \in Workers : \A i \in 1..Slots :
        slot'[v][i] \in Holding => slot'[v][i] = slot[v][i] /\ item'[v][i] = item[v][i]
  BY <1>3, MoveSlotFrame DEF Holding
<1>5. \A r \in Recipients : mails[r] \in Nat
  BY DEF TypeOK
<1> QED
  BY <1>2, <1>3, <1>4, <1>5 DEF MailedInv, SentWasMailed, Holding

LEMMA DisturbanceMailedInv ==
  ASSUME TypeOK, MailedInv, NEW w \in Workers, Disturbance(w)
  PROVE  MailedInv'
<1>1. CASE FinishFails(w) \/ Uncaught(w) \/ RequestShutdown(w)
  <2>1. UNCHANGED <<recipient_state, slot, item, mails>>
    BY <1>1 DEF FinishFails, Uncaught, RequestShutdown, tables, local
  <2> QED
    BY <2>1, FramePreservesMailedInv DEF MailsFrame
<1>2. CASE Crash(w)
  BY <1>2, ProcessGoneFrame, FramePreservesMailedInv DEF Crash, MailsFrame, tables
<1>3. ASSUME NEW j \in 1..Slots, SlotStatementFails(w, j)
      PROVE  MailedInv'
  BY <1>3, MoveSlotFrame, FramePreservesMailedInv
  DEF SlotStatementFails, Throws, MailsFrame, Holding, tables
<1> QED
  BY <1>1, <1>2, <1>3, SendMailFailsMailedInv DEF Disturbance

LEMMA NextMailedInv == TypeOK /\ MailedInv /\ [Next]_vars => MailedInv'
<1> SUFFICES ASSUME TypeOK, MailedInv, [Next]_vars
             PROVE  MailedInv'
  OBVIOUS
<1>1. CASE RecoverOrphanedRunningBatches
  BY <1>1, FramePreservesMailedInv DEF RecoverOrphanedRunningBatches, MailsFrame
<1>2. ASSUME NEW b \in Batches, BatchGoesIdle(b)
      PROVE  MailedInv'
  BY <1>2, FramePreservesMailedInv DEF BatchGoesIdle, MailsFrame, local
<1>3. ASSUME NEW b \in Batches, OperatorReset(b)
      PROVE  MailedInv'
  BY <1>3, FramePreservesMailedInv, SetRecipientsFrame DEF OperatorReset, MailsFrame, local
<1>4. CASE UNCHANGED vars
  BY <1>4, FramePreservesMailedInv DEF vars, tables, local, MailsFrame
<1> QED
  BY <1>1, <1>2, <1>3, <1>4, MainStepFrame, FramePreservesMailedInv, SlotStepMailedInv,
     DisturbanceMailedInv DEF Next

LEMMA AlwaysMailedInv == Spec => []MailedInv
<1>1. Init => MailedInv
  BY DEF Init, TablesInit, MailedInv, SentWasMailed
<1> QED
  BY <1>1, TypeCorrect, NextMailedInv, PTL DEF Spec

\* Whatever fails, however batches are recovered, reset or run twice at a time: who
\* is reported 'sent' has been mailed.
THEOREM ReportedSentWasMailed == Spec => []SentWasMailed
<1>1. MailedInv => SentWasMailed
  BY DEF MailedInv
<1> QED
  BY <1>1, AlwaysMailedInv, PTL

-----------------------------------------------------------------------------
(* OneOwnerPerBatch and OkAttemptCompletedBatch, by the inductive invariant  *)
(* ReportedInv, for executors in queue mode whose awaits take less than the *)
(* recovery timeout, whose final report does not fail and which nobody      *)
(* resets, or as long as nothing has happened to them.                      *)

Late == {"report", "stall", "operator_reset"}

Timely == Targeted = {} /\ FaultKinds \cap Late = {}

OnTime == Targeted = {} /\ (faults = 0 \/ FaultKinds \cap Late = {})

LEMMA FaultsGrow ==
  ASSUME TypeOK, [Next]_vars
  PROVE  faults \in Nat /\ faults' \in Nat /\ faults <= faults'
<1>1. faults \in Nat
  BY ExecutorAssumption DEF TypeOK
<1>2. ASSUME NEW w \in Workers, MainStep(w)
      PROVE  faults' = faults
  BY <1>2
  DEF MainStep, Spawn, RecoverStaleRunningBatches, SelectDispatch,
      ClaimNextQueuedBatch, LoadBatchByCampaign, LoadRecipients, FailBatchAndDispatch,
      MarkRegistryRunning, MarkQueueRunning, ExecuteDryRun, InsertDryRunAttempt,
      StartBatch, InsertAttempt, CountRemaining, FinishBatchOrRequeue, ReportAttempt,
      RequeueBatchForShutdown, RecoverBatchAfterControlPlaneError, FailBatch,
      CountOpenBatches, CloseQueue, CloseRegistry, Exit
<1>3. ASSUME NEW w \in Workers, NEW i \in 1..Slots, SlotStep(w, i)
      PROVE  faults' = faults
  BY <1>3 DEF SlotStep, PickRecipient, MarkSending, SendMail, MarkSent, RecordProgress,
              SlotStatementRefused
<1>4. ASSUME NEW w \in Workers, Disturbance(w)
      PROVE  faults' = faults + 1
  BY <1>4 DEF Disturbance, FinishFails, Uncaught, Crash, RequestShutdown, SendMailFails,
              SlotStatementFails, Fault
<1>5. ASSUME \/ RecoverOrphanedRunningBatches
             \/ \E b \in Batches : BatchGoesIdle(b) \/ OperatorReset(b)
      PROVE  faults' = faults \/ faults' = faults + 1
  BY <1>5 DEF RecoverOrphanedRunningBatches, BatchGoesIdle, OperatorReset, Fault
<1> QED
  BY <1>1, <1>2, <1>3, <1>4, <1>5 DEF Next, vars

LEMMA StillOnTime ==
  ASSUME TypeOK, [Next]_vars, OnTime'
  PROVE  OnTime
BY FaultsGrow DEF OnTime

LEMMA NoLateFault ==
  ASSUME TypeOK, OnTime', NEW kind \in Late, Fault(kind)
  PROVE  FALSE
<1>1. faults' # 0
  BY ExecutorAssumption DEF Fault, TypeOK
<1> QED
  BY <1>1 DEF OnTime, Fault

LEMMA OwningLabels ==
  /\ \A l \in Unclaimed \union Reporting \union Closing
              \union {"exiting", "dry_run_attempt", "shutdown_recipients", "report_shutdown",
                      "report_retry", "fail_recipients", "report_error"} : l \notin Owning
  /\ {"loading", "empty", "mark_registry", "mark_queue", "start", "insert_attempt", "dry_run",
       "sending", "shutdown_batch", "recover", "fail_batch", "finish_requeue",
       "finish_complete"} \subseteq Owning
BY DEF Owning, Unclaimed, Reporting, Closing, OutsideTry, Finishing

\* A step that writes no batch state and lets nobody into a batch.
LEMMA QuietStep ==
  ASSUME ReportedInv, UNCHANGED <<batch, batch_state>>,
         \A b \in Batches : batch_idle'[b] => batch_idle[b],
         \A v \in Workers :
           /\ pc'[v] \in Owning => pc[v] \in Owning
           /\ pc'[v] = "report_ok" \/ attempt'[v] = "ok" =>
                pc[v] = "report_ok" \/ attempt[v] = "ok"
           /\ pc'[v] \in Unclaimed => attempt'[v] = "none" /\ SlotsDone(v)'
  PROVE  ReportedInv'
BY DEF ReportedInv, OwnedInv, OneOwnerPerBatch, Owns

\* The same for a step of main() of w to label.
LEMMA QuietGoto ==
  ASSUME TypeOK, ReportedInv, NEW w \in Workers, NEW label, Goto(w, label),
         label \notin Unclaimed, label # "report_ok",
         label \in Owning => pc[w] \in Owning,
         UNCHANGED <<batch, batch_state, batch_idle>>,
         \A v \in Workers \ {w} : slot'[v] = slot[v] /\ attempt'[v] = attempt[v],
         attempt'[w] = "ok" => pc[w] = "report_ok" \/ attempt[w] = "ok"
  PROVE  ReportedInv'
<1>1. \A v \in Workers : pc'[v] = IF v = w THEN label ELSE pc[v]
  BY DEF Goto, TypeOK
<1>2. \A v \in Workers \ {w} : SlotsDone(v)' <=> SlotsDone(v)
  BY DEF SlotsDone
<1>3. \A v \in Workers : pc[v] \in Unclaimed => attempt[v] = "none" /\ SlotsDone(v)
  BY DEF ReportedInv
<1> QED
  BY <1>1, <1>2, <1>3, QuietStep

\* The owner of a batch writes its state and either keeps it running or lets go.
LEMMA OwnerWrites ==
  ASSUME TypeOK, ReportedInv, NEW w \in Workers, pc[w] \in Owning,
         NEW label, Goto(w, label), label \notin Unclaimed,
         NEW bs \in SUBSET {batch[w]}, NEW state, SetBatches(bs, state),
         label \in Owning => state = "running",
         label = "report_ok" => state = "completed" /\ bs = {batch[w]},
         UNCHANGED <<batch, slot>>,
         \A v \in Workers \ {w} : attempt'[v] = attempt[v],
         attempt'[w] # "ok" \/ attempt' = attempt
  PROVE  ReportedInv'
<1>1. \A v \in Workers : pc'[v] = IF v = w THEN label ELSE pc[v]
  BY DEF Goto, TypeOK
<1>2. /\ batch[w] \in Batches
      /\ batch_state[batch[w]] = "running"
      /\ ~batch_idle[batch[w]]
  BY DEF ReportedInv, OwnedInv, Owns
<1>3. \A b \in Batches :
        /\ b # batch[w] => batch_state'[b] = batch_state[b] /\ batch_idle'[b] = batch_idle[b]
        /\ b \in bs => batch_state'[b] = state
        /\ b \notin bs => batch_state'[b] = batch_state[b]
        /\ batch_idle'[b] => batch_idle[b]
  BY DEF SetBatches
<1>4. \A v \in Workers, b \in Batches : Owns(v, b)' => Owns(v, b)
  BY <1>1 DEF Owns
<1>5. \A v \in Workers, b \in Batches :
        Owns(v, b)' => batch_state'[b] = "running" /\ ~batch_idle'[b]
  <2> SUFFICES ASSUME NEW v \in Workers, NEW b \in Batches, Owns(v, b)'
               PROVE  batch_state'[b] = "running" /\ ~batch_idle'[b]
    OBVIOUS
  <2>1. Owns(v, b) /\ batch_state[b] = "running" /\ ~batch_idle[b]
    BY <1>4 DEF ReportedInv, OwnedInv
  <2>2. CASE b # batch[w]
    BY <1>3, <2>1, <2>2
  <2>3. CASE b = batch[w]
    <3>1. v = w
      BY <2>1, <2>3 DEF ReportedInv, OwnedInv, OneOwnerPerBatch, Owns
    <3>2. label \in Owning
      BY <1>1, <3>1 DEF Owns
    <3> QED
      BY <1>2, <1>3, <2>1, <2>3, <3>2
  <2> QED
    BY <2>2, <2>3
<1>6. OwnedInv'
  BY <1>4, <1>5 DEF ReportedInv, OwnedInv, OneOwnerPerBatch
<1>7. \A v \in Workers : SlotsDone(v)' <=> SlotsDone(v)
  BY DEF SlotsDone
<1>8. \A v \in Workers :
        pc'[v] = "report_ok" \/ attempt'[v] = "ok" =>
          batch'[v] \in Batches /\ batch_state'[batch'[v]] = "completed"
  <2> SUFFICES ASSUME NEW v \in Workers, pc'[v] = "report_ok" \/ attempt'[v] = "ok"
               PROVE  batch[v] \in Batches /\ batch_state'[batch[v]] = "completed"
    OBVIOUS
  <2>1. CASE v = w /\ label = "report_ok"
    BY <1>2, <1>3, <2>1
  <2>2. CASE ~(v = w /\ label = "report_ok")
    <3>1. pc[v] = "report_ok" \/ attempt[v] = "ok"
      BY <1>1, <2>2
    <3>2. batch[v] \in Batches /\ batch_state[batch[v]] = "completed"
      BY <3>1 DEF ReportedInv
    <3> QED
      BY <1>2, <1>3, <3>2
  <2> QED
    BY <2>1, <2>2
<1> QED
  BY <1>1, <1>6, <1>7, <1>8 DEF ReportedInv

\* The stale and the orphan recovery requeue batches that have no owner.
LEMMA RecoveryStep ==
  ASSUME TypeOK, ReportedInv, NEW bs \in SUBSET StaleBatches, SetBatches(bs, "queued"),
         NEW code, code # "ok", AnnotateAttempts(bs, code), UNCHANGED <<batch, slot>>,
         \A v \in Workers :
           /\ pc'[v] \in Owning \union {"report_ok"} => pc'[v] = pc[v]
           /\ pc'[v] \in Unclaimed => pc[v] \in Unclaimed
  PROVE  ReportedInv'
<1>1. \A b \in Batches :
        /\ batch_state'[b] = IF b \in bs THEN "queued" ELSE batch_state[b]
        /\ batch_idle'[b] => batch_idle[b]
        /\ b \in bs => batch_state[b] = "running" /\ batch_idle[b]
  BY DEF SetBatches, StaleBatches
<1>2. \A v \in Workers :
        /\ attempt'[v] = "ok" => attempt[v] = "ok"
        /\ attempt[v] = "none" => attempt'[v] = "none"
        /\ SlotsDone(v)' <=> SlotsDone(v)
  BY DEF AnnotateAttempts, SlotsDone
<1>3. \A v \in Workers, b \in Batches : Owns(v, b)' => Owns(v, b) /\ b \notin bs
  BY <1>1 DEF Owns, ReportedInv, OwnedInv
<1>4. OwnedInv'
  BY <1>1, <1>3 DEF ReportedInv, OwnedInv, OneOwnerPerBatch
<1>5. \A v \in Workers :
        pc'[v] = "report_ok" \/ attempt'[v] = "ok" =>
          batch'[v] \in Batches /\ batch_state'[batch'[v]] = "completed"
  BY <1>1, <1>2 DEF ReportedInv
<1>6. \A v \in Workers : pc'[v] \in Owning => batch'[v] \in Batches
  BY DEF ReportedInv
<1>7. \A v \in Workers : pc'[v] \in Unclaimed => attempt'[v] = "none" /\ SlotsDone(v)'
  BY <1>2 DEF ReportedInv
<1> QED
  BY <1>4, <1>5, <1>6, <1>7 DEF ReportedInv

\* A claim takes a queued batch, which has no owner.
LEMMA ClaimBatchReportedInv ==
  ASSUME TypeOK, ReportedInv, NEW w \in Workers, pc[w] = "locking", NEW c, ClaimBatch(w, c),
         UNCHANGED <<slot, attempt>>
  PROVE  ReportedInv'
<1>1. PICK b \in Lowest(BatchesIn(c, {"queued"}), 1) :
        /\ SetBatches({b}, "running")
        /\ batch' = [batch EXCEPT ![w] = b]
        /\ Goto(w, "loading")
  BY DEF ClaimBatch
<1>2. b \in Batches /\ batch_state[b] = "queued"
  BY <1>1, FirstBatch
<1>3. \A x \in Batches :
        /\ batch_state'[x] = IF x = b THEN "running" ELSE batch_state[x]
        /\ batch_idle'[x] = IF x = b THEN FALSE ELSE batch_idle[x]
  BY <1>1 DEF SetBatches
<1>4. \A v \in Workers :
        /\ pc'[v] = IF v = w THEN "loading" ELSE pc[v]
        /\ batch'[v] = IF v = w THEN b ELSE batch[v]
        /\ SlotsDone(v)' <=> SlotsDone(v)
  BY <1>1 DEF Goto, TypeOK, SlotsDone
<1>5. \A v \in Workers, x \in Batches : Owns(v, x)' <=> (v = w /\ x = b) \/ (v # w /\ Owns(v, x))
  BY <1>2, <1>4, OwningLabels DEF Owns
<1>6. \A v \in Workers : ~Owns(v, b)
  BY <1>2 DEF ReportedInv, OwnedInv
<1>7. OwnedInv'
  <2>1. OneOwnerPerBatch'
    <3> SUFFICES ASSUME NEW x \in Batches, NEW u \in Workers, NEW v \in Workers,
                        Owns(u, x)', Owns(v, x)'
                 PROVE  u = v
      BY DEF OneOwnerPerBatch
    <3>1. CASE x = b
      BY <1>5, <1>6, <3>1
    <3>2. CASE x # b
      BY <1>5, <3>2 DEF ReportedInv, OwnedInv, OneOwnerPerBatch
    <3> QED
      BY <3>1, <3>2
  <2>2. ASSUME NEW v \in Workers, NEW x \in Batches, Owns(v, x)'
        PROVE  batch_state'[x] = "running" /\ ~batch_idle'[x]
    <3>1. CASE x = b
      BY <1>3, <3>1
    <3>2. CASE x # b
      <4>1. Owns(v, x)
        BY <1>5, <2>2, <3>2
      <4>2. batch_state[x] = "running" /\ ~batch_idle[x]
        BY <4>1 DEF ReportedInv, OwnedInv
      <4> QED
        BY <1>3, <3>2, <4>2
    <3> QED
      BY <3>1, <3>2
  <2> QED
    BY <2>1, <2>2 DEF OwnedInv
<1>8. attempt[w] = "none"
  BY DEF ReportedInv, Unclaimed
<1>9. \A v \in Workers :
        pc'[v] = "report_ok" \/ attempt'[v] = "ok" =>
          batch'[v] \in Batches /\ batch_state'[batch'[v]] = "completed"
  BY <1>2, <1>3, <1>4, <1>8 DEF ReportedInv
<1>10. \A v \in Workers : pc'[v] \in Owning => batch'[v] \in Batches
  BY <1>2, <1>4 DEF ReportedInv
<1>11. \A v \in Workers : pc'[v] \in Unclaimed => attempt'[v] = "none" /\ SlotsDone(v)'
  BY <1>4 DEF ReportedInv, Unclaimed
<1> QED
  BY <1>7, <1>9, <1>10, <1>11 DEF ReportedInv

\* The end of a process.
LEMMA ProcessGoneReportedInv ==
  ASSUME TypeOK, ReportedInv, NEW w \in Workers, ProcessGone(w),
         UNCHANGED <<batch_state, batch_idle>>
  PROVE  ReportedInv'
<1>1. /\ pc'[w] = "off" /\ attempt'[w] = "none" /\ SlotsDone(w)'
      /\ \A v \in Workers \ {w} :
           /\ pc'[v] = pc[v] /\ batch'[v] = batch[v] /\ attempt'[v] = attempt[v]
           /\ SlotsDone(v)' <=> SlotsDone(v)
  BY DEF ProcessGone, Goto, TypeOK, SlotsDone
<1>2. "off" \notin Owning
  BY OwningLabels DEF Unclaimed
<1>3. \A v \in Workers, b \in Batches : Owns(v, b)' => Owns(v, b)
  BY <1>1, <1>2 DEF Owns
<1>4. OwnedInv'
  BY <1>3 DEF ReportedInv, OwnedInv, OneOwnerPerBatch
<1> QED
  BY <1>1, <1>2, <1>4 DEF ReportedInv

LEMMA MainStepReportedInv ==
  ASSUME Targeted = {}, TypeOK, ReportedInv, NEW w \in Workers, MainStep(w)
  PROVE  ReportedInv'
<1> USE DEF tables, local
<1>0. /\ \A v \in Workers : pc[v] \in Unclaimed => attempt[v] = "none" /\ SlotsDone(v)
      /\ attempt \in [Workers -> AttemptCodes]
      /\ pc \in [Workers -> PCs]
  BY DEF ReportedInv, TypeOK
<1>1. CASE Spawn(w) \/ SelectDispatch(w)
  <2>1. UNCHANGED <<batch, batch_state, batch_idle, attempt, slot>>
    BY <1>1 DEF Spawn, SelectDispatch
  <2>2. \A v \in Workers : SlotsDone(v)' <=> SlotsDone(v)
    BY <2>1 DEF SlotsDone
  <2>3. /\ \A v \in Workers \ {w} : pc'[v] = pc[v]
        /\ pc[w] \in Unclaimed /\ pc'[w] \in Unclaimed
    BY <1>0, <1>1 DEF Spawn, SelectDispatch, Goto, Unclaimed
  <2>4. \A v \in Workers :
          /\ pc'[v] \in Owning \union {"report_ok"} => pc'[v] = pc[v]
          /\ pc'[v] \in Unclaimed => pc[v] \in Unclaimed
    BY <2>3, OwningLabels DEF Unclaimed
  <2> QED
    BY <1>0, <2>1, <2>2, <2>4, QuietStep
<1>2. CASE RecoverStaleRunningBatches(w)
  <2>1. /\ \A v \in Workers \ {w} : pc'[v] = pc[v]
        /\ pc[w] = "starting" /\ pc'[w] = "claiming"
    BY <1>0, <1>2 DEF RecoverStaleRunningBatches, Goto
  <2>2. \A v \in Workers :
          /\ pc'[v] \in Owning \union {"report_ok"} => pc'[v] = pc[v]
          /\ pc'[v] \in Unclaimed => pc[v] \in Unclaimed
    BY <2>1, OwningLabels DEF Unclaimed
  <2> QED
    BY <1>2, <2>2, RecoveryStep DEF RecoverStaleRunningBatches
<1>3. CASE ClaimNextQueuedBatch(w)
  <2>1. CASE \E c \in StillOpen(w) : ClaimBatch(w, c)
    BY <1>3, <2>1, ClaimBatchReportedInv DEF ClaimNextQueuedBatch
  <2>2. CASE ~\E c \in StillOpen(w) : ClaimBatch(w, c)
    BY <1>3, <2>2, QuietGoto, OwningLabels, <1>0
    DEF ClaimNextQueuedBatch, ReconcileDispatchWithoutQueuedBatch, Unclaimed
  <2> QED
    BY <2>1, <2>2
<1>4. CASE LoadBatchByCampaign(w)
  BY <1>4 DEF LoadBatchByCampaign
<1>5. CASE LoadRecipients(w)
  BY <1>5, QuietGoto, OwningLabels DEF LoadRecipients, Unclaimed
<1>6. CASE MarkRegistryRunning(w)
  BY <1>6, QuietGoto, OwningLabels DEF MarkRegistryRunning, Unclaimed
<1>7. CASE MarkQueueRunning(w)
  BY <1>7, QuietGoto, OwningLabels DEF MarkQueueRunning, Unclaimed
<1>8. CASE InsertDryRunAttempt(w)
  BY <1>0, <1>8, QuietGoto, OwningLabels DEF InsertDryRunAttempt, SetAttempt, Unclaimed, Closing
<1>9. CASE InsertAttempt(w)
  <2>1. /\ \A v \in Workers \ {w} : slot'[v] = slot[v] /\ attempt'[v] = attempt[v]
        /\ attempt'[w] = "open"
    BY <1>0, <1>9 DEF InsertAttempt, SetAttempt, TypeOK
  <2>2. pc[w] \in Owning /\ UNCHANGED <<batch, batch_state, batch_idle>>
    BY <1>9, OwningLabels DEF InsertAttempt
  <2>3. Goto(w, "shutdown_batch") \/ Goto(w, "sending")
    BY <1>9 DEF InsertAttempt
  <2> QED
    BY <2>1, <2>2, <2>3, QuietGoto DEF Unclaimed
<1>10. CASE CountRemaining(w)
  BY <1>10, QuietGoto, OwningLabels DEF CountRemaining, Unclaimed
<1>11. CASE ReportAttempt(w)
  <2>1. Reports[pc[w]] = "ok" => pc[w] = "report_ok"
    BY <1>11 DEF ReportAttempt, Reports
  <2>2. /\ \A v \in Workers \ {w} : attempt'[v] = attempt[v]
        /\ attempt'[w] = Reports[pc[w]]
    BY <1>0, <1>11 DEF ReportAttempt, SetAttempt
  <2> QED
    BY <1>11, <2>1, <2>2, QuietGoto, OwningLabels DEF ReportAttempt, Unclaimed, Closing
<1>12. CASE CountOpenBatches(w)
  BY <1>12, QuietGoto, OwningLabels DEF CountOpenBatches, Unclaimed, Closing
<1>13. CASE CloseQueue(w)
  BY <1>13, QuietGoto, OwningLabels DEF CloseQueue, Unclaimed, Closing
<1>14. CASE CloseRegistry(w)
  BY <1>14, QuietGoto, OwningLabels DEF CloseRegistry, Unclaimed
<1>15. CASE FailBatchAndDispatch(w)
  <2>1. /\ \A v \in Workers \ {w} : attempt'[v] = attempt[v]
        /\ attempt'[w] = "empty"
    BY <1>0, <1>15 DEF FailBatchAndDispatch, SetAttempt
  <2> QED
    BY <1>15, <2>1, OwnerWrites, OwningLabels DEF FailBatchAndDispatch, Unclaimed
<1>16. CASE ExecuteDryRun(w)
  BY <1>16, OwnerWrites, OwningLabels DEF ExecuteDryRun, Unclaimed
<1>17. CASE StartBatch(w)
  BY <1>17, OwnerWrites, OwningLabels DEF StartBatch, Unclaimed
<1>18. CASE FinishBatchOrRequeue(w)
  BY <1>18, OwnerWrites, OwningLabels DEF FinishBatchOrRequeue, Unclaimed, Reporting
<1>19. CASE RequeueBatchForShutdown(w)
  <2>1. CASE pc[w] = "shutdown_batch"
    BY <1>19, <2>1, OwnerWrites, OwningLabels DEF RequeueBatchForShutdown, Unclaimed
  <2>2. CASE pc[w] # "shutdown_batch"
    BY <1>19, <2>2, QuietGoto, OwningLabels DEF RequeueBatchForShutdown, Unclaimed
  <2> QED
    BY <2>1, <2>2
<1>20. CASE RecoverBatchAfterControlPlaneError(w)
  BY <1>20, OwnerWrites, OwningLabels DEF RecoverBatchAfterControlPlaneError, Unclaimed
<1>21. CASE FailBatch(w)
  <2>1. CASE pc[w] = "fail_batch"
    BY <1>21, <2>1, OwnerWrites, OwningLabels DEF FailBatch, Unclaimed
  <2>2. CASE pc[w] # "fail_batch"
    BY <1>21, <2>2, QuietGoto, OwningLabels DEF FailBatch, Unclaimed
  <2> QED
    BY <2>1, <2>2
<1>22. CASE Exit(w)
  BY <1>22, ProcessGoneReportedInv DEF Exit
<1> QED
  BY <1>1, <1>2, <1>3, <1>4, <1>5, <1>6, <1>7, <1>8, <1>9, <1>10, <1>11, <1>12, <1>13,
     <1>14, <1>15, <1>16, <1>17, <1>18, <1>19, <1>20, <1>21, <1>22 DEF MainStep

LEMMA SlotStepReportedInv ==
  ASSUME TypeOK, ReportedInv, NEW w \in Workers, NEW j \in 1..Slots,
         SlotStep(w, j) \/ SendMailFails(w, j) \/ SlotStatementFails(w, j)
  PROVE  ReportedInv'
<1> USE DEF tables
<1>1. slot[w][j] # "done"
  BY DEF SlotStep, PickRecipient, MarkSending, SendMail, MarkSent, RecordProgress,
         SlotStatementRefused, SendMailFails, SlotStatementFails
<1>2. pc[w] \notin Unclaimed
  BY <1>1 DEF ReportedInv, SlotsDone
<1>3. UNCHANGED <<batch, batch_state>>
  BY DEF SlotStep, PickRecipient, MarkSending, SendMail, MarkSent, RecordProgress,
         SlotStatementRefused, SendMailFails, SlotStatementFails
<1>4. \A b \in Batches : batch_idle'[b] => batch_idle[b]
  <2>1. \/ batch_idle' = batch_idle
        \/ batch_idle' = [batch_idle EXCEPT ![batch[w]] = FALSE]
    BY DEF SlotStep, PickRecipient, MarkSending, SendMail, MarkSent, RecordProgress,
           SlotStatementRefused, SendMailFails, SlotStatementFails
  <2> QED
    BY <2>1 DEF TypeOK, TablesTypeOK
<1>5. /\ \A v \in Workers \ {w} : slot'[v] = slot[v]
      /\ \A v \in Workers \ {w} : attempt'[v] = attempt[v]
      /\ attempt'[w] = "ok" => attempt[w] = "ok"
  <2>1. \E label : MoveSlot(w, j, label)
    BY DEF SlotStep, PickRecipient, Throws, MarkSending, SendMail, MarkSent, RecordProgress,
           SlotStatementRefused, SendMailFails, SlotStatementFails
  <2>2. attempt' = attempt \/ SetAttempt(w, "open")
    BY DEF SlotStep, PickRecipient, MarkSending, SendMail, MarkSent, RecordProgress,
           SlotStatementRefused, SendMailFails, SlotStatementFails
  <2> QED
    BY <2>1, <2>2 DEF MoveSlot, SetAttempt, TypeOK
<1>6. \/ pc' = pc
      \/ /\ pc[w] = "sending"
         /\ \E handler \in {"shutdown_batch", "recover", "fail_batch"} :
              pc' = [pc EXCEPT ![w] = handler]
  BY DEF SlotStep, PickRecipient, Throws, MarkSending, SendMail, MarkSent, RecordProgress,
         SlotStatementRefused, SendMailFails, SlotStatementFails
<1>7. \A v \in Workers :
        /\ pc'[v] \in Owning => pc[v] \in Owning
        /\ pc'[v] = "report_ok" => pc[v] = "report_ok"
        /\ pc'[v] \in Unclaimed => pc[v] \in Unclaimed /\ v # w
  BY <1>2, <1>6, OwningLabels DEF TypeOK, Unclaimed
<1>8. \A v \in Workers \ {w} : SlotsDone(v)' <=> SlotsDone(v)
  BY <1>5 DEF SlotsDone
<1>9. \A v \in Workers : pc[v] \in Unclaimed => attempt[v] = "none" /\ SlotsDone(v)
  BY DEF ReportedInv
<1> QED
  BY <1>3, <1>4, <1>5, <1>7, <1>8, <1>9, QuietStep

LEMMA DisturbanceReportedInv ==
  ASSUME OnTime', TypeOK, ReportedInv, NEW w \in Workers, Disturbance(w)
  PROVE  ReportedInv'
<1> USE DEF tables, local
<1>1. CASE FinishFails(w)
  <2>1. ~Fault("report")
    BY NoLateFault DEF Late
  <2> QED
    BY <1>1, <2>1, QuietGoto, OwningLabels DEF FinishFails, Unclaimed, Closing, Finishing
<1>2. CASE Uncaught(w)
  BY <1>2, QuietGoto, OwningLabels DEF Uncaught, Unclaimed
<1>3. CASE Crash(w)
  BY <1>3, ProcessGoneReportedInv DEF Crash
<1>4. CASE RequestShutdown(w)
  <2>1. UNCHANGED <<batch, batch_state, batch_idle, pc, attempt, slot>>
    BY <1>4 DEF RequestShutdown
  <2>2. \A v \in Workers : SlotsDone(v)' <=> SlotsDone(v)
    BY <2>1 DEF SlotsDone
  <2>3. \A v \in Workers : pc[v] \in Unclaimed => attempt[v] = "none" /\ SlotsDone(v)
    BY DEF ReportedInv
  <2> QED
    BY <2>1, <2>2, <2>3, QuietStep
<1> QED
  BY <1>1, <1>2, <1>3, <1>4, SlotStepReportedInv DEF Disturbance

LEMMA NextReportedInv ==
  ASSUME TypeOK, ReportedInv, OnTime', [Next]_vars
  PROVE  ReportedInv'
<1>0. Targeted = {}
  BY DEF OnTime
<1>1. CASE RecoverOrphanedRunningBatches
  BY <1>1, RecoveryStep DEF RecoverOrphanedRunningBatches, Orphaned
<1>2. ASSUME NEW b \in Batches, BatchGoesIdle(b)
      PROVE  ReportedInv'
  <2>1. ~Attended(b)
    BY <1>2, NoLateFault DEF BatchGoesIdle, Late
  <2>2. \A v \in Workers : ~Owns(v, b)
    BY <2>1, OwningLabels DEF Owns, Attended, Unclaimed
  <2>3. /\ UNCHANGED <<batch_state, pc, batch, attempt, slot>>
        /\ \A x \in Batches \ {b} : batch_idle'[x] = batch_idle[x]
    BY <1>2 DEF BatchGoesIdle, local, TypeOK, TablesTypeOK
  <2>4. OwnedInv'
    BY <2>2, <2>3 DEF ReportedInv, OwnedInv, OneOwnerPerBatch, Owns
  <2>5. \A v \in Workers : SlotsDone(v)' <=> SlotsDone(v)
    BY <2>3 DEF SlotsDone
  <2> QED
    BY <2>3, <2>4, <2>5 DEF ReportedInv
<1>3. ASSUME NEW b \in Batches, OperatorReset(b)
      PROVE  ReportedInv'
  BY <1>3, NoLateFault DEF OperatorReset, Late
<1>4. CASE UNCHANGED vars
  BY <1>4 DEF vars, tables, local, ReportedInv, OwnedInv, OneOwnerPerBatch, Owns, SlotsDone
<1> QED
  BY <1>0, <1>1, <1>2, <1>3, <1>4, MainStepReportedInv, SlotStepReportedInv,
     DisturbanceReportedInv DEF Next

LEMMA InitReportedInv == Init => ReportedInv
<1> SUFFICES ASSUME Init
             PROVE  ReportedInv
  OBVIOUS
<1>1. \A w \in Workers : pc[w] = "off" /\ attempt[w] = "none" /\ SlotsDone(w)
  BY DEF Init, SlotsDone
<1>2. "off" \notin Owning
  BY OwningLabels DEF Unclaimed
<1> QED
  BY <1>1, <1>2 DEF ReportedInv, OwnedInv, OneOwnerPerBatch, Owns

LEMMA AlwaysReportedInv == Spec => [](OnTime => ReportedInv)
<1>1. Init => (OnTime => ReportedInv)
  BY InitReportedInv
<1>2. TypeOK /\ (OnTime => ReportedInv) /\ [Next]_vars => (OnTime => ReportedInv)'
  BY NextReportedInv, StillOnTime
<1> QED
  BY <1>1, <1>2, TypeCorrect, PTL DEF Spec

\* Claims are exclusive: however many executors run, crash, are shut down or lose
\* statements, no batch is executed by two of them at a time.
THEOREM ClaimsAreExclusive ==
  ASSUME Timely
  PROVE  Spec => []OneOwnerPerBatch
<1>1. OnTime
  BY DEF Timely, OnTime
<1>2. ReportedInv => OneOwnerPerBatch
  BY DEF ReportedInv, OwnedInv
<1> QED
  BY <1>1, <1>2, AlwaysReportedInv, PTL

\* An attempt reported as completed belongs to a batch that is, and stays, completed.
THEOREM ReportedOkIsCompleted ==
  ASSUME Timely
  PROVE  Spec => []OkAttemptCompletedBatch
<1>1. OnTime
  BY DEF Timely, OnTime
<1>2. ReportedInv => OkAttemptCompletedBatch
  BY DEF ReportedInv, OkAttemptCompletedBatch
<1> QED
  BY <1>1, <1>2, AlwaysReportedInv, PTL

-----------------------------------------------------------------------------
(* The stages of a batch and the verdicts of a dispatch.                   *)

Final == {"completed", "failed"}
Detached == Unclaimed \union {"exiting"}

BatchStages == \A b \in Batches : batch_state[b] \in {"queued", "running"} \union Final
BatchHeld == \A w \in Workers : pc[w] \notin Detached => batch[w] \in Batches

AllCompleted(c) == \A b \in BatchesOf(c) : batch_state[b] = "completed"
SomeFailed(c) == \E b \in BatchesOf(c) : batch_state[b] = "failed"

ClosingFailed == {"close_failed_queue", "close_failed_registry"}
ClosingCompleted == {"close_completed_queue", "close_completed_registry"}

\* What a process counted before it closes its dispatch is still so.
CountStands ==
  \A w \in Workers :
    /\ pc[w] \in ClosingFailed => SomeFailed(CampaignOf[batch[w]])
    /\ pc[w] \in ClosingCompleted => AllCompleted(CampaignOf[batch[w]])

\* A dispatch is closed as completed over completed batches only.
CompletedQueue ==
  \A c \in Campaigns :
    /\ queue_state[c] \in OpenQueueStates \union Final
    /\ queue_state[c] = "completed" => AllCompleted(c)

\* The queue is judged before the registry.
QueueFirst ==
  /\ \A c \in Campaigns : direct_dispatch_state[c] \in Final => queue_state[c] \in Final
  /\ \A w \in Workers :
       /\ pc[w] = "close_failed_registry" => queue_state[CampaignOf[batch[w]]] = "failed"
       /\ pc[w] = "close_completed_registry" =>
            queue_state[CampaignOf[batch[w]]] = "completed"

Verdicts == BatchStages /\ BatchHeld /\ CountStands /\ CompletedQueue /\ QueueFirst

\* A registry that disagrees with its queue is about to be written.
Registering(w, c) ==
  pc[w] \in {"close_failed_registry", "close_completed_registry"} /\ CampaignOf[batch[w]] = c
Registered ==
  \A c \in Campaigns : queue_state[c] \in Final =>
    direct_dispatch_state[c] = queue_state[c] \/ \E w \in Workers : Registering(w, c)

LEMMA OwnerRuns ==
  ASSUME ReportedInv, NEW w \in Workers, pc[w] \in Owning
  PROVE  /\ batch[w] \in Batches
         /\ batch_state[batch[w]] = "running"
         /\ ~batch_idle[batch[w]]
BY DEF ReportedInv, OwnedInv, Owns

\* A transaction that moves queued or running batches.
LEMMA StageWrite ==
  ASSUME BatchStages, NEW bs, \A b \in Batches \cap bs : batch_state[b] \notin Final,
         NEW state \in {"queued", "running"} \union Final, SetBatches(bs, state)
  PROVE  \A b \in Batches :
           /\ batch_state'[b] \in {"queued", "running"} \union Final
           /\ batch_state[b] \in Final => batch_state'[b] = batch_state[b]
BY DEF SetBatches, BatchStages

\* Batches keep to four states and stay completed or failed: only the owner of a
\* batch, a claim or a recovery writes it.
LEMMA StageStep ==
  ASSUME TypeOK, ReportedInv, BatchStages, OnTime', [Next]_vars
  PROVE  \A b \in Batches :
           /\ batch_state'[b] \in {"queued", "running"} \union Final
           /\ batch_state[b] \in Final => batch_state'[b] = batch_state[b]
<1> DEFINE Goal == \A b \in Batches :
                     /\ batch_state'[b] \in {"queued", "running"} \union Final
                     /\ batch_state[b] \in Final => batch_state'[b] = batch_state[b]
<1> SUFFICES Goal
  OBVIOUS
<1>1. ASSUME UNCHANGED batch_state
      PROVE  Goal
  BY <1>1 DEF BatchStages
<1>2. ASSUME NEW w \in Workers, pc[w] \in Owning, NEW bs \in SUBSET {batch[w]},
             NEW state \in {"queued", "running"} \union Final, SetBatches(bs, state)
      PROVE  Goal
  <2>1. batch_state[batch[w]] = "running"
    BY <1>2, OwnerRuns
  <2>2. \A b \in Batches \cap bs : batch_state[b] \notin Final
    BY <2>1 DEF Final
  <2> HIDE DEF Goal
  <2> QED
    BY <1>2, <2>2, StageWrite DEF Goal
<1> HIDE DEF Goal
<1>3. ASSUME NEW w \in Workers, MainStep(w)
      PROVE  Goal
  <2>1. CASE \/ Spawn(w) \/ SelectDispatch(w) \/ LoadBatchByCampaign(w) \/ LoadRecipients(w)
             \/ MarkRegistryRunning(w) \/ MarkQueueRunning(w) \/ InsertDryRunAttempt(w)
             \/ InsertAttempt(w) \/ CountRemaining(w) \/ ReportAttempt(w)
             \/ CountOpenBatches(w) \/ CloseQueue(w) \/ CloseRegistry(w) \/ Exit(w)
    BY <1>1, <2>1
    DEF Spawn, SelectDispatch, LoadBatchByCampaign, LoadRecipients, MarkRegistryRunning,
        MarkQueueRunning, InsertDryRunAttempt, InsertAttempt, CountRemaining, ReportAttempt,
        CountOpenBatches, CloseQueue, CloseRegistry, Exit, tables
  <2>2. CASE RecoverStaleRunningBatches(w)
    <3>1. \A b \in Batches \cap StaleBatches : batch_state[b] \notin Final
      BY DEF StaleBatches, Final
    <3> QED
      BY <2>2, <3>1, StageWrite DEF RecoverStaleRunningBatches, Goal
  <2>3. CASE ClaimNextQueuedBatch(w)
    <3>1. ASSUME NEW c, ClaimBatch(w, c)
          PROVE  Goal
      <4>1. PICK b \in Lowest(BatchesIn(c, {"queued"}), 1) : SetBatches({b}, "running")
        BY <3>1 DEF ClaimBatch
      <4>2. \A x \in Batches \cap {b} : batch_state[x] \notin Final
        BY FirstBatch DEF Final
      <4> QED
        BY <4>1, <4>2, StageWrite DEF Goal
    <3> QED
      BY <1>1, <2>3, <3>1 DEF ClaimNextQueuedBatch, ReconcileDispatchWithoutQueuedBatch, tables
  <2>4. CASE FailBatchAndDispatch(w)
    BY <1>2, <2>4, OwningLabels DEF FailBatchAndDispatch, Final
  <2>5. CASE ExecuteDryRun(w)
    BY <1>2, <2>5, OwningLabels DEF ExecuteDryRun, Final
  <2>6. CASE StartBatch(w)
    BY <1>2, <2>6, OwningLabels DEF StartBatch, Final
  <2>7. CASE FinishBatchOrRequeue(w)
    BY <1>2, <2>7, OwningLabels DEF FinishBatchOrRequeue, Final
  <2>8. CASE RequeueBatchForShutdown(w)
    BY <1>1, <1>2, <2>8, OwningLabels DEF RequeueBatchForShutdown, Final
  <2>9. CASE RecoverBatchAfterControlPlaneError(w)
    BY <1>2, <2>9, OwningLabels DEF RecoverBatchAfterControlPlaneError, Final
  <2>10. CASE FailBatch(w)
    BY <1>1, <1>2, <2>10, OwningLabels DEF FailBatch, Final
  <2> QED
    BY <1>3, <2>1, <2>2, <2>3, <2>4, <2>5, <2>6, <2>7, <2>8, <2>9, <2>10 DEF MainStep
<1>4. ASSUME NEW w \in Workers, NEW i \in 1..Slots,
             SlotStep(w, i) \/ SendMailFails(w, i) \/ SlotStatementFails(w, i)
      PROVE  Goal
  BY <1>1, <1>4
  DEF SlotStep, PickRecipient, MarkSending, SendMail, MarkSent, RecordProgress,
      SlotStatementRefused, SendMailFails, SlotStatementFails, tables
<1>5. ASSUME NEW w \in Workers,
             FinishFails(w) \/ Uncaught(w) \/ Crash(w) \/ RequestShutdown(w)
      PROVE  Goal
  BY <1>1, <1>5 DEF FinishFails, Uncaught, Crash, RequestShutdown, tables
<1>6. ASSUME RecoverOrphanedRunningBatches
      PROVE  Goal
  <2>1. \A b \in Batches \cap Orphaned : batch_state[b] \notin Final
    BY DEF Orphaned, StaleBatches, Final
  <2> QED
    BY <1>6, <2>1, StageWrite DEF RecoverOrphanedRunningBatches, Goal
<1>7. ASSUME NEW b \in Batches, BatchGoesIdle(b)
      PROVE  Goal
  BY <1>1, <1>7 DEF BatchGoesIdle
<1>8. ASSUME NEW b \in Batches, OperatorReset(b)
      PROVE  FALSE
  BY <1>8, NoLateFault DEF OperatorReset, Late
<1>9. CASE UNCHANGED vars
  BY <1>1, <1>9 DEF vars, tables
<1> QED
  BY <1>3, <1>4, <1>5, <1>6, <1>7, <1>8, <1>9 DEF Next, Disturbance

\* How main() of one process moves.
LEMMA PcStep ==
  ASSUME TypeOK, ReportedInv, Targeted = {}, [Next]_vars, NEW v \in Workers
  PROVE  \/ pc'[v] = pc[v] /\ batch'[v] = batch[v]
         \/ pc'[v] \in Detached
         \/ pc'[v] = "loading" /\ batch'[v] \in Batches
         \/ /\ pc[v] \notin Detached /\ batch'[v] = batch[v]
            /\ pc'[v] \notin ClosingFailed \union ClosingCompleted
         \/ CountOpenBatches(v)
         \/ CloseQueue(v)
<1> DEFINE Stays(w) == pc'[w] = pc[w] /\ batch'[w] = batch[w]
           Goes(w) == /\ pc[w] \notin Detached /\ batch'[w] = batch[w]
                      /\ pc'[w] \notin ClosingFailed \union ClosingCompleted
           Goal == \/ Stays(v) \/ pc'[v] \in Detached
                   \/ pc'[v] = "loading" /\ batch'[v] \in Batches
                   \/ Goes(v) \/ CountOpenBatches(v) \/ CloseQueue(v)
<1> USE DEF local
<1>1. ASSUME NEW w \in Workers, NEW label, Goto(w, label), UNCHANGED batch
      PROVE  pc'[w] = label /\ batch'[w] = batch[w] /\ (v # w => Stays(v))
  BY <1>1 DEF Goto, TypeOK
<1>2. ASSUME NEW w \in Workers, ProcessGone(w)
      PROVE  pc'[w] = "off" /\ (v # w => Stays(v))
  BY <1>2 DEF ProcessGone, Goto, TypeOK
<1>3. ASSUME NEW w \in Workers, MainStep(w)
      PROVE  Goal
  <2>1. CASE Spawn(w) \/ SelectDispatch(w) \/ RecoverStaleRunningBatches(w)
    BY <1>1, <2>1 DEF Spawn, SelectDispatch, RecoverStaleRunningBatches, Detached, Unclaimed
  <2>2. CASE ClaimNextQueuedBatch(w)
    <3>1. ASSUME NEW c, ClaimBatch(w, c)
          PROVE  Goal
      <4>1. PICK b \in Lowest(BatchesIn(c, {"queued"}), 1) :
              batch' = [batch EXCEPT ![w] = b] /\ Goto(w, "loading")
        BY <3>1 DEF ClaimBatch
      <4>2. b \in Batches
        BY <4>1, FirstBatch
      <4> QED
        BY <4>1, <4>2 DEF Goto, TypeOK
    <3> QED
      BY <1>1, <2>2, <3>1
      DEF ClaimNextQueuedBatch, ReconcileDispatchWithoutQueuedBatch, Detached
  <2>3. CASE LoadBatchByCampaign(w)
    BY <2>3 DEF LoadBatchByCampaign
  <2>4. CASE \/ LoadRecipients(w) \/ FailBatchAndDispatch(w)
             \/ MarkRegistryRunning(w) \/ MarkQueueRunning(w) \/ ExecuteDryRun(w)
             \/ InsertDryRunAttempt(w) \/ StartBatch(w) \/ InsertAttempt(w)
    BY <1>1, <2>4
    DEF LoadRecipients, FailBatchAndDispatch, MarkRegistryRunning, MarkQueueRunning,
        ExecuteDryRun, InsertDryRunAttempt, StartBatch, InsertAttempt, Detached, Unclaimed,
        ClosingFailed, ClosingCompleted
  <2>5. CASE \/ CountRemaining(w) \/ FinishBatchOrRequeue(w) \/ ReportAttempt(w)
             \/ RequeueBatchForShutdown(w) \/ RecoverBatchAfterControlPlaneError(w)
             \/ FailBatch(w)
    BY <1>1, <2>5
    DEF CountRemaining, FinishBatchOrRequeue, ReportAttempt, Reports,
        RequeueBatchForShutdown, RecoverBatchAfterControlPlaneError, FailBatch, Detached,
        Unclaimed, ClosingFailed, ClosingCompleted
  <2>6. CASE CountOpenBatches(w) \/ CloseQueue(w) \/ CloseRegistry(w)
    BY <1>1, <2>6 DEF CountOpenBatches, CloseQueue, CloseRegistry, Detached
  <2>7. CASE Exit(w)
    BY <1>2, <2>7 DEF Exit, Detached, Unclaimed
  <2> QED
    BY <1>3, <2>1, <2>2, <2>3, <2>4, <2>5, <2>6, <2>7 DEF MainStep
<1>4. ASSUME NEW w \in Workers, NEW i \in 1..Slots,
             SlotStep(w, i) \/ SendMailFails(w, i) \/ SlotStatementFails(w, i)
      PROVE  Goal
  <2>1. \/ UNCHANGED pc
        \/ /\ pc[w] = "sending"
           /\ \E handler \in Handling : Goto(w, handler)
    BY <1>4
    DEF SlotStep, PickRecipient, Throws, MarkSending, SendMail, MarkSent, RecordProgress,
        SlotStatementRefused, SendMailFails, SlotStatementFails, Goto, Handling
  <2>2. UNCHANGED batch
    BY <1>4
    DEF SlotStep, PickRecipient, MarkSending, SendMail, MarkSent, RecordProgress,
        SlotStatementRefused, SendMailFails, SlotStatementFails
  <2>3. ASSUME pc[w] = "sending", NEW handler \in Handling, Goto(w, handler)
        PROVE  Goal
    BY <1>1, <2>2, <2>3 DEF Detached, Unclaimed, Handling, ClosingFailed, ClosingCompleted
  <2> QED
    BY <2>1, <2>2, <2>3
<1>5. ASSUME NEW w \in Workers, Disturbance(w)
      PROVE  Goal
  <2>1. CASE FinishFails(w)
    BY <1>1, <2>1
    DEF FinishFails, Finishing, Reporting, Detached, Unclaimed, ClosingFailed,
        ClosingCompleted
  <2>2. CASE Uncaught(w)
    BY <1>1, <2>2 DEF Uncaught, Detached
  <2>3. CASE Crash(w)
    BY <1>2, <2>3 DEF Crash, Detached, Unclaimed
  <2>4. CASE RequestShutdown(w)
    BY <2>4 DEF RequestShutdown
  <2> QED
    BY <1>4, <1>5, <2>1, <2>2, <2>3, <2>4 DEF Disturbance
<1>6. CASE \/ RecoverOrphanedRunningBatches
           \/ \E b \in Batches : BatchGoesIdle(b) \/ OperatorReset(b)
           \/ UNCHANGED vars
  BY <1>6 DEF RecoverOrphanedRunningBatches, BatchGoesIdle, OperatorReset, vars
<1> QED
  BY <1>3, <1>4, <1>5, <1>6 DEF Next

\* The ways in which a step writes the queue row and the registry row of c.
Judged(c, q, g) == queue_state'[c] = q /\ direct_dispatch_state'[c] = g

Judging(c) ==
  \/ Judged(c, queue_state[c], direct_dispatch_state[c])
  \/ /\ queue_state[c] \in OpenQueueStates /\ queue_state'[c] \in OpenQueueStates
     /\ direct_dispatch_state'[c] = direct_dispatch_state[c]
  \/ direct_dispatch_state[c] \notin Final /\ Judged(c, queue_state[c], "running")
  \/ /\ queue_state[c] \in OpenQueueStates
     /\ Judged(c, "failed", IF direct_dispatch_state[c] = "completed" THEN "completed"
                                                                      ELSE "failed")
  \/ /\ queue_state[c] \in OpenQueueStates /\ AllCompleted(c)
     /\ Judged(c, "completed", IF direct_dispatch_state[c] = "failed" THEN "failed"
                                                                      ELSE "completed")
  \/ /\ \E b \in BatchesOf(c) : batch_state[b] = "running"
     /\ queue_state[c] \notin OpenQueueStates
     /\ Judged(c, queue_state[c], IF direct_dispatch_state[c] = "completed" THEN "completed"
                                                                            ELSE "failed")
  \/ \E w \in Workers :
       /\ CampaignOf[batch[w]] = c /\ batch'[w] = batch[w]
       /\ \/ /\ pc[w] = "close_failed_queue" /\ pc'[w] = "close_failed_registry"
             /\ Judged(c, "failed", direct_dispatch_state[c])
          \/ /\ pc[w] = "close_completed_queue" /\ pc'[w] = "close_completed_registry"
             /\ Judged(c, "completed", direct_dispatch_state[c])
          \/ /\ pc[w] = "close_failed_registry"
             /\ Judged(c, queue_state[c], "failed")
          \/ /\ pc[w] = "close_completed_registry"
             /\ Judged(c, queue_state[c], "completed")

LEMMA JudgingStep ==
  ASSUME TypeOK, ReportedInv, Verdicts, OnTime', [Next]_vars, NEW c \in Campaigns
  PROVE  Judging(c)
<1> USE DEF tables, local, TypeOK, TablesTypeOK, Judged
<1>1. ASSUME UNCHANGED <<queue_state, direct_dispatch_state>>
      PROVE  Judging(c)
  BY <1>1 DEF Judging
<1>2. ASSUME NEW w \in Workers, MainStep(w)
      PROVE  Judging(c)
  <2>1. CASE \/ Spawn(w) \/ SelectDispatch(w) \/ LoadRecipients(w) \/ LoadBatchByCampaign(w)
             \/ InsertDryRunAttempt(w) \/ InsertAttempt(w) \/ CountRemaining(w)
             \/ ReportAttempt(w) \/ CountOpenBatches(w) \/ Exit(w)
             \/ RecoverStaleRunningBatches(w) \/ ExecuteDryRun(w) \/ StartBatch(w)
             \/ FinishBatchOrRequeue(w) \/ RequeueBatchForShutdown(w)
             \/ RecoverBatchAfterControlPlaneError(w) \/ FailBatch(w)
    <3>1. UNCHANGED <<queue_state, direct_dispatch_state>>
      BY <2>1
      DEF Spawn, SelectDispatch, LoadRecipients, LoadBatchByCampaign, InsertDryRunAttempt,
          InsertAttempt, CountRemaining, ReportAttempt, CountOpenBatches, Exit,
          RecoverStaleRunningBatches, ExecuteDryRun, StartBatch, FinishBatchOrRequeue,
          RequeueBatchForShutdown, RecoverBatchAfterControlPlaneError, FailBatch
    <3> QED
      BY <1>1, <3>1
  <2>2. CASE ClaimNextQueuedBatch(w)
    <3>1. ASSUME NEW d \in StillOpen(w), ClaimBatch(w, d)
          PROVE  Judging(c)
      <4>1. queue_state[d] \in OpenQueueStates
        BY DEF StillOpen
      <4>2. SetQueue({d}, "running") /\ UNCHANGED direct_dispatch_state
        BY <3>1 DEF ClaimBatch
      <4> QED
        BY <4>1, <4>2 DEF SetQueue, Judging, OpenQueueStates
    <3>2. ASSUME NEW d \in StillOpen(w), ReconcileDispatchWithoutQueuedBatch(w, d)
          PROVE  Judging(c)
      <4>1. queue_state[d] \in OpenQueueStates
        BY DEF StillOpen
      <4>2. CASE UNCHANGED <<queue_state, direct_dispatch_state>>
        BY <1>1, <4>2
      <4>3. CASE /\ SetQueue({d}, "failed")
                 /\ SetRegistry({d} \cap {x \in Campaigns :
                                  direct_dispatch_state[x] # "completed"}, "failed")
        BY <4>1, <4>3 DEF SetQueue, SetRegistry, Judging
      <4>4. CASE /\ BatchesIn(d, {"queued"}) = {} /\ BatchesIn(d, {"reserved", "running"}) = {}
                 /\ BatchesIn(d, {"failed"}) = {}
                 /\ SetQueue({d}, "completed")
                 /\ SetRegistry({d} \cap {x \in Campaigns :
                                  direct_dispatch_state[x] # "failed"}, "completed")
        <5>1. AllCompleted(d)
          BY <4>4 DEF Verdicts, BatchStages, AllCompleted, BatchesIn, BatchesOf, Final
        <5> QED
          BY <4>1, <4>4, <5>1 DEF SetQueue, SetRegistry, Judging
      <4> QED
        BY <3>2, <4>2, <4>3, <4>4 DEF ReconcileDispatchWithoutQueuedBatch
    <3> QED
      BY <1>1, <2>2, <3>1, <3>2 DEF ClaimNextQueuedBatch
  <2>3. CASE FailBatchAndDispatch(w)
    <3>1. batch[w] \in Batches /\ batch_state[batch[w]] = "running"
      BY <2>3, OwnerRuns, OwningLabels DEF FailBatchAndDispatch
    <3>2. CampaignOf[batch[w]] = c => \E b \in BatchesOf(c) : batch_state[b] = "running"
      BY <3>1 DEF BatchesOf
    <3>3. /\ SetQueue({CampaignOf[batch[w]]} \cap
                        {d \in Campaigns : queue_state[d] \in OpenQueueStates}, "failed")
          /\ SetRegistry({CampaignOf[batch[w]]} \cap
                        {d \in Campaigns : direct_dispatch_state[d] # "completed"}, "failed")
      BY <2>3 DEF FailBatchAndDispatch
    <3> QED
      BY <3>2, <3>3 DEF SetQueue, SetRegistry, Judging
  <2>4. CASE MarkRegistryRunning(w)
    BY <2>4 DEF MarkRegistryRunning, SetRegistry, Judging, Final
  <2>5. CASE MarkQueueRunning(w)
    BY <2>5 DEF MarkQueueRunning, SetQueue, Judging, OpenQueueStates
  <2>6. CASE CloseQueue(w)
    <3>1. pc'[w] = IF pc[w] = "close_failed_queue" THEN "close_failed_registry"
                                                   ELSE "close_completed_registry"
      BY <2>6 DEF CloseQueue, Goto
    <3> QED
      BY <2>6, <3>1 DEF CloseQueue, SetQueue, Judging
  <2>7. CASE CloseRegistry(w)
    BY <2>7 DEF CloseRegistry, SetRegistry, Judging
  <2> QED
    BY <1>2, <2>1, <2>2, <2>3, <2>4, <2>5, <2>6, <2>7 DEF MainStep
<1>3. ASSUME NEW w \in Workers, NEW i \in 1..Slots,
             SlotStep(w, i) \/ SendMailFails(w, i) \/ SlotStatementFails(w, i)
      PROVE  Judging(c)
  <2>1. UNCHANGED <<queue_state, direct_dispatch_state>>
    BY <1>3
    DEF SlotStep, PickRecipient, MarkSending, SendMail, MarkSent, RecordProgress,
        SlotStatementRefused, SendMailFails, SlotStatementFails
  <2> QED
    BY <1>1, <2>1
<1>4. ASSUME NEW w \in Workers,
             FinishFails(w) \/ Uncaught(w) \/ Crash(w) \/ RequestShutdown(w)
      PROVE  Judging(c)
  BY <1>1, <1>4 DEF FinishFails, Uncaught, Crash, RequestShutdown
<1>5. CASE RecoverOrphanedRunningBatches
  BY <1>5 DEF RecoverOrphanedRunningBatches, SetQueue, Judging, OpenQueueStates
<1>6. CASE \/ \E b \in Batches : BatchGoesIdle(b) \/ OperatorReset(b)
           \/ UNCHANGED vars
  BY <1>1, <1>6 DEF BatchGoesIdle, OperatorReset, vars
<1> QED
  BY <1>2, <1>3, <1>4, <1>5, <1>6 DEF Next, Disturbance

LEMMA InitVerdicts ==
  ASSUME Init
  PROVE  Verdicts
<1>1. BatchStages /\ CompletedQueue
  BY DEF Init, TablesInit, BatchStages, CompletedQueue, OpenQueueStates
<1>2. BatchHeld /\ CountStands
  BY DEF Init, BatchHeld, CountStands, Detached, Unclaimed, ClosingFailed, ClosingCompleted
<1>3. QueueFirst
  BY DEF Init, TablesInit, QueueFirst, Final
<1> QED
  BY <1>1, <1>2, <1>3 DEF Verdicts

LEMMA VerdictsStep ==
  ASSUME TypeOK, ReportedInv, Verdicts, OnTime', [Next]_vars
  PROVE  Verdicts'
<1>0. Targeted = {}
  BY DEF OnTime
<1>1. BatchStages /\ BatchHeld /\ CountStands /\ CompletedQueue /\ QueueFirst
  BY DEF Verdicts
<1>2. \A b \in Batches :
        /\ batch_state'[b] \in {"queued", "running"} \union Final
        /\ batch_state[b] \in Final => batch_state'[b] = batch_state[b]
  BY <1>1, StageStep
<1>3. BatchStages'
  BY <1>2 DEF BatchStages
<1>4. BatchHeld'
  BY <1>0, <1>1, PcStep
  DEF BatchHeld, CountOpenBatches, CloseQueue, local, Detached, Unclaimed
<1>5. \A c : /\ AllCompleted(c) => AllCompleted(c)'
             /\ SomeFailed(c) => SomeFailed(c)'
  BY <1>2 DEF AllCompleted, SomeFailed, BatchesOf, Final
<1>6. \A c : ~(AllCompleted(c) /\ SomeFailed(c))
  BY DEF AllCompleted, SomeFailed
<1>7. CountStands'
  <2>1. ASSUME NEW v \in Workers
        PROVE  /\ pc'[v] \in ClosingFailed => SomeFailed(CampaignOf[batch[v]])'
               /\ pc'[v] \in ClosingCompleted => AllCompleted(CampaignOf[batch[v]])'
    <3>1. CASE pc'[v] = pc[v] /\ batch'[v] = batch[v]
      BY <1>1, <1>5, <3>1 DEF CountStands, AllCompleted, SomeFailed
    <3>2. CASE pc'[v] \notin ClosingFailed \union ClosingCompleted
      BY <3>2
    <3>3. CASE CountOpenBatches(v)
      <4>1. batch[v] \in Batches /\ batch'[v] = batch[v] /\ batch_state' = batch_state
        BY <1>1, <3>3
        DEF CountOpenBatches, BatchHeld, Detached, Unclaimed, tables, local
      <4>2. pc'[v] = IF BatchesIn(CampaignOf[batch[v]], {"queued", "reserved", "running"}) # {}
                       THEN "exiting"
                     ELSE IF BatchesIn(CampaignOf[batch[v]], {"failed"}) # {}
                       THEN "close_failed_queue" ELSE "close_completed_queue"
        BY <3>3 DEF CountOpenBatches, Goto, TypeOK
      <4>3. pc'[v] \in ClosingFailed => SomeFailed(CampaignOf[batch[v]])
        BY <4>2 DEF ClosingFailed, SomeFailed, BatchesIn
      <4>4. pc'[v] \in ClosingCompleted => AllCompleted(CampaignOf[batch[v]])
        BY <1>1, <4>2
        DEF ClosingCompleted, AllCompleted, BatchesIn, BatchesOf, BatchStages, Final
      <4> QED
        BY <1>5, <4>1, <4>3, <4>4 DEF AllCompleted, SomeFailed
    <3>4. CASE CloseQueue(v)
      <4>1. /\ \/ pc[v] = "close_failed_queue" /\ pc'[v] = "close_failed_registry"
               \/ pc[v] = "close_completed_queue" /\ pc'[v] = "close_completed_registry"
            /\ batch'[v] = batch[v]
        BY <3>4 DEF CloseQueue, Goto, TypeOK, local
      <4> QED
        BY <1>1, <1>5, <4>1
        DEF CountStands, ClosingFailed, ClosingCompleted, AllCompleted, SomeFailed
    <3> QED
      BY <1>0, <3>1, <3>2, <3>3, <3>4, PcStep
      DEF Detached, Unclaimed, ClosingFailed, ClosingCompleted
  <2> QED
    BY <2>1 DEF CountStands
<1>8. \A w \in Workers :
        /\ pc[w] \in ClosingFailed => SomeFailed(CampaignOf[batch[w]])
        /\ pc[w] \in ClosingCompleted => AllCompleted(CampaignOf[batch[w]])
  BY <1>1 DEF CountStands
<1>9. \A c \in Campaigns : Judging(c)
  BY JudgingStep
<1>10. \A c \in Campaigns :
         /\ AllCompleted(c) => ~\E b \in BatchesOf(c) : batch_state[b] = "running"
         /\ queue_state[c] \notin OpenQueueStates => queue_state[c] \in Final
         /\ queue_state[c] = "completed" => AllCompleted(c)
         /\ direct_dispatch_state[c] \in Final => queue_state[c] \in Final
  BY <1>1 DEF CompletedQueue, QueueFirst, AllCompleted
<1>11. CompletedQueue'
  <2>1. ASSUME NEW c \in Campaigns
        PROVE  /\ queue_state'[c] \in OpenQueueStates \union Final
               /\ queue_state'[c] = "completed" => AllCompleted(c)
    <3>1. /\ Judging(c) /\ queue_state[c] \in OpenQueueStates \union Final
          /\ queue_state[c] = "completed" => AllCompleted(c)
      BY <1>9, <1>10
    <3>2. "completed" \notin OpenQueueStates
      BY DEF OpenQueueStates
    <3> QED
      BY <1>8, <3>1, <3>2 DEF Judging, Judged, Final, ClosingFailed, ClosingCompleted
  <2> QED
    BY <1>5, <2>1 DEF CompletedQueue
<1>12. QueueFirst'
  <2>1. ASSUME NEW c \in Campaigns, direct_dispatch_state'[c] \in Final
        PROVE  queue_state'[c] \in Final
    <3>1. Judging(c)
      BY <1>9
    <3>2. \A q \in OpenQueueStates : q \notin Final
      BY DEF OpenQueueStates, Final
    <3>3. \A w \in Workers : CampaignOf[batch[w]] = c =>
            /\ pc[w] = "close_failed_registry" => queue_state[c] = "failed"
            /\ pc[w] = "close_completed_registry" => queue_state[c] = "completed"
      BY <1>1 DEF QueueFirst
    <3> QED
      BY <1>10, <2>1, <3>1, <3>2, <3>3 DEF Judging, Judged, Final
  <2>2. ASSUME NEW v \in Workers, NEW x \in Final,
               pc'[v] = IF x = "failed" THEN "close_failed_registry"
                                        ELSE "close_completed_registry"
        PROVE  queue_state'[CampaignOf[batch[v]]'] = x
    <3> DEFINE c == CampaignOf[batch[v]]
    <3>1. CASE pc'[v] = pc[v] /\ batch'[v] = batch[v]
      <4>1. batch[v] \in Batches
        BY <1>1, <2>2, <3>1 DEF BatchHeld, Detached, Unclaimed
      <4>2. c \in Campaigns /\ queue_state[c] = x
        BY <1>1, <2>2, <3>1, <4>1, TablesAssumption DEF QueueFirst, Final
      <4>3. Judging(c) /\ x \notin OpenQueueStates
        BY <1>9, <4>2 DEF Final, OpenQueueStates
      <4>4. /\ x = "failed" => SomeFailed(c)
            /\ x = "completed" => AllCompleted(c)
        BY <1>8, <2>2, <3>1 DEF Final, ClosingFailed, ClosingCompleted
      <4>5. \A w \in Workers : CampaignOf[batch[w]] = c =>
              /\ pc[w] = "close_failed_queue" => x = "failed"
              /\ pc[w] = "close_completed_queue" => x = "completed"
        BY <1>6, <1>8, <4>4 DEF Final, ClosingFailed, ClosingCompleted
      <4> HIDE DEF c
      <4>6. queue_state'[c] = x
        BY <4>2, <4>3, <4>5 DEF Judging, Judged, Final
      <4> QED
        BY <3>1, <4>6 DEF c
    <3>2. CASE CloseQueue(v)
      <4>1. batch[v] \in Batches
        BY <1>1, <3>2 DEF CloseQueue, BatchHeld, Detached, Unclaimed
      <4>2. c \in Campaigns /\ batch'[v] = batch[v]
        BY <3>2, <4>1, TablesAssumption DEF CloseQueue, local
      <4> QED
        BY <2>2, <3>2, <4>2 DEF CloseQueue, SetQueue, Goto, TypeOK, Final
    <3>3. CASE CountOpenBatches(v)
      BY <2>2, <3>3 DEF CountOpenBatches, Goto, TypeOK
    <3> QED
      BY <1>0, <2>2, <3>1, <3>2, <3>3, PcStep
      DEF Detached, Unclaimed, ClosingFailed, ClosingCompleted
  <2>3. ASSUME NEW v \in Workers
        PROVE  /\ pc'[v] = "close_failed_registry" =>
                    queue_state'[CampaignOf[batch[v]]'] = "failed"
               /\ pc'[v] = "close_completed_registry" =>
                    queue_state'[CampaignOf[batch[v]]'] = "completed"
    BY <2>2 DEF Final
  <2> QED
    BY <2>1, <2>3 DEF QueueFirst
<1> QED
  BY <1>3, <1>4, <1>7, <1>11, <1>12 DEF Verdicts

LEMMA AlwaysVerdicts == Spec => [](OnTime => Verdicts)
<1>1. Init => (OnTime => Verdicts)
  BY InitVerdicts
<1>2. /\ TypeOK /\ (OnTime => ReportedInv) /\ (OnTime => Verdicts) /\ [Next]_vars
      => (OnTime => Verdicts)'
  BY VerdictsStep, StillOnTime
<1> QED
  BY <1>1, <1>2, TypeCorrect, AlwaysReportedInv, PTL DEF Spec

\* Every statement of closeDispatchIfDone is executed once it is reached.
NoKill == FaultKinds \cap {"crash", "statement"} = {}

\* A process that has judged the queue goes on to the registry.
LEMMA RegisteringStep ==
  ASSUME TypeOK, NoKill, [Next]_vars, NEW v \in Workers, NEW c \in Campaigns,
         Registering(v, c)
  PROVE  Registering(v, c)' \/ CloseRegistry(v)
<1> USE DEF local
<1>1. pc[v] \in {"close_failed_registry", "close_completed_registry"}
  BY DEF Registering
<1> DEFINE Stays == pc'[v] = pc[v] /\ batch'[v] = batch[v]
<1>2. ASSUME NEW w \in Workers, v # w, NEW label, Goto(w, label)
      PROVE  pc'[v] = pc[v]
  BY <1>2 DEF Goto, TypeOK
<1>3. ASSUME NEW w \in Workers, v # w, NEW b, batch' = [batch EXCEPT ![w] = b]
      PROVE  batch'[v] = batch[v]
  BY <1>3 DEF TypeOK
<1>4. ASSUME NEW w \in Workers, v # w, MainStep(w)
      PROVE  Stays
  <2>1. CASE ClaimNextQueuedBatch(w)
    BY <1>2, <1>3, <1>4, <2>1
    DEF ClaimNextQueuedBatch, ClaimBatch, ReconcileDispatchWithoutQueuedBatch
  <2>2. CASE LoadBatchByCampaign(w)
    BY <1>2, <1>3, <1>4, <2>2 DEF LoadBatchByCampaign
  <2>3. CASE Exit(w)
    BY <1>2, <1>3, <1>4, <2>3 DEF Exit, ProcessGone
  <2>4. CASE \/ Spawn(w) \/ RecoverStaleRunningBatches(w) \/ SelectDispatch(w)
             \/ LoadRecipients(w) \/ FailBatchAndDispatch(w) \/ MarkRegistryRunning(w)
             \/ MarkQueueRunning(w) \/ ExecuteDryRun(w) \/ InsertDryRunAttempt(w)
             \/ StartBatch(w) \/ InsertAttempt(w)
    BY <1>2, <1>4, <2>4
    DEF Spawn, RecoverStaleRunningBatches, SelectDispatch, LoadRecipients,
        FailBatchAndDispatch, MarkRegistryRunning, MarkQueueRunning, ExecuteDryRun,
        InsertDryRunAttempt, StartBatch, InsertAttempt
  <2>5. CASE \/ CountRemaining(w) \/ FinishBatchOrRequeue(w) \/ ReportAttempt(w)
             \/ RequeueBatchForShutdown(w) \/ RecoverBatchAfterControlPlaneError(w)
             \/ FailBatch(w) \/ CountOpenBatches(w) \/ CloseQueue(w) \/ CloseRegistry(w)
    BY <1>2, <1>4, <2>5
    DEF CountRemaining, FinishBatchOrRequeue, ReportAttempt, RequeueBatchForShutdown,
        RecoverBatchAfterControlPlaneError, FailBatch, CountOpenBatches, CloseQueue,
        CloseRegistry
  <2> QED
    BY <1>4, <2>1, <2>2, <2>3, <2>4, <2>5 DEF MainStep
<1>5. ASSUME MainStep(v)
      PROVE  CloseRegistry(v)
  BY <1>1, <1>5
  DEF MainStep, Spawn, RecoverStaleRunningBatches, SelectDispatch, ClaimNextQueuedBatch,
      LoadBatchByCampaign, LoadRecipients, FailBatchAndDispatch, MarkRegistryRunning,
      MarkQueueRunning, ExecuteDryRun, InsertDryRunAttempt, StartBatch, InsertAttempt,
      CountRemaining, FinishBatchOrRequeue, ReportAttempt, Reports, RequeueBatchForShutdown,
      RecoverBatchAfterControlPlaneError, FailBatch, CountOpenBatches, CloseQueue, Exit
<1>6. ASSUME NEW w \in Workers, NEW i \in 1..Slots,
             SlotStep(w, i) \/ SendMailFails(w, i) \/ SlotStatementFails(w, i)
      PROVE  Stays
  <2>1. \/ UNCHANGED pc
        \/ pc[w] = "sending" /\ \E handler : Goto(w, handler)
    BY <1>6
    DEF SlotStep, PickRecipient, Throws, MarkSending, SendMail, MarkSent, RecordProgress,
        SlotStatementRefused, SendMailFails, SlotStatementFails, Goto
  <2>2. UNCHANGED batch
    BY <1>6
    DEF SlotStep, PickRecipient, MarkSending, SendMail, MarkSent, RecordProgress,
        SlotStatementRefused, SendMailFails, SlotStatementFails
  <2> QED
    BY <1>1, <1>2, <2>1, <2>2
<1>7. ASSUME NEW w \in Workers,
             FinishFails(w) \/ Uncaught(w) \/ Crash(w) \/ RequestShutdown(w)
      PROVE  Stays
  <2>1. ~Uncaught(w) /\ ~Crash(w)
    BY DEF Uncaught, Crash, Fault, NoKill
  <2>2. CASE FinishFails(w)
    <3>1. v # w
      BY <1>1, <2>2 DEF FinishFails, Finishing, Reporting
    <3> QED
      BY <1>2, <2>2, <3>1 DEF FinishFails
  <2> QED
    BY <1>7, <2>1, <2>2 DEF RequestShutdown
<1>8. ASSUME \/ RecoverOrphanedRunningBatches
             \/ \E b \in Batches : BatchGoesIdle(b) \/ OperatorReset(b)
             \/ UNCHANGED vars
      PROVE  Stays
  BY <1>8 DEF RecoverOrphanedRunningBatches, BatchGoesIdle, OperatorReset, vars
<1>9. Stays \/ CloseRegistry(v)
  BY <1>4, <1>5, <1>6, <1>7, <1>8 DEF Next, Disturbance
<1> QED
  BY <1>9 DEF Registering

LEMMA RegisteredStep ==
  ASSUME TypeOK, ReportedInv, Verdicts, Registered, OnTime', NoKill, [Next]_vars
  PROVE  Registered'
<1> SUFFICES ASSUME NEW c \in Campaigns, queue_state'[c] \in Final
             PROVE  \/ direct_dispatch_state'[c] = queue_state'[c]
                    \/ \E w \in Workers : Registering(w, c)'
  BY DEF Registered
<1>1. Judging(c)
  BY JudgingStep
<1>2. /\ \A q \in OpenQueueStates : q \notin Final
      /\ queue_state[c] \in OpenQueueStates \union Final
      /\ direct_dispatch_state[c] \in Final => queue_state[c] \in Final
      /\ queue_state[c] = "completed" => AllCompleted(c)
      /\ \A w \in Workers : CampaignOf[batch[w]] = c =>
           /\ pc[w] = "close_failed_registry" => queue_state[c] = "failed"
           /\ pc[w] = "close_completed_registry" => queue_state[c] = "completed"
  BY DEF Verdicts, CompletedQueue, QueueFirst, OpenQueueStates, Final
<1>3. ASSUME NEW w \in Workers, CloseRegistry(w), CampaignOf[batch[w]] = c
      PROVE  direct_dispatch_state'[c] = queue_state'[c]
  BY <1>2, <1>3 DEF CloseRegistry, SetRegistry
<1>4. CASE queue_state[c] \in OpenQueueStates
  BY <1>1, <1>2, <1>4 DEF Judging, Judged, Final, Registering
<1>5. CASE queue_state[c] \in Final /\ direct_dispatch_state[c] # queue_state[c]
  <2>1. PICK w \in Workers : Registering(w, c)
    BY <1>5 DEF Registered
  <2> QED
    BY <1>3, <2>1, RegisteringStep DEF Registering
<1>6. CASE queue_state[c] \in Final /\ direct_dispatch_state[c] = queue_state[c]
  <2>1. \A b \in BatchesOf(c) : queue_state[c] = "completed" => batch_state[b] # "running"
    BY <1>2 DEF AllCompleted
  <2> QED
    BY <1>1, <1>2, <1>6, <2>1 DEF Judging, Judged, Final, Registering
<1> QED
  BY <1>2, <1>4, <1>5, <1>6

\* A dispatch that is closed in the queue is closed alike in the registry as soon as
\* every process has ended, although the two rows are written by separate
\* statements, by several processes and, with left-over loops, more than once.
THEOREM QueueAndRegistryAgree ==
  ASSUME Timely, NoKill
  PROVE  Spec => []VerdictsAgree
<1>1. OnTime
  BY DEF Timely, OnTime
<1>2. Init => Registered
  BY DEF Init, TablesInit, Registered, Final
<1>3. TypeOK /\ ReportedInv /\ Verdicts /\ Registered /\ OnTime' /\ [Next]_vars => Registered'
  BY RegisteredStep
<1>4. Registered => VerdictsAgree
  BY DEF Registered, Registering, VerdictsAgree, Final
<1> QED
  BY <1>1, <1>2, <1>3, <1>4, TypeCorrect, AlwaysReportedInv, AlwaysVerdicts, PTL DEF Spec

-----------------------------------------------------------------------------
(* The recipients of a batch: what a loop holds, what is in flight, and     *)
(* what is paid for.  This holds as long as nothing has happened, with any  *)
(* number of loops, and after faults with one loop per executor.            *)

Orderly == OnTime /\ (faults = 0 \/ Slots = 1)

Delivered == {"sent", "dry_run_sent"}
Preparing == {"mark_registry", "mark_queue", "start", "insert_attempt", "dry_run"}

\* Loops end before main() goes on.
LoopsInside == \A w \in Workers : pc[w] # "sending" => SlotsDone(w)

\* Only a fault makes a handler run or a process stop.
Undisturbed ==
  faults = 0 => \A w \in Workers : ~shutdown[w] /\ pc[w] \notin Handling

\* Loaded rows that no loop has picked are still to be sent.
Loaded ==
  \A w \in Workers : pc[w] \in Preparing \union {"sending"} =>
    todo[w] \subseteq RecipientsIn(batch[w], {"batched"})

\* A loop works on a row of its batch that it has taken from the loaded ones.
Held ==
  \A w \in Workers : \A i \in 1..Slots : slot[w][i] \in Holding =>
    /\ item[w][i] \in RecipientsOf(batch[w]) /\ item[w][i] \notin todo[w]
    /\ recipient_state[item[w][i]] \in
         IF slot[w][i] = "marking" THEN {"batched"} ELSE {"batched", "sending"}

\* Two loops of a process work on different rows.
Apart ==
  \A w \in Workers : \A i, j \in 1..Slots :
    slot[w][i] \in Holding /\ slot[w][j] \in Holding /\ item[w][i] = item[w][j] => i = j

\* A mail that is reported, or about to be, is free; the others have their faults.
Settling(r) ==
  \/ recipient_state[r] = "sent"
  \/ \E w \in Workers : \E i \in 1..Slots :
       slot[w][i] = "marking_sent" /\ item[w][i] = r
Paid == \A r \in Recipients : mails[r] <= faults \/ (Settling(r) /\ mails[r] <= 1 + faults)

\* A row in flight belongs to a batch that a recovery or its owner will look at.
Sending(w, r) ==
  \E i \in 1..Slots : slot[w][i] \in {"sending", "marking_sent"} /\ item[w][i] = r
InFlight ==
  \A r \in Recipients : recipient_state[r] = "sending" =>
    /\ batch_state[BatchOf[r]] \in {"running", "failed"}
    /\ \A w \in Workers : Owns(w, BatchOf[r]) =>
         pc[w] \in {"recover", "fail_batch"} \/ Sending(w, r)

\* A completed batch is delivered, only a failed one has failed rows.
RowStages ==
  \A r \in Recipients :
    /\ recipient_state[r] \in {"batched", "sending", "failed"} \union Delivered
    /\ recipient_state[r] = "failed" => batch_state[BatchOf[r]] = "failed"
    /\ batch_state[BatchOf[r]] = "completed" => recipient_state[r] \in Delivered

\* What a process has found before it finishes or fails its batch is still so.
FindingStands ==
  \A w \in Workers :
    /\ pc[w] = "fail_recipients" => batch_state[batch[w]] = "failed"
    /\ pc[w] = "finish_complete" =>
         \A r \in RecipientsOf(batch[w]) : recipient_state[r] \in Delivered

Delivery ==
  /\ LoopsInside /\ Undisturbed /\ Loaded /\ Held /\ Apart
  /\ Paid /\ InFlight /\ RowStages /\ FindingStands

\* Steps in which every process stays as it is or moves without a loop.
Still(v) ==
  /\ pc'[v] = pc[v] /\ batch'[v] = batch[v] /\ todo'[v] = todo[v]
  /\ slot'[v] = slot[v] /\ item'[v] = item[v]
  /\ faults' = 0 => shutdown'[v] = shutdown[v]

Landed(b) == \A r \in RecipientsOf(b) : recipient_state[r] # "sending"
AllDelivered(b) == \A r \in RecipientsOf(b) : recipient_state[r] \in Delivered

Moved(v) ==
  /\ pc'[v] # "sending" /\ SlotsDone(v)'
  /\ (\A i \in 1..Slots : slot[v][i] # "marking_sent") \/ faults < faults'
  /\ faults' = 0 => ~shutdown'[v] /\ pc'[v] \notin Handling
  /\ pc'[v] \in Preparing => todo'[v] \subseteq RecipientsIn(batch[v], {"batched"})'
  /\ pc'[v] \in Owning \ {"recover", "fail_batch"} => Landed(batch[v])'
  /\ pc'[v] = "fail_recipients" => batch_state'[batch'[v]] = "failed"
  /\ pc'[v] = "finish_complete" => AllDelivered(batch[v])'

StageMove(b) ==
  \/ batch_state'[b] = batch_state[b]
  \/ /\ batch_state[b] \notin Final
     /\ batch_state'[b] \in {"running", "failed"} \/ Landed(b)'
     /\ batch_state'[b] = "completed" => AllDelivered(b)'

RowMove(r) ==
  \/ recipient_state'[r] = recipient_state[r]
  \/ recipient_state[r] = "sending" /\ recipient_state'[r] = "batched"
  \/ /\ recipient_state[r] = "batched" /\ recipient_state'[r] = "dry_run_sent"
     /\ \E w \in Workers : Moved(w) /\ Owns(w, BatchOf[r])
  \/ /\ recipient_state[r] \in {"batched", "sending"} /\ recipient_state'[r] = "failed"
     /\ batch_state[BatchOf[r]] = "failed"

\* No mail, or one that its fault pays for.
MailMove(r) ==
  mails'[r] = mails[r] \/ (mails'[r] = mails[r] + 1 /\ faults' = faults + 1 /\ ~Settling(r))

\* An owned batch is running, and has one owner.
LEMMA OwnedRuns ==
  ASSUME ReportedInv, NEW v \in Workers, NEW b \in Batches, Owns(v, b)
  PROVE  batch_state[b] = "running" /\ \A w \in Workers : Owns(w, b) => w = v
BY DEF ReportedInv, OwnedInv, OneOwnerPerBatch

LEMMA MoveDelivery ==
  ASSUME TypeOK, ReportedInv, Verdicts, Delivery, faults \in Nat, faults' \in Nat, faults <= faults',
         \A r \in Recipients : MailMove(r),
         \A v \in Workers : Still(v) \/ Moved(v),
         \A b \in Batches : StageMove(b),
         \A r \in Recipients : RowMove(r)
  PROVE  Delivery'
<1> USE DEF Delivery
<1>0. /\ \A r \in Recipients : BatchOf[r] \in Batches
      /\ mails \in [Recipients -> Nat]
  BY TablesAssumption DEF TypeOK
<1>1. LoopsInside'
  BY DEF LoopsInside, Still, Moved, SlotsDone
<1>2. Undisturbed'
  BY DEF Undisturbed, Still, Moved
<1>3. \A r \in Recipients, v \in Workers :
        Still(v) /\ recipient_state[r] = "batched" /\ Owns(v, BatchOf[r]) =>
          recipient_state'[r] = "batched" \/ Moved(v)
  BY <1>0, OwnedRuns DEF RowMove
<1>4. Loaded'
  <2>1. ASSUME NEW v \in Workers, pc'[v] \in Preparing \union {"sending"}, ~Moved(v)
        PROVE  todo'[v] \subseteq RecipientsIn(batch[v], {"batched"})'
    <3>1. Still(v) /\ todo[v] \subseteq RecipientsIn(batch[v], {"batched"})
      BY <2>1 DEF Loaded, Still
    <3>2. pc[v] \in Owning
      BY <2>1, <3>1, OwningLabels DEF Still, Preparing
    <3> QED
      BY <1>3, <2>1, <3>1, <3>2 DEF Still, RecipientsIn, RecipientsOf, Owns
  <2> QED
    BY <2>1 DEF Loaded, Moved
<1>5. Held' /\ Apart'
  <2>1. ASSUME NEW v \in Workers, NEW i \in 1..Slots, slot'[v][i] \in Holding
        PROVE  /\ Still(v) /\ ~Moved(v)
               /\ item'[v][i] \in RecipientsOf(batch[v])' /\ item'[v][i] \notin todo'[v]
               /\ recipient_state'[item'[v][i]] \in
                    IF slot'[v][i] = "marking" THEN {"batched"} ELSE {"batched", "sending"}
    <3>1. Still(v) /\ ~Moved(v)
      BY <2>1 DEF Moved, SlotsDone, Holding
    <3>2. /\ item[v][i] \in RecipientsOf(batch[v]) /\ item[v][i] \notin todo[v]
          /\ recipient_state[item[v][i]] \in
               IF slot[v][i] = "marking" THEN {"batched"} ELSE {"batched", "sending"}
      BY <2>1, <3>1 DEF Held, Still
    <3>3. pc[v] = "sending"
      BY <2>1, <3>1 DEF LoopsInside, SlotsDone, Still, Holding
    <3>4. Owns(v, BatchOf[item[v][i]]) /\ item[v][i] \in Recipients
      BY <3>2, <3>3, OwningLabels DEF Owns, RecipientsOf
    <3>5. recipient_state[item[v][i]] = "batched" => recipient_state'[item[v][i]] = "batched"
      BY <1>3, <3>1, <3>4
    <3>6. recipient_state[item[v][i]] = "sending" =>
            recipient_state'[item[v][i]] \in {"batched", "sending"}
      BY <1>0, <3>4, OwnedRuns DEF RowMove
    <3> QED
      BY <3>1, <3>2, <3>5, <3>6 DEF Still, RecipientsOf
  <2>2. Held'
    BY <2>1 DEF Held
  <2>3. Apart'
    BY <2>1 DEF Apart, Still
  <2> QED
    BY <2>2, <2>3
<1>6. Paid'
  <2> SUFFICES ASSUME NEW r \in Recipients
               PROVE  mails'[r] <= faults' \/ (Settling(r)' /\ mails'[r] <= 1 + faults')
    BY DEF Paid
  <2>0. MailMove(r)
    OBVIOUS
  <2>1. mails[r] \in Nat
    BY <1>0
  <2>2. mails[r] <= faults \/ (Settling(r) /\ mails[r] <= 1 + faults)
    BY DEF Paid
  <2>3. CASE recipient_state[r] = "sent"
    BY <2>0, <2>1, <2>2, <2>3 DEF RowMove, Settling, MailMove
  <2>4. ASSUME NEW w \in Workers, NEW i \in 1..Slots,
               slot[w][i] = "marking_sent", item[w][i] = r
        PROVE  Settling(r)' \/ faults < faults'
    BY <2>4 DEF Settling, Still, Moved
  <2>5. CASE ~Settling(r)
    BY <2>0, <2>1, <2>2, <2>5 DEF MailMove
  <2>6. CASE Settling(r)' \/ faults < faults'
    BY <2>0, <2>1, <2>2, <2>5, <2>6 DEF MailMove
  <2> QED
    BY <2>3, <2>4, <2>5, <2>6 DEF Settling
<1>7. InFlight'
  <2> SUFFICES ASSUME NEW r \in Recipients, recipient_state'[r] = "sending"
               PROVE  /\ batch_state'[BatchOf[r]] \in {"running", "failed"}
                      /\ \A w \in Workers : Owns(w, BatchOf[r])' =>
                           pc'[w] \in {"recover", "fail_batch"} \/ Sending(w, r)'
    BY DEF InFlight
  <2>1. recipient_state[r] = "sending"
    BY DEF RowMove
  <2>2. /\ batch_state[BatchOf[r]] \in {"running", "failed"}
        /\ \A w \in Workers : Owns(w, BatchOf[r]) =>
             pc[w] \in {"recover", "fail_batch"} \/ Sending(w, r)
    BY <2>1 DEF InFlight
  <2>3. ~Landed(BatchOf[r])'
    BY <1>0 DEF Landed, RecipientsOf
  <2>4. batch_state'[BatchOf[r]] \in {"running", "failed"}
    BY <1>0, <2>2, <2>3 DEF StageMove
  <2>5. ASSUME NEW w \in Workers, Owns(w, BatchOf[r])'
        PROVE  pc'[w] \in {"recover", "fail_batch"} \/ Sending(w, r)'
    <3>1. CASE Still(w)
      BY <2>2, <2>5, <3>1 DEF Still, Owns, Sending
    <3>2. CASE Moved(w)
      BY <2>3, <2>5, <3>2 DEF Moved, Owns
    <3> QED
      BY <3>1, <3>2
  <2> QED
    BY <2>4, <2>5
<1>8. \A b \in Batches : AllDelivered(b) => AllDelivered(b)'
  BY DEF AllDelivered, RowMove, Delivered, RecipientsOf
<1>9. RowStages'
  <2> SUFFICES ASSUME NEW r \in Recipients
               PROVE  /\ recipient_state'[r] \in {"batched", "sending", "failed"} \union Delivered
                      /\ recipient_state'[r] = "failed" => batch_state'[BatchOf[r]] = "failed"
                      /\ batch_state'[BatchOf[r]] = "completed" =>
                           recipient_state'[r] \in Delivered
    BY DEF RowStages
  <2>1. RowMove(r) /\ StageMove(BatchOf[r]) /\ BatchOf[r] \in Batches
    BY <1>0
  <2>2. /\ recipient_state[r] \in {"batched", "sending", "failed"} \union Delivered
        /\ recipient_state[r] = "failed" => batch_state[BatchOf[r]] = "failed"
        /\ batch_state[BatchOf[r]] = "completed" => recipient_state[r] \in Delivered
    BY DEF RowStages
  <2>3. r \in RecipientsOf(BatchOf[r])
    BY DEF RecipientsOf
  <2>4. batch_state'[BatchOf[r]] = "completed" => recipient_state'[r] \in Delivered
    BY <2>1, <2>2, <2>3 DEF RowMove, StageMove, AllDelivered, Final, Delivered
  <2> QED
    BY <2>1, <2>2, <2>4 DEF RowMove, StageMove, Final, Delivered
<1>10. FindingStands'
  <2> SUFFICES ASSUME NEW v \in Workers, Still(v)
               PROVE  /\ pc'[v] = "fail_recipients" => batch_state'[batch'[v]] = "failed"
                      /\ pc'[v] = "finish_complete" => AllDelivered(batch[v])'
    BY DEF FindingStands, Moved, AllDelivered
  <2>1. pc[v] = "fail_recipients" => batch_state'[batch'[v]] = "failed"
    BY DEF Verdicts, BatchHeld, Detached, Unclaimed, FindingStands, Still, StageMove, Final
  <2>2. pc[v] = "finish_complete" => AllDelivered(batch[v])'
    BY <1>8, OwnerRuns, OwningLabels DEF FindingStands, Still, AllDelivered
  <2> QED
    BY <2>1, <2>2 DEF Still
<1> QED
  BY <1>1, <1>2, <1>4, <1>5, <1>6, <1>7, <1>9, <1>10

\* The owner of a batch, once its loops have ended, has nothing in flight.
LEMMA LandedOwner ==
  ASSUME ReportedInv, Delivery, NEW w \in Workers, SlotsDone(w),
         pc[w] \in Owning \ {"recover", "fail_batch"}
  PROVE  Landed(batch[w])
<1>1. ~\E r : Sending(w, r)
  BY DEF Sending, SlotsDone
<1>2. batch[w] \in Batches
  BY OwnerRuns
<1> QED
  BY <1>1, <1>2 DEF Landed, Delivery, InFlight, RecipientsOf, Owns

\* A step of main() of w, whose loops have ended, to a statement that is not theirs.
LEMMA MainMove ==
  ASSUME TypeOK, ReportedInv, Verdicts, Delivery, NEW w \in Workers, SlotsDone(w),
         NEW label, label # "sending", Goto(w, label),
         faults \in Nat, faults' = faults \/ faults' = faults + 1,
         UNCHANGED <<slot, item, shutdown, mails>>,
         \A v \in Workers \ {w} : batch'[v] = batch[v] /\ todo'[v] = todo[v],
         faults' = 0 => label \notin Handling,
         label \in Preparing => todo'[w] \subseteq RecipientsIn(batch[w], {"batched"})',
         label \in Owning \ {"recover", "fail_batch"} => Landed(batch[w])',
         label = "fail_recipients" => batch_state'[batch'[w]] = "failed",
         label = "finish_complete" => AllDelivered(batch[w])',
         \A b \in Batches : StageMove(b),
         \A r \in Recipients :
           \/ RowMove(r)
           \/ /\ recipient_state[r] = "batched" /\ recipient_state'[r] = "dry_run_sent"
              /\ Owns(w, BatchOf[r])
  PROVE  Delivery'
<1>1. /\ pc'[w] = label
      /\ \A v \in Workers \ {w} : pc'[v] = pc[v]
  BY DEF Goto, TypeOK
<1>2. \A v \in Workers \ {w} : Still(v)
  BY <1>1 DEF Still
<1>3. SlotsDone(w)' /\ \A i \in 1..Slots : slot[w][i] # "marking_sent"
  BY DEF SlotsDone
<1>4. faults' = 0 => ~shutdown'[w]
  BY DEF Delivery, Undisturbed
<1>5. Moved(w)
  BY <1>1, <1>3, <1>4 DEF Moved
<1>6. \A r \in Recipients : RowMove(r)
  BY <1>5 DEF RowMove
<1>7. \A r \in Recipients : MailMove(r)
  BY DEF MailMove
<1>8. faults' \in Nat /\ faults <= faults'
  OBVIOUS
<1> QED
  BY <1>2, <1>5, <1>6, <1>7, <1>8, MoveDelivery

\* The same when w writes neither rows nor batches.
LEMMA MainQuiet ==
  ASSUME TypeOK, ReportedInv, Verdicts, Delivery, NEW w \in Workers, SlotsDone(w),
         NEW label, label # "sending", Goto(w, label), label # "fail_recipients",
         faults \in Nat, faults' = faults \/ faults' = faults + 1,
         UNCHANGED <<slot, item, shutdown, mails, batch_state, recipient_state>>,
         \A v \in Workers \ {w} : batch'[v] = batch[v] /\ todo'[v] = todo[v],
         faults' = 0 => label \notin Handling,
         label \in Preparing => todo'[w] \subseteq RecipientsIn(batch'[w], {"batched"}),
         label \in Owning \ {"recover", "fail_batch"} => Landed(batch'[w]),
         label = "finish_complete" => AllDelivered(batch'[w])
  PROVE  Delivery'
<1>1. /\ \A b \in Batches : StageMove(b)
      /\ \A r \in Recipients : RowMove(r)
  BY DEF StageMove, RowMove
<1>2. label \in Preparing => todo'[w] \subseteq RecipientsIn(batch[w], {"batched"})'
  BY DEF RecipientsIn, RecipientsOf
<1>3. label \in Owning \ {"recover", "fail_batch"} => Landed(batch[w])'
  BY DEF Landed, RecipientsOf
<1>4. label = "finish_complete" => AllDelivered(batch[w])'
  BY DEF AllDelivered, RecipientsOf
<1> QED
  BY <1>1, <1>2, <1>3, <1>4, MainMove

LEMMA QuietMainDelivery ==
  ASSUME TypeOK, ReportedInv, Verdicts, Delivery, faults \in Nat, Targeted = {},
         NEW w \in Workers,
         \/ Spawn(w) \/ SelectDispatch(w) \/ LoadBatchByCampaign(w) \/ LoadRecipients(w)
         \/ MarkRegistryRunning(w) \/ MarkQueueRunning(w) \/ InsertDryRunAttempt(w)
         \/ CountRemaining(w) \/ ReportAttempt(w)
         \/ CountOpenBatches(w) \/ CloseQueue(w) \/ CloseRegistry(w)
  PROVE  Delivery'
<1> USE DEF tables, local
<1>1. pc[w] # "sending" => SlotsDone(w)
  BY DEF Delivery, LoopsInside
<1>2. pc[w] \in Owning \ {"recover", "fail_batch"} /\ SlotsDone(w) => Landed(batch[w])
  BY LandedOwner
<1>3. CASE Spawn(w)
  BY <1>1, <1>3, MainQuiet, OwningLabels DEF Spawn, Handling, Preparing, Unclaimed
<1>4. CASE SelectDispatch(w)
  BY <1>1, <1>4, MainQuiet, OwningLabels DEF SelectDispatch, Handling, Preparing, Unclaimed
<1>5. CASE LoadRecipients(w)
  <2> DEFINE rows == Lowest(Sendable(batch[w]), MaxRecipientsPerRun)
             label == IF rows = {} THEN "empty" ELSE "mark_registry"
  <2>1. /\ pc[w] = "loading" /\ Goto(w, label) /\ todo' = [todo EXCEPT ![w] = rows]
        /\ UNCHANGED <<slot, item, shutdown, mails, batch_state, recipient_state, batch, faults>>
    BY <1>5 DEF LoadRecipients
  <2>2. rows \subseteq RecipientsIn(batch[w], {"batched"})
    BY LowestSubset DEF Sendable
  <2>3. label \in {"empty", "mark_registry"}
    OBVIOUS
  <2>4. /\ todo'[w] = rows
        /\ \A v \in Workers \ {w} : batch'[v] = batch[v] /\ todo'[v] = todo[v]
    BY <2>1 DEF TypeOK
  <2>5. Landed(batch[w])
    BY <1>1, <1>2, <2>1, OwningLabels
  <2> HIDE DEF rows, label
  <2> QED
    BY <1>1, <2>1, <2>2, <2>3, <2>4, <2>5, MainQuiet DEF Handling
<1>6. CASE MarkRegistryRunning(w)
  <2>1. Landed(batch[w]) /\ todo[w] \subseteq RecipientsIn(batch[w], {"batched"})
    BY <1>1, <1>2, <1>6, OwningLabels DEF MarkRegistryRunning, Delivery, Loaded, Preparing
  <2> QED
    BY <1>1, <1>6, <2>1, MainQuiet DEF MarkRegistryRunning, Handling
<1>7. CASE MarkQueueRunning(w)
  <2>1. Landed(batch[w]) /\ todo[w] \subseteq RecipientsIn(batch[w], {"batched"})
    BY <1>1, <1>2, <1>7, OwningLabels DEF MarkQueueRunning, Delivery, Loaded, Preparing
  <2> QED
    BY <1>1, <1>7, <2>1, MainQuiet DEF MarkQueueRunning, Handling
<1>8. CASE InsertDryRunAttempt(w)
  BY <1>1, <1>8, MainQuiet, OwningLabels
  DEF InsertDryRunAttempt, Handling, Preparing, Closing
<1>9. CASE CountRemaining(w)
  <2>1. SlotsDone(w) /\ Landed(batch[w]) /\ batch[w] \in Batches
    BY <1>2, <1>9, OwningLabels, OwnerRuns DEF CountRemaining
  <2>2. batch_state[batch[w]] = "running"
    BY <1>9, OwningLabels, OwnerRuns DEF CountRemaining
  <2>3. RecipientsIn(batch[w], {"batched"}) = {} => AllDelivered(batch[w])
    BY <2>1, <2>2 DEF RecipientsIn, RecipientsOf, AllDelivered, Landed, Delivery, RowStages
  <2> QED
    BY <1>9, <2>1, <2>3, MainQuiet DEF CountRemaining, Handling, Preparing
<1>10. CASE ReportAttempt(w)
  <2>1. pc[w] # "sending"
    BY <1>10 DEF ReportAttempt, Reports
  <2> QED
    BY <1>1, <1>10, <2>1, MainQuiet, OwningLabels
    DEF ReportAttempt, Handling, Preparing, Closing
<1>11. CASE CountOpenBatches(w)
  BY <1>1, <1>11, MainQuiet, OwningLabels
  DEF CountOpenBatches, Handling, Preparing, Closing
<1>12. CASE CloseQueue(w)
  BY <1>1, <1>12, MainQuiet, OwningLabels DEF CloseQueue, Handling, Preparing, Closing
<1>13. CASE CloseRegistry(w)
  BY <1>1, <1>13, MainQuiet, OwningLabels DEF CloseRegistry, Handling, Preparing
<1>14. CASE LoadBatchByCampaign(w)
  BY <1>14 DEF LoadBatchByCampaign
<1> QED
  BY <1>3, <1>4, <1>5, <1>6, <1>7, <1>8, <1>9, <1>10, <1>11, <1>12, <1>13, <1>14

\* A recovery gives back what was in flight in the batches it requeues.
LEMMA GiveBack ==
  ASSUME RowStages, NEW bs, SetRecipients(Interrupted(bs), "batched")
  PROVE  /\ \A r \in Recipients : RowMove(r)
         /\ \A b \in bs : Landed(b)'
<1>1. \A r \in Recipients :
        r \in Interrupted(bs) => recipient_state[r] = "sending"
  BY DEF Interrupted, RecipientsIn
<1>2. \A b \in bs : \A r \in RecipientsOf(b) :
        recipient_state[r] = "sending" => r \in Interrupted(bs)
  BY DEF Interrupted, RecipientsIn, RecipientsOf
<1> QED
  BY <1>1, <1>2 DEF SetRecipients, RowMove, Landed, RecipientsOf

LEMMA RowsUnchanged ==
  ASSUME UNCHANGED recipient_state
  PROVE  /\ \A r \in Recipients : RowMove(r)
         /\ \A b : Landed(b)' <=> Landed(b)
         /\ \A b : AllDelivered(b)' <=> AllDelivered(b)
BY DEF RowMove, Landed, AllDelivered, RecipientsOf

\* The owner of a batch requeues, completes or fails it.
LEMMA OwnerStageMove ==
  ASSUME ReportedInv, NEW w \in Workers, pc[w] \in Owning, NEW bs \in SUBSET {batch[w]},
         NEW state, SetBatches(bs, state),
         state \in {"running", "failed"} \/ Landed(batch[w])',
         state = "completed" => AllDelivered(batch[w])',
         UNCHANGED batch
  PROVE  \A b \in Batches : StageMove(b)
<1>1. batch[w] \in Batches /\ batch_state[batch[w]] = "running"
  BY OwnerRuns
<1>2. \A b \in Batches :
        batch_state'[b] = batch_state[b] \/ (b = batch[w] /\ batch_state'[b] = state)
  BY DEF SetBatches
<1> QED
  BY <1>1, <1>2 DEF StageMove, Final, Landed, AllDelivered, RecipientsOf

LEMMA WritingMainDelivery ==
  ASSUME TypeOK, ReportedInv, Verdicts, Delivery, faults \in Nat, NEW w \in Workers,
         \/ RecoverStaleRunningBatches(w) \/ FailBatchAndDispatch(w) \/ ExecuteDryRun(w)
         \/ StartBatch(w) \/ FinishBatchOrRequeue(w) \/ RequeueBatchForShutdown(w)
         \/ RecoverBatchAfterControlPlaneError(w) \/ FailBatch(w)
  PROVE  Delivery'
<1> USE DEF tables, local
<1>1. pc[w] # "sending" => SlotsDone(w)
  BY DEF Delivery, LoopsInside
<1>2. pc[w] \in Owning \ {"recover", "fail_batch"} /\ SlotsDone(w) => Landed(batch[w])
  BY LandedOwner
<1>3. RowStages /\ Undisturbed /\ FindingStands
  BY DEF Delivery
<1>4. pc[w] \in Handling => faults # 0
  BY <1>3 DEF Undisturbed
<1>5. CASE RecoverStaleRunningBatches(w)
  <2>1. /\ pc[w] = "starting" /\ Goto(w, "claiming")
        /\ SetBatches(StaleBatches, "queued")
        /\ SetRecipients(Interrupted(StaleBatches), "batched")
        /\ UNCHANGED <<batch, todo, slot, item, shutdown, mails, faults>>
    BY <1>5 DEF RecoverStaleRunningBatches
  <2>2. \A b \in Batches : StageMove(b)
    BY <1>3, <2>1, GiveBack DEF SetBatches, StageMove, StaleBatches, Final
  <2> QED
    BY <1>1, <1>3, <2>1, <2>2, GiveBack, MainMove, OwningLabels
    DEF Handling, Preparing, Unclaimed
<1>6. CASE FailBatchAndDispatch(w)
  <2>1. \A b \in Batches : StageMove(b)
    BY <1>6, OwnerStageMove, OwningLabels DEF FailBatchAndDispatch
  <2> QED
    BY <1>1, <1>6, <2>1, RowsUnchanged, MainMove, OwningLabels
    DEF FailBatchAndDispatch, Handling, Preparing
<1>7. CASE ExecuteDryRun(w)
  <2> DEFINE b == batch[w]
             listed == todo[w] \cap RecipientsIn(b, {"batched"})
             state == IF RecipientsIn(b, {"batched"}) \ listed # {} THEN "queued"
                                                                    ELSE "completed"
  <2>1. /\ pc[w] = "dry_run" /\ Goto(w, "dry_run_attempt")
        /\ SetRecipients(listed, "dry_run_sent") /\ SetBatches({b}, state)
        /\ todo' = [todo EXCEPT ![w] = {}]
        /\ UNCHANGED <<batch, slot, item, shutdown, mails, faults>>
    BY <1>7 DEF ExecuteDryRun
  <2>2. Landed(b) /\ b \in Batches /\ batch_state[b] = "running"
    BY <1>1, <1>2, <2>1, OwnerRuns, OwningLabels
  <2>3. \A r \in Recipients :
          recipient_state'[r] = IF r \in listed THEN "dry_run_sent" ELSE recipient_state[r]
    BY <2>1 DEF SetRecipients
  <2>4. \A r \in listed : recipient_state[r] = "batched" /\ Owns(w, BatchOf[r])
    BY <2>1, OwningLabels DEF RecipientsIn, RecipientsOf, Owns
  <2>5. \A r \in RecipientsOf(b) : recipient_state'[r] # "sending"
    BY <2>2, <2>3 DEF Landed, RecipientsOf
  <2>6. ASSUME state = "completed", NEW r \in RecipientsOf(b)
        PROVE  recipient_state'[r] \in Delivered
    <3>1. recipient_state[r] = "batched" => r \in listed
      BY <2>6 DEF RecipientsIn
    <3>2. recipient_state[r] \in {"batched"} \union Delivered
      BY <1>3, <2>2 DEF RowStages, Landed, RecipientsOf
    <3> HIDE DEF listed
    <3> QED
      BY <2>3, <3>1, <3>2 DEF Delivered, RecipientsOf
  <2>7. Landed(b)' /\ (state = "completed" => AllDelivered(b)')
    <3> HIDE DEF state
    <3> QED
      BY <2>1, <2>5, <2>6 DEF Landed, AllDelivered, RecipientsOf
  <2>8. \A x \in Batches : StageMove(x)
    <3> HIDE DEF state
    <3> QED
      BY <2>1, <2>7, OwnerStageMove, OwningLabels
  <2>9. \A v \in Workers \ {w} : batch'[v] = batch[v] /\ todo'[v] = todo[v]
    BY <2>1 DEF TypeOK
  <2>10. \A r \in Recipients :
           \/ RowMove(r)
           \/ /\ recipient_state[r] = "batched" /\ recipient_state'[r] = "dry_run_sent"
              /\ Owns(w, BatchOf[r])
    BY <2>3, <2>4 DEF RowMove
  <2> HIDE DEF b, listed, state
  <2> QED
    BY <1>1, <2>1, <2>8, <2>9, <2>10, MainMove, OwningLabels DEF Handling, Preparing
<1>8. CASE StartBatch(w)
  <2>1. \A b \in Batches : StageMove(b)
    BY <1>8, OwnerStageMove, OwningLabels DEF StartBatch
  <2>2. Landed(batch[w]) /\ todo[w] \subseteq RecipientsIn(batch[w], {"batched"})
    BY <1>1, <1>2, <1>8, OwningLabels DEF StartBatch, Delivery, Loaded, Preparing
  <2>3. Landed(batch[w])' /\ todo'[w] \subseteq RecipientsIn(batch[w], {"batched"})'
    BY <1>8, <2>2 DEF StartBatch, Landed, RecipientsIn, RecipientsOf
  <2> QED
    BY <1>1, <1>8, <2>1, <2>3, RowsUnchanged, MainMove, OwningLabels DEF StartBatch, Handling
<1>9. CASE FinishBatchOrRequeue(w)
  <2>1. pc[w] \in Finishing /\ pc[w] \in Owning /\ pc[w] # "sending"
        /\ UNCHANGED <<recipient_state, batch>>
    BY <1>9, OwningLabels DEF FinishBatchOrRequeue, Finishing
  <2>2. Landed(batch[w])'
    BY <1>1, <1>2, <2>1 DEF Finishing, Landed, RecipientsOf
  <2>3. pc[w] = "finish_complete" => AllDelivered(batch[w])'
    BY <1>3, <2>1 DEF FindingStands, AllDelivered, RecipientsOf
  <2>4. \A b \in Batches : StageMove(b)
    BY <1>9, <2>1, <2>2, <2>3, OwnerStageMove DEF FinishBatchOrRequeue
  <2> QED
    BY <1>1, <1>9, <2>1, <2>4, RowsUnchanged, MainMove, OwningLabels
    DEF FinishBatchOrRequeue, Handling, Preparing, Reporting
<1>10. CASE RequeueBatchForShutdown(w)
  <2>1. CASE pc[w] = "shutdown_batch"
    <3>1. Landed(batch[w])' /\ UNCHANGED <<recipient_state, batch>>
      BY <1>1, <1>2, <1>10, <2>1, OwningLabels
      DEF RequeueBatchForShutdown, Landed, RecipientsOf
    <3>2. \A b \in Batches : StageMove(b)
      BY <1>10, <2>1, <3>1, OwnerStageMove, OwningLabels DEF RequeueBatchForShutdown
    <3> QED
      BY <1>1, <1>4, <1>10, <2>1, <3>1, <3>2, RowsUnchanged, MainMove, OwningLabels
      DEF RequeueBatchForShutdown, Handling, Preparing
  <2>2. CASE pc[w] # "shutdown_batch"
    <3>1. /\ pc[w] = "shutdown_recipients" /\ Goto(w, "report_shutdown")
          /\ SetRecipients(Interrupted({batch[w]}), "batched")
          /\ UNCHANGED <<batch_state, batch, todo, slot, item, shutdown, mails, faults>>
      BY <1>10, <2>2 DEF RequeueBatchForShutdown
    <3>2. \A b \in Batches : StageMove(b)
      BY <3>1 DEF StageMove
    <3> QED
      BY <1>1, <1>3, <1>4, <3>1, <3>2, GiveBack, MainMove, OwningLabels
      DEF Handling, Preparing
  <2> QED
    BY <2>1, <2>2
<1>11. CASE RecoverBatchAfterControlPlaneError(w)
  <2> DEFINE b == batch[w]
             state == IF RecipientsIn(b, {"batched", "sending"}) # {} THEN "queued"
                                                                      ELSE "completed"
  <2>1. /\ pc[w] = "recover" /\ Goto(w, "report_retry")
        /\ SetRecipients(Interrupted({b}), "batched") /\ SetBatches({b}, state)
        /\ UNCHANGED <<batch, todo, slot, item, shutdown, mails, faults>>
    BY <1>11 DEF RecoverBatchAfterControlPlaneError
  <2>2. b \in Batches /\ batch_state[b] = "running"
    BY <2>1, OwnerRuns, OwningLabels
  <2>3. Landed(b)' /\ \A r \in Recipients : RowMove(r)
    BY <1>3, <2>1, GiveBack DEF Landed
  <2>4. state = "completed" => AllDelivered(b)
    BY <1>3, <2>2 DEF RowStages, AllDelivered, RecipientsIn, RecipientsOf
  <2>5. state = "completed" => AllDelivered(b)'
    <3> HIDE DEF state
    <3> QED
      BY <2>1, <2>3, <2>4 DEF AllDelivered, RowMove, RecipientsOf, Delivered
  <2>6. \A x \in Batches : StageMove(x)
    <3> HIDE DEF state
    <3> QED
      BY <2>1, <2>3, <2>5, OwnerStageMove, OwningLabels DEF Landed, AllDelivered
  <2> HIDE DEF b, state
  <2> QED
    BY <1>1, <1>4, <2>1, <2>3, <2>6, MainMove, OwningLabels DEF Handling, Preparing
<1>12. CASE FailBatch(w)
  <2>1. CASE pc[w] = "fail_batch"
    <3>1. \A b \in Batches : StageMove(b)
      BY <1>12, <2>1, OwnerStageMove, OwningLabels DEF FailBatch
    <3>2. batch_state'[batch'[w]] = "failed"
      BY <1>12, <2>1, OwnerRuns, OwningLabels DEF FailBatch, SetBatches
    <3> QED
      BY <1>1, <1>4, <1>12, <2>1, <3>1, <3>2, RowsUnchanged, MainMove, OwningLabels
      DEF FailBatch, Handling, Preparing
  <2>2. CASE pc[w] # "fail_batch"
    <3>1. /\ pc[w] = "fail_recipients" /\ Goto(w, "report_error")
          /\ SetRecipients(RecipientsIn(batch[w], {"batched", "sending"}), "failed")
          /\ UNCHANGED <<batch_state, batch, todo, slot, item, shutdown, mails, faults>>
      BY <1>12, <2>2 DEF FailBatch
    <3>2. \A b \in Batches : StageMove(b)
      BY <3>1 DEF StageMove
    <3>3. batch_state[batch[w]] = "failed"
      BY <1>3, <3>1 DEF FindingStands
    <3>4. \A r \in Recipients : RowMove(r)
      BY <3>1, <3>3 DEF SetRecipients, RecipientsIn, RecipientsOf, RowMove
    <3> QED
      BY <1>1, <1>4, <3>1, <3>2, <3>4, MainMove, OwningLabels DEF Handling, Preparing
  <2> QED
    BY <2>1, <2>2
<1> QED
  BY <1>5, <1>6, <1>7, <1>8, <1>9, <1>10, <1>11, <1>12

\* A claim takes a queued batch, in which nothing is in flight.
LEMMA ClaimDelivery ==
  ASSUME TypeOK, ReportedInv, Verdicts, Delivery, faults \in Nat, NEW w \in Workers,
         ClaimNextQueuedBatch(w)
  PROVE  Delivery'
<1>1. /\ pc[w] = "locking" /\ SlotsDone(w)
      /\ UNCHANGED <<recipient_state, todo, slot, item, shutdown, mails, faults>>
  BY DEF ClaimNextQueuedBatch, ClaimBatch, ReconcileDispatchWithoutQueuedBatch, Delivery,
         LoopsInside, tables
<1>2. CASE \E c \in StillOpen(w) : ClaimBatch(w, c)
  <2>1. PICK c : ClaimBatch(w, c)
    BY <1>2
  <2>2. PICK b \in Lowest(BatchesIn(c, {"queued"}), 1) :
          /\ SetBatches({b}, "running")
          /\ batch' = [batch EXCEPT ![w] = b]
          /\ Goto(w, "loading")
    BY <2>1 DEF ClaimBatch
  <2>3. b \in Batches /\ batch_state[b] = "queued"
    BY <2>2, FirstBatch
  <2>4. Landed(b)
    BY <2>3 DEF Landed, Delivery, InFlight, RecipientsOf
  <2>5. batch'[w] = b /\ \A v \in Workers \ {w} : batch'[v] = batch[v]
    BY <2>2, <2>3 DEF TypeOK
  <2>6. Landed(batch[w])'
    BY <1>1, <2>4, <2>5 DEF Landed, RecipientsOf
  <2>7. \A x \in Batches : StageMove(x)
    BY <2>2, <2>3 DEF SetBatches, StageMove, Final
  <2> QED
    BY <1>1, <2>2, <2>5, <2>6, <2>7, RowsUnchanged, MainMove DEF Handling, Preparing
<1>3. CASE ~\E c \in StillOpen(w) : ClaimBatch(w, c)
  <2>1. Goto(w, "exiting") /\ UNCHANGED <<batch, batch_state>>
    BY <1>3 DEF ClaimNextQueuedBatch, ReconcileDispatchWithoutQueuedBatch, tables
  <2> QED
    BY <1>1, <2>1, MainQuiet, OwningLabels DEF Handling, Preparing
<1> QED
  BY <1>2, <1>3

\* Steps that touch no row, no loop and no statement of a process.
LEMMA AsideDelivery ==
  ASSUME TypeOK, ReportedInv, Verdicts, Delivery, faults \in Nat,
         faults' = faults \/ faults' = faults + 1,
         UNCHANGED <<recipient_state, pc, batch, todo, slot, item, mails>>,
         faults' = 0 => UNCHANGED shutdown,
         \A b \in Batches : StageMove(b)
  PROVE  Delivery'
<1>1. \A v \in Workers : Still(v)
  BY DEF Still
<1>2. /\ \A r \in Recipients : RowMove(r) /\ MailMove(r)
      /\ faults' \in Nat /\ faults <= faults'
  BY DEF RowMove, MailMove
<1> QED
  BY <1>1, <1>2, MoveDelivery

\* The end of a process: a mail that it has not reported is paid for by the crash.
LEMMA GoneDelivery ==
  ASSUME TypeOK, ReportedInv, Verdicts, Delivery, faults \in Nat, NEW w \in Workers,
         ProcessGone(w), UNCHANGED <<recipient_state, batch_state, mails>>,
         faults' = faults + 1 \/ (SlotsDone(w) /\ faults' = faults)
  PROVE  Delivery'
<1>1. /\ pc'[w] = "off" /\ SlotsDone(w)' /\ ~shutdown'[w]
      /\ \A v \in Workers \ {w} :
           /\ pc'[v] = pc[v] /\ batch'[v] = batch[v] /\ todo'[v] = todo[v]
           /\ slot'[v] = slot[v] /\ item'[v] = item[v] /\ shutdown'[v] = shutdown[v]
  BY DEF ProcessGone, Goto, TypeOK, SlotsDone
<1>2. "off" \notin Owning \union Preparing \union Handling
  BY OwningLabels DEF Unclaimed, Preparing, Handling
<1>3. Moved(w)
  BY <1>1, <1>2 DEF Moved, SlotsDone
<1>4. \A v \in Workers \ {w} : Still(v)
  BY <1>1 DEF Still
<1>5. /\ \A r \in Recipients : RowMove(r) /\ MailMove(r)
      /\ \A b \in Batches : StageMove(b)
      /\ faults' \in Nat /\ faults <= faults'
  BY DEF RowMove, MailMove, StageMove
<1> QED
  BY <1>3, <1>4, <1>5, MoveDelivery

\* A step of the loops of w, which goes on sending.
LEMMA LoopDelivery ==
  ASSUME TypeOK, ReportedInv, Verdicts, Delivery, NEW w \in Workers,
         pc[w] \in {"insert_attempt", "sending"}, pc'[w] = "sending",
         \A v \in Workers \ {w} : Still(v),
         UNCHANGED <<batch, batch_state, faults, shutdown>>,
         \A r \in Recipients :
           \/ recipient_state'[r] = recipient_state[r]
           \/ /\ BatchOf[r] = batch[w] /\ recipient_state[r] \in {"batched", "sending"}
              /\ recipient_state'[r] \in {"sending", "sent"},
         todo'[w] \subseteq RecipientsIn(batch[w], {"batched"})',
         \A i \in 1..Slots : slot'[w][i] \in Holding =>
           /\ item'[w][i] \in RecipientsOf(batch[w]) /\ item'[w][i] \notin todo'[w]
           /\ recipient_state'[item'[w][i]] \in
                IF slot'[w][i] = "marking" THEN {"batched"} ELSE {"batched", "sending"},
         \A i, j \in 1..Slots :
           slot'[w][i] \in Holding /\ slot'[w][j] \in Holding /\ item'[w][i] = item'[w][j]
             => i = j,
         \A r \in RecipientsOf(batch[w]) : recipient_state'[r] = "sending" => Sending(w, r)',
         Paid'
  PROVE  Delivery'
<1> USE DEF Delivery
<1>0. /\ \A r \in Recipients : BatchOf[r] \in Batches
      /\ pc[w] \in Owning /\ pc'[w] \in Owning
  BY TablesAssumption, OwningLabels
<1>1. /\ batch[w] \in Batches /\ batch_state[batch[w]] = "running"
      /\ \A v \in Workers : Owns(v, batch[w]) => v = w
  BY <1>0, OwnerRuns, OwnedRuns DEF Owns
<1>2. \A v \in Workers \ {w}, r \in Recipients :
        Owns(v, BatchOf[r]) => recipient_state'[r] = recipient_state[r]
  BY <1>1
<1>3. LoopsInside'
  BY DEF LoopsInside, Still, SlotsDone
<1>4. Undisturbed'
  BY DEF Undisturbed, Still, Handling
<1>5. Loaded'
  <2>1. ASSUME NEW v \in Workers \ {w}, pc'[v] \in Preparing \union {"sending"}
        PROVE  todo'[v] \subseteq RecipientsIn(batch[v], {"batched"})'
    <3>1. pc[v] \in Owning /\ todo[v] \subseteq RecipientsIn(batch[v], {"batched"})
      BY <2>1, OwningLabels DEF Loaded, Still, Preparing
    <3> QED
      BY <1>2, <3>1 DEF Still, RecipientsIn, RecipientsOf, Owns
  <2> QED
    BY <2>1 DEF Loaded
<1>6. Held'
  <2>1. ASSUME NEW v \in Workers \ {w}, NEW i \in 1..Slots, slot'[v][i] \in Holding
        PROVE  /\ item'[v][i] \in RecipientsOf(batch'[v]) /\ item'[v][i] \notin todo'[v]
               /\ recipient_state'[item'[v][i]] \in
                    IF slot'[v][i] = "marking" THEN {"batched"} ELSE {"batched", "sending"}
    <3>1. /\ item[v][i] \in RecipientsOf(batch[v]) /\ item[v][i] \notin todo[v]
          /\ recipient_state[item[v][i]] \in
               IF slot[v][i] = "marking" THEN {"batched"} ELSE {"batched", "sending"}
      BY <2>1 DEF Held, Still
    <3>2. pc[v] = "sending"
      BY <2>1 DEF LoopsInside, SlotsDone, Still, Holding
    <3>3. Owns(v, BatchOf[item[v][i]]) /\ item[v][i] \in Recipients
      BY <3>1, <3>2, OwningLabels DEF Owns, RecipientsOf
    <3> QED
      BY <1>2, <3>1, <3>3 DEF Still
  <2> QED
    BY <2>1 DEF Held, RecipientsOf
<1>7. Apart'
  BY DEF Apart, Still
<1>8. InFlight'
  <2> SUFFICES ASSUME NEW r \in Recipients, recipient_state'[r] = "sending"
               PROVE  /\ batch_state[BatchOf[r]] \in {"running", "failed"}
                      /\ \A v \in Workers : Owns(v, BatchOf[r])' =>
                           pc'[v] \in {"recover", "fail_batch"} \/ Sending(v, r)'
    BY DEF InFlight
  <2>1. CASE BatchOf[r] = batch[w]
    <3>1. \A v \in Workers : Owns(v, BatchOf[r])' => v = w
      BY <1>1, <2>1 DEF Owns, Still
    <3> QED
      BY <1>1, <2>1, <3>1 DEF RecipientsOf
  <2>2. CASE BatchOf[r] # batch[w]
    <3>1. recipient_state[r] = "sending"
      BY <2>2
    <3>2. \A v \in Workers \ {w} : Owns(v, BatchOf[r])' =>
            pc'[v] \in {"recover", "fail_batch"} \/ Sending(v, r)'
      BY <3>1 DEF InFlight, Owns, Still, Sending
    <3>3. ~Owns(w, BatchOf[r])'
      BY <2>2 DEF Owns
    <3> QED
      BY <3>1, <3>2, <3>3 DEF InFlight
  <2> QED
    BY <2>1, <2>2
<1>9. RowStages'
  BY <1>0, <1>1 DEF RowStages, Delivered
<1>10. FindingStands'
  BY DEF FindingStands, Still, RecipientsOf, Delivered
<1> QED
  BY <1>3, <1>4, <1>5, <1>6, <1>7, <1>8, <1>9, <1>10

\* Loops start on the loaded rows, before any of them is in flight.
LEMMA InsertAttemptDelivery ==
  ASSUME TypeOK, ReportedInv, Verdicts, Delivery, faults \in Nat, NEW w \in Workers,
         InsertAttempt(w)
  PROVE  Delivery'
<1>1. /\ pc[w] = "insert_attempt" /\ SlotsDone(w) /\ Landed(batch[w])
      /\ todo[w] \subseteq RecipientsIn(batch[w], {"batched"})
  BY LandedOwner, OwningLabels DEF InsertAttempt, Delivery, LoopsInside, Loaded, Preparing
<1>2. UNCHANGED <<recipient_state, batch_state, mails, faults, batch, todo, item, shutdown>>
  BY DEF InsertAttempt, tables
<1>3. CASE shutdown[w]
  <2>1. faults # 0
    BY <1>3 DEF Delivery, Undisturbed
  <2>2. Goto(w, "shutdown_batch") /\ UNCHANGED slot
    BY <1>3 DEF InsertAttempt
  <2> QED
    BY <1>1, <1>2, <2>1, <2>2, MainQuiet DEF Preparing
<1>4. CASE ~shutdown[w]
  <2> DEFINE loops == [i \in 1..Slots |->
                         IF i <= Cardinality(todo[w]) THEN "top" ELSE "done"]
  <2>1. Goto(w, "sending") /\ slot' = [slot EXCEPT ![w] = loops]
    BY <1>4 DEF InsertAttempt
  <2>2. \A i \in 1..Slots : loops[i] \notin Holding
    BY DEF Holding
  <2> HIDE DEF loops
  <2>3. /\ pc'[w] = "sending" /\ slot'[w] = loops
        /\ \A v \in Workers \ {w} : pc'[v] = pc[v] /\ slot'[v] = slot[v]
    BY <2>1 DEF Goto, TypeOK
  <2>4. \A v \in Workers \ {w} : Still(v)
    BY <1>2, <2>3 DEF Still
  <2>5. Paid'
    <3>1. \A r \in Recipients : Settling(r) => Settling(r)'
      <4> SUFFICES ASSUME NEW r \in Recipients, NEW v \in Workers, NEW i \in 1..Slots,
                          slot[v][i] = "marking_sent", item[v][i] = r
                   PROVE  Settling(r)'
        BY <1>2 DEF Settling
      <4>1. v # w
        BY <1>1 DEF SlotsDone
      <4> QED
        BY <1>2, <2>3, <4>1 DEF Settling
    <3> QED
      BY <1>2, <3>1 DEF Delivery, Paid
  <2>6. todo'[w] \subseteq RecipientsIn(batch[w], {"batched"})'
    BY <1>1, <1>2 DEF RecipientsIn, RecipientsOf
  <2>7. \A r \in RecipientsOf(batch[w]) : recipient_state'[r] # "sending"
    BY <1>1, <1>2 DEF Landed
  <2> QED
    BY <1>1, <1>2, <2>2, <2>3, <2>4, <2>5, <2>6, <2>7, LoopDelivery
<1> QED
  BY <1>3, <1>4

\* A loop that has not ended belongs to the owner of its batch.
LEMMA LoopFacts ==
  ASSUME ReportedInv, Delivery, NEW w \in Workers, NEW i \in 1..Slots, slot[w][i] # "done"
  PROVE  /\ pc[w] = "sending" /\ batch[w] \in Batches
         /\ todo[w] \subseteq RecipientsIn(batch[w], {"batched"})
         /\ \A r \in RecipientsOf(batch[w]) : recipient_state[r] = "sending" => Sending(w, r)
         /\ \A v \in Workers : \A j \in 1..Slots :
              slot[v][j] \in Holding /\ item[v][j] \in RecipientsOf(batch[w]) => v = w
<1> USE DEF Delivery
<1>1. pc[w] = "sending"
  BY DEF LoopsInside, SlotsDone
<1>2. pc[w] \in Owning /\ batch[w] \in Batches
  BY <1>1, OwnerRuns, OwningLabels
<1>3. todo[w] \subseteq RecipientsIn(batch[w], {"batched"})
  BY <1>1 DEF Loaded
<1>4. \A r \in RecipientsOf(batch[w]) : recipient_state[r] = "sending" => Sending(w, r)
  BY <1>1, <1>2 DEF InFlight, Owns, RecipientsOf
<1>5. ASSUME NEW v \in Workers, NEW j \in 1..Slots,
             slot[v][j] \in Holding, item[v][j] \in RecipientsOf(batch[w])
      PROVE  v = w
  <2>1. pc[v] \in Owning
    BY <1>5, OwningLabels DEF LoopsInside, SlotsDone, Holding
  <2>2. batch[v] = batch[w]
    BY <1>5 DEF Held, RecipientsOf
  <2> QED
    BY <1>2, <2>1, <2>2, OwnedRuns DEF Owns
<1> QED
  BY <1>1, <1>2, <1>3, <1>4, <1>5

\* A row that a loop is about to mail is not reported, nor about to be.
LEMMA Unsettled ==
  ASSUME ReportedInv, Delivery, NEW w \in Workers, NEW i \in 1..Slots, slot[w][i] = "sending"
  PROVE  item[w][i] \in Recipients /\ ~Settling(item[w][i])
<1>1. /\ item[w][i] \in RecipientsOf(batch[w]) /\ recipient_state[item[w][i]] # "sent"
      /\ \A v \in Workers : \A j \in 1..Slots :
           slot[v][j] \in Holding /\ item[v][j] = item[w][i] => v = w /\ j = i
  BY LoopFacts DEF Delivery, Held, Apart, Holding
<1> QED
  BY <1>1 DEF Settling, Holding, RecipientsOf

LEMMA SlotMoves ==
  ASSUME TypeOK, NEW w \in Workers, NEW i \in 1..Slots, NEW label, MoveSlot(w, i, label)
  PROVE  /\ slot'[w][i] = label
         /\ \A j \in (1..Slots) \ {i} : slot'[w][j] = slot[w][j]
         /\ \A v \in Workers \ {w} : slot'[v] = slot[v]
BY DEF MoveSlot, TypeOK

\* A loop that fails is the only one of its process.
LEMMA ThrowDelivery ==
  ASSUME TypeOK, ReportedInv, Verdicts, Delivery, faults \in Nat, Slots = 1,
         NEW w \in Workers, NEW i \in 1..Slots, slot[w][i] # "done",
         NEW handler \in {"recover", "fail_batch", "shutdown_batch"}, Throws(w, i, handler),
         UNCHANGED <<tables, batch, todo, item, shutdown>>,
         \A r \in Recipients : MailMove(r),
         \/ faults' = faults /\ faults # 0 /\ slot[w][i] = "top"
         \/ faults' = faults + 1 /\ handler # "shutdown_batch"
  PROVE  Delivery'
<1> USE DEF tables
<1>1. /\ pc[w] = "sending"
      /\ \A r \in RecipientsOf(batch[w]) : recipient_state[r] = "sending" => Sending(w, r)
  BY LoopFacts
<1>2. MoveSlot(w, i, "done") /\ pc' = [pc EXCEPT ![w] = handler]
  BY <1>1 DEF Throws
<1>3. /\ pc'[w] = handler /\ SlotsDone(w)'
      /\ \A v \in Workers \ {w} : pc'[v] = pc[v] /\ slot'[v] = slot[v]
  BY <1>2, SlotMoves DEF TypeOK, SlotsDone
<1>4. handler \notin Preparing /\ faults' # 0
  BY DEF Preparing
<1>5. handler = "shutdown_batch" => Landed(batch[w])'
  BY <1>1 DEF Landed, Sending, RecipientsOf
<1>6. Moved(w)
  BY <1>3, <1>4, <1>5 DEF Moved
<1>7. \A v \in Workers \ {w} : Still(v)
  BY <1>3 DEF Still
<1>8. /\ \A r \in Recipients : RowMove(r)
      /\ \A b \in Batches : StageMove(b)
      /\ faults' \in Nat /\ faults <= faults'
  BY DEF RowMove, StageMove
<1> QED
  BY <1>6, <1>7, <1>8, MoveDelivery

LEMMA PickDelivery ==
  ASSUME TypeOK, ReportedInv, Verdicts, Delivery, faults \in Nat, faults = 0 \/ Slots = 1,
         NEW w \in Workers, NEW i \in 1..Slots, PickRecipient(w, i)
  PROVE  Delivery'
<1> USE DEF tables
<1>1. /\ slot[w][i] = "top" /\ i \in 1..Slots
      /\ UNCHANGED <<recipient_state, batch_state, batch, shutdown, mails, faults>>
  BY DEF PickRecipient
<1>2. /\ pc[w] = "sending" /\ batch[w] \in Batches
      /\ todo[w] \subseteq RecipientsIn(batch[w], {"batched"})
      /\ \A r \in RecipientsOf(batch[w]) : recipient_state[r] = "sending" => Sending(w, r)
  BY <1>1, LoopFacts
<1>3. ASSUME shutdown[w] \/ pc[w] # "sending", Throws(w, i, "shutdown_batch"),
             UNCHANGED <<todo, item>>
      PROVE  Delivery'
  <2>1. faults # 0
    BY <1>2, <1>3 DEF Delivery, Undisturbed
  <2>2. \A r \in Recipients : MailMove(r)
    BY <1>1 DEF MailMove
  <2>3. UNCHANGED tables
    BY DEF PickRecipient
  <2> QED
    BY <1>1, <1>3, <2>1, <2>2, <2>3, ThrowDelivery
<1>4. ASSUME NEW label, label \notin {"sending", "marking_sent"}, MoveSlot(w, i, label),
             UNCHANGED pc, todo'[w] \subseteq todo[w],
             \A v \in Workers \ {w} : todo'[v] = todo[v] /\ item'[v] = item[v],
             \A j \in (1..Slots) \ {i} : item'[w][j] = item[w][j],
             label \in Holding => label = "marking" /\ item'[w][i] \in todo[w] \ todo'[w]
      PROVE  Delivery'
  <2>1. /\ slot'[w][i] = label
        /\ \A j \in (1..Slots) \ {i} : slot'[w][j] = slot[w][j]
        /\ \A v \in Workers \ {w} : slot'[v] = slot[v]
    BY <1>4, SlotMoves
  <2>2. \A v \in Workers \ {w} : Still(v)
    BY <1>1, <1>4, <2>1 DEF Still
  <2>3. todo'[w] \subseteq RecipientsIn(batch[w], {"batched"})'
    BY <1>1, <1>2, <1>4 DEF RecipientsIn, RecipientsOf
  <2>4. ASSUME NEW j \in 1..Slots, slot'[w][j] \in Holding
        PROVE  /\ item'[w][j] \in RecipientsOf(batch[w]) /\ item'[w][j] \notin todo'[w]
               /\ recipient_state'[item'[w][j]] \in
                    IF slot'[w][j] = "marking" THEN {"batched"} ELSE {"batched", "sending"}
    <3>1. CASE j = i
      BY <1>1, <1>2, <1>4, <2>1, <2>4, <3>1 DEF RecipientsIn
    <3>2. CASE j # i
      BY <1>1, <1>4, <2>1, <2>4, <3>2 DEF Delivery, Held
    <3> QED
      BY <3>1, <3>2
  <2>5. ASSUME NEW j \in 1..Slots, NEW k \in 1..Slots, slot'[w][j] \in Holding,
               slot'[w][k] \in Holding, item'[w][j] = item'[w][k]
        PROVE  j = k
    <3>1. \A l \in (1..Slots) \ {i} :
            slot'[w][l] \in Holding => slot[w][l] \in Holding /\ item[w][l] \notin todo[w]
      BY <2>1 DEF Delivery, Held
    <3>2. CASE j # i /\ k # i
      BY <1>4, <2>1, <2>5, <3>2 DEF Delivery, Apart
    <3>3. CASE j = i /\ k # i
      BY <1>4, <2>1, <2>5, <3>1, <3>3
    <3>4. CASE j # i /\ k = i
      BY <1>4, <2>1, <2>5, <3>1, <3>4
    <3> QED
      BY <3>2, <3>3, <3>4
  <2>6. \A r \in RecipientsOf(batch[w]) : recipient_state'[r] = "sending" => Sending(w, r)'
    BY <1>1, <1>2, <1>4, <2>1 DEF Sending
  <2>7. Paid'
    <3>1. \A r \in Recipients : Settling(r) => Settling(r)'
      BY <1>1, <1>4, <2>1 DEF Settling
    <3> QED
      BY <1>1, <3>1 DEF Delivery, Paid
  <2> QED
    BY <1>1, <1>2, <1>4, <2>2, <2>3, <2>4, <2>5, <2>6, <2>7, LoopDelivery
<1>5. ASSUME todo[w] = {}, MoveSlot(w, i, "done"), UNCHANGED <<pc, todo, item>>
      PROVE  Delivery'
  BY <1>4, <1>5 DEF Holding
<1>6. ASSUME NEW r \in Lowest(todo[w], 1), Take(w, r), item' = [item EXCEPT ![w][i] = r],
             MoveSlot(w, i, "marking"), UNCHANGED pc
      PROVE  Delivery'
  <2>1. r \in todo[w]
    BY LowestSubset
  <2>2. /\ item'[w][i] = r
        /\ \A j \in (1..Slots) \ {i} : item'[w][j] = item[w][j]
        /\ \A v \in Workers \ {w} : todo'[v] = todo[v] /\ item'[v] = item[v]
        /\ todo'[w] = todo[w] \ {r}
    BY <1>6 DEF Take, TypeOK
  <2> QED
    BY <1>4, <1>6, <2>1, <2>2
<1> QED
  BY <1>3, <1>5, <1>6 DEF PickRecipient

\* A loop goes on with its row: it marks it in flight, mails it, or reports it.
LEMMA WorkDelivery ==
  ASSUME TypeOK, ReportedInv, Verdicts, Delivery, faults \in Nat,
         NEW w \in Workers, NEW i \in 1..Slots,
         MarkSending(w, i) \/ SendMail(w, i) \/ MarkSent(w, i) \/ RecordProgress(w, i)
  PROVE  Delivery'
<1> USE DEF tables
<1>1. /\ slot[w][i] \in {"marking", "sending", "marking_sent", "progress"}
      /\ UNCHANGED <<batch_state, pc, batch, todo, item, shutdown, faults>>
  BY DEF MarkSending, SendMail, MarkSent, RecordProgress
<1>2. /\ pc[w] = "sending" /\ batch[w] \in Batches
      /\ todo[w] \subseteq RecipientsIn(batch[w], {"batched"})
      /\ \A r \in RecipientsOf(batch[w]) : recipient_state[r] = "sending" => Sending(w, r)
      /\ \A v \in Workers : \A j \in 1..Slots :
           slot[v][j] \in Holding /\ item[v][j] \in RecipientsOf(batch[w]) => v = w
  BY <1>1, LoopFacts
<1>3. PICK r : r = item[w][i]
  OBVIOUS
<1>4. slot[w][i] \in Holding =>
        /\ r \in RecipientsOf(batch[w]) /\ r \notin todo[w]
        /\ recipient_state[r] \in
             IF slot[w][i] = "marking" THEN {"batched"} ELSE {"batched", "sending"}
        /\ \A j \in (1..Slots) \ {i} : slot[w][j] \in Holding => item[w][j] # r
  BY <1>3 DEF Delivery, Held, Apart
\* What the four steps have in common.
<1>5. ASSUME NEW label, MoveSlot(w, i, label), label = "marking_sent" => slot[w][i] = "sending",
             label \in Holding => slot[w][i] \in Holding,
             \A x \in Recipients : recipient_state'[x] # recipient_state[x] =>
               /\ x = r /\ slot[w][i] \in Holding
               /\ \/ recipient_state'[x] = "sending" /\ label = "sending"
                  \/ recipient_state'[x] = "sent" /\ label \notin Holding,
             label \in Holding => label \in {"sending", "marking_sent"},
             label \notin Holding => recipient_state'[r] = "sent" \/ slot[w][i] \notin Holding,
             Paid'
      PROVE  Delivery'
  <2>1. /\ slot'[w][i] = label
        /\ \A j \in (1..Slots) \ {i} : slot'[w][j] = slot[w][j]
        /\ \A v \in Workers \ {w} : slot'[v] = slot[v]
    BY <1>5, SlotMoves
  <2>2. \A v \in Workers \ {w} : Still(v)
    BY <1>1, <2>1 DEF Still
  <2>3. todo'[w] \subseteq RecipientsIn(batch[w], {"batched"})'
    BY <1>1, <1>2, <1>4, <1>5 DEF RecipientsIn, RecipientsOf
  <2>4. ASSUME NEW j \in 1..Slots, slot'[w][j] \in Holding
        PROVE  /\ item'[w][j] \in RecipientsOf(batch[w]) /\ item'[w][j] \notin todo'[w]
               /\ recipient_state'[item'[w][j]] \in
                    IF slot'[w][j] = "marking" THEN {"batched"} ELSE {"batched", "sending"}
    <3>1. CASE j = i
      <4>1. /\ slot[w][i] \in Holding /\ label \in {"sending", "marking_sent"}
            /\ item'[w][j] = r /\ slot'[w][j] = label
        BY <1>1, <1>3, <1>5, <2>1, <2>4, <3>1
      <4>2. recipient_state'[r] \in {"batched", "sending"}
        BY <1>4, <1>5, <2>1, <2>4, <3>1, <4>1 DEF RecipientsOf
      <4> QED
        BY <1>1, <1>4, <4>1, <4>2
    <3>2. CASE j # i
      <4>1. slot'[w][j] = slot[w][j] /\ item'[w][j] = item[w][j]
        BY <1>1, <2>1, <3>2
      <4>2. /\ item[w][j] \in RecipientsOf(batch[w]) /\ item[w][j] \notin todo[w]
            /\ recipient_state[item[w][j]] \in
                 IF slot[w][j] = "marking" THEN {"batched"} ELSE {"batched", "sending"}
        BY <2>4, <4>1 DEF Delivery, Held
      <4>3. recipient_state'[item[w][j]] = recipient_state[item[w][j]]
        BY <1>4, <1>5, <2>4, <3>2, <4>1, <4>2 DEF RecipientsOf
      <4> QED
        BY <1>1, <4>1, <4>2, <4>3
    <3> QED
      BY <3>1, <3>2
  <2>5. \A j, k \in 1..Slots :
          slot'[w][j] \in Holding /\ slot'[w][k] \in Holding /\ item'[w][j] = item'[w][k]
            => j = k
    <3>1. \A j \in 1..Slots : slot'[w][j] \in Holding => slot[w][j] \in Holding
      BY <1>5, <2>1
    <3> QED
      BY <1>1, <3>1 DEF Delivery, Apart
  <2>6. ASSUME NEW x \in RecipientsOf(batch[w]), recipient_state'[x] = "sending"
        PROVE  Sending(w, x)'
    <3>1. CASE recipient_state[x] = "sending"
      <4>1. PICK j \in 1..Slots : slot[w][j] \in {"sending", "marking_sent"} /\ item[w][j] = x
        BY <1>2, <3>1 DEF Sending
      <4>2. CASE j = i
        BY <1>1, <1>3, <1>5, <2>1, <2>6, <4>1, <4>2 DEF Sending, Holding
      <4>3. CASE j # i
        BY <1>1, <2>1, <4>1, <4>3 DEF Sending
      <4> QED
        BY <4>2, <4>3
    <3>2. CASE recipient_state[x] # "sending"
      BY <1>1, <1>3, <1>5, <2>1, <2>6, <3>2 DEF Sending, RecipientsOf
    <3> QED
      BY <3>1, <3>2
  <2>7. \A x \in Recipients :
          \/ recipient_state'[x] = recipient_state[x]
          \/ /\ BatchOf[x] = batch[w] /\ recipient_state[x] \in {"batched", "sending"}
             /\ recipient_state'[x] \in {"sending", "sent"}
    BY <1>4, <1>5 DEF RecipientsOf
  <2> QED
    BY <1>1, <1>2, <1>5, <2>2, <2>3, <2>4, <2>5, <2>6, <2>7, LoopDelivery
\* No mail is accepted: what was settled stays so, or is reported.
<1>6. ASSUME UNCHANGED mails, NEW label, MoveSlot(w, i, label),
             slot[w][i] # "marking_sent" \/ recipient_state'[r] = "sent",
             \A x \in Recipients : recipient_state[x] = "sent" => recipient_state'[x] = "sent"
      PROVE  Paid'
  <2>1. /\ \A j \in (1..Slots) \ {i} : slot'[w][j] = slot[w][j]
        /\ \A v \in Workers \ {w} : slot'[v] = slot[v]
    BY <1>6, SlotMoves
  <2>2. ASSUME NEW x \in Recipients, NEW v \in Workers, NEW j \in 1..Slots,
               slot[v][j] = "marking_sent", item[v][j] = x
        PROVE  Settling(x)'
    BY <1>1, <1>3, <1>6, <2>1, <2>2 DEF Settling
  <2>3. \A x \in Recipients : Settling(x) => Settling(x)'
    BY <1>6, <2>2 DEF Settling
  <2> QED
    BY <1>1, <1>6, <2>3 DEF Delivery, Paid
<1>7. CASE MarkSending(w, i)
  <2>1. slot[w][i] = "marking" /\ slot[w][i] \in Holding /\ MoveSlot(w, i, "sending")
        /\ SetRecipients({r}, "sending") /\ UNCHANGED mails
    BY <1>3, <1>7 DEF MarkSending, Holding
  <2>2. /\ r \in Recipients /\ recipient_state[r] = "batched"
        /\ \A x \in Recipients :
             recipient_state'[x] = IF x = r THEN "sending" ELSE recipient_state[x]
    BY <1>4, <2>1 DEF SetRecipients, RecipientsOf
  <2>3. Paid'
    BY <1>6, <2>1, <2>2
  <2> QED
    BY <1>5, <2>1, <2>2, <2>3 DEF Holding
<1>8. CASE MarkSent(w, i)
  <2>1. slot[w][i] = "marking_sent" /\ slot[w][i] \in Holding /\ MoveSlot(w, i, "progress")
        /\ SetRecipients({r}, "sent") /\ UNCHANGED mails
    BY <1>2, <1>3, <1>8 DEF MarkSent, Holding
  <2>2. /\ r \in Recipients
        /\ \A x \in Recipients :
             recipient_state'[x] = IF x = r THEN "sent" ELSE recipient_state[x]
    BY <1>4, <2>1 DEF SetRecipients, RecipientsOf
  <2>3. Paid'
    BY <1>6, <2>1, <2>2
  <2> QED
    BY <1>5, <2>1, <2>2, <2>3 DEF Holding
<1>9. CASE RecordProgress(w, i)
  <2>1. /\ slot[w][i] = "progress" /\ MoveSlot(w, i, "top")
        /\ UNCHANGED <<recipient_state, mails>>
    BY <1>9 DEF RecordProgress
  <2>2. Paid'
    BY <1>6, <2>1
  <2> QED
    BY <1>5, <2>1, <2>2 DEF Holding
<1>10. CASE SendMail(w, i)
  <2>1. slot[w][i] = "sending" /\ MoveSlot(w, i, "marking_sent")
        /\ mails' = [mails EXCEPT ![r] = @ + 1] /\ UNCHANGED recipient_state
    BY <1>2, <1>3, <1>10 DEF SendMail
  <2>2. slot[w][i] \in Holding /\ "marking_sent" \in Holding
    BY <2>1 DEF Holding
  <2>3. ~Settling(r)
    BY <1>3, <2>1, Unsettled
  <2>4. /\ slot'[w][i] = "marking_sent"
        /\ \A j \in (1..Slots) \ {i} : slot'[w][j] = slot[w][j]
        /\ \A v \in Workers \ {w} : slot'[v] = slot[v]
    BY <2>1, SlotMoves
  <2>5. \A x \in Recipients : Settling(x) => Settling(x)'
    BY <1>1, <2>1, <2>4 DEF Settling
  <2>6. Settling(r)'
    BY <1>1, <1>3, <2>4 DEF Settling
  <2>7. \A x \in Recipients : mails[x] \in Nat /\
          mails'[x] = IF x = r THEN mails[x] + 1 ELSE mails[x]
    BY <2>1 DEF TypeOK
  <2>8. Paid'
    BY <1>1, <2>3, <2>5, <2>6, <2>7 DEF Delivery, Paid
  <2> QED
    BY <1>5, <2>1, <2>2, <2>8
<1> QED
  BY <1>7, <1>8, <1>9, <1>10

\* Every step of a loop.
LEMMA SlotDelivery ==
  ASSUME TypeOK, ReportedInv, Verdicts, Delivery, faults \in Nat, faults = 0 \/ Slots = 1,
         NEW w \in Workers, NEW i \in 1..Slots, SlotStep(w, i)
  PROVE  Delivery'
<1>1. CASE PickRecipient(w, i)
  BY <1>1, PickDelivery
<1>2. CASE MarkSending(w, i) \/ SendMail(w, i) \/ MarkSent(w, i) \/ RecordProgress(w, i)
  BY <1>2, WorkDelivery
<1>3. CASE SlotStatementRefused(w, i)
  BY <1>3, LoopFacts DEF SlotStatementRefused
<1> QED
  BY <1>1, <1>2, <1>3 DEF SlotStep

LEMMA MainDelivery ==
  ASSUME TypeOK, ReportedInv, Verdicts, Delivery, faults \in Nat, Targeted = {},
         NEW w \in Workers, MainStep(w)
  PROVE  Delivery'
<1>1. CASE \/ Spawn(w) \/ SelectDispatch(w) \/ LoadBatchByCampaign(w) \/ LoadRecipients(w)
           \/ MarkRegistryRunning(w) \/ MarkQueueRunning(w) \/ InsertDryRunAttempt(w)
           \/ CountRemaining(w) \/ ReportAttempt(w)
           \/ CountOpenBatches(w) \/ CloseQueue(w) \/ CloseRegistry(w)
  BY <1>1, QuietMainDelivery
<1>2. CASE \/ RecoverStaleRunningBatches(w) \/ FailBatchAndDispatch(w) \/ ExecuteDryRun(w)
           \/ StartBatch(w) \/ FinishBatchOrRequeue(w) \/ RequeueBatchForShutdown(w)
           \/ RecoverBatchAfterControlPlaneError(w) \/ FailBatch(w)
  BY <1>2, WritingMainDelivery
<1>3. CASE ClaimNextQueuedBatch(w)
  BY <1>3, ClaimDelivery
<1>4. CASE InsertAttempt(w)
  BY <1>4, InsertAttemptDelivery
<1>5. CASE Exit(w)
  BY <1>5, GoneDelivery DEF Exit, tables
<1> QED
  BY <1>1, <1>2, <1>3, <1>4, <1>5 DEF MainStep

LEMMA DisturbedDelivery ==
  ASSUME TypeOK, ReportedInv, Verdicts, Delivery, faults \in Nat, faults' = 0 \/ Slots = 1,
         NEW w \in Workers, Disturbance(w)
  PROVE  Delivery'
<1> USE DEF tables, local
<1>1. pc[w] # "sending" => SlotsDone(w)
  BY DEF Delivery, LoopsInside
<1>2. CASE FinishFails(w)
  <2>1. PICK label \in {"recover", "fail_batch", "close"} : Goto(w, label)
    BY <1>2 DEF FinishFails
  <2>2. pc[w] # "sending" /\ faults' = faults + 1
    BY <1>2 DEF FinishFails, Finishing, Reporting, Fault
  <2>3. label \notin Owning \ {"recover", "fail_batch"} /\ label \notin Preparing
    BY <2>1, OwningLabels DEF Closing, Preparing
  <2>4. /\ UNCHANGED <<slot, item, shutdown, mails, batch_state, recipient_state, batch, todo>>
        /\ label # "fail_recipients" /\ label # "finish_complete" /\ label # "sending"
        /\ faults' # 0
    BY <1>2, <2>2 DEF FinishFails
  <2> QED
    BY <1>1, <2>1, <2>2, <2>3, <2>4, MainQuiet
<1>3. CASE Uncaught(w)
  <2>1. /\ pc[w] # "sending" /\ Goto(w, "exiting") /\ faults' = faults + 1
        /\ UNCHANGED <<slot, item, shutdown, mails, batch_state, recipient_state, batch, todo>>
    BY <1>3 DEF Uncaught, OutsideTry, Handling, Closing, Fault
  <2>2. "exiting" \notin Owning \union Preparing \union Handling
    BY OwningLabels DEF Preparing, Handling
  <2> QED
    BY <1>1, <2>1, <2>2, MainQuiet
<1>4. CASE Crash(w)
  BY <1>4, GoneDelivery DEF Crash, Fault
<1>5. CASE RequestShutdown(w)
  <2>1. /\ UNCHANGED <<recipient_state, batch_state, pc, batch, todo, slot, item, mails>>
        /\ faults' = faults + 1
    BY <1>5 DEF RequestShutdown, Fault
  <2>2. \A b \in Batches : StageMove(b)
    BY <2>1 DEF StageMove
  <2> QED
    BY <2>1, <2>2, AsideDelivery
<1>6. ASSUME NEW i \in 1..Slots, SendMailFails(w, i)
      PROVE  Delivery'
  <2>1. /\ slot[w][i] = "sending" /\ faults' = faults + 1
        /\ UNCHANGED <<tables, batch, todo, item, shutdown>>
        /\ Throws(w, i, "recover") \/ Throws(w, i, "fail_batch")
        /\ UNCHANGED mails \/ mails' = [mails EXCEPT ![item[w][i]] = @ + 1]
    BY <1>6 DEF SendMailFails, Fault
  <2>2. Slots = 1
    BY <2>1
  <2>3. ~Settling(item[w][i])
    BY <2>1, Unsettled
  <2>4. \A r \in Recipients : MailMove(r)
    BY <2>1, <2>3 DEF MailMove, TypeOK
  <2> QED
    BY <2>1, <2>2, <2>4, ThrowDelivery
<1>7. ASSUME NEW i \in 1..Slots, SlotStatementFails(w, i)
      PROVE  Delivery'
  <2>1. /\ slot[w][i] # "done" /\ faults' = faults + 1
        /\ UNCHANGED <<tables, batch, todo, item, shutdown, mails>>
        /\ Throws(w, i, "recover") \/ Throws(w, i, "fail_batch")
    BY <1>7 DEF SlotStatementFails, Fault
  <2>2. Slots = 1 /\ \A r \in Recipients : MailMove(r)
    BY <2>1 DEF MailMove
  <2> QED
    BY <2>1, <2>2, ThrowDelivery
<1> QED
  BY <1>2, <1>3, <1>4, <1>5, <1>6, <1>7 DEF Disturbance

LEMMA DeliveryStep ==
  ASSUME TypeOK, ReportedInv, Verdicts, Delivery, OnTime', faults' = 0 \/ Slots = 1, [Next]_vars
  PROVE  Delivery'
<1>1. faults \in Nat /\ faults' \in Nat /\ faults <= faults'
  BY FaultsGrow
<1>2. Targeted = {} /\ (faults = 0 \/ Slots = 1)
  BY <1>1 DEF OnTime
<1>3. ASSUME NEW w \in Workers, MainStep(w)
      PROVE  Delivery'
  BY <1>1, <1>2, <1>3, MainDelivery
<1>4. ASSUME NEW w \in Workers, NEW i \in 1..Slots, SlotStep(w, i)
      PROVE  Delivery'
  BY <1>1, <1>2, <1>4, SlotDelivery
<1>5. ASSUME NEW w \in Workers, Disturbance(w)
      PROVE  Delivery'
  BY <1>1, <1>5, DisturbedDelivery
<1>6. CASE RecoverOrphanedRunningBatches
  <2>1. /\ SetBatches(Orphaned, "queued")
        /\ UNCHANGED <<recipient_state, pc, batch, todo, slot, item, shutdown, mails, faults>>
    BY <1>6 DEF RecoverOrphanedRunningBatches
  <2>2. \A b \in Batches : StageMove(b)
    BY <2>1
    DEF SetBatches, StageMove, Orphaned, StaleBatches, Landed, RecipientsIn, RecipientsOf, Final
  <2> QED
    BY <1>1, <2>1, <2>2, AsideDelivery
<1>7. ASSUME NEW b \in Batches, BatchGoesIdle(b)
      PROVE  Delivery'
  <2>1. /\ UNCHANGED <<recipient_state, batch_state, pc, batch, todo, slot, item, shutdown, mails>>
        /\ faults' = faults \/ faults' = faults + 1
    BY <1>7 DEF BatchGoesIdle, Fault, local
  <2>2. \A x \in Batches : StageMove(x)
    BY <2>1 DEF StageMove
  <2> QED
    BY <1>1, <2>1, <2>2, AsideDelivery
<1>8. ASSUME NEW b \in Batches, OperatorReset(b)
      PROVE  FALSE
  BY <1>8, NoLateFault DEF OperatorReset, Late
<1>9. CASE UNCHANGED vars
  <2>1. UNCHANGED <<recipient_state, batch_state, pc, batch, todo, slot, item, shutdown, mails, faults>>
    BY <1>9 DEF vars, tables, local
  <2>2. \A b \in Batches : StageMove(b)
    BY <2>1 DEF StageMove
  <2> QED
    BY <1>1, <2>1, <2>2, AsideDelivery
<1> QED
  BY <1>3, <1>4, <1>5, <1>6, <1>7, <1>8, <1>9 DEF Next

LEMMA InitDelivery ==
  ASSUME Init
  PROVE  Delivery
<1>1. LoopsInside /\ Undisturbed /\ Loaded /\ Held /\ Apart /\ InFlight /\ FindingStands
  BY DEF Init, TablesInit, LoopsInside, SlotsDone, Undisturbed, Handling, Loaded, Preparing,
         Held, Holding, Apart, InFlight, FindingStands
<1>2. Paid /\ RowStages
  BY TablesAssumption DEF Init, TablesInit, Paid, RowStages
<1> QED
  BY <1>1, <1>2 DEF Delivery

LEMMA AlwaysDelivery == Spec => [](Orderly => Delivery)
<1>1. Init => Delivery
  BY InitDelivery
<1>2. TypeOK /\ (OnTime => ReportedInv) /\ (OnTime => Verdicts) /\ (Orderly => Delivery)
        /\ [Next]_vars => (Orderly => Delivery)'
  <2> SUFFICES ASSUME TypeOK, OnTime => ReportedInv, OnTime => Verdicts, Orderly => Delivery,
                      [Next]_vars, Orderly'
               PROVE  Delivery'
    OBVIOUS
  <2>1. OnTime' /\ (faults' = 0 \/ Slots = 1)
    BY DEF Orderly
  <2>2. OnTime
    BY <2>1, StillOnTime
  <2>3. Orderly
    BY <2>1, <2>2, FaultsGrow DEF Orderly
  <2> QED
    BY <2>1, <2>2, <2>3, DeliveryStep
<1> QED
  BY <1>1, <1>2, TypeCorrect, AlwaysReportedInv, AlwaysVerdicts, PTL DEF Spec

\* Without a fault nobody is mailed twice, with any number of loops in each of any
\* number of executors.
THEOREM MailedOnceUndisturbed ==
  ASSUME Targeted = {}
  PROVE  Spec => []AtMostOnceUndisturbed
<1>1. TypeOK /\ (Orderly => Delivery) => AtMostOnceUndisturbed
  <2> SUFFICES ASSUME TypeOK, Orderly => Delivery, faults = 0, NEW r \in Recipients
               PROVE  mails[r] <= 1
    BY DEF AtMostOnceUndisturbed
  <2>1. Paid /\ mails[r] \in Nat
    BY DEF Orderly, OnTime, Delivery, TypeOK
  <2> QED
    BY <2>1 DEF Paid
<1> QED
  BY <1>1, TypeCorrect, AlwaysDelivery, PTL

\* With one loop per executor nobody is mailed more often than once and once more
\* for each fault, whatever fails in which order.
THEOREM FaultsPayForRepetitions ==
  ASSUME Timely, Slots = 1
  PROVE  Spec => []RepetitionsBounded
<1>1. TypeOK /\ (Orderly => Delivery) => RepetitionsBounded
  <2> SUFFICES ASSUME TypeOK, Orderly => Delivery, NEW r \in Recipients
               PROVE  mails[r] <= 1 + faults
    BY DEF RepetitionsBounded
  <2>1. Paid /\ mails[r] \in Nat /\ faults \in Nat
    BY ExecutorAssumption DEF Orderly, OnTime, Timely, Delivery, TypeOK
  <2> QED
    BY <2>1 DEF Paid
<1> QED
  BY <1>1, TypeCorrect, AlwaysDelivery, PTL

\* A dispatch closed as completed has nobody left behind.
THEOREM CompletedMeansDelivered ==
  ASSUME Timely, Slots = 1
  PROVE  Spec => []CompletedIsDelivered
<1>1. (OnTime => Verdicts) /\ (Orderly => Delivery) => CompletedIsDelivered
  <2> SUFFICES ASSUME Verdicts, Delivery, NEW b \in Batches,
                      queue_state[CampaignOf[b]] = "completed", NEW r \in RecipientsOf(b)
               PROVE  recipient_state[r] \in Delivered
    BY DEF CompletedIsDelivered, Delivered, Orderly, OnTime, Timely
  <2>1. batch_state[b] = "completed"
    BY TablesAssumption DEF Verdicts, CompletedQueue, AllCompleted, BatchesOf
  <2> QED
    BY <2>1 DEF Delivery, RowStages, RecipientsOf
<1> QED
  BY <1>1, AlwaysVerdicts, AlwaysDelivery, PTL

-----------------------------------------------------------------------------
(* What the retries leave.  createBatches makes batches of rows, at least one  *)
(* for a dispatch it queues; shutdowns, lost connections and retryable errors  *)
(* requeue a batch only with something left to send.                           *)

Populated ==
  /\ \A c \in Campaigns : BatchesOf(c) # {}
  /\ \A b \in Batches : RecipientsOf(b) # {}

GentleKinds == {"shutdown", "smtp_retry", "control_plane"}
Calm == Orderly /\ (faults = 0 \/ FaultKinds \subseteq GentleKinds)

Failing == {"empty", "fail_batch", "fail_recipients", "report_error"}

\* A running batch is attended, a queued one has rows to send, none has failed.
BatchSupplied(b) ==
  /\ batch_state[b] = "running" => \E w \in Workers : Owns(w, b)
  /\ batch_state[b] = "queued" => Sendable(b) # {}
  /\ batch_state[b] # "failed"

\* Nobody runs out of rows, or requeues a batch without any.
ProcessSupplied(w) ==
  /\ pc[w] \in {"loading", "finish_requeue", "shutdown_batch"} => Sendable(batch[w]) # {}
  /\ pc[w] \in Preparing => todo[w] # {}
  /\ pc[w] \notin Failing

Supplied ==
  /\ \A b \in Batches : BatchSupplied(b)
  /\ \A w \in Workers : ProcessSupplied(w)

\* Every nonempty set of keys has a lowest one.
LEMMA LeastNumber ==
  ASSUME NEW S \in SUBSET Nat, S # {}
  PROVE  \E x \in S : \A y \in S : ~(y < x)
<1> DEFINE R == OpToRel(<, Nat)
<1>1. IsWellFoundedOn(R, Nat)
  BY NatLessThanWellFounded
<1>2. PICK x \in S : \A y \in S : ~(<<y, x>> \in R)
  <2> HIDE DEF R
  <2> QED
    BY <1>1, WFMin
<1>3. \A y \in S : y < x => <<y, x>> \in R
  BY DEF OpToRel
<1> QED
  BY <1>2, <1>3

LEMMA LowestExists ==
  ASSUME NEW S \in SUBSET Nat, S # {}, NEW n \in Nat \ {0}
  PROVE  Lowest(S, n) # {}
<1>1. PICK x \in S : \A y \in S : ~(y < x)
  BY LeastNumber
<1>2. {y \in S : y < x} = {}
  BY <1>1
<1>3. Cardinality({y \in S : y < x}) = 0
  BY <1>2, FS_EmptySet
<1> QED
  BY <1>3 DEF Lowest

\* A step of process w, which may take rows of its own batch and move that batch.
LEMMA SupplyMove ==
  ASSUME ReportedInv, Supplied, NEW w \in Workers,
         \A v \in Workers \ {w} :
           pc'[v] = pc[v] /\ batch'[v] = batch[v] /\ todo'[v] = todo[v],
         \A r \in Recipients : recipient_state[r] = "batched" =>
           recipient_state'[r] = "batched" \/ Owns(w, BatchOf[r]),
         pc[w] \in Owning =>
           /\ batch'[w] = batch[w]
           /\ pc'[w] \in Owning \/ batch_state'[batch[w]] # "running",
         \A b \in Batches :
           \/ batch_state'[b] = batch_state[b]
           \/ /\ b = batch'[w]
              /\ \/ batch_state'[b] = "running" /\ pc'[w] \in Owning
                 \/ batch_state'[b] = "queued" /\ Sendable(b)' # {}
                 \/ batch_state'[b] = "completed",
         ProcessSupplied(w)'
  PROVE  Supplied'
<1>1. ASSUME NEW b \in Batches, ~Owns(w, b), Sendable(b) # {}
      PROVE  Sendable(b)' # {}
  BY <1>1 DEF Sendable, RecipientsIn, RecipientsOf
<1>2. ASSUME NEW b \in Batches
      PROVE  BatchSupplied(b)'
  <2>1. CASE batch_state'[b] # batch_state[b]
    BY <1>2, <2>1 DEF BatchSupplied, Owns
  <2>2. CASE batch_state'[b] = batch_state[b]
    <3>1. BatchSupplied(b)
      BY DEF Supplied
    <3>2. batch_state[b] = "running" => \E v \in Workers : Owns(v, b)'
      BY <2>2, <3>1 DEF BatchSupplied, Owns
    <3>3. batch_state[b] = "queued" => Sendable(b)' # {}
      BY <1>1, <3>1, OwnedRuns DEF BatchSupplied
    <3> QED
      BY <2>2, <3>1, <3>2, <3>3 DEF BatchSupplied
  <2> QED
    BY <2>1, <2>2
<1>3. ASSUME NEW v \in Workers \ {w}
      PROVE  ProcessSupplied(v)'
  <2>1. ProcessSupplied(v)
    BY DEF Supplied
  <2>2. ASSUME pc[v] \in {"loading", "finish_requeue", "shutdown_batch"}
        PROVE  Sendable(batch[v])' # {}
    <3>1. batch[v] \in Batches /\ ~Owns(w, batch[v])
      BY <2>2, OwnerRuns, OwnedRuns, OwningLabels DEF Owns
    <3>2. Sendable(batch[v]) # {}
      BY <2>1, <2>2 DEF ProcessSupplied
    <3> QED
      BY <1>1, <3>1, <3>2 DEF Sendable, RecipientsIn, RecipientsOf
  <2> QED
    BY <2>1, <2>2 DEF ProcessSupplied
<1> QED
  BY <1>2, <1>3 DEF Supplied

\* The same for a step of main() to label that writes neither rows nor batches.
LEMMA SupplyQuiet ==
  ASSUME TypeOK, ReportedInv, Supplied, NEW w \in Workers, NEW label, Goto(w, label),
         UNCHANGED <<recipient_state, batch_state>>,
         \A v \in Workers \ {w} : batch'[v] = batch[v] /\ todo'[v] = todo[v],
         pc[w] \in Owning => batch'[w] = batch[w] /\ label \in Owning,
         label \in {"loading", "finish_requeue", "shutdown_batch"} => Sendable(batch'[w]) # {},
         label \in Preparing => todo'[w] # {},
         label \notin Failing
  PROVE  Supplied'
<1>1. pc'[w] = label /\ \A v \in Workers \ {w} : pc'[v] = pc[v]
  BY DEF Goto, TypeOK
<1>2. ProcessSupplied(w)'
  BY <1>1 DEF ProcessSupplied, Sendable, RecipientsIn, RecipientsOf
<1> QED
  BY <1>1, <1>2, SupplyMove

\* Nothing is stale while everything runs on time and every running batch is attended.
LEMMA NothingStale ==
  ASSUME ReportedInv, Supplied
  PROVE  StaleBatches = {}
BY DEF StaleBatches, Supplied, BatchSupplied, ReportedInv, OwnedInv

LEMMA MainSupplied ==
  ASSUME TypeOK, ReportedInv, Verdicts, Delivery, Supplied, Targeted = {},
         NEW w \in Workers, MainStep(w)
  PROVE  Supplied'
<1> USE DEF tables, local
<1>1. ProcessSupplied(w)
  BY DEF Supplied
<1>2. pc[w] \in Preparing \union {"sending"} => todo[w] \subseteq Sendable(batch[w])
  BY DEF Delivery, Loaded, Sendable
<1>3. pc[w] \in Owning => batch[w] \in Batches /\ batch_state[batch[w]] = "running"
  BY OwnerRuns
<1>4. CASE Spawn(w)
  BY <1>4, SupplyQuiet, OwningLabels DEF Spawn, Preparing, Failing, Unclaimed
<1>5. CASE RecoverStaleRunningBatches(w)
  <2>1. /\ SetBatches({}, "queued") /\ SetRecipients(Interrupted({}), "batched")
        /\ pc[w] = "starting" /\ Goto(w, "claiming") /\ UNCHANGED <<batch, todo>>
    BY <1>5, NothingStale DEF RecoverStaleRunningBatches
  <2>2. /\ \A b \in Batches : batch_state'[b] = batch_state[b]
        /\ \A r \in Recipients : recipient_state'[r] = recipient_state[r]
    BY <2>1 DEF SetBatches, SetRecipients, Interrupted
  <2>3. pc'[w] = "claiming" /\ \A v \in Workers \ {w} : pc'[v] = pc[v]
    BY <2>1 DEF Goto, TypeOK
  <2>4. ProcessSupplied(w)'
    BY <2>3 DEF ProcessSupplied, Preparing, Failing
  <2> QED
    BY <2>1, <2>2, <2>3, <2>4, SupplyMove, OwningLabels DEF Unclaimed
<1>6. CASE SelectDispatch(w)
  BY <1>6, SupplyQuiet, OwningLabels DEF SelectDispatch, Preparing, Failing, Unclaimed
<1>7. CASE ClaimNextQueuedBatch(w)
  <2>1. /\ pc[w] = "locking" /\ pc[w] \notin Owning
        /\ UNCHANGED <<recipient_state, todo>>
    BY <1>7, OwningLabels
    DEF ClaimNextQueuedBatch, ClaimBatch, ReconcileDispatchWithoutQueuedBatch, Unclaimed
  <2>2. ASSUME NEW c, ClaimBatch(w, c)
        PROVE  Supplied'
    <3>1. PICK b \in Lowest(BatchesIn(c, {"queued"}), 1) :
            /\ SetBatches({b}, "running")
            /\ batch' = [batch EXCEPT ![w] = b]
            /\ Goto(w, "loading")
      BY <2>2 DEF ClaimBatch
    <3>2. b \in Batches /\ batch_state[b] = "queued" /\ Sendable(b) # {}
      BY <3>1, FirstBatch DEF Supplied, BatchSupplied
    <3>3. /\ pc'[w] = "loading" /\ batch'[w] = b /\ pc'[w] \in Owning
          /\ \A v \in Workers \ {w} : pc'[v] = pc[v] /\ batch'[v] = batch[v]
      BY <3>1, <3>2, OwningLabels DEF Goto, TypeOK
    <3>4. ProcessSupplied(w)'
      BY <2>1, <3>2, <3>3
      DEF ProcessSupplied, Sendable, RecipientsIn, RecipientsOf, Preparing, Failing
    <3> QED
      BY <2>1, <3>1, <3>3, <3>4, SupplyMove DEF SetBatches
  <2>3. CASE ~\E c \in StillOpen(w) : ClaimBatch(w, c)
    <3>1. Goto(w, "exiting") /\ UNCHANGED <<batch, batch_state>>
      BY <1>7, <2>3 DEF ClaimNextQueuedBatch, ReconcileDispatchWithoutQueuedBatch
    <3> QED
      BY <2>1, <3>1, SupplyQuiet DEF Preparing, Failing
  <2> QED
    BY <2>2, <2>3
<1>8. CASE LoadBatchByCampaign(w)
  BY <1>8 DEF LoadBatchByCampaign
<1>9. CASE LoadRecipients(w)
  <2> DEFINE rows == Lowest(Sendable(batch[w]), MaxRecipientsPerRun)
  <2>1. pc[w] = "loading"
    BY <1>9 DEF LoadRecipients
  <2>2. rows # {}
    BY <1>1, <2>1, LowestExists, TablesAssumption, ExecutorAssumption
    DEF ProcessSupplied, Sendable, RecipientsIn, RecipientsOf
  <2>3. /\ Goto(w, "mark_registry") /\ todo' = [todo EXCEPT ![w] = rows]
        /\ UNCHANGED <<recipient_state, batch_state, batch>>
    BY <1>9, <2>2 DEF LoadRecipients
  <2>4. todo'[w] = rows /\ \A v \in Workers \ {w} : todo'[v] = todo[v]
    BY <2>3 DEF TypeOK
  <2> HIDE DEF rows
  <2> QED
    BY <2>2, <2>3, <2>4, SupplyQuiet, OwningLabels DEF Failing
<1>10. CASE FailBatchAndDispatch(w)
  BY <1>1, <1>10 DEF FailBatchAndDispatch, ProcessSupplied, Failing
<1>11. CASE MarkRegistryRunning(w)
  BY <1>1, <1>11, SupplyQuiet, OwningLabels
  DEF MarkRegistryRunning, ProcessSupplied, Preparing, Failing
<1>12. CASE MarkQueueRunning(w)
  BY <1>1, <1>12, SupplyQuiet, OwningLabels
  DEF MarkQueueRunning, ProcessSupplied, Preparing, Failing
<1>13. CASE ExecuteDryRun(w)
  <2> DEFINE b == batch[w]
             listed == todo[w] \cap RecipientsIn(b, {"batched"})
             rest == RecipientsIn(b, {"batched"}) \ listed
             state == IF rest # {} THEN "queued" ELSE "completed"
  <2>1. /\ pc[w] = "dry_run" /\ Goto(w, "dry_run_attempt")
        /\ SetRecipients(listed, "dry_run_sent") /\ SetBatches({b}, state)
        /\ todo' = [todo EXCEPT ![w] = {}] /\ UNCHANGED batch
    BY <1>13 DEF ExecuteDryRun
  <2>2. /\ b \in Batches /\ pc[w] \in Owning
        /\ \A r \in listed : r \in Recipients /\ Owns(w, BatchOf[r])
    BY <1>3, <2>1, OwningLabels DEF Owns, RecipientsIn, RecipientsOf
  <2>3. rest \subseteq Sendable(b)'
    BY <2>1 DEF SetRecipients, Sendable, RecipientsIn, RecipientsOf
  <2>4. \A r \in Recipients : r \notin listed => recipient_state'[r] = recipient_state[r]
    BY <2>1 DEF SetRecipients
  <2>5. /\ pc'[w] = "dry_run_attempt"
        /\ \A v \in Workers \ {w} : pc'[v] = pc[v] /\ todo'[v] = todo[v]
    BY <2>1 DEF Goto, TypeOK
  <2>6. ProcessSupplied(w)'
    BY <2>5 DEF ProcessSupplied, Preparing, Failing
  <2>7. state = "completed" \/ (state = "queued" /\ Sendable(b)' # {})
    BY <2>3
  <2>8. \A x \in Batches : batch_state'[x] = IF x = b THEN state ELSE batch_state[x]
    BY <2>1 DEF SetBatches
  <2> HIDE DEF listed, state
  <2> QED
    BY <2>1, <2>2, <2>4, <2>5, <2>6, <2>7, <2>8, SupplyMove
<1>14. CASE InsertDryRunAttempt(w)
  BY <1>14, SupplyQuiet, OwningLabels
  DEF InsertDryRunAttempt, Preparing, Failing
<1>15. CASE StartBatch(w)
  <2>1. /\ pc[w] = "start" /\ Goto(w, "insert_attempt") /\ SetBatches({batch[w]}, "running")
        /\ UNCHANGED <<recipient_state, batch, todo>>
    BY <1>15 DEF StartBatch
  <2>2. pc'[w] = "insert_attempt" /\ \A v \in Workers \ {w} : pc'[v] = pc[v]
    BY <2>1 DEF Goto, TypeOK
  <2>3. ProcessSupplied(w)'
    BY <1>1, <2>1, <2>2 DEF ProcessSupplied, Preparing, Failing
  <2> QED
    BY <2>1, <2>2, <2>3, SupplyMove, OwningLabels DEF SetBatches
<1>16. CASE InsertAttempt(w)
  <2>1. /\ pc[w] = "insert_attempt" /\ UNCHANGED <<recipient_state, batch_state, batch, todo>>
        /\ Goto(w, "shutdown_batch") \/ Goto(w, "sending")
    BY <1>16 DEF InsertAttempt
  <2>2. Sendable(batch[w]) # {}
    BY <1>1, <1>2, <2>1 DEF ProcessSupplied, Preparing
  <2> QED
    BY <2>1, <2>2, SupplyQuiet, OwningLabels DEF Preparing, Failing
<1>17. CASE CountRemaining(w)
  BY <1>17, SupplyQuiet, OwningLabels DEF CountRemaining, Sendable, Preparing, Failing
<1>18. CASE FinishBatchOrRequeue(w)
  <2>1. PICK label \in {"report_partial", "report_ok"}, state \in {"queued", "completed"} :
          /\ pc[w] \in Finishing /\ Goto(w, label) /\ SetBatches({batch[w]}, state)
          /\ state = "queued" => pc[w] = "finish_requeue"
          /\ UNCHANGED <<recipient_state, batch, todo>>
    BY <1>18 DEF FinishBatchOrRequeue, Finishing
  <2>2. state = "queued" => Sendable(batch[w])' # {}
    BY <1>1, <2>1 DEF ProcessSupplied, Sendable, RecipientsIn, RecipientsOf
  <2>3. pc'[w] = label /\ \A v \in Workers \ {w} : pc'[v] = pc[v]
    BY <2>1 DEF Goto, TypeOK
  <2>4. ProcessSupplied(w)'
    BY <2>3 DEF ProcessSupplied, Preparing, Failing
  <2>5. \A b \in Batches : batch_state'[b] = IF b = batch[w] THEN state ELSE batch_state[b]
    BY <2>1 DEF SetBatches
  <2>6. pc[w] \in Owning => batch_state'[batch[w]] # "running"
    BY <1>3, <2>1, <2>5
  <2> QED
    BY <2>1, <2>2, <2>3, <2>4, <2>5, <2>6, SupplyMove
<1>19. CASE ReportAttempt(w)
  BY <1>1, <1>19, SupplyQuiet, OwningLabels
  DEF ReportAttempt, Reports, ProcessSupplied, Preparing, Failing, Reporting
<1>20. CASE RequeueBatchForShutdown(w)
  <2>1. CASE pc[w] = "shutdown_batch"
    <3>1. /\ SetBatches({batch[w]}, "queued") /\ Goto(w, "shutdown_recipients")
          /\ UNCHANGED <<recipient_state, batch, todo>>
      BY <1>20, <2>1 DEF RequeueBatchForShutdown
    <3>2. Sendable(batch[w])' # {}
      BY <1>1, <2>1, <3>1 DEF ProcessSupplied, Sendable, RecipientsIn, RecipientsOf
    <3>3. pc'[w] = "shutdown_recipients" /\ \A v \in Workers \ {w} : pc'[v] = pc[v]
      BY <3>1 DEF Goto, TypeOK
    <3>4. ProcessSupplied(w)'
      BY <3>3 DEF ProcessSupplied, Preparing, Failing
    <3>5. \A b \in Batches :
            batch_state'[b] = IF b = batch[w] THEN "queued" ELSE batch_state[b]
      BY <3>1 DEF SetBatches
    <3>6. pc[w] \in Owning => batch_state'[batch[w]] # "running"
      BY <1>3, <3>5
    <3> QED
      BY <3>1, <3>2, <3>3, <3>4, <3>5, <3>6, SupplyMove
  <2>2. CASE pc[w] # "shutdown_batch"
    <3>1. /\ pc[w] = "shutdown_recipients" /\ Goto(w, "report_shutdown")
          /\ SetRecipients(Interrupted({batch[w]}), "batched")
          /\ UNCHANGED <<batch_state, batch, todo>>
      BY <1>20, <2>2 DEF RequeueBatchForShutdown
    <3>2. pc'[w] = "report_shutdown" /\ \A v \in Workers \ {w} : pc'[v] = pc[v]
      BY <3>1 DEF Goto, TypeOK
    <3>3. ProcessSupplied(w)'
      BY <3>2 DEF ProcessSupplied, Preparing, Failing
    <3> QED
      BY <3>1, <3>2, <3>3, SupplyMove, OwningLabels DEF SetRecipients
  <2> QED
    BY <2>1, <2>2
<1>21. CASE RecoverBatchAfterControlPlaneError(w)
  <2> DEFINE b == batch[w]
             rows == RecipientsIn(b, {"batched", "sending"})
             state == IF rows # {} THEN "queued" ELSE "completed"
  <2>1. /\ pc[w] = "recover" /\ Goto(w, "report_retry")
        /\ SetRecipients(Interrupted({b}), "batched") /\ SetBatches({b}, state)
        /\ UNCHANGED <<batch, todo>>
    BY <1>21 DEF RecoverBatchAfterControlPlaneError
  <2>2. \A r \in rows : r \in Sendable(b)'
    BY <2>1 DEF SetRecipients, Interrupted, Sendable, RecipientsIn, RecipientsOf
  <2>3. state = "completed" \/ (state = "queued" /\ Sendable(b)' # {})
    BY <2>2
  <2>4. pc'[w] = "report_retry" /\ \A v \in Workers \ {w} : pc'[v] = pc[v]
    BY <2>1 DEF Goto, TypeOK
  <2>5. ProcessSupplied(w)'
    BY <2>4 DEF ProcessSupplied, Preparing, Failing
  <2>6. \A x \in Batches : batch_state'[x] = IF x = b THEN state ELSE batch_state[x]
    BY <2>1 DEF SetBatches
  <2>7. pc[w] \in Owning /\ b \in Batches
    BY <1>3, <2>1, OwningLabels
  <2>8. \A r \in Recipients :
          recipient_state[r] = "batched" => recipient_state'[r] = "batched"
    BY <2>1 DEF SetRecipients
  <2> HIDE DEF state
  <2> QED
    BY <2>1, <2>3, <2>4, <2>5, <2>6, <2>7, <2>8, SupplyMove
<1>22. CASE FailBatch(w)
  BY <1>1, <1>22 DEF FailBatch, ProcessSupplied, Failing
<1>23. CASE CountOpenBatches(w)
  BY <1>23, SupplyQuiet, OwningLabels DEF CountOpenBatches, Preparing, Failing, Closing
<1>24. CASE CloseQueue(w)
  BY <1>24, SupplyQuiet, OwningLabels DEF CloseQueue, Preparing, Failing, Closing
<1>25. CASE CloseRegistry(w)
  BY <1>25, SupplyQuiet, OwningLabels DEF CloseRegistry, Preparing, Failing, Closing
<1>26. CASE Exit(w)
  <2>1. /\ pc[w] = "exiting" /\ ProcessGone(w) /\ UNCHANGED <<recipient_state, batch_state>>
    BY <1>26 DEF Exit
  <2>2. /\ pc'[w] = "off"
        /\ \A v \in Workers \ {w} : pc'[v] = pc[v] /\ batch'[v] = batch[v] /\ todo'[v] = todo[v]
    BY <2>1 DEF ProcessGone, Goto, TypeOK
  <2>3. ProcessSupplied(w)'
    BY <2>2 DEF ProcessSupplied, Preparing, Failing
  <2> QED
    BY <2>1, <2>2, <2>3, SupplyMove, OwningLabels
<1> QED
  BY <1>4, <1>5, <1>6, <1>7, <1>8, <1>9, <1>10, <1>11, <1>12, <1>13, <1>14, <1>15, <1>16,
     <1>17, <1>18, <1>19, <1>20, <1>21, <1>22, <1>23, <1>24, <1>25, <1>26 DEF MainStep

\* A loop takes rows of the batch its process owns; a loop that throws leaves the
\* batch to a handler.
LEMMA LoopSupplied ==
  ASSUME TypeOK, ReportedInv, Delivery, Supplied, NEW w \in Workers, NEW i \in 1..Slots,
         slot[w][i] # "done",
         UNCHANGED <<batch, batch_state>>,
         \A v \in Workers \ {w} : todo'[v] = todo[v],
         \A r \in Recipients :
           recipient_state'[r] = recipient_state[r] \/ r \in RecipientsOf(batch[w]),
         \/ UNCHANGED pc
         \/ /\ UNCHANGED recipient_state
            /\ Throws(w, i, "recover") \/ (Throws(w, i, "shutdown_batch") /\ todo[w] # {})
  PROVE  Supplied'
<1>1. /\ pc[w] = "sending" /\ pc[w] \in Owning
      /\ todo[w] \subseteq Sendable(batch[w])
  BY LoopFacts, OwningLabels DEF Sendable
<1>2. PICK label \in {"sending", "recover", "shutdown_batch"} :
        /\ pc' = [pc EXCEPT ![w] = label]
        /\ label = "shutdown_batch" => todo[w] # {} /\ UNCHANGED recipient_state
  BY <1>1 DEF Throws, TypeOK
<1>3. pc'[w] = label /\ label \in Owning /\ \A v \in Workers \ {w} : pc'[v] = pc[v]
  BY <1>2, OwningLabels DEF TypeOK
<1>4. ProcessSupplied(w)'
  <2>1. label = "shutdown_batch" => Sendable(batch[w])' # {}
    BY <1>1, <1>2 DEF Sendable, RecipientsIn, RecipientsOf
  <2> QED
    BY <1>2, <1>3, <2>1 DEF ProcessSupplied, Preparing, Failing
<1>5. \A r \in Recipients : recipient_state'[r] = recipient_state[r] \/ Owns(w, BatchOf[r])
  BY <1>1 DEF Owns, RecipientsOf
<1> QED
  BY <1>3, <1>4, <1>5, SupplyMove

LEMMA SlotSupplied ==
  ASSUME TypeOK, ReportedInv, Delivery, Supplied, NEW w \in Workers, NEW i \in 1..Slots,
         SlotStep(w, i)
  PROVE  Supplied'
<1> USE DEF tables
<1>1. item[w][i] \in RecipientsOf(batch[w]) \/ slot[w][i] \notin Holding
  BY DEF Delivery, Held
<1>2. CASE PickRecipient(w, i)
  <2>1. /\ slot[w][i] = "top" /\ UNCHANGED <<recipient_state, batch, batch_state>>
        /\ UNCHANGED todo \/ \E r : Take(w, r)
        /\ UNCHANGED pc \/ (Throws(w, i, "shutdown_batch") /\ todo[w] # {})
    BY <1>2 DEF PickRecipient
  <2>2. \A v \in Workers \ {w} : todo'[v] = todo[v]
    BY <2>1 DEF Take, TypeOK
  <2> QED
    BY <2>1, <2>2, LoopSupplied
<1>3. CASE MarkSending(w, i)
  BY <1>1, <1>3, LoopSupplied DEF MarkSending, SetRecipients, Holding
<1>4. CASE MarkSent(w, i)
  BY <1>1, <1>4, LoopSupplied DEF MarkSent, SetRecipients, Holding
<1>5. CASE SendMail(w, i) \/ RecordProgress(w, i)
  BY <1>5, LoopSupplied DEF SendMail, RecordProgress
<1>6. CASE SlotStatementRefused(w, i)
  BY <1>6, LoopFacts DEF SlotStatementRefused
<1> QED
  BY <1>2, <1>3, <1>4, <1>5, <1>6 DEF SlotStep

LEMMA NoRoughFault ==
  ASSUME TypeOK, Calm', NEW kind, Fault(kind)
  PROVE  kind \in GentleKinds
<1>1. faults' # 0
  BY ExecutorAssumption DEF Fault, TypeOK
<1> QED
  BY <1>1 DEF Calm, Fault

LEMMA DisturbedSupplied ==
  ASSUME TypeOK, ReportedInv, Delivery, Supplied, Calm', NEW w \in Workers, Disturbance(w)
  PROVE  Supplied'
<1> USE DEF tables, local
<1>0. \A kind : Fault(kind) => kind \in GentleKinds
  BY NoRoughFault
<1>1. CASE FinishFails(w)
  <2>1. /\ pc[w] \in Finishing /\ Goto(w, "recover")
        /\ UNCHANGED <<recipient_state, batch_state, batch, todo>>
    BY <1>0, <1>1 DEF FinishFails, GentleKinds
  <2> QED
    BY <2>1, SupplyQuiet, OwningLabels DEF Preparing, Failing
<1>2. CASE Uncaught(w) \/ Crash(w)
  BY <1>0, <1>2 DEF Uncaught, Crash, GentleKinds
<1>3. CASE RequestShutdown(w)
  BY <1>3
  DEF RequestShutdown, Supplied, BatchSupplied, ProcessSupplied, Owns, Sendable, RecipientsIn,
      RecipientsOf
<1>4. ASSUME NEW i \in 1..Slots, SendMailFails(w, i)
      PROVE  Supplied'
  <2>1. /\ slot[w][i] = "sending" /\ Throws(w, i, "recover")
        /\ UNCHANGED <<recipient_state, batch_state, batch, todo>>
    BY <1>0, <1>4 DEF SendMailFails, GentleKinds
  <2> QED
    BY <2>1, LoopSupplied
<1>5. ASSUME NEW i \in 1..Slots, SlotStatementFails(w, i)
      PROVE  Supplied'
  <2>1. /\ slot[w][i] # "done" /\ Throws(w, i, "recover")
        /\ UNCHANGED <<recipient_state, batch_state, batch, todo>>
    BY <1>0, <1>5 DEF SlotStatementFails, GentleKinds
  <2> QED
    BY <2>1, LoopSupplied
<1> QED
  BY <1>1, <1>2, <1>3, <1>4, <1>5 DEF Disturbance

LEMMA SupplyStep ==
  ASSUME TypeOK, ReportedInv, Verdicts, Delivery, Supplied, Calm', [Next]_vars
  PROVE  Supplied'
<1> USE DEF tables, local
<1>0. OnTime' /\ Targeted = {}
  BY DEF Calm, Orderly, OnTime
<1>1. ASSUME NEW w \in Workers, MainStep(w)
      PROVE  Supplied'
  BY <1>0, <1>1, MainSupplied
<1>2. ASSUME NEW w \in Workers, NEW i \in 1..Slots, SlotStep(w, i)
      PROVE  Supplied'
  BY <1>2, SlotSupplied
<1>3. ASSUME NEW w \in Workers, Disturbance(w)
      PROVE  Supplied'
  BY <1>3, DisturbedSupplied
<1>4. CASE RecoverOrphanedRunningBatches
  BY <1>4, NothingStale DEF RecoverOrphanedRunningBatches, Orphaned
<1>5. CASE UNCHANGED vars \/ \E b \in Batches : BatchGoesIdle(b)
  <2>1. UNCHANGED <<recipient_state, batch_state, pc, batch, todo>>
    BY <1>5 DEF BatchGoesIdle, vars
  <2> QED
    BY <2>1
    DEF Supplied, BatchSupplied, ProcessSupplied, Owns, Sendable, RecipientsIn, RecipientsOf
<1>6. ASSUME NEW b \in Batches, OperatorReset(b)
      PROVE  FALSE
  BY <1>0, <1>6, NoLateFault DEF OperatorReset, Late
<1> QED
  BY <1>1, <1>2, <1>3, <1>4, <1>5, <1>6 DEF Next

LEMMA InitSupplied ==
  ASSUME Populated, Init
  PROVE  Supplied
<1>1. \A b \in Batches : Sendable(b) # {}
  BY DEF Populated, Init, TablesInit, Sendable, RecipientsIn, RecipientsOf
<1> QED
  BY <1>1 DEF Init, TablesInit, Supplied, BatchSupplied, ProcessSupplied, Preparing, Failing

LEMMA StillOrderly ==
  ASSUME TypeOK, [Next]_vars
  PROVE  (Orderly' => Orderly) /\ (Calm' => Calm)
BY FaultsGrow, StillOnTime DEF Orderly, Calm

LEMMA AlwaysSupplied ==
  ASSUME Populated
  PROVE  Spec => [](Calm => Supplied)
<1>1. Init => Supplied
  BY InitSupplied
<1>2. TypeOK /\ (OnTime => ReportedInv) /\ (OnTime => Verdicts) /\ (Orderly => Delivery)
        /\ (Calm => Supplied) /\ [Next]_vars => (Calm => Supplied)'
  <2> SUFFICES ASSUME TypeOK, OnTime => ReportedInv, OnTime => Verdicts, Orderly => Delivery,
                      Calm => Supplied, [Next]_vars, Calm'
               PROVE  Supplied'
    OBVIOUS
  <2>1. Calm /\ Orderly /\ OnTime
    BY StillOrderly DEF Calm, Orderly
  <2> QED
    BY <2>1, SupplyStep
<1> QED
  BY <1>1, <1>2, TypeCorrect, AlwaysReportedInv, AlwaysVerdicts, AlwaysDelivery, PTL DEF Spec

-----------------------------------------------------------------------------
(* A dispatch fails only with one of its batches.                          *)

FailedQueue == \A c \in Campaigns : queue_state[c] = "failed" => SomeFailed(c)

LEMMA FailedStays ==
  ASSUME TypeOK, ReportedInv, Verdicts, OnTime', [Next]_vars, NEW c, SomeFailed(c)
  PROVE  SomeFailed(c)'
<1>1. \A b \in Batches : batch_state[b] \in Final => batch_state'[b] = batch_state[b]
  BY StageStep DEF Verdicts
<1> QED
  BY <1>1 DEF SomeFailed, BatchesOf, Final

\* Whoever writes 'failed' into a queue row has seen a failed batch, or leaves one.
LEMMA FailingStep ==
  ASSUME TypeOK, ReportedInv, Verdicts, Delivery, Populated, OnTime', [Next]_vars,
         NEW c \in Campaigns, queue_state[c] # "failed", queue_state'[c] = "failed"
  PROVE  SomeFailed(c)'
<1> USE DEF tables, local
<1>1. ASSUME NEW w \in Workers, ClaimNextQueuedBatch(w)
      PROVE  SomeFailed(c)'
  <2>1. \A d : ~ClaimBatch(w, d)
    BY DEF ClaimBatch, SetQueue
  <2>2. /\ ReconcileDispatchWithoutQueuedBatch(w, c)
        /\ BatchesIn(c, {"queued"}) = {} /\ BatchesIn(c, {"reserved", "running"}) = {}
    BY <1>1, <2>1 DEF ClaimNextQueuedBatch, ReconcileDispatchWithoutQueuedBatch, SetQueue
  <2>3. \/ BatchesOf(c) = {} \/ BatchesIn(c, {"failed"}) # {}
        \/ \E b \in BatchesOf(c) : RecipientsIn(b, {"batched"}) # {}
    BY <2>2 DEF ReconcileDispatchWithoutQueuedBatch, SetQueue
  <2>4. ASSUME NEW b \in BatchesOf(c), RecipientsIn(b, {"batched"}) # {}
        PROVE  batch_state[b] = "failed"
    <3>1. b \in Batches /\ batch_state[b] \in Final
      BY <2>2 DEF Verdicts, BatchStages, BatchesIn, BatchesOf
    <3>2. batch_state[b] # "completed"
      BY <2>4 DEF Delivery, RowStages, RecipientsIn, RecipientsOf, Delivered
    <3> QED
      BY <3>1, <3>2 DEF Final
  <2>5. SomeFailed(c)
    BY <2>3, <2>4 DEF Populated, SomeFailed, BatchesIn
  <2> QED
    BY <2>5, FailedStays
<1>2. ASSUME NEW w \in Workers, FailBatchAndDispatch(w)
      PROVE  SomeFailed(c)'
  <2>1. batch[w] \in Batches /\ batch_state[batch[w]] = "running"
    BY <1>2, OwnerRuns, OwningLabels DEF FailBatchAndDispatch
  <2>2. CampaignOf[batch[w]] = c
    BY <1>2 DEF FailBatchAndDispatch, SetQueue
  <2>3. batch_state'[batch[w]] = "failed"
    BY <1>2, <2>1 DEF FailBatchAndDispatch, SetBatches
  <2> QED
    BY <2>1, <2>2, <2>3 DEF SomeFailed, BatchesOf
<1>3. ASSUME NEW w \in Workers, CloseQueue(w)
      PROVE  SomeFailed(c)'
  <2>1. pc[w] = "close_failed_queue" /\ CampaignOf[batch[w]] = c
    BY <1>3 DEF CloseQueue, SetQueue
  <2>2. SomeFailed(c)
    BY <2>1 DEF Verdicts, CountStands, ClosingFailed
  <2> QED
    BY <2>2, FailedStays
<1>4. ASSUME NEW w \in Workers, MarkQueueRunning(w)
      PROVE  FALSE
  BY <1>4 DEF MarkQueueRunning, SetQueue
<1>5. ASSUME NEW w \in Workers, MainStep(w)
      PROVE  SomeFailed(c)'
  BY <1>1, <1>2, <1>3, <1>4, <1>5
  DEF MainStep, Spawn, SelectDispatch, LoadRecipients, LoadBatchByCampaign,
      InsertDryRunAttempt, InsertAttempt, CountRemaining, ReportAttempt, CountOpenBatches,
      Exit, RecoverStaleRunningBatches, MarkRegistryRunning, ExecuteDryRun, StartBatch,
      FinishBatchOrRequeue, RequeueBatchForShutdown, RecoverBatchAfterControlPlaneError,
      FailBatch, CloseRegistry
<1>6. ASSUME NEW w \in Workers, NEW i \in 1..Slots,
             SlotStep(w, i) \/ SendMailFails(w, i) \/ SlotStatementFails(w, i)
      PROVE  FALSE
  BY <1>6
  DEF SlotStep, PickRecipient, MarkSending, SendMail, MarkSent, RecordProgress,
      SlotStatementRefused, SendMailFails, SlotStatementFails
<1>7. ASSUME NEW w \in Workers,
             FinishFails(w) \/ Uncaught(w) \/ Crash(w) \/ RequestShutdown(w)
      PROVE  FALSE
  BY <1>7 DEF FinishFails, Uncaught, Crash, RequestShutdown
<1>8. CASE \/ RecoverOrphanedRunningBatches
           \/ \E b \in Batches : BatchGoesIdle(b) \/ OperatorReset(b)
           \/ UNCHANGED vars
  BY <1>8 DEF RecoverOrphanedRunningBatches, SetQueue, BatchGoesIdle, OperatorReset, vars
<1> QED
  BY <1>5, <1>6, <1>7, <1>8 DEF Next, Disturbance

LEMMA AlwaysFailedQueue ==
  ASSUME Populated
  PROVE  Spec => [](Orderly => FailedQueue)
<1>1. Init => FailedQueue
  BY DEF Init, TablesInit, FailedQueue
<1>2. TypeOK /\ (OnTime => ReportedInv) /\ (OnTime => Verdicts) /\ (Orderly => Delivery)
        /\ (Orderly => FailedQueue) /\ [Next]_vars => (Orderly => FailedQueue)'
  <2> SUFFICES ASSUME TypeOK, OnTime => ReportedInv, OnTime => Verdicts, Orderly => Delivery,
                      Orderly => FailedQueue, [Next]_vars, Orderly',
                      NEW c \in Campaigns, queue_state'[c] = "failed"
               PROVE  SomeFailed(c)'
    BY DEF FailedQueue
  <2>1. Orderly /\ OnTime /\ OnTime'
    BY StillOrderly DEF Orderly
  <2>2. CASE queue_state[c] = "failed"
    BY <2>1, <2>2, FailedStays DEF FailedQueue
  <2> QED
    BY <2>1, <2>2, FailingStep
<1> QED
  BY <1>1, <1>2, TypeCorrect, AlwaysReportedInv, AlwaysVerdicts, AlwaysDelivery, PTL DEF Spec

\* Shutdowns, lost connections and retryable SMTP errors, in any number and order,
\* never fail a dispatch: no handler requeues a batch that has nothing left to send.
THEOREM RetriesNeverFail ==
  ASSUME Targeted = {}, Slots = 1, Populated, FaultKinds \subseteq GentleKinds
  PROVE  Spec => []RetriesDoNotFail
<1>1. (Orderly => FailedQueue) /\ (Calm => Supplied) => RetriesDoNotFail
  <2>1. Orderly /\ Calm
    BY DEF Calm, Orderly, OnTime, GentleKinds, Late
  <2> QED
    BY <2>1 DEF FailedQueue, SomeFailed, BatchesOf, Supplied, BatchSupplied, RetriesDoNotFail
<1> QED
  BY <1>1, AlwaysFailedQueue, AlwaysSupplied, PTL

=============================================================================
