------------------------------ MODULE LostAcks ------------------------------
(***************************************************************************)
(* The executors of RelayExecutor behind the retries of the control plane  *)
(* client (withRetry, query and tx in src/db.js): a connection that breaks *)
(* after the server has executed a statement, or committed a transaction,  *)
(* and before its answer arrived makes the client run it again.            *)
(*                                                                         *)
(* Such a first execution is a step of its own here: it writes the tables  *)
(* and leaves the process before the statement (a transaction: before its  *)
(* first statement), so that everybody else may act before the second      *)
(* execution, which is the step of RelayExecutor.  Statements whose second *)
(* execution finds nothing to do by their own WHERE clause                 *)
(* (markDispatchRunning, failBatchAndDispatch, a claim that reconciles) and *)
(* the attempt rows are left out.  The retries run out as faults of        *)
(* RelayExecutor.                                                          *)
(***************************************************************************)
EXTENDS RelayExecutor

CONSTANT MaxLost    \* bound on lost answers

ASSUME LostAssumption == MaxLost \in Nat

VARIABLES
  lost,          \* answers lost so far
  requeueLost    \* one of them was the answer to a requeue of a batch

lostVars == <<vars, lost, requeueLost>>

LostInit == Init /\ lost = 0 /\ requeueLost = FALSE

LoseAnswer(requeue) ==
  /\ lost < MaxLost
  /\ lost' = lost + 1
  /\ requeueLost' = (requeueLost \/ requeue)
  /\ UNCHANGED <<batch, todo, slot, item, shutdown, mails, faults>>

-----------------------------------------------------------------------------
(* Transactions: fn is called again from its BEGIN.                        *)

ClaimFromTheStart(w) ==
  /\ Goto(w, "claiming")
  /\ seen' = [seen EXCEPT ![w] = {}]

\* The batch is running and nobody works on it.
ClaimAnswerLost(w) ==
  /\ pc[w] = "locking"
  /\ \E c \in StillOpen(w) : \E b \in Lowest(BatchesIn(c, {"queued"}), 1) :
       SetBatches({b}, "running") /\ SetQueue({c}, "running")
  /\ ClaimFromTheStart(w)
  /\ LoseAnswer(FALSE)
  /\ UNCHANGED <<recipient_state, direct_dispatch_state, attempt>>

StaleRecoveryAnswerLost(w) ==
  /\ pc[w] = "starting" /\ w \notin Targeted
  /\ StaleBatches # {}
  /\ SetBatches(StaleBatches, "queued")
  /\ SetRecipients(Interrupted(StaleBatches), "batched")
  /\ AnnotateAttempts(StaleBatches, "stale_requeued")
  /\ LoseAnswer(FALSE)
  /\ UNCHANGED <<queue_state, direct_dispatch_state, pc, seen>>

RecoveryAnswerLost(w) ==
  LET b == batch[w] IN
  /\ pc[w] = "recover"
  /\ SetRecipients(Interrupted({b}), "batched")
  /\ SetBatches({b}, IF RecipientsIn(b, {"batched", "sending"}) # {}
                       THEN "queued" ELSE "completed")
  /\ LoseAnswer(TRUE)
  /\ UNCHANGED <<queue_state, direct_dispatch_state, pc, seen, attempt>>

\* The second execution finds the rows done and finishes the batch once more,
\* which is a requeue when some are left.
DryRunAnswerLost(w) ==
  LET b == batch[w]
      waiting == RecipientsIn(b, {"batched"})
      left == waiting \ todo[w] # {} IN
  /\ pc[w] = "dry_run"
  /\ SetRecipients(waiting \cap todo[w], "dry_run_sent")
  /\ SetBatches({b}, IF left THEN "queued" ELSE "completed")
  /\ LoseAnswer(left)
  /\ UNCHANGED <<queue_state, direct_dispatch_state, pc, seen, attempt>>

-----------------------------------------------------------------------------
(* Single statements: query is called again.                               *)

\* What the process writes to its batch at each statement.
BatchStatement ==
  [start |-> "running", finish_requeue |-> "queued", finish_complete |-> "completed",
   shutdown_batch |-> "queued", fail_batch |-> "failed"]

BatchAnswerLost(w) ==
  /\ pc[w] \in DOMAIN BatchStatement
  /\ SetBatches({batch[w]}, BatchStatement[pc[w]])
  /\ LoseAnswer(pc[w] \in {"finish_requeue", "shutdown_batch"})
  /\ UNCHANGED <<recipient_state, queue_state, direct_dispatch_state, pc, seen, attempt>>

HandlerAnswerLost(w) ==
  /\ \/ /\ pc[w] = "shutdown_recipients"
        /\ SetRecipients(Interrupted({batch[w]}), "batched")
        /\ LoseAnswer(TRUE)
     \/ /\ pc[w] = "fail_recipients"
        /\ SetRecipients(RecipientsIn(batch[w], {"batched", "sending"}), "failed")
        /\ LoseAnswer(FALSE)
  /\ UNCHANGED <<batch_state, batch_idle, queue_state, direct_dispatch_state, pc,
                 seen, attempt>>

SlotStatement == [marking |-> "sending", marking_sent |-> "sent"]

RecipientAnswerLost(w, i) ==
  /\ slot[w][i] \in DOMAIN SlotStatement
  /\ pc[w] # "exiting"
  /\ SetRecipients({item[w][i]}, SlotStatement[slot[w][i]])
  /\ LoseAnswer(FALSE)
  /\ UNCHANGED <<batch_state, batch_idle, queue_state, direct_dispatch_state, pc,
                 seen, attempt>>

CloseAnswerLost(w) ==
  LET c == CampaignOf[batch[w]] IN
  /\ \/ /\ pc[w] \in {"close_failed_queue", "close_completed_queue"}
        /\ SetQueue({c}, IF pc[w] = "close_failed_queue" THEN "failed" ELSE "completed")
        /\ UNCHANGED direct_dispatch_state
     \/ /\ pc[w] \in {"close_failed_registry", "close_completed_registry"}
        /\ SetRegistry({c}, IF pc[w] = "close_failed_registry" THEN "failed"
                            ELSE "completed")
        /\ UNCHANGED queue_state
  /\ LoseAnswer(FALSE)
  /\ UNCHANGED <<recipient_state, batch_state, batch_idle, pc, seen, attempt>>

AnswerLost(w) ==
  \/ ClaimAnswerLost(w) \/ StaleRecoveryAnswerLost(w) \/ RecoveryAnswerLost(w)
  \/ DryRunAnswerLost(w)
  \/ BatchAnswerLost(w) \/ HandlerAnswerLost(w) \/ CloseAnswerLost(w)
  \/ \E i \in 1..Slots : RecipientAnswerLost(w, i)

LostNext ==
  \/ Next /\ UNCHANGED <<lost, requeueLost>>
  \/ \E w \in Workers : AnswerLost(w)

LostSpec == LostInit /\ [][LostNext]_lostVars

FairLostSpec ==
  /\ LostSpec
  /\ \A w \in Workers :
       /\ WF_lostVars(MainStep(w) /\ UNCHANGED <<lost, requeueLost>>)
       /\ \A i \in 1..Slots :
            WF_lostVars(SlotStep(w, i) /\ UNCHANGED <<lost, requeueLost>>)
  /\ \A b \in Batches :
       WF_lostVars(~Attended(b) /\ BatchGoesIdle(b) /\ UNCHANGED <<lost, requeueLost>>)

-----------------------------------------------------------------------------
(* Properties; EveryDispatchCloses is that of RelayExecutor.               *)

\* A lost answer is neither a repeated mail, nor a batch with two executors, nor
\* a dispatch closed early (withRetry in db.js runs every statement again,
\* whether it is safe to repeat or not).  Only a requeue that is executed again
\* is unsafe: it takes the batch from whoever has claimed it meanwhile.
OnlyRequeuesAreUnsafe ==
  ~requeueLost => OneOwnerPerBatch /\ CompletedIsDelivered /\ RepetitionsBounded

=============================================================================
