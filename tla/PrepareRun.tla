----------------------------- MODULE PrepareRun -----------------------------
(***************************************************************************)
(* npm run prepare-dispatch (src/prepare-dispatch-run.js) beside the       *)
(* commands and executors of Planning: an audit of one campaign that may   *)
(* reset a finished dry run.  The audit reads the registry, the rows, the  *)
(* batches and the queue in statements of their own; the reset is one      *)
(* transaction that relies on what was read.                               *)
(***************************************************************************)
EXTENDS Planning

CONSTANTS
  Auditors,     \* processes of npm run prepare-dispatch
  MaxAudits     \* bound on audits

ASSUME PrepareAssumption == MaxAudits \in Nat

VARIABLES
  audit,        \* what each auditor has read, and where it is
  audits

prepareVars == <<audit, audits>>
allVars == <<vars, prepareVars>>

NoAudit == [at |-> "off", registry |-> "absent", snapshots |-> FALSE,
            recipients |-> {}, batches |-> {}, queue |-> "absent"]

PrepareTypeOK ==
  /\ TypeOK
  /\ \A a \in Auditors :
       /\ audit[a].at \in {"off", "recipients", "batches", "queue", "report"}
       /\ audit[a].recipients \subseteq RowStates
       /\ audit[a].batches \subseteq BatchStates
  /\ audits \in 0..MaxAudits

PrepareInit == Init /\ audit = [a \in Auditors |-> NoAudit] /\ audits = 0

\* loadConfig and parseArgs: whether the environment (dry-run mode, rate and
\* recipient limits) and the expected Sendy campaign pass, and whether the
\* arguments ask for the reset (--prepare-dry-run --apply, no --json).
Inputs == [safe : BOOLEAN, apply : BOOLEAN, confirmed : BOOLEAN]

FetchRegistry(a) ==
  /\ audit[a].at = "off"
  /\ audits < MaxAudits
  /\ audits' = audits + 1
  /\ audit' = [audit EXCEPT ![a].at = "recipients", ![a].registry = registry,
                            ![a].snapshots = content /\ gen > 0]
  /\ UNCHANGED vars

\* fetchGroupedCounts, of which only the states that occur are used.
FetchRecipients(a) ==
  /\ audit[a].at = "recipients"
  /\ audit' = [audit EXCEPT ![a].at = "batches",
                            ![a].recipients = {row[s] : s \in Subscribers} \ {"absent"}]
  /\ UNCHANGED <<vars, audits>>

FetchBatches(a) ==
  /\ audit[a].at = "batches"
  /\ audit' = [audit EXCEPT ![a].at = "queue",
                            ![a].batches = {batch[n] : n \in Keys} \ {"absent"}]
  /\ UNCHANGED <<vars, audits>>

FetchDispatchQueue(a) ==
  /\ audit[a].at = "queue"
  /\ audit' = [audit EXCEPT ![a].at = "report", ![a].queue = queue]
  /\ UNCHANGED <<vars, audits>>

Unprepared(x, in) ==
  \/ x.registry = "absent" \/ ~x.snapshots
  \/ ~in.safe
  \/ x.recipients = {} \/ x.batches = {}

\* buildPrepareDryRunPlan has no blockers.
PlanReady(x, in) ==
  /\ in.apply => in.confirmed
  /\ ~Unprepared(x, in)
  /\ x.recipients \intersect {"sent", "failed"} = {}
  /\ x.batches \intersect {"running", "failed"} = {}
  /\ x.queue \notin {"failed", "running"}

\* Mutant: the batches are queued again, but not their rows.
ResetBatchesOnly(a) ==
  /\ batch' = [n \in Keys |-> IF batch[n] = "completed" THEN "queued" ELSE batch[n]]
  /\ registry' = "batched"
  /\ queue' = "queued"
  /\ UNCHANGED <<content, gen, row, key, batch_id>>

\* Mutant: the queue is given the registry's state.
ResetQueueToBatched(a) ==
  /\ row' = [s \in Subscribers |-> IF row[s] = "dry_run_sent" THEN "batched" ELSE row[s]]
  /\ batch' = [n \in Keys |-> IF batch[n] = "completed" THEN "queued" ELSE batch[n]]
  /\ registry' = "batched"
  /\ queue' = "batched"
  /\ UNCHANGED <<content, gen, key, batch_id>>

\* applyPrepareDryRun.  The queue row that the audit saw is updated; if it saw
\* none, one is inserted, which makes the campaign claimable as well.
ApplyPrepareDryRun(a) ==
  /\ row' = [s \in Subscribers |-> IF row[s] = "dry_run_sent" THEN "batched" ELSE row[s]]
  /\ batch' = [n \in Keys |-> IF batch[n] = "completed" THEN "queued" ELSE batch[n]]
  /\ registry' = "batched"
  /\ queue' = "queued"
  /\ UNCHANGED <<content, gen, key, batch_id>>

\* main: the report and, when asked for and nothing blocks it, the reset.
Report(a) ==
  /\ audit[a].at = "report"
  /\ audit' = [audit EXCEPT ![a] = NoAudit]
  /\ \E in \in Inputs :
       IF in.apply /\ PlanReady(audit[a], in)
         THEN ApplyPrepareDryRun(a)
         ELSE UNCHANGED tables
  /\ UNCHANGED <<audience, cmd, ex, history, bounds, audits>>

AuditStep(a) ==
  \/ FetchRegistry(a) \/ FetchRecipients(a) \/ FetchBatches(a)
  \/ FetchDispatchQueue(a) \/ Report(a)

PrepareNext ==
  \/ Next /\ UNCHANGED prepareVars
  \/ \E a \in Auditors : AuditStep(a)

PrepareSpec == PrepareInit /\ [][PrepareNext]_allVars

\* The worker loop starts a claiming executor again whenever one ends; a
\* targeted one is run by an operator and may stop between two steps.
FairPrepareSpec ==
  /\ PrepareSpec
  /\ \A e \in Executors \ Targeted : WF_allVars(ExecutorStep(e) /\ UNCHANGED prepareVars)

-----------------------------------------------------------------------------
(* Properties.                                                             *)

\* Until somebody is mailed or refused, and as long as the audience is resolved
\* once, a batch that is queued has rows to load, so that the next executor does
\* not fail it as empty (executeDryRun, applyPrepareDryRun).
QueuedBatchHasRows ==
  /\ ~disturbed /\ gen <= 1
  /\ failures = 0 /\ \A s \in Subscribers : mails[s] = 0
  => \A n \in BatchesIn({"queued"}) : RowsIn(n, {"batched"}) # {}

\* A prepared dispatch is run to its end and closed.
PreparedRunEnds == queue = "queued" ~> queue \in {"completed", "failed"}

=============================================================================
