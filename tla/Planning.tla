------------------------------ MODULE Planning ------------------------------
(***************************************************************************)
(* The command line path of one campaign: npm run intake, resolve,         *)
(* plan-batches and execute (src/campaign-intake.js, audience-resolver.js, *)
(* batch-planner.js, relay-executor.js), started by operators at any time, *)
(* several at once, on the tables of the control plane.                    *)
(*                                                                         *)
(* A command reads first, without a lock, and writes in one transaction    *)
(* later: cmd[c] holds what it has read.  Rows are deleted and inserted    *)
(* anew, so updates by id must be told from updates by key: gen is the     *)
(* generation of the recipient rows, batch_id[n] the id of batch row n.    *)
(*                                                                         *)
(* Executors are reduced to the statements that touch these rows; sending  *)
(* is one step per recipient and closing one step (RelayExecutor has both  *)
(* in full).                                                               *)
(***************************************************************************)
EXTENDS Naturals, FiniteSets

CONSTANTS
  Subscribers,         \* Sendy subscribers, numbered by sendy_subscriber_id
  Commands,            \* operator processes
  Executors,
  Targeted,            \* executors started for this campaign by environment
  DryRun,              \* executors in dry-run mode
  BatchSize,
  MaxRecipientsPerRun,
  MaxCommands,         \* bound on commands
  MaxFailures          \* bound on mails that fail for good

ASSUME PlanningAssumption ==
  /\ Subscribers \subseteq Nat \ {0} /\ IsFiniteSet(Subscribers)
  /\ Targeted \subseteq Executors /\ DryRun \subseteq Executors
  /\ BatchSize \in Nat \ {0} /\ MaxRecipientsPerRun \in Nat \ {0}
  /\ MaxCommands \in Nat /\ MaxFailures \in Nat

VARIABLES
  audience,    \* subscribers that Sendy's filters select now
  registry,    \* direct_dispatch_state, or "absent"
  content,     \* whether there is a 'ready' content snapshot
  gen,         \* generation of the recipient rows
  row,         \* recipient_state, or "absent"
  key,         \* the batch a row belongs to, 0 for batch_key NULL
  batch,       \* batch_state of each batch key, or "absent"
  batch_id,    \* its delivery_batch_id
  queue,       \* queue_state, or "absent"
  cmd,         \* what each command has read, and where it is
  ex,          \* the same for each executor
  mails,       \* mails accepted for each subscriber
  batchings,   \* how often a row of the subscriber was put into a batch
  disturbed,   \* rows were replaced or planned anew after execution had begun,
               \* or a plan was made of rows replaced since they were read
  commands, failures

tables == <<registry, content, gen, row, key, batch, batch_id, queue>>
history == <<mails, batchings, disturbed>>
bounds == <<commands, failures>>
vars == <<audience, tables, cmd, ex, history, bounds>>

Keys == 1..Cardinality(Subscribers)
NoCommand == [at |-> "off", gen |-> 0, held |-> {}]
NoRun == [at |-> "off", key |-> 0, id |-> 0, gen |-> 0, load |-> {}]
RowStates == {"absent", "queued", "batched", "sent", "dry_run_sent", "failed"}
BatchStates == {"absent", "queued", "running", "completed", "failed"}

TypeOK ==
  /\ audience \subseteq Subscribers
  /\ registry \in {"absent", "pending", "snapshotted", "batched", "running",
                   "completed", "failed"}
  /\ content \in BOOLEAN
  /\ gen \in Nat
  /\ row \in [Subscribers -> RowStates]
  /\ key \in [Subscribers -> Keys \union {0}]
  /\ batch \in [Keys -> BatchStates]
  /\ batch_id \in [Keys -> Nat]
  /\ queue \in {"absent", "queued", "running", "completed", "failed"}
  /\ \A c \in Commands : cmd[c].held \subseteq Subscribers
  /\ \A e \in Executors : ex[e].key \in Keys \union {0} /\ ex[e].load \subseteq Subscribers
  /\ mails \in [Subscribers -> Nat] /\ batchings \in [Subscribers -> Nat]
  /\ disturbed \in BOOLEAN

Init ==
  /\ audience = Subscribers
  /\ registry = "absent"
  /\ content = FALSE
  /\ gen = 0
  /\ row = [s \in Subscribers |-> "absent"]
  /\ key = [s \in Subscribers |-> 0]
  /\ batch = [n \in Keys |-> "absent"]
  /\ batch_id = [n \in Keys |-> 0]
  /\ queue = "absent"
  /\ cmd = [c \in Commands |-> NoCommand]
  /\ ex = [e \in Executors |-> NoRun]
  /\ mails = [s \in Subscribers |-> 0]
  /\ batchings = [s \in Subscribers |-> 0]
  /\ disturbed = FALSE
  /\ commands = 0 /\ failures = 0

RowsIn(n, states) == {s \in Subscribers : key[s] = n /\ row[s] \in states}
BatchesIn(states) == {n \in Keys : batch[n] \in states}
Lowest(S, n) == {x \in S : Cardinality({y \in S : y < x}) < n}

\* Execution has begun: an executor is at work, or has left a batch behind.
Begun == \/ \E e \in Executors : ex[e].at # "off"
         \/ BatchesIn({"running", "completed", "failed"}) # {}

-----------------------------------------------------------------------------
(* Commands.                                                               *)

Starts(c) ==
  /\ cmd[c].at = "off"
  /\ commands < MaxCommands
  /\ commands' = commands + 1
  /\ UNCHANGED failures

Reads(c, at, held) ==
  cmd' = [cmd EXCEPT ![c] = [at |-> at, gen |-> gen, held |-> held]]

Ends(c) == cmd' = [cmd EXCEPT ![c] = NoCommand]

\* Mutant: the upsert supersedes the old content snapshot first.
IntakeSupersedes(c) ==
  /\ Starts(c)
  /\ registry' = "pending" /\ content' = TRUE
  /\ UNCHANGED <<audience, gen, row, key, batch, batch_id, queue, cmd, ex, history>>

\* The upsert overwrites the registry row, but a second 'ready' content
\* snapshot violates uq_campaign_content_snapshots_campaign: all is undone.
Intake(c) ==
  /\ Starts(c)
  /\ IF content THEN UNCHANGED <<registry, content>>
                ELSE registry' = "pending" /\ content' = TRUE
  /\ UNCHANGED <<audience, gen, row, key, batch, batch_id, queue, cmd, ex, history>>

\* loadRegistry, then the filters evaluated in Sendy.
ResolveRecipients(c) ==
  /\ Starts(c)
  /\ registry # "absent"
  /\ Reads(c, "resolve", audience)
  /\ UNCHANGED <<audience, tables, ex, history>>

\* The new audience replaces the recipient rows, whatever became of them; the
\* batches stay.
ReplaceAudience(c) ==
  /\ cmd[c].at = "resolve"
  /\ gen' = gen + 1
  /\ row' = [s \in Subscribers |-> IF s \in cmd[c].held THEN "queued" ELSE "absent"]
  /\ key' = [s \in Subscribers |-> 0]
  /\ registry' = "snapshotted"
  /\ disturbed' = (disturbed \/ Begun)
  /\ Ends(c)
  /\ UNCHANGED <<audience, content, batch, batch_id, queue, ex, mails, batchings, bounds>>

\* loadCampaign and loadQueuedRecipients, before the transaction.
LoadQueuedRecipients(c) ==
  LET queued == {s \in Subscribers : row[s] = "queued"}
  IN  /\ Starts(c)
      /\ registry # "absent"
      /\ queued # {}
      /\ Reads(c, "plan", queued)
      /\ UNCHANGED <<audience, tables, ex, history>>

\* The batch of each recipient when the list held is cut into chunks.
ChunkOf(held, s) == (Cardinality({x \in held : x < s}) \div BatchSize) + 1

\* Mutant: the last chunk is forgotten when it is not full.
FullChunks(held) == {n \in 1..Cardinality(held) : n * BatchSize <= Cardinality(held)}

Chunks(held) == {ChunkOf(held, s) : s \in held}

\* Running and completed batches survive the DELETE; a new batch with the key
\* of one of them violates uq_campaign_delivery_batches_batch_key.
Kept == BatchesIn({"running", "completed"})

\* Ids are drawn from a sequence; an id of a deleted row is never used again.
LastId == CHOOSE i \in {batch_id[n] : n \in Keys} : \A n \in Keys : batch_id[n] <= i

PlanBatches(c) ==
  LET held == cmd[c].held
      new == Chunks(held)
      hit == IF cmd[c].gen = gen THEN held ELSE {}   \* UPDATE ... WHERE id = ANY
  IN  /\ cmd[c].at = "plan"
      /\ Ends(c)
      /\ IF Kept \intersect new # {}
           THEN UNCHANGED <<tables, history>>
           ELSE /\ batch' = [n \in Keys |-> IF n \in new THEN "queued"
                                            ELSE IF n \in Kept THEN batch[n] ELSE "absent"]
                /\ batch_id' = [n \in Keys |-> IF n \in new THEN LastId + n ELSE batch_id[n]]
                /\ row' = [s \in Subscribers |-> IF s \in hit THEN "batched" ELSE row[s]]
                /\ key' = [s \in Subscribers |-> IF s \in hit THEN ChunkOf(held, s)
                                                              ELSE key[s]]
                /\ batchings' = [s \in Subscribers |-> IF s \in hit THEN batchings[s] + 1
                                                                    ELSE batchings[s]]
                /\ registry' = "batched"
                /\ disturbed' = (disturbed \/ Begun \/ cmd[c].gen # gen)
                /\ UNCHANGED <<content, gen, queue, mails>>
      /\ UNCHANGED <<audience, ex, bounds>>

\* Subscribers confirm, unsubscribe or bounce (external: Sendy).
SendyChanges ==
  /\ commands < MaxCommands
  /\ \E s \in Subscribers :
       audience' = IF s \in audience THEN audience \ {s} ELSE audience \union {s}
  /\ commands' = commands + 1
  /\ UNCHANGED <<tables, cmd, ex, history, failures>>

-----------------------------------------------------------------------------
(* Executors.                                                              *)

Step(e, at) == ex' = [ex EXCEPT ![e].at = at]

SetBatch(e, state) ==
  batch' = IF batch_id[ex[e].key] = ex[e].id /\ batch[ex[e].key] # "absent"
           THEN [batch EXCEPT ![ex[e].key] = state] ELSE batch

Holds(e, n) == ex' = [ex EXCEPT ![e] = [at |-> "load", key |-> n, id |-> batch_id[n],
                                       gen |-> 0, load |-> {}]]

\* ORDER BY delivery_batch_id LIMIT 1
NextQueued == {n \in BatchesIn({"queued"}) :
                 \A m \in BatchesIn({"queued"}) : batch_id[n] <= batch_id[m]}

LoadBatchByCampaign(e) ==
  /\ ex[e].at = "off" /\ e \in Targeted
  /\ content
  /\ \E n \in NextQueued : Holds(e, n)
  /\ UNCHANGED <<audience, tables, cmd, history, bounds>>

\* Mutant: a dispatch that runs is not claimed again.
OnlyQueued == {"queued"}

OpenQueue == {"queued", "running"}

ClaimNextQueuedBatch(e) ==
  /\ ex[e].at = "off" /\ e \notin Targeted
  /\ content
  /\ queue \in OpenQueue
  /\ BatchesIn({"running"}) = {}
  /\ \E n \in NextQueued :
       /\ Holds(e, n)
       /\ batch' = [batch EXCEPT ![n] = "running"]
  /\ queue' = "running"
  /\ UNCHANGED <<audience, registry, content, gen, row, key, batch_id, cmd,
                 history, bounds>>

Reconcile(e) ==
  LET failed == \/ BatchesIn({"failed"}) # {}
                \/ \A n \in Keys : batch[n] = "absent"
                \/ \E s \in Subscribers : row[s] = "batched"
  IN  /\ ex[e].at = "off" /\ e \notin Targeted
      /\ queue \in OpenQueue
      /\ BatchesIn({"queued", "running"}) = {}
      /\ queue' = IF failed THEN "failed" ELSE "completed"
      /\ registry' = IF failed THEN IF registry = "completed" THEN registry ELSE "failed"
                               ELSE IF registry = "failed" THEN registry ELSE "completed"
      /\ UNCHANGED <<audience, content, gen, row, key, batch, batch_id, cmd, ex,
                     history, bounds>>

\* loadRecipients by batch_key, then markDispatchRunning.
LoadRecipients(e) ==
  LET found == Lowest(RowsIn(ex[e].key, {"batched"}), MaxRecipientsPerRun)
  IN  /\ ex[e].at = "load"
      /\ found # {}
      /\ ex' = [ex EXCEPT ![e].at = IF e \in DryRun THEN "dry_run" ELSE "start",
                          ![e].gen = gen, ![e].load = found]
      /\ registry' = IF registry \in {"pending", "snapshotted", "batched"}
                     THEN "running" ELSE registry
      /\ queue' = IF queue = "queued" THEN "running" ELSE queue
      /\ UNCHANGED <<audience, content, gen, row, key, batch, batch_id, cmd,
                     history, bounds>>

\* failBatchAndDispatch
FailEmptyBatch(e) ==
  /\ ex[e].at = "load"
  /\ RowsIn(ex[e].key, {"batched"}) = {}
  /\ IF batch[ex[e].key] \in {"queued", "running"} THEN SetBatch(e, "failed")
                                                   ELSE UNCHANGED batch
  /\ queue' = IF queue \in OpenQueue THEN "failed" ELSE queue
  /\ registry' = IF registry = "completed" THEN registry ELSE "failed"
  /\ ex' = [ex EXCEPT ![e] = NoRun]
  /\ UNCHANGED <<audience, content, gen, row, key, batch_id, cmd, history, bounds>>

\* executeDryRun: rows by id, key and state, and the batch, in one transaction.
ExecuteDryRun(e) ==
  LET hit == {s \in ex[e].load : gen = ex[e].gen /\ key[s] = ex[e].key /\ row[s] = "batched"}
      remaining == RowsIn(ex[e].key, {"batched"}) \ hit
  IN  /\ ex[e].at = "dry_run"
      /\ row' = [s \in Subscribers |-> IF s \in hit THEN "dry_run_sent" ELSE row[s]]
      /\ SetBatch(e, IF remaining = {} THEN "completed" ELSE "queued")
      /\ Step(e, "close")
      /\ UNCHANGED <<audience, registry, content, gen, key, batch_id, queue, cmd,
                     history, bounds>>

StartBatch(e) ==
  /\ ex[e].at = "start"
  /\ SetBatch(e, "running")
  /\ Step(e, "send")
  /\ UNCHANGED <<audience, registry, content, gen, row, key, batch_id, queue, cmd,
                 history, bounds>>

\* Mutant: the outcome is not stored.
MarkNothing(e, s, state) == UNCHANGED row

Mark(e, s, state) ==
  row' = IF gen = ex[e].gen THEN [row EXCEPT ![s] = state] ELSE row

Send(e) ==
  /\ ex[e].at = "send"
  /\ \E s \in Lowest(ex[e].load, 1) :
       /\ mails' = [mails EXCEPT ![s] = @ + 1]
       /\ Mark(e, s, "sent")
       /\ ex' = [ex EXCEPT ![e].load = @ \ {s},
                           ![e].at = IF ex[e].load = {s} THEN "finish" ELSE "send"]
  /\ UNCHANGED <<audience, registry, content, gen, key, batch, batch_id, queue, cmd,
                 batchings, disturbed, bounds>>

\* The relay refuses a recipient: the batch fails, and with it the rows of its
\* key that were not sent; the dispatch is not closed.
SendFails(e) ==
  /\ ex[e].at = "send"
  /\ failures < MaxFailures
  /\ failures' = failures + 1
  /\ \E s \in Lowest(ex[e].load, 1) :
       row' = [t \in Subscribers |->
                 IF t \in RowsIn(ex[e].key, {"batched"}) \/ (t = s /\ gen = ex[e].gen)
                   THEN "failed" ELSE row[t]]
  /\ SetBatch(e, "failed")
  /\ ex' = [ex EXCEPT ![e] = NoRun]
  /\ UNCHANGED <<audience, registry, content, gen, key, batch_id, queue, cmd,
                 history, commands>>

FinishBatchOrRequeue(e) ==
  /\ ex[e].at = "finish"
  /\ SetBatch(e, IF RowsIn(ex[e].key, {"batched"}) = {} THEN "completed" ELSE "queued")
  /\ Step(e, "close")
  /\ UNCHANGED <<audience, registry, content, gen, row, key, batch_id, queue, cmd,
                 history, bounds>>

\* Mutant: only running batches count as open.
CloseDispatchEarly(e) ==
  LET verdict == IF BatchesIn({"failed"}) # {} THEN "failed" ELSE "completed"
  IN  /\ ex[e].at = "close"
      /\ ex' = [ex EXCEPT ![e] = NoRun]
      /\ IF BatchesIn({"running"}) # {}
           THEN UNCHANGED <<queue, registry>>
           ELSE /\ queue' = IF queue = "absent" THEN queue ELSE verdict
                /\ registry' = verdict
      /\ UNCHANGED <<audience, content, gen, row, key, batch, batch_id, cmd,
                     history, bounds>>

CloseDispatchIfDone(e) ==
  LET verdict == IF BatchesIn({"failed"}) # {} THEN "failed" ELSE "completed"
  IN  /\ ex[e].at = "close"
      /\ ex' = [ex EXCEPT ![e] = NoRun]
      /\ IF BatchesIn({"queued", "running"}) # {}
           THEN UNCHANGED <<queue, registry>>
           ELSE /\ queue' = IF queue = "absent" THEN queue ELSE verdict
                /\ registry' = verdict
      /\ UNCHANGED <<audience, content, gen, row, key, batch, batch_id, cmd,
                     history, bounds>>

-----------------------------------------------------------------------------

CommandStep(c) ==
  \/ Intake(c) \/ ResolveRecipients(c) \/ ReplaceAudience(c)
  \/ LoadQueuedRecipients(c) \/ PlanBatches(c)

ExecutorStep(e) ==
  \/ LoadBatchByCampaign(e) \/ ClaimNextQueuedBatch(e) \/ Reconcile(e)
  \/ LoadRecipients(e) \/ FailEmptyBatch(e) \/ ExecuteDryRun(e) \/ StartBatch(e)
  \/ Send(e) \/ SendFails(e) \/ FinishBatchOrRequeue(e) \/ CloseDispatchIfDone(e)

Next ==
  \/ \E c \in Commands : CommandStep(c)
  \/ \E e \in Executors : ExecutorStep(e)
  \/ SendyChanges

Spec == Init /\ [][Next]_vars

-----------------------------------------------------------------------------
(* Properties.                                                             *)

\* A recipient whose row names a batch that is gone: no executor loads him.
Orphaned(s) == row[s] \in {"batched", "dry_run_sent"} /\ batch[key[s]] = "absent"

\* A planned row, dry run or not, loses its batch in one way only: a planner
\* commits what it read before a resolver replaced the rows (the DELETE of
\* batch-planner.js and the rows its UPDATE no longer meets).
StrandedOnlyByStalePlan ==
  [][\A s \in Subscribers :
       Orphaned(s)' /\ ~Orphaned(s)
       => \E c \in Commands : cmd[c].at = "plan" /\ cmd'[c].at = "off" /\ cmd[c].gen # gen]_vars

\* Overlapping commands send nobody more mails than there were plans that put
\* him into a batch (updates by id against updates by key); nor does resetting a
\* dry run, as long as one executor sends (the state conditions of executeDryRun
\* and applyPrepareDryRun).
OncePerBatching == \A s \in Subscribers : mails[s] <= batchings[s]

\* If no command got between the others (disturbed), a completed campaign has
\* nobody waiting (finishBatchOrRequeue, closeDispatchIfDone).
CompletedHasNobodyWaiting ==
  ~disturbed /\ registry = "completed" =>
    \A s \in Subscribers : row[s] \notin {"queued", "batched"}

\* Running intake again never reopens a campaign, although its upsert writes
\* 'pending' over any state: the unique content snapshot undoes it.
IntakeNeverReopens ==
  [][registry \notin {"absent", "pending"} => registry' # "pending"]_vars

=============================================================================
