--------------------------- MODULE PlanningProofs ---------------------------
(***************************************************************************)
(* Theorems about Planning and PrepareRun: the command line path of one    *)
(* campaign, with any number of operators, executors, auditors,            *)
(* subscribers, commands and failures.  They are stated of PrepareSpec,    *)
(* the safety part of the specification that the runs check.               *)
(***************************************************************************)
EXTENDS PrepareRun, FiniteSetTheorems, TLAPS

CmdLabels == {"off", "resolve", "plan"}
ExLabels == {"off", "load", "dry_run", "start", "send", "finish", "close"}
AuditLabels == {"off", "recipients", "batches", "queue", "report"}
RegistryStates == {"absent", "pending", "snapshotted", "batched", "running",
                   "completed", "failed"}
QueueStates == {"absent", "queued", "running", "completed", "failed"}

CmdRecords == [at : CmdLabels, gen : Nat, held : SUBSET Subscribers]
ExRecords == [at : ExLabels, key : Keys \union {0}, id : Nat, gen : Nat,
              load : SUBSET Subscribers]
AuditRecords == [at : AuditLabels, registry : RegistryStates, snapshots : BOOLEAN,
                 recipients : SUBSET RowStates, batches : SUBSET BatchStates,
                 queue : QueueStates]

\* TypeOK says of the records of a process only what the statements need; an
\* inductive type invariant has all their fields.
Typing ==
  /\ PrepareTypeOK
  /\ cmd \in [Commands -> CmdRecords]
  /\ ex \in [Executors -> ExRecords]
  /\ audit \in [Auditors -> AuditRecords]
  /\ commands \in Nat /\ failures \in Nat

\* Nothing happens to a campaign before its content snapshot is there.
NothingBeforeIntake ==
  content \/ /\ registry = "absent" /\ queue = "absent"
             /\ \A e \in Executors : ex[e].at = "off"
             /\ \A c \in Commands : cmd[c].at = "off"
             /\ \A a \in Auditors : ~audit[a].snapshots

\* The rows of a generation are planned together: a list read before the plan is
\* the whole audience, and nobody waits for a plan once one is committed.
PlannedTogether ==
  /\ (\E s \in Subscribers : row[s] = "queued") =>
       \A s \in Subscribers : row[s] \in {"queued", "absent"}
  /\ \A c \in Commands :
       cmd[c].at = "plan" =>
         /\ cmd[c].gen <= gen
         /\ cmd[c].gen = gen => cmd[c].held = {s \in Subscribers : row[s] # "absent"}

\* What an executor has loaded was planned, unless it was replaced since.
LoadedWasPlanned ==
  \A e \in Executors :
    /\ ex[e].gen <= gen
    /\ ex[e].at # "off" => ex[e].key \in Keys
    /\ ex[e].at \in {"dry_run", "start", "send"} /\ ex[e].gen = gen =>
         \A s \in ex[e].load : row[s] \notin {"queued", "absent"}

PlannedHasKey ==
  \A s \in Subscribers : row[s] \in {"batched", "dry_run_sent"} => key[s] \in Keys

\* The rows and batches of a campaign never resolved.
FirstResolve ==
  gen = 0 => /\ \A s \in Subscribers : row[s] = "absent"
             /\ \A n \in Keys : batch[n] = "absent"
             /\ \A c \in Commands : cmd[c].at # "plan"

Planned == /\ NothingBeforeIntake /\ PlannedTogether /\ LoadedWasPlanned
           /\ PlannedHasKey /\ FirstResolve

\* As long as commands keep out of each other's way, ids are those read, a planned
\* row has its batch and a completed batch has no row left.
NoneOrphaned == \A s \in Subscribers : ~Orphaned(s)
NoneQueued == \A s \in Subscribers : row[s] # "queued"
IdsAreCurrent ==
  \A e \in Executors : ex[e].at # "off" => /\ batch[ex[e].key] # "absent"
                                           /\ batch_id[ex[e].key] = ex[e].id
LoadedMeansPlanned == \A e \in Executors : ex[e].at \notin {"off", "load"} => NoneQueued
CompletedIsEmpty ==
  \A n \in Keys : batch[n] = "completed" => RowsIn(n, {"batched"}) = {} /\ NoneQueued

Undisturbed ==
  ~disturbed => /\ NoneOrphaned /\ IdsAreCurrent /\ LoadedMeansPlanned /\ CompletedIsEmpty
                /\ CompletedHasNobodyWaiting

Fresh == /\ ~disturbed /\ gen <= 1
         /\ failures = 0 /\ \A s \in Subscribers : mails[s] = 0

\* Before the first mail every batch has rows that were planned for it, and one
\* that is queued has rows still to load.
FreshBatches ==
  Fresh => /\ \A n \in Keys : batch[n] # "absent" => RowsIn(n, {"batched", "dry_run_sent"}) # {}
           /\ \A n \in Keys : batch[n] = "queued" => RowsIn(n, {"batched"}) # {}
           /\ \A e \in Executors : ex[e].at # "finish"

-----------------------------------------------------------------------------
(* At most one executor sends.                                             *)

Senders == Executors \ DryRun
OneSender == \A e, f \in Senders : e = f

Bit(p) == IF p THEN 1 ELSE 0

\* A mail that can still be sent without another plan: the row is planned, or the
\* sender holds a row that was replaced since it was loaded.
RowOwes(s) == row[s] \in {"batched", "dry_run_sent"}
SenderOwes(e, s) == /\ ex[e].at \in {"start", "send"} /\ s \in ex[e].load
                    /\ ex[e].gen # gen
SenderHolds(e, s) == /\ ex[e].at \in {"start", "send"} /\ s \in ex[e].load
                     /\ ex[e].gen = gen

Accounted ==
  /\ \A e \in Executors : ex[e].at \in {"start", "send"} => e \in Senders
  /\ \A s \in Subscribers : mails[s] + Bit(RowOwes(s)) <= batchings[s]
  /\ \A e \in Senders, s \in Subscribers :
       /\ SenderHolds(e, s) => RowOwes(s)
       /\ mails[s] + Bit(RowOwes(s)) + Bit(SenderOwes(e, s)) <= batchings[s]

-----------------------------------------------------------------------------
(* Chunks and ids.                                                         *)

LEMMA KeysType == /\ Cardinality(Subscribers) \in Nat
                  /\ Keys \subseteq Nat /\ IsFiniteSet(Keys) /\ 0 \notin Keys
<1>1. Cardinality(Subscribers) \in Nat
  BY PlanningAssumption, FS_CardinalityType
<1> QED
  BY <1>1, FS_Interval DEF Keys

LEMMA QuotientBound ==
  ASSUME NEW a \in Nat, NEW b \in Nat \ {0}
  PROVE  a \div b \in 0..a
<1>1. a \div b \in Int /\ a \div b >= 0
  OBVIOUS
<1>2. a = b * (a \div b) + (a % b) /\ a % b \in 0..(b - 1)
  OBVIOUS
<1>3. b * (a \div b) >= a \div b
  BY <1>1
<1> QED
  BY <1>1, <1>2, <1>3

\* Chunks are numbered from 1 and there are no more of them than subscribers.
LEMMA ChunkIsKey ==
  ASSUME NEW held \in SUBSET Subscribers, NEW s \in held
  PROVE  ChunkOf(held, s) \in Keys
<1> DEFINE before == {x \in held : x < s}
<1>1. s \in Nat /\ ~(s < s)
  BY PlanningAssumption
<1>2. before \in SUBSET Subscribers /\ before # Subscribers
  BY <1>1
<1>3. /\ IsFiniteSet(before)
      /\ Cardinality(before) <= Cardinality(Subscribers)
      /\ Cardinality(before) # Cardinality(Subscribers)
  BY <1>2, FS_Subset, PlanningAssumption
<1>4. Cardinality(before) \in Nat
  BY <1>3, FS_CardinalityType
<1>5. Cardinality(before) \div BatchSize \in 0..Cardinality(before)
  BY <1>4, QuotientBound, PlanningAssumption
<1> HIDE DEF before
<1>6. (Cardinality(before) \div BatchSize) + 1 \in 1..Cardinality(Subscribers)
  BY <1>3, <1>4, <1>5, KeysType
<1> QED
  BY <1>6 DEF ChunkOf, Keys, before

LEMMA ChunksAreKeys ==
  ASSUME NEW held \in SUBSET Subscribers
  PROVE  Chunks(held) \subseteq Keys
BY ChunkIsKey DEF Chunks

\* A finite set of numbers has a largest one.
LEMMA LargestOf ==
  ASSUME NEW S \in SUBSET Nat, IsFiniteSet(S), S # {}
  PROVE  \E i \in S : \A j \in S : j <= i
<1> DEFINE above(i) == {j \in S : i < j}
           T == {above(i) : i \in S}
<1>1. IsWellFoundedOn(StrictSubsetOrdering(S), SUBSET S)
  BY FS_StrictSubsetOrderingWellFounded, FS_FiniteSubsetsOfFinite
<1>2. T \subseteq SUBSET S /\ T # {}
  OBVIOUS
<1>3. PICK t \in T : \A u \in T : ~(<<u, t>> \in StrictSubsetOrdering(S))
  BY <1>1, <1>2, WFMin
<1>4. PICK i \in S : t = above(i)
  BY <1>3
<1>5. ASSUME NEW j \in S, i < j
      PROVE  FALSE
  <2>1. above(j) \in T /\ above(j) \subseteq S /\ above(i) \subseteq S
    BY <1>5
  <2>2. above(j) \subseteq above(i) /\ j \in above(i) /\ j \notin above(j)
    <3>1. \A k \in S : k \in Nat
      OBVIOUS
    <3>2. \A k \in S : j < k => i < k
      BY <1>5, <3>1
    <3>3. ~(j < j)
      BY <3>1
    <3> QED
      BY <1>5, <3>2, <3>3
  <2>3. <<above(j), above(i)>> \in StrictSubsetOrdering(S)
    BY <2>1, <2>2 DEF StrictSubsetOrdering
  <2> QED
    BY <1>3, <1>4, <2>1, <2>3
<1> QED
  BY <1>5

LEMMA LastIdType ==
  ASSUME batch_id \in [Keys -> Nat], Keys # {}
  PROVE  LastId \in Nat
<1> DEFINE S == {batch_id[n] : n \in Keys}
<1>1. IsFiniteSet(S) /\ S \in SUBSET Nat /\ S # {}
  <2>1. batch_id \in Surjection(Keys, S)
    <3>1. batch_id \in [Keys -> S]
      OBVIOUS
    <3>2. \A i \in S : \E n \in Keys : batch_id[n] = i
      OBVIOUS
    <3> HIDE DEF S
    <3> QED
      BY <3>1, <3>2 DEF Surjection
  <2>2. S \in SUBSET Nat /\ S # {}
    OBVIOUS
  <2> HIDE DEF S
  <2>3. IsFiniteSet(S)
    BY <2>1, KeysType, FS_Surjection
  <2> QED
    BY <2>2, <2>3
<1>2. PICK i \in S : \A j \in S : j <= i
  BY <1>1, LargestOf
<1>3. \A n \in Keys : batch_id[n] <= i
  BY <1>2
<1>4. LastId \in S
  BY <1>2, <1>3 DEF LastId
<1> QED
  BY <1>1, <1>4

LEMMA LowestSubset ==
  ASSUME NEW S, NEW n
  PROVE  Lowest(S, n) \subseteq S
BY DEF Lowest

-----------------------------------------------------------------------------
(* Type correctness.                                                       *)

LEMMA RowsType == \A n, states : RowsIn(n, states) \subseteq Subscribers
BY DEF RowsIn

LEMMA SetBatchType ==
  ASSUME Typing, NEW e \in Executors, NEW state \in BatchStates, SetBatch(e, state)
  PROVE  batch' \in [Keys -> BatchStates]
BY DEF SetBatch, Typing, PrepareTypeOK, TypeOK

LEMMA StepType ==
  ASSUME Typing, NEW e \in Executors, NEW at \in ExLabels, Step(e, at)
  PROVE  ex' \in [Executors -> ExRecords]
BY DEF Step, Typing, ExRecords

LEMMA NoRunType ==
  NoRun \in ExRecords
BY DEF NoRun, ExRecords, ExLabels

LEMMA HoldsType ==
  ASSUME Typing, NEW e \in Executors, NEW n \in Keys, Holds(e, n)
  PROVE  ex' \in [Executors -> ExRecords]
<1>1. batch_id[n] \in Nat
  BY DEF Typing, PrepareTypeOK, TypeOK
<1> QED
  BY <1>1 DEF Holds, Typing, ExRecords, ExLabels

LEMMA LoadedRecord ==
  ASSUME NEW x \in ExRecords, NEW at \in ExLabels, NEW g \in Nat,
         NEW load \in SUBSET Subscribers
  PROVE  [x EXCEPT !.at = at, !.gen = g, !.load = load] \in ExRecords
BY DEF ExRecords

LEMMA SentRecord ==
  ASSUME NEW x \in ExRecords, NEW at \in ExLabels, NEW s
  PROVE  [x EXCEPT !.load = @ \ {s}, !.at = at] \in ExRecords
BY DEF ExRecords

LEMMA CommandStepTyping ==
  ASSUME Typing, NEW c \in Commands, CommandStep(c), UNCHANGED prepareVars
  PROVE  Typing'
<1> USE DEF Typing, PrepareTypeOK, TypeOK, CmdRecords, ExRecords, AuditRecords,
           tables, history, bounds, prepareVars
<1>1. CASE Intake(c)
  <2>1. registry' \in RegistryStates /\ content' \in BOOLEAN
    BY <1>1 DEF Intake, RegistryStates
  <2> QED
    BY <1>1, <2>1 DEF Intake, Starts, RegistryStates
<1>2. CASE ResolveRecipients(c)
  <2>1. cmd' \in [Commands -> CmdRecords]
    BY <1>2 DEF ResolveRecipients, Reads, CmdLabels
  <2> QED
    BY <1>2, <2>1 DEF ResolveRecipients, Starts
<1>3. CASE ReplaceAudience(c)
  <2>1. cmd' \in [Commands -> CmdRecords]
    BY <1>3 DEF ReplaceAudience, Ends, NoCommand, CmdLabels
  <2>2. row' \in [Subscribers -> RowStates] /\ key' \in [Subscribers -> Keys \union {0}]
    BY <1>3 DEF ReplaceAudience, RowStates
  <2>3. disturbed' \in BOOLEAN /\ gen' \in Nat
    BY <1>3 DEF ReplaceAudience, Begun
  <2> QED
    BY <1>3, <2>1, <2>2, <2>3 DEF ReplaceAudience
<1>4. CASE LoadQueuedRecipients(c)
  <2>1. cmd' \in [Commands -> CmdRecords]
    BY <1>4 DEF LoadQueuedRecipients, Reads, CmdLabels
  <2> QED
    BY <1>4, <2>1 DEF LoadQueuedRecipients, Starts
<1>5. CASE PlanBatches(c)
  <2> DEFINE held == cmd[c].held
             hit == IF cmd[c].gen = gen THEN held ELSE {}
  <2>1. cmd' \in [Commands -> CmdRecords]
    BY <1>5 DEF PlanBatches, Ends, NoCommand, CmdLabels
  <2>2. CASE Kept \intersect Chunks(held) # {}
    BY <1>5, <2>1, <2>2 DEF PlanBatches
  <2>3. CASE Kept \intersect Chunks(held) = {}
    <3>1. held \in SUBSET Subscribers /\ hit \subseteq held
      OBVIOUS
    <3>2. batch' \in [Keys -> BatchStates]
      BY <1>5, <2>3 DEF PlanBatches, BatchStates
    <3>3. batch_id' \in [Keys -> Nat]
      <4>1. \A n \in Keys : LastId + n \in Nat
        BY LastIdType, KeysType
      <4> QED
        BY <1>5, <2>3, <4>1 DEF PlanBatches
    <3>4. row' \in [Subscribers -> RowStates]
      BY <1>5, <2>3 DEF PlanBatches, RowStates
    <3>5. key' \in [Subscribers -> Keys \union {0}]
      <4>1. \A s \in hit : ChunkOf(held, s) \in Keys
        BY <3>1, ChunkIsKey
      <4> QED
        BY <1>5, <2>3, <4>1 DEF PlanBatches
    <3>6. batchings' \in [Subscribers -> Nat]
      BY <1>5, <2>3 DEF PlanBatches
    <3>7. disturbed' \in BOOLEAN
      BY <1>5, <2>3 DEF PlanBatches
    <3> QED
      BY <1>5, <2>1, <2>3, <3>2, <3>3, <3>4, <3>5, <3>6, <3>7 DEF PlanBatches
  <2> QED
    BY <2>2, <2>3
<1> QED
  BY <1>1, <1>2, <1>3, <1>4, <1>5 DEF CommandStep

LEMMA ExecutorStepTyping ==
  ASSUME Typing, NEW e \in Executors, ExecutorStep(e), UNCHANGED prepareVars
  PROVE  Typing'
<1> DEFINE ExType == ex' \in [Executors -> ExRecords]
<1> USE DEF Typing, PrepareTypeOK, TypeOK, CmdRecords, ExRecords, AuditRecords,
           tables, history, bounds, prepareVars
<1>1. CASE LoadBatchByCampaign(e)
  <2>1. ExType
    BY <1>1, HoldsType DEF LoadBatchByCampaign, NextQueued, BatchesIn
  <2> QED
    BY <1>1, <2>1 DEF LoadBatchByCampaign
<1>2. CASE ClaimNextQueuedBatch(e)
  <2>1. ExType
    BY <1>2, HoldsType DEF ClaimNextQueuedBatch, NextQueued, BatchesIn
  <2>2. batch' \in [Keys -> BatchStates]
    BY <1>2 DEF ClaimNextQueuedBatch, BatchStates
  <2> QED
    BY <1>2, <2>1, <2>2 DEF ClaimNextQueuedBatch
<1>3. CASE Reconcile(e)
  BY <1>3 DEF Reconcile
<1>4. CASE LoadRecipients(e)
  <2>1. ExType
    <3> DEFINE found == Lowest(RowsIn(ex[e].key, {"batched"}), MaxRecipientsPerRun)
               loaded == [ex[e] EXCEPT !.at = IF e \in DryRun THEN "dry_run" ELSE "start",
                                       !.gen = gen, !.load = found]
    <3>1. found \subseteq Subscribers
      BY LowestSubset, RowsType
    <3>4. (IF e \in DryRun THEN "dry_run" ELSE "start") \in ExLabels
      BY DEF ExLabels
    <3>5. ex[e] \in ExRecords /\ gen \in Nat /\ found \in SUBSET Subscribers
      BY <3>1
    <3>2. ex[e] \in ExRecords /\ loaded \in ExRecords
      <4> HIDE DEF found, ExRecords, Typing
      <4> QED
        BY <3>4, <3>5, LoadedRecord
    <3>3. ex' = [ex EXCEPT ![e] = loaded]
      BY <1>4, <3>2 DEF LoadRecipients
    <3> HIDE DEF loaded, ExRecords
    <3> QED
      BY <3>2, <3>3
  <2>2. registry' \in RegistryStates /\ queue' \in QueueStates
    BY <1>4 DEF LoadRecipients, RegistryStates, QueueStates
  <2> QED
    BY <1>4, <2>1, <2>2 DEF LoadRecipients, RegistryStates, QueueStates
<1>5. CASE FailEmptyBatch(e)
  <2>1. ExType
    BY <1>5, NoRunType DEF FailEmptyBatch
  <2>2. batch' \in [Keys -> BatchStates]
    BY <1>5, SetBatchType DEF FailEmptyBatch, BatchStates
  <2>3. registry' \in RegistryStates /\ queue' \in QueueStates
    BY <1>5 DEF FailEmptyBatch, RegistryStates, QueueStates
  <2> QED
    BY <1>5, <2>1, <2>2, <2>3 DEF FailEmptyBatch, RegistryStates, QueueStates
<1>6. CASE ExecuteDryRun(e)
  <2>1. ExType
    BY <1>6, StepType DEF ExecuteDryRun, ExLabels
  <2>2. batch' \in [Keys -> BatchStates]
    BY <1>6, SetBatchType DEF ExecuteDryRun, BatchStates
  <2>3. row' \in [Subscribers -> RowStates]
    BY <1>6 DEF ExecuteDryRun, RowStates
  <2> QED
    BY <1>6, <2>1, <2>2, <2>3 DEF ExecuteDryRun
<1>7. CASE StartBatch(e)
  <2>1. ExType
    BY <1>7, StepType DEF StartBatch, ExLabels
  <2>2. batch' \in [Keys -> BatchStates]
    BY <1>7, SetBatchType DEF StartBatch, BatchStates
  <2> QED
    BY <1>7, <2>1, <2>2 DEF StartBatch
<1>8. CASE Send(e)
  <2>1. PICK s \in Lowest(ex[e].load, 1) : Send(e)!2!(s)
    BY <1>8 DEF Send
  <2>2. ExType
    <3> DEFINE rest == [ex[e] EXCEPT !.load = @ \ {s},
                                     !.at = IF ex[e].load = {s} THEN "finish" ELSE "send"]
    <3>3. (IF ex[e].load = {s} THEN "finish" ELSE "send") \in ExLabels
      BY DEF ExLabels
    <3>1. ex[e] \in ExRecords /\ rest \in ExRecords
      BY <3>3, SentRecord
    <3>2. ex' = [ex EXCEPT ![e] = rest]
      BY <2>1, <3>1
    <3> HIDE DEF rest, ExRecords
    <3> QED
      BY <3>1, <3>2
  <2>3. row' \in [Subscribers -> RowStates]
    BY <2>1 DEF Mark, RowStates
  <2>4. mails' \in [Subscribers -> Nat]
    <3>1. \A t \in Subscribers : mails[t] \in Nat /\ mails[t] + 1 \in Nat
      OBVIOUS
    <3> QED
      BY <2>1, <3>1
  <2> QED
    BY <1>8, <2>2, <2>3, <2>4 DEF Send
<1>9. CASE SendFails(e)
  <2>1. ExType
    BY <1>9, NoRunType DEF SendFails
  <2>2. batch' \in [Keys -> BatchStates]
    BY <1>9, SetBatchType DEF SendFails, BatchStates
  <2>3. row' \in [Subscribers -> RowStates]
    BY <1>9 DEF SendFails, RowStates
  <2> QED
    BY <1>9, <2>1, <2>2, <2>3 DEF SendFails
<1>10. CASE FinishBatchOrRequeue(e)
  <2>1. ExType
    BY <1>10, StepType DEF FinishBatchOrRequeue, ExLabels
  <2>2. batch' \in [Keys -> BatchStates]
    BY <1>10, SetBatchType DEF FinishBatchOrRequeue, BatchStates
  <2> QED
    BY <1>10, <2>1, <2>2 DEF FinishBatchOrRequeue
<1>11. CASE CloseDispatchIfDone(e)
  <2>1. ExType
    BY <1>11, NoRunType DEF CloseDispatchIfDone
  <2>2. registry' \in RegistryStates /\ queue' \in QueueStates
    BY <1>11 DEF CloseDispatchIfDone, RegistryStates, QueueStates
  <2> QED
    BY <1>11, <2>1, <2>2 DEF CloseDispatchIfDone, RegistryStates, QueueStates
<1> QED
  BY <1>1, <1>2, <1>3, <1>4, <1>5, <1>6, <1>7, <1>8, <1>9, <1>10, <1>11 DEF ExecutorStep

\* The reset as a condition on the tables, without the inputs it depends on.
LEMMA ReportCases ==
  ASSUME NEW a \in Auditors, Report(a)
  PROVE  \/ ApplyPrepareDryRun(a) /\ audit[a].snapshots
         \/ UNCHANGED tables
BY DEF Report, PlanReady, Unprepared

LEMMA AuditStepTyping ==
  ASSUME Typing, NEW a \in Auditors, AuditStep(a)
  PROVE  Typing'
<1> DEFINE AuditType == audit' \in [Auditors -> AuditRecords]
<1> USE DEF Typing, PrepareTypeOK, TypeOK, CmdRecords, ExRecords, AuditRecords,
           tables, history, bounds, vars, prepareVars
<1>1. ASSUME AuditType
      PROVE  \A b \in Auditors :
               /\ audit'[b].at \in AuditLabels
               /\ audit'[b].recipients \subseteq RowStates
               /\ audit'[b].batches \subseteq BatchStates
  BY <1>1
<1>2. CASE FetchRegistry(a)
  <2>1. AuditType
    <3> DEFINE next == [audit[a] EXCEPT !.at = "recipients", !.registry = registry,
                                   !.snapshots = content /\ gen > 0]
    <3>3. audit[a] \in AuditRecords
      OBVIOUS
    <3>4. registry \in RegistryStates /\ "recipients" \in AuditLabels
      BY DEF AuditLabels, RegistryStates
    <3>5. (content /\ gen > 0) \in BOOLEAN
      OBVIOUS
    <3>6. next \in AuditRecords
      BY ONLY <3>3, <3>4, <3>5 DEF AuditRecords
    <3>1. audit[a] \in AuditRecords /\ next \in AuditRecords
      BY <3>3, <3>6
    <3>2. audit' = [audit EXCEPT ![a] = next]
      BY <1>2, <3>1 DEF FetchRegistry
    <3> HIDE DEF next, AuditRecords
    <3> QED
      BY <3>1, <3>2
  <2>2. audits' \in 0..MaxAudits
    BY <1>2, PrepareAssumption DEF FetchRegistry
  <2> QED
    BY <1>1, <1>2, <2>1, <2>2 DEF FetchRegistry, AuditLabels
<1>3. CASE FetchRecipients(a)
  <2>1. AuditType
    <3> DEFINE next == [audit[a] EXCEPT !.at = "batches",
                   !.recipients = {row[s] : s \in Subscribers} \ {"absent"}]
    <3>3. {row[s] : s \in Subscribers} \ {"absent"} \in SUBSET RowStates
      OBVIOUS
    <3>1. audit[a] \in AuditRecords /\ next \in AuditRecords
      BY <3>3 DEF AuditLabels
    <3>2. audit' = [audit EXCEPT ![a] = next]
      BY <1>3, <3>1 DEF FetchRecipients
    <3> HIDE DEF next, AuditRecords
    <3> QED
      BY <3>1, <3>2
  <2> QED
    BY <1>1, <1>3, <2>1 DEF FetchRecipients, AuditLabels
<1>4. CASE FetchBatches(a)
  <2>1. AuditType
    <3> DEFINE next == [audit[a] EXCEPT !.at = "queue",
                   !.batches = {batch[n] : n \in Keys} \ {"absent"}]
    <3>3. {batch[n] : n \in Keys} \ {"absent"} \in SUBSET BatchStates
      OBVIOUS
    <3>1. audit[a] \in AuditRecords /\ next \in AuditRecords
      BY <3>3 DEF AuditLabels
    <3>2. audit' = [audit EXCEPT ![a] = next]
      BY <1>4, <3>1 DEF FetchBatches
    <3> HIDE DEF next, AuditRecords
    <3> QED
      BY <3>1, <3>2
  <2> QED
    BY <1>1, <1>4, <2>1 DEF FetchBatches, AuditLabels
<1>5. CASE FetchDispatchQueue(a)
  <2>1. AuditType
    <3> DEFINE next == [audit[a] EXCEPT !.at = "report", !.queue = queue]
    <3>1. audit[a] \in AuditRecords /\ next \in AuditRecords
      BY DEF AuditLabels, QueueStates
    <3>2. audit' = [audit EXCEPT ![a] = next]
      BY <1>5, <3>1 DEF FetchDispatchQueue
    <3> HIDE DEF next, AuditRecords
    <3> QED
      BY <3>1, <3>2
  <2> QED
    BY <1>1, <1>5, <2>1 DEF FetchDispatchQueue, AuditLabels
<1>6. CASE Report(a)
  <2>1. AuditType
    BY <1>6 DEF Report, NoAudit, AuditLabels, RegistryStates, QueueStates
  <2>2. /\ registry' \in RegistryStates /\ queue' \in QueueStates
        /\ row' \in [Subscribers -> RowStates] /\ batch' \in [Keys -> BatchStates]
        /\ UNCHANGED <<content, gen, key, batch_id>>
    BY <1>6, ReportCases
    DEF ApplyPrepareDryRun, RegistryStates, QueueStates, RowStates, BatchStates
  <2> QED
    BY <1>1, <1>6, <2>1, <2>2 DEF Report, AuditLabels, RegistryStates, QueueStates
<1> QED
  BY <1>2, <1>3, <1>4, <1>5, <1>6 DEF AuditStep

LEMMA InitTyping == PrepareInit => Typing
<1> SUFFICES ASSUME PrepareInit
             PROVE  Typing
  OBVIOUS
<1>1. cmd \in [Commands -> CmdRecords]
  BY DEF PrepareInit, Init, NoCommand, CmdRecords, CmdLabels
<1>2. ex \in [Executors -> ExRecords]
  BY NoRunType DEF PrepareInit, Init
<1>3. audit \in [Auditors -> AuditRecords]
  BY DEF PrepareInit, NoAudit, AuditRecords, AuditLabels, RegistryStates, QueueStates
<1>4. TypeOK
  BY DEF PrepareInit, Init, TypeOK, NoCommand, NoRun, RowStates, BatchStates
<1>5. PrepareTypeOK
  BY <1>4, PrepareAssumption DEF PrepareInit, PrepareTypeOK, NoAudit
<1> QED
  BY <1>1, <1>2, <1>3, <1>5 DEF PrepareInit, Init, Typing

LEMMA NextTyping == Typing /\ [PrepareNext]_allVars => Typing'
<1> SUFFICES ASSUME Typing, [PrepareNext]_allVars
             PROVE  Typing'
  OBVIOUS
<1>1. CASE SendyChanges /\ UNCHANGED prepareVars
  <2>1. audience' \subseteq Subscribers /\ commands' \in Nat
    BY <1>1 DEF SendyChanges, Typing, PrepareTypeOK, TypeOK
  <2> QED
    BY <1>1, <2>1 DEF SendyChanges, Typing, PrepareTypeOK, TypeOK, tables, history, prepareVars
<1>2. CASE UNCHANGED allVars
  BY <1>2 DEF allVars, vars, prepareVars, tables, history, bounds, Typing, PrepareTypeOK, TypeOK
<1> QED
  BY <1>1, <1>2, CommandStepTyping, ExecutorStepTyping, AuditStepTyping DEF PrepareNext, Next

\* Every column stays within its CHECK and every process within its labels.
THEOREM TypeCorrect == PrepareSpec => []PrepareTypeOK
<1>1. Typing => PrepareTypeOK
  BY DEF Typing
<1> QED
  BY <1>1, InitTyping, NextTyping, PTL DEF PrepareSpec

-----------------------------------------------------------------------------
(* Rows are planned once in each generation.                               *)

\* The part of the types that the steps below need.
LEMMA Rows ==
  ASSUME Typing
  PROVE  /\ row \in [Subscribers -> RowStates] /\ key \in [Subscribers -> Keys \union {0}]
         /\ batch \in [Keys -> BatchStates] /\ gen \in Nat /\ disturbed \in BOOLEAN
         /\ DOMAIN cmd = Commands /\ DOMAIN ex = Executors /\ DOMAIN audit = Auditors
         /\ \A c \in Commands : cmd[c] \in CmdRecords
         /\ \A e \in Executors : ex[e] \in ExRecords
         /\ \A a \in Auditors : audit[a] \in AuditRecords
         /\ registry \in RegistryStates /\ queue \in QueueStates /\ content \in BOOLEAN
BY DEF Typing, PrepareTypeOK, TypeOK, RegistryStates, QueueStates

LEMMA CommandStepPlanned ==
  ASSUME Typing, Planned, NEW c \in Commands, CommandStep(c), UNCHANGED prepareVars
  PROVE  Planned'
<1> USE Rows DEF Planned, tables, history, bounds, prepareVars, CmdRecords
<1>1. CASE Intake(c)
  BY <1>1 DEF Intake, Starts, NothingBeforeIntake, PlannedTogether, LoadedWasPlanned,
              PlannedHasKey, FirstResolve
<1>2. CASE ResolveRecipients(c)
  BY <1>2 DEF ResolveRecipients, Starts, Reads, NothingBeforeIntake, PlannedTogether,
              LoadedWasPlanned, PlannedHasKey, FirstResolve
<1>3. CASE ReplaceAudience(c)
  <2>1. content
    BY <1>3 DEF ReplaceAudience, NothingBeforeIntake
  <2>2. /\ UNCHANGED <<ex, batch, audit, content>> /\ gen' = gen + 1
        /\ \A d \in Commands : cmd'[d].at = "plan" => cmd'[d] = cmd[d]
        /\ \A s \in Subscribers : row'[s] \in {"queued", "absent"}
    BY <1>3 DEF ReplaceAudience, Ends, NoCommand
  <2>3. NothingBeforeIntake'
    BY <2>1, <2>2 DEF NothingBeforeIntake
  <2>4. PlannedTogether'
    BY <2>2 DEF PlannedTogether
  <2>5. LoadedWasPlanned'
    BY <2>2 DEF LoadedWasPlanned, ExRecords
  <2> QED
    BY <2>2, <2>3, <2>4, <2>5 DEF PlannedHasKey, FirstResolve
<1>4. CASE LoadQueuedRecipients(c)
  <2>1. content
    BY <1>4 DEF LoadQueuedRecipients, NothingBeforeIntake
  <2>2. /\ UNCHANGED <<ex, row, key, batch, audit, content, gen>>
        /\ cmd' = [cmd EXCEPT ![c] = [at |-> "plan", gen |-> gen,
                                      held |-> {s \in Subscribers : row[s] = "queued"}]]
        /\ \E s \in Subscribers : row[s] = "queued"
    BY <1>4 DEF LoadQueuedRecipients, Reads
  <2>3. {s \in Subscribers : row[s] = "queued"} = {s \in Subscribers : row[s] # "absent"}
    BY <2>2 DEF PlannedTogether
  <2>4. gen # 0
    BY <2>2 DEF FirstResolve
  <2>5. PlannedTogether'
    BY <2>2, <2>3 DEF PlannedTogether
  <2> QED
    BY <2>1, <2>2, <2>4, <2>5
    DEF NothingBeforeIntake, LoadedWasPlanned, PlannedHasKey, FirstResolve
<1>5. CASE PlanBatches(c)
  <2> DEFINE held == cmd[c].held
             hit == IF cmd[c].gen = gen THEN held ELSE {}
  <2>1. content /\ UNCHANGED <<ex, audit, content, gen>> /\ gen # 0
    BY <1>5 DEF PlanBatches, NothingBeforeIntake, FirstResolve
  <2>2. \A d \in Commands : cmd'[d].at = "plan" => cmd'[d] = cmd[d]
    BY <1>5 DEF PlanBatches, Ends, NoCommand
  <2>3. CASE Kept \intersect Chunks(held) # {}
    <3>1. UNCHANGED <<row, key, batch>>
      BY <1>5, <2>3 DEF PlanBatches
    <3> QED
      BY <2>1, <2>2, <3>1
      DEF NothingBeforeIntake, PlannedTogether, LoadedWasPlanned, PlannedHasKey, FirstResolve
  <2>4. CASE Kept \intersect Chunks(held) = {}
    <3>1. /\ row' = [s \in Subscribers |-> IF s \in hit THEN "batched" ELSE row[s]]
          /\ key' = [s \in Subscribers |-> IF s \in hit THEN ChunkOf(held, s) ELSE key[s]]
      BY <1>5, <2>4 DEF PlanBatches
    <3>2. cmd[c].at = "plan"
      BY <1>5 DEF PlanBatches
    <3>3. PlannedTogether'
      <4>1. CASE cmd[c].gen = gen
        <5>1. hit = {s \in Subscribers : row[s] # "absent"}
          BY <3>2, <4>1 DEF PlannedTogether
        <5>2. \A s \in Subscribers : /\ row'[s] \in {"batched", "absent"}
                                     /\ row'[s] # "absent" <=> row[s] # "absent"
          BY <3>1, <5>1
        <5> QED
          BY <2>1, <2>2, <5>2 DEF PlannedTogether
      <4>2. CASE cmd[c].gen # gen
        BY <2>1, <2>2, <3>1, <4>2 DEF PlannedTogether
      <4> QED
        BY <4>1, <4>2
    <3>4. PlannedHasKey'
      <4>1. \A s \in hit : ChunkOf(held, s) \in Keys
        BY ChunkIsKey
      <4> QED
        BY <3>1, <4>1 DEF PlannedHasKey
    <3>5. LoadedWasPlanned'
      <4>1. \A s \in Subscribers : row'[s] = row[s] \/ row'[s] = "batched"
        BY <3>1
      <4>2. \A e \in Executors : ex[e].load \subseteq Subscribers
        BY DEF ExRecords
      <4> QED
        BY <2>1, <4>1, <4>2 DEF LoadedWasPlanned
    <3> QED
      BY <2>1, <3>3, <3>4, <3>5 DEF NothingBeforeIntake, FirstResolve
  <2> QED
    BY <2>3, <2>4
<1> QED
  BY <1>1, <1>2, <1>3, <1>4, <1>5 DEF CommandStep

\* Executor steps that only move the executor, the batches, the queue and the
\* registry keep the rows as they were planned.
LEMMA QuietExecutor ==
  ASSUME Typing, Planned, NEW e \in Executors,
         content, UNCHANGED <<content, gen, row, key, batch_id, cmd, audit>>,
         \A n \in Keys : batch[n] = "absent" => batch'[n] = "absent",
         \A f \in Executors \ {e} : ex'[f] = ex[f],
         ex'[e].gen <= gen,
         ex'[e].at # "off" => ex'[e].key \in Keys,
         ex'[e].at \in {"dry_run", "start", "send"} /\ ex'[e].gen = gen =>
           \A s \in ex'[e].load : row[s] \notin {"queued", "absent"}
  PROVE  Planned'
<1>1. NothingBeforeIntake'
  BY DEF NothingBeforeIntake
<1>2. PlannedTogether'
  BY DEF Planned, PlannedTogether
<1>3. LoadedWasPlanned'
  BY DEF Planned, LoadedWasPlanned
<1>4. PlannedHasKey'
  BY DEF Planned, PlannedHasKey
<1>5. FirstResolve'
  BY DEF Planned, FirstResolve
<1> QED
  BY <1>1, <1>2, <1>3, <1>4, <1>5 DEF Planned

\* Storing an outcome leaves no row of the generation waiting for a plan.
LEMMA MarkingExecutor ==
  ASSUME Typing, Planned, content,
         UNCHANGED <<content, gen, key, cmd, audit>>,
         \A n \in Keys : batch[n] = "absent" => batch'[n] = "absent",
         \A e \in Executors :
           /\ ex'[e].gen <= gen
           /\ ex'[e].at # "off" => ex'[e].key \in Keys
           /\ ex'[e].at \in {"dry_run", "start", "send"} =>
                ex[e].at \in {"dry_run", "start", "send"} /\ ex'[e].gen = ex[e].gen
                /\ ex'[e].load \subseteq ex[e].load,
         \A s \in Subscribers :
           \/ row'[s] = row[s]
           \/ /\ row[s] \notin {"queued", "absent"}
              /\ row'[s] \in {"dry_run_sent", "sent", "failed"}
              /\ row'[s] = "dry_run_sent" => row[s] = "batched"
  PROVE  Planned'
<1> USE Rows
<1>1. NothingBeforeIntake'
  BY DEF NothingBeforeIntake
<1>2. PlannedTogether'
  <2>1. \A s \in Subscribers : /\ row'[s] = "queued" => row[s] = "queued"
                               /\ row'[s] # "absent" <=> row[s] # "absent"
    OBVIOUS
  <2>2. (\E s \in Subscribers : row[s] = "queued") =>
          \A s \in Subscribers : row'[s] \in {"queued", "absent"}
    BY DEF Planned, PlannedTogether
  <2> QED
    BY <2>1, <2>2 DEF Planned, PlannedTogether
<1>3. LoadedWasPlanned'
  <2>1. \A e \in Executors : ex[e].load \subseteq Subscribers
    BY DEF ExRecords
  <2>2. \A s \in Subscribers : row[s] \notin {"queued", "absent"} => row'[s] \notin {"queued", "absent"}
    OBVIOUS
  <2> QED
    BY <2>1, <2>2 DEF Planned, LoadedWasPlanned
<1>4. PlannedHasKey'
  BY DEF Planned, PlannedHasKey
<1>5. FirstResolve'
  BY DEF Planned, FirstResolve
<1> QED
  BY <1>1, <1>2, <1>3, <1>4, <1>5 DEF Planned

LEMMA SetBatchKeepsAbsent ==
  ASSUME Typing, NEW e \in Executors, NEW state, SetBatch(e, state)
  PROVE  \A n \in Keys : batch[n] = "absent" => batch'[n] = "absent"
BY Rows DEF SetBatch

LEMMA ExecutorStepPlanned ==
  ASSUME Typing, Planned, NEW e \in Executors, ExecutorStep(e), UNCHANGED prepareVars
  PROVE  Planned'
<1> USE Rows DEF tables, history, bounds, prepareVars
<1>0. /\ ex[e].at # "off" => content
      /\ queue \in OpenQueue => content
      /\ \A f \in Executors : ex[f].gen <= gen /\ (ex[f].at # "off" => ex[f].key \in Keys)
  BY DEF Planned, NothingBeforeIntake, LoadedWasPlanned, OpenQueue
<1>1. CASE LoadBatchByCampaign(e)
  <2>1. PICK n \in Keys : Holds(e, n)
    BY <1>1 DEF LoadBatchByCampaign, NextQueued, BatchesIn
  <2> QED
    BY <1>1, <2>1, QuietExecutor DEF LoadBatchByCampaign, Holds
<1>2. CASE ClaimNextQueuedBatch(e)
  <2>1. PICK n \in Keys : /\ Holds(e, n) /\ batch[n] = "queued"
                          /\ batch' = [batch EXCEPT ![n] = "running"]
    BY <1>2 DEF ClaimNextQueuedBatch, NextQueued, BatchesIn
  <2> QED
    BY <1>2, <2>1, QuietExecutor DEF ClaimNextQueuedBatch, Holds
<1>3. CASE Reconcile(e)
  <2>1. ex' = ex /\ ex[e].at = "off" /\ content
    BY <1>0, <1>3 DEF Reconcile
  <2> QED
    BY <1>0, <1>3, <2>1, QuietExecutor DEF Reconcile
<1>4. CASE LoadRecipients(e)
  <2>1. \A s \in Lowest(RowsIn(ex[e].key, {"batched"}), MaxRecipientsPerRun) : row[s] = "batched"
    BY LowestSubset DEF RowsIn
  <2>2. /\ ex'[e].gen = gen /\ ex'[e].key = ex[e].key
        /\ ex'[e].load = Lowest(RowsIn(ex[e].key, {"batched"}), MaxRecipientsPerRun)
        /\ \A f \in Executors \ {e} : ex'[f] = ex[f]
    BY <1>4 DEF LoadRecipients, ExRecords
  <2> QED
    BY <1>0, <1>4, <2>1, <2>2, QuietExecutor DEF LoadRecipients
<1>5. CASE FailEmptyBatch(e)
  <2>1. /\ ex'[e].at = "off" /\ ex'[e].gen = 0 /\ \A f \in Executors \ {e} : ex'[f] = ex[f]
    BY <1>5 DEF FailEmptyBatch, NoRun
  <2>2. \A n \in Keys : batch[n] = "absent" => batch'[n] = "absent"
    BY <1>5, SetBatchKeepsAbsent DEF FailEmptyBatch
  <2> QED
    BY <1>0, <1>5, <2>1, <2>2, QuietExecutor DEF FailEmptyBatch
<1>6. CASE ExecuteDryRun(e)
  <2>1. /\ \A f \in Executors \ {e} : ex'[f] = ex[f]
        /\ ex'[e].at = "close" /\ ex'[e].gen = ex[e].gen /\ ex'[e].key = ex[e].key
        /\ ex[e].at = "dry_run"
    BY <1>6 DEF ExecuteDryRun, Step, ExRecords
  <2>2. \A n \in Keys : batch[n] = "absent" => batch'[n] = "absent"
    BY <1>6, SetBatchKeepsAbsent DEF ExecuteDryRun
  <2>3. \A s \in Subscribers : \/ row'[s] = row[s]
                               \/ row[s] = "batched" /\ row'[s] = "dry_run_sent"
    BY <1>6 DEF ExecuteDryRun
  <2> QED
    BY <1>0, <1>6, <2>1, <2>2, <2>3, MarkingExecutor DEF ExecuteDryRun
<1>7. CASE StartBatch(e)
  <2>1. /\ \A f \in Executors \ {e} : ex'[f] = ex[f]
        /\ ex'[e] = [ex[e] EXCEPT !.at = "send"] /\ ex[e].at = "start"
    BY <1>7 DEF StartBatch, Step
  <2>2. \A n \in Keys : batch[n] = "absent" => batch'[n] = "absent"
    BY <1>7, SetBatchKeepsAbsent DEF StartBatch
  <2>3. /\ ex'[e].gen = ex[e].gen /\ ex'[e].key = ex[e].key /\ ex'[e].load = ex[e].load
    BY <2>1 DEF ExRecords
  <2> QED
    BY <1>0, <1>7, <2>1, <2>2, <2>3, QuietExecutor DEF StartBatch, Planned, LoadedWasPlanned
<1>8. CASE Send(e)
  <2>1. PICK s \in ex[e].load : Send(e)!2!(s)
    BY <1>8, LowestSubset DEF Send
  <2>2. /\ \A f \in Executors \ {e} : ex'[f] = ex[f]
        /\ ex'[e].gen = ex[e].gen /\ ex'[e].key = ex[e].key
        /\ ex'[e].load \subseteq ex[e].load
    BY <2>1 DEF ExRecords
  <2>3. ex[e].at = "send"
    BY <1>8 DEF Send
  <2>4. \A t \in Subscribers : \/ row'[t] = row[t]
                               \/ row[t] \notin {"queued", "absent"} /\ row'[t] = "sent"
    BY <2>1, <2>3 DEF Mark, Planned, LoadedWasPlanned
  <2> QED
    BY <1>0, <1>8, <2>2, <2>3, <2>4, MarkingExecutor DEF Send
<1>9. CASE SendFails(e)
  <2>1. PICK s \in ex[e].load :
          row' = [t \in Subscribers |->
                   IF t \in RowsIn(ex[e].key, {"batched"}) \/ (t = s /\ gen = ex[e].gen)
                     THEN "failed" ELSE row[t]]
    BY <1>9, LowestSubset DEF SendFails
  <2>2. /\ \A f \in Executors \ {e} : ex'[f] = ex[f]
        /\ ex'[e].at = "off" /\ ex'[e].gen = 0 /\ ex[e].at = "send"
    BY <1>9 DEF SendFails, NoRun
  <2>3. \A t \in Subscribers : \/ row'[t] = row[t]
                               \/ row[t] \notin {"queued", "absent"} /\ row'[t] = "failed"
    BY <2>1, <2>2 DEF RowsIn, Planned, LoadedWasPlanned
  <2>4. \A n \in Keys : batch[n] = "absent" => batch'[n] = "absent"
    BY <1>9, SetBatchKeepsAbsent DEF SendFails
  <2> QED
    BY <1>0, <1>9, <2>2, <2>3, <2>4, MarkingExecutor DEF SendFails
<1>10. CASE FinishBatchOrRequeue(e)
  <2>1. /\ \A f \in Executors \ {e} : ex'[f] = ex[f]
        /\ ex'[e].at = "close" /\ ex'[e].gen = ex[e].gen /\ ex'[e].key = ex[e].key
        /\ ex[e].at = "finish"
    BY <1>10 DEF FinishBatchOrRequeue, Step, ExRecords
  <2>2. \A n \in Keys : batch[n] = "absent" => batch'[n] = "absent"
    BY <1>10, SetBatchKeepsAbsent DEF FinishBatchOrRequeue
  <2> QED
    BY <1>0, <1>10, <2>1, <2>2, QuietExecutor DEF FinishBatchOrRequeue
<1>11. CASE CloseDispatchIfDone(e)
  <2>1. /\ \A f \in Executors \ {e} : ex'[f] = ex[f]
        /\ ex'[e].at = "off" /\ ex'[e].gen = 0 /\ ex[e].at = "close"
    BY <1>11 DEF CloseDispatchIfDone, NoRun
  <2> QED
    BY <1>0, <1>11, <2>1, QuietExecutor DEF CloseDispatchIfDone
<1> QED
  BY <1>1, <1>2, <1>3, <1>4, <1>5, <1>6, <1>7, <1>8, <1>9, <1>10, <1>11 DEF ExecutorStep

\* What an audit step may change: nothing but the audit, or the reset.
LEMMA AuditFrame ==
  ASSUME NEW a \in Auditors, AuditStep(a)
  PROVE  /\ UNCHANGED <<audience, cmd, ex, history, bounds>>
         /\ UNCHANGED tables \/ (ApplyPrepareDryRun(a) /\ audit[a].snapshots)
BY ReportCases
DEF AuditStep, FetchRegistry, FetchRecipients, FetchBatches, FetchDispatchQueue, Report, vars,
    tables, history, bounds

LEMMA AuditStepPlanned ==
  ASSUME Typing, Planned, NEW a \in Auditors, AuditStep(a)
  PROVE  Planned'
<1> USE Rows
<1>1. UNCHANGED <<cmd, ex, gen, content, key>>
  BY AuditFrame DEF tables, ApplyPrepareDryRun
<1>2. \A b \in Auditors : audit'[b].snapshots => audit[b].snapshots \/ content
  <2>1. \A b \in Auditors \ {a} : audit'[b] = audit[b]
    BY DEF AuditStep, FetchRegistry, FetchRecipients, FetchBatches, FetchDispatchQueue, Report
  <2>2. audit'[a].snapshots => audit[a].snapshots \/ content
    BY DEF AuditStep, FetchRegistry, FetchRecipients, FetchBatches, FetchDispatchQueue, Report,
           NoAudit, AuditRecords
  <2> QED
    BY <2>1, <2>2
<1>3. CASE UNCHANGED tables
  <2>1. NothingBeforeIntake'
    BY <1>1, <1>2, <1>3 DEF Planned, NothingBeforeIntake, tables
  <2> QED
    BY <1>1, <1>3, <2>1
    DEF Planned, PlannedTogether, LoadedWasPlanned, PlannedHasKey, FirstResolve, tables
<1>4. CASE ApplyPrepareDryRun(a) /\ audit[a].snapshots
  <2>1. content
    BY <1>4 DEF Planned, NothingBeforeIntake
  <2>2. \A s \in Subscribers : \/ row'[s] = row[s]
                               \/ row[s] = "dry_run_sent" /\ row'[s] = "batched"
    BY <1>4 DEF ApplyPrepareDryRun
  <2>3. \A n \in Keys : batch[n] = "absent" => batch'[n] = "absent"
    BY <1>4 DEF ApplyPrepareDryRun
  <2>4. NothingBeforeIntake'
    BY <1>1, <2>1 DEF NothingBeforeIntake
  <2>5. PlannedTogether'
    <3>1. \A s \in Subscribers : row'[s] = "absent" <=> row[s] = "absent"
      BY <2>2
    <3>2. \A s \in Subscribers : row'[s] = "queued" <=> row[s] = "queued"
      BY <2>2
    <3> QED
      BY <1>1, <3>1, <3>2 DEF Planned, PlannedTogether, RowStates
  <2>6. LoadedWasPlanned'
    <3>1. \A e \in Executors : ex[e].load \subseteq Subscribers
      BY DEF ExRecords
    <3> QED
      BY <1>1, <2>2, <3>1 DEF Planned, LoadedWasPlanned
  <2>7. PlannedHasKey' /\ FirstResolve'
    BY <1>1, <2>2, <2>3 DEF Planned, PlannedHasKey, FirstResolve
  <2> QED
    BY <2>4, <2>5, <2>6, <2>7 DEF Planned
<1> QED
  BY <1>3, <1>4, AuditFrame

LEMMA InitPlanned == PrepareInit => Planned
BY DEF PrepareInit, Init, NoCommand, NoRun, NoAudit, Planned, NothingBeforeIntake,
       PlannedTogether, LoadedWasPlanned, PlannedHasKey, FirstResolve

LEMMA NextPlanned == Typing /\ Planned /\ [PrepareNext]_allVars => Planned'
<1> SUFFICES ASSUME Typing, Planned, [PrepareNext]_allVars
             PROVE  Planned'
  OBVIOUS
<1>1. CASE SendyChanges /\ UNCHANGED prepareVars
  BY <1>1 DEF SendyChanges, tables, prepareVars, Planned, NothingBeforeIntake,
              PlannedTogether, LoadedWasPlanned, PlannedHasKey, FirstResolve
<1>2. CASE UNCHANGED allVars
  BY <1>2 DEF allVars, vars, prepareVars, tables, Planned, NothingBeforeIntake,
              PlannedTogether, LoadedWasPlanned, PlannedHasKey, FirstResolve
<1> QED
  BY <1>1, <1>2, CommandStepPlanned, ExecutorStepPlanned, AuditStepPlanned
  DEF PrepareNext, Next

LEMMA AlwaysPlanned == PrepareSpec => [](Typing /\ Planned)
BY InitTyping, NextTyping, InitPlanned, NextPlanned, PTL DEF PrepareSpec

-----------------------------------------------------------------------------
(* What commands may never do.                                             *)

LEMMA IntakeStep ==
  ASSUME Typing, Planned, [PrepareNext]_allVars, registry \notin {"absent", "pending"}
  PROVE  registry' # "pending"
<1>1. ASSUME NEW c \in Commands, CommandStep(c)
      PROVE  registry' # "pending"
  <2>1. content
    BY DEF Planned, NothingBeforeIntake
  <2> QED
    BY <1>1, <2>1 DEF CommandStep, Intake, ResolveRecipients, ReplaceAudience,
       LoadQueuedRecipients, PlanBatches, tables
<1>2. ASSUME NEW e \in Executors, ExecutorStep(e)
      PROVE  registry' # "pending"
  BY <1>2 DEF ExecutorStep, LoadBatchByCampaign, ClaimNextQueuedBatch, Reconcile,
     LoadRecipients, FailEmptyBatch, ExecuteDryRun, StartBatch, Send, SendFails,
     FinishBatchOrRequeue, CloseDispatchIfDone, tables
<1>3. ASSUME NEW a \in Auditors, AuditStep(a)
      PROVE  registry' # "pending"
  BY <1>3, AuditFrame DEF ApplyPrepareDryRun, tables
<1>4. CASE SendyChanges \/ UNCHANGED allVars
  BY <1>4 DEF SendyChanges, allVars, vars, tables
<1> QED
  BY <1>1, <1>2, <1>3, <1>4 DEF PrepareNext, Next

\* Whatever the other commands, executors and audits have done in between, the
\* upsert of a second intake is undone: no campaign goes back to 'pending'.
THEOREM IntakeIsUndone == PrepareSpec => IntakeNeverReopens
<1>1. Typing /\ Planned /\ [PrepareNext]_allVars =>
        [registry \notin {"absent", "pending"} => registry' # "pending"]_vars
  BY IntakeStep
<1> QED
  BY <1>1, AlwaysPlanned, PTL DEF PrepareSpec, IntakeNeverReopens

\* A commit of the current generation plans every row it has, so that only the
\* batches of rows that were replaced go missing.
LEMMA PlanStrands ==
  ASSUME Typing, Planned, NEW c \in Commands, PlanBatches(c), cmd[c].gen = gen,
         NEW s \in Subscribers, Orphaned(s)'
  PROVE  Orphaned(s)
<1> DEFINE held == cmd[c].held
<1> USE Rows
<1>1. CASE Kept \intersect Chunks(held) # {}
  BY <1>1 DEF PlanBatches, Orphaned, tables
<1>2. CASE Kept \intersect Chunks(held) = {}
  <2>1. /\ row' = [t \in Subscribers |-> IF t \in held THEN "batched" ELSE row[t]]
        /\ key' = [t \in Subscribers |-> IF t \in held THEN ChunkOf(held, t) ELSE key[t]]
        /\ batch' = [n \in Keys |-> IF n \in Chunks(held) THEN "queued"
                                     ELSE IF n \in Kept THEN batch[n] ELSE "absent"]
    BY <1>2 DEF PlanBatches
  <2>2. held = {t \in Subscribers : row[t] # "absent"}
    BY DEF PlanBatches, Planned, PlannedTogether
  <2>3. s \in held
    BY <2>1, <2>2 DEF Orphaned
  <2>4. key'[s] \in Chunks(held) /\ key'[s] \in Keys
    BY <2>1, <2>2, <2>3, ChunkIsKey DEF Chunks
  <2>5. batch'[key'[s]] = "queued"
    BY <2>1, <2>4
  <2> QED
    BY <2>5 DEF Orphaned
<1> QED
  BY <1>1, <1>2

LEMMA StrandStep ==
  ASSUME Typing, Planned, PrepareNext, NEW s \in Subscribers, Orphaned(s)', ~Orphaned(s)
  PROVE  \E c \in Commands : PlanBatches(c) /\ cmd[c].gen # gen
<1> USE Rows
<1>0. /\ row[s] \in {"batched", "dry_run_sent"} => key[s] \in Keys
      /\ \A n, m \in Keys : batch[n] = "absent" /\ batch[m] # "absent" => n # m
  BY DEF Planned, PlannedHasKey
<1>1. ASSUME NEW c \in Commands, CommandStep(c), ~PlanBatches(c)
      PROVE  FALSE
  <2>1. CASE ReplaceAudience(c)
    BY <2>1 DEF ReplaceAudience, Orphaned
  <2>2. CASE Intake(c) \/ ResolveRecipients(c) \/ LoadQueuedRecipients(c)
    BY <2>2 DEF Intake, ResolveRecipients, LoadQueuedRecipients, Orphaned, tables
  <2> QED
    BY <1>1, <2>1, <2>2 DEF CommandStep
<1>2. ASSUME NEW e \in Executors, ExecutorStep(e)
      PROVE  FALSE
  <2>1. /\ key' = key
        /\ row'[s] \in {"batched", "dry_run_sent"} => row[s] \in {"batched", "dry_run_sent"}
    BY <1>2 DEF ExecutorStep, LoadBatchByCampaign, ClaimNextQueuedBatch, Reconcile,
       LoadRecipients, FailEmptyBatch, ExecuteDryRun, StartBatch, Send, SendFails, Mark,
       FinishBatchOrRequeue, CloseDispatchIfDone, tables
  <2>2. \A n \in Keys : batch[n] # "absent" => batch'[n] # "absent"
    BY <1>2 DEF ExecutorStep, LoadBatchByCampaign, ClaimNextQueuedBatch, Reconcile,
       LoadRecipients, FailEmptyBatch, ExecuteDryRun, StartBatch, Send, SendFails,
       FinishBatchOrRequeue, CloseDispatchIfDone, SetBatch, tables
  <2> QED
    BY <1>0, <2>1, <2>2 DEF Orphaned
<1>3. ASSUME NEW a \in Auditors, AuditStep(a)
      PROVE  FALSE
  <2>1. CASE UNCHANGED tables
    BY <2>1 DEF Orphaned, tables
  <2>2. CASE ApplyPrepareDryRun(a)
    BY <1>0, <2>2 DEF ApplyPrepareDryRun, Orphaned
  <2> QED
    BY <1>3, <2>1, <2>2, AuditFrame
<1>4. ~SendyChanges
  BY DEF SendyChanges, Orphaned, tables
<1> QED
  BY <1>1, <1>2, <1>3, <1>4, PlanStrands DEF PrepareNext, Next

\* No interleaving of commands, executors and audits leaves a planned recipient
\* without his batch but the commit of a plan read before a new resolve.
THEOREM OnlyStalePlansStrand == PrepareSpec => StrandedOnlyByStalePlan
<1> DEFINE Stale == \E c \in Commands : cmd[c].at = "plan" /\ cmd'[c].at = "off" /\ cmd[c].gen # gen
<1>1. Typing /\ Planned /\ [PrepareNext]_allVars =>
        [\A s \in Subscribers : Orphaned(s)' /\ ~Orphaned(s) => Stale]_vars
  <2> SUFFICES ASSUME Typing, Planned, [PrepareNext]_allVars, vars' # vars,
                      NEW s \in Subscribers, Orphaned(s)', ~Orphaned(s)
               PROVE  Stale
    OBVIOUS
  <2>1. PrepareNext
    BY DEF allVars
  <2>2. PICK c \in Commands : PlanBatches(c) /\ cmd[c].gen # gen
    BY <2>1, StrandStep
  <2>3. cmd[c].at = "plan" /\ cmd'[c].at = "off"
    BY <2>2, Rows DEF PlanBatches, Ends, NoCommand
  <2> QED
    BY <2>2, <2>3
<1> QED
  BY <1>1, AlwaysPlanned, PTL DEF PrepareSpec, StrandedOnlyByStalePlan

-----------------------------------------------------------------------------
(* A completed campaign has nobody waiting.                                *)

\* What every executor step leaves alone, and what it may do to a row.
LEMMA ExecutorFrame ==
  ASSUME Typing, Planned, NEW e \in Executors, ExecutorStep(e)
  PROVE  /\ UNCHANGED <<gen, key, batch_id, disturbed, content>>
         /\ \A n \in Keys : batch'[n] = "absent" <=> batch[n] = "absent"
         /\ \A s \in Subscribers :
              /\ row'[s] = "queued" => row[s] = "queued"
              /\ row'[s] = "batched" => row[s] = "batched"
              /\ row'[s] = "dry_run_sent" => row[s] \in {"batched", "dry_run_sent"}
<1> USE Rows
<1>1. UNCHANGED <<gen, key, batch_id, disturbed, content>>
  BY DEF ExecutorStep, LoadBatchByCampaign, ClaimNextQueuedBatch, Reconcile,
     LoadRecipients, FailEmptyBatch, ExecuteDryRun, StartBatch, Send, SendFails,
     FinishBatchOrRequeue, CloseDispatchIfDone, tables, history
<1>2. \A n \in Keys : batch'[n] = "absent" <=> batch[n] = "absent"
  <2>1. CASE ClaimNextQueuedBatch(e)
    BY <2>1 DEF ClaimNextQueuedBatch, NextQueued, BatchesIn
  <2>2. ASSUME NEW state \in BatchStates \ {"absent"}, SetBatch(e, state)
        PROVE  \A n \in Keys : batch'[n] = "absent" <=> batch[n] = "absent"
    BY <2>2 DEF SetBatch
  <2>3. CASE batch' = batch
    BY <2>3
  <2> QED
    BY <2>1, <2>2, <2>3 DEF ExecutorStep, LoadBatchByCampaign, Reconcile, LoadRecipients,
       FailEmptyBatch, ExecuteDryRun, StartBatch, Send, SendFails, FinishBatchOrRequeue,
       CloseDispatchIfDone, tables, BatchStates
<1>3. ASSUME NEW s \in Subscribers
      PROVE  /\ row'[s] = "queued" => row[s] = "queued"
             /\ row'[s] = "batched" => row[s] = "batched"
             /\ row'[s] = "dry_run_sent" => row[s] \in {"batched", "dry_run_sent"}
  BY DEF ExecutorStep, LoadBatchByCampaign, ClaimNextQueuedBatch, Reconcile,
     LoadRecipients, FailEmptyBatch, ExecuteDryRun, StartBatch, Send, SendFails, Mark,
     FinishBatchOrRequeue, CloseDispatchIfDone, tables
<1> QED
  BY <1>1, <1>2, <1>3

LEMMA CommandStepUndisturbed ==
  ASSUME Typing, Planned, Undisturbed, NEW c \in Commands, CommandStep(c)
  PROVE  Undisturbed'
<1> SUFFICES ASSUME ~disturbed'
             PROVE  (/\ NoneOrphaned /\ IdsAreCurrent /\ LoadedMeansPlanned
                     /\ CompletedIsEmpty /\ CompletedHasNobodyWaiting)'
  BY DEF Undisturbed
<1> USE Rows
<1>1. CASE Intake(c) \/ ResolveRecipients(c) \/ LoadQueuedRecipients(c)
  <2>1. /\ UNCHANGED <<gen, row, key, batch, batch_id, ex, disturbed>>
        /\ registry' = "completed" => registry = "completed"
    BY <1>1 DEF Intake, ResolveRecipients, LoadQueuedRecipients, tables, history
  <2> QED
    BY <2>1 DEF Undisturbed, NoneOrphaned, Orphaned, IdsAreCurrent, LoadedMeansPlanned,
       NoneQueued, CompletedIsEmpty, RowsIn, CompletedHasNobodyWaiting
<1>2. ASSUME ~Begun, UNCHANGED ex,
             \A n \in Keys : batch'[n] # "completed" \/ batch'[n] = batch[n],
             registry' # "completed", NoneOrphaned'
      PROVE  (/\ NoneOrphaned /\ IdsAreCurrent /\ LoadedMeansPlanned
              /\ CompletedIsEmpty /\ CompletedHasNobodyWaiting)'
  <2>1. /\ \A e \in Executors : ex'[e].at = "off"
        /\ \A n \in Keys : batch'[n] # "completed"
    BY <1>2 DEF Begun, BatchesIn
  <2> QED
    BY <1>2, <2>1 DEF IdsAreCurrent, LoadedMeansPlanned, CompletedIsEmpty,
       CompletedHasNobodyWaiting
<1>3. CASE ReplaceAudience(c)
  <2>1. ~Begun /\ UNCHANGED <<ex, batch>> /\ registry' # "completed"
    BY <1>3 DEF ReplaceAudience
  <2>2. NoneOrphaned'
    BY <1>3 DEF ReplaceAudience, NoneOrphaned, Orphaned
  <2> QED
    BY <1>2, <2>1, <2>2
<1>4. CASE PlanBatches(c)
  <2> DEFINE held == cmd[c].held
  <2>1. CASE Kept \intersect Chunks(held) # {}
    <3>1. UNCHANGED <<registry, row, key, batch, batch_id, ex, disturbed>>
      BY <1>4, <2>1 DEF PlanBatches, tables, history
    <3> QED
      BY <3>1 DEF Undisturbed, NoneOrphaned, Orphaned, IdsAreCurrent, LoadedMeansPlanned,
         NoneQueued, CompletedIsEmpty, RowsIn, CompletedHasNobodyWaiting
  <2>2. CASE Kept \intersect Chunks(held) = {}
    <3>1. ~disturbed /\ ~Begun /\ cmd[c].gen = gen
      BY <1>4, <2>2 DEF PlanBatches
    <3>2. UNCHANGED ex /\ registry' # "completed"
      BY <1>4, <2>2 DEF PlanBatches
    <3>3. \A n \in Keys : batch'[n] # "completed" \/ batch'[n] = batch[n]
      BY <1>4, <2>2 DEF PlanBatches
    <3>4. NoneOrphaned'
      BY <1>4, <3>1, PlanStrands DEF NoneOrphaned, Undisturbed
    <3> QED
      BY <1>2, <3>1, <3>2, <3>3, <3>4
  <2> QED
    BY <2>1, <2>2
<1> QED
  BY <1>1, <1>3, <1>4 DEF CommandStep

\* What is left to show of an executor step: that a batch it completes is empty,
\* that a campaign it completes has nobody waiting, and what it has taken.
LEMMA ExecutorKeepsUndisturbed ==
  ASSUME Typing, Planned, Undisturbed, ~disturbed', NEW e \in Executors, ExecutorStep(e),
         \A f \in Executors \ {e} : ex'[f] = ex[f],
         ex'[e].at # "off" => /\ batch[ex'[e].key] # "absent" /\ ex'[e].key \in Keys
                              /\ batch_id[ex'[e].key] = ex'[e].id,
         ex'[e].at \notin {"off", "load"} => NoneQueued,
         \A n \in Keys : batch'[n] = "completed" /\ batch[n] # "completed" =>
                         RowsIn(n, {"batched"})' = {} /\ NoneQueued,
         registry' = "completed" /\ registry # "completed" =>
           \A s \in Subscribers : row[s] \notin {"queued", "batched"}
  PROVE  Undisturbed'
<1> USE Rows
<1>1. ~disturbed
  BY ExecutorFrame
<1>2. NoneOrphaned'
  <2>1. ASSUME NEW s \in Subscribers, Orphaned(s)'
        PROVE  Orphaned(s)
    <3>1. row[s] \in {"batched", "dry_run_sent"} /\ key'[s] = key[s]
      BY <2>1, ExecutorFrame DEF Orphaned
    <3>2. key[s] \in Keys
      BY <3>1 DEF Planned, PlannedHasKey
    <3> QED
      BY <2>1, <3>1, <3>2, ExecutorFrame DEF Orphaned
  <2> QED
    BY <1>1, <2>1 DEF Undisturbed, NoneOrphaned
<1>3. NoneQueued => NoneQueued'
  BY ExecutorFrame DEF NoneQueued
<1>4. \A n \in Keys : RowsIn(n, {"batched"})' \subseteq RowsIn(n, {"batched"})
  BY ExecutorFrame DEF RowsIn
<1>5. IdsAreCurrent'
  <2>1. \A f \in Executors : ex'[f].at # "off" =>
           /\ batch[ex'[f].key] # "absent" /\ ex'[f].key \in Keys
           /\ batch_id[ex'[f].key] = ex'[f].id
    BY <1>1 DEF Undisturbed, IdsAreCurrent, Planned, LoadedWasPlanned
  <2> QED
    BY <2>1, ExecutorFrame DEF IdsAreCurrent
<1>6. LoadedMeansPlanned'
  BY <1>1, <1>3 DEF Undisturbed, LoadedMeansPlanned
<1>7. CompletedIsEmpty'
  BY <1>1, <1>3, <1>4 DEF Undisturbed, CompletedIsEmpty
<1>8. CompletedHasNobodyWaiting'
  BY <1>1, ExecutorFrame DEF Undisturbed, CompletedHasNobodyWaiting
<1> QED
  BY <1>2, <1>5, <1>6, <1>7, <1>8 DEF Undisturbed

LEMMA SetBatchCompletes ==
  ASSUME Typing, NEW e \in Executors, NEW state, SetBatch(e, state),
         NEW n \in Keys, batch'[n] = "completed", batch[n] # "completed"
  PROVE  n = ex[e].key /\ state = "completed"
BY Rows DEF SetBatch

LEMMA ExecutorStepUndisturbed ==
  ASSUME Typing, Planned, Undisturbed, NEW e \in Executors, ExecutorStep(e)
  PROVE  Undisturbed'
<1> SUFFICES ASSUME ~disturbed'
             PROVE  Undisturbed'
  BY DEF Undisturbed
<1> USE Rows
<1>0. ~disturbed
  BY ExecutorFrame
<1>a. ex[e].at # "off" => /\ batch[ex[e].key] # "absent" /\ ex[e].key \in Keys
                          /\ batch_id[ex[e].key] = ex[e].id
  BY <1>0 DEF Undisturbed, IdsAreCurrent, Planned, LoadedWasPlanned
<1>b. ex[e].at \notin {"off", "load"} => NoneQueued
  BY <1>0 DEF Undisturbed, LoadedMeansPlanned
<1>1. CASE LoadBatchByCampaign(e)
  <2>1. PICK n \in Keys : Holds(e, n) /\ batch[n] = "queued"
    BY <1>1 DEF LoadBatchByCampaign, NextQueued, BatchesIn
  <2> QED
    BY <1>1, <2>1, ExecutorKeepsUndisturbed DEF LoadBatchByCampaign, Holds, tables
<1>2. CASE ClaimNextQueuedBatch(e)
  <2>1. PICK n \in Keys : /\ Holds(e, n) /\ batch[n] = "queued"
                          /\ batch' = [batch EXCEPT ![n] = "running"]
    BY <1>2 DEF ClaimNextQueuedBatch, NextQueued, BatchesIn
  <2> QED
    BY <1>2, <2>1, ExecutorKeepsUndisturbed DEF ClaimNextQueuedBatch, Holds
<1>3. CASE Reconcile(e)
  <2>1. ASSUME registry' = "completed", registry # "completed"
        PROVE  \A s \in Subscribers : row[s] \notin {"queued", "batched"}
    <3>1. /\ \A n \in Keys : batch[n] \in {"absent", "completed"}
          /\ \E n \in Keys : batch[n] # "absent"
          /\ \A s \in Subscribers : row[s] # "batched"
      BY <1>3, <2>1 DEF Reconcile, BatchesIn, BatchStates
    <3>2. PICK n \in Keys : batch[n] = "completed"
      BY <3>1
    <3> QED
      BY <1>0, <3>1, <3>2 DEF Undisturbed, CompletedIsEmpty, NoneQueued
  <2>2. UNCHANGED <<ex, batch>> /\ ex[e].at = "off"
    BY <1>3 DEF Reconcile
  <2> QED
    BY <1>3, <2>1, <2>2, ExecutorKeepsUndisturbed
<1>4. CASE LoadRecipients(e)
  <2>1. PICK s \in Subscribers : row[s] = "batched"
    BY <1>4, LowestSubset DEF LoadRecipients, RowsIn
  <2>2. NoneQueued
    BY <2>1 DEF Planned, PlannedTogether, NoneQueued
  <2>3. /\ ex'[e].key = ex[e].key /\ ex'[e].id = ex[e].id /\ ex[e].at = "load"
        /\ \A f \in Executors \ {e} : ex'[f] = ex[f]
        /\ batch' = batch
        /\ registry' = "completed" => registry = "completed"
    BY <1>4 DEF LoadRecipients, ExRecords
  <2> QED
    BY <1>4, <1>a, <2>2, <2>3, ExecutorKeepsUndisturbed
<1>5. CASE FailEmptyBatch(e)
  <2>1. /\ ex'[e].at = "off" /\ \A f \in Executors \ {e} : ex'[f] = ex[f]
        /\ registry' = "completed" => registry = "completed"
    BY <1>5 DEF FailEmptyBatch, NoRun
  <2>2. \A n \in Keys : batch'[n] = "completed" => batch[n] = "completed"
    BY <1>5, SetBatchCompletes DEF FailEmptyBatch
  <2> QED
    BY <1>5, <2>1, <2>2, ExecutorKeepsUndisturbed
<1>6. CASE ExecuteDryRun(e)
  <2> DEFINE hit == {s \in ex[e].load : gen = ex[e].gen /\ key[s] = ex[e].key /\ row[s] = "batched"}
  <2>1. /\ ex'[e].at = "close" /\ ex'[e].key = ex[e].key /\ ex'[e].id = ex[e].id
        /\ ex[e].at = "dry_run" /\ \A f \in Executors \ {e} : ex'[f] = ex[f]
        /\ registry' = registry
    BY <1>6 DEF ExecuteDryRun, Step, ExRecords
  <2>2. /\ row' = [s \in Subscribers |-> IF s \in hit THEN "dry_run_sent" ELSE row[s]]
        /\ SetBatch(e, IF RowsIn(ex[e].key, {"batched"}) \ hit = {} THEN "completed"
                                                                     ELSE "queued")
        /\ key' = key
    BY <1>6 DEF ExecuteDryRun
  <2>3. RowsIn(ex[e].key, {"batched"})' = RowsIn(ex[e].key, {"batched"}) \ hit
    <3>1. ex[e].key \in Keys
      BY <1>a, <2>1
    <3>2. \A s \in Subscribers : key'[s] = key[s] /\ (row'[s] = "batched" <=> row[s] = "batched" /\ s \notin hit)
      BY <2>2
    <3> DEFINE n == ex[e].key
    <3>3. {s \in Subscribers : key'[s] = n /\ row'[s] \in {"batched"}}
            = {s \in Subscribers : key[s] = n /\ row[s] \in {"batched"}} \ hit
      BY <3>2
    <3> QED
      BY <3>3, <2>1 DEF RowsIn
  <2> QED
    BY <1>6, <1>a, <1>b, <2>1, <2>2, <2>3, SetBatchCompletes, ExecutorKeepsUndisturbed
<1>7. CASE StartBatch(e)
  <2>1. /\ ex'[e].at = "send" /\ ex'[e].key = ex[e].key /\ ex'[e].id = ex[e].id
        /\ ex[e].at = "start" /\ \A f \in Executors \ {e} : ex'[f] = ex[f]
        /\ registry' = registry
    BY <1>7 DEF StartBatch, Step, ExRecords
  <2>2. \A n \in Keys : batch'[n] = "completed" => batch[n] = "completed"
    BY <1>7, SetBatchCompletes DEF StartBatch
  <2> QED
    BY <1>7, <1>a, <1>b, <2>1, <2>2, ExecutorKeepsUndisturbed
<1>8. CASE Send(e)
  <2>1. /\ ex'[e].key = ex[e].key /\ ex'[e].id = ex[e].id
        /\ ex[e].at = "send" /\ \A f \in Executors \ {e} : ex'[f] = ex[f]
        /\ UNCHANGED <<registry, batch>>
    BY <1>8 DEF Send, ExRecords
  <2> QED
    BY <1>8, <1>a, <1>b, <2>1, ExecutorKeepsUndisturbed
<1>9. CASE SendFails(e)
  <2>1. /\ ex'[e].at = "off" /\ \A f \in Executors \ {e} : ex'[f] = ex[f]
        /\ registry' = registry
    BY <1>9 DEF SendFails, NoRun
  <2>2. \A n \in Keys : batch'[n] = "completed" => batch[n] = "completed"
    BY <1>9, SetBatchCompletes DEF SendFails
  <2> QED
    BY <1>9, <2>1, <2>2, ExecutorKeepsUndisturbed
<1>10. CASE FinishBatchOrRequeue(e)
  <2>1. /\ ex'[e].at = "close" /\ ex'[e].key = ex[e].key /\ ex'[e].id = ex[e].id
        /\ ex[e].at = "finish" /\ \A f \in Executors \ {e} : ex'[f] = ex[f]
        /\ UNCHANGED <<registry, row, key>>
    BY <1>10 DEF FinishBatchOrRequeue, Step, ExRecords
  <2>2. SetBatch(e, IF RowsIn(ex[e].key, {"batched"}) = {} THEN "completed" ELSE "queued")
    BY <1>10 DEF FinishBatchOrRequeue
  <2>3. \A n : RowsIn(n, {"batched"})' = RowsIn(n, {"batched"})
    BY <2>1 DEF RowsIn
  <2>4. \A n \in Keys : batch'[n] = "completed" /\ batch[n] # "completed" =>
                         RowsIn(n, {"batched"})' = {}
    BY <2>2, <2>3, SetBatchCompletes
  <2> QED
    BY <1>10, <1>a, <1>b, <2>1, <2>4, ExecutorKeepsUndisturbed
<1>11. CASE CloseDispatchIfDone(e)
  <2>1. /\ ex'[e].at = "off" /\ \A f \in Executors \ {e} : ex'[f] = ex[f]
        /\ UNCHANGED <<row, batch>> /\ ex[e].at = "close"
    BY <1>11 DEF CloseDispatchIfDone, NoRun
  <2>2. ASSUME registry' = "completed", registry # "completed",
               NEW s \in Subscribers
        PROVE  row[s] \notin {"queued", "batched"}
    <3>1. \A n \in Keys : batch[n] \in {"absent", "completed"}
      BY <1>11, <2>2 DEF CloseDispatchIfDone, BatchesIn, BatchStates
    <3>2. row[s] # "queued"
      BY <1>b, <2>1 DEF NoneQueued
    <3>3. ASSUME row[s] = "batched"
          PROVE  FALSE
      <4>1. key[s] \in Keys /\ batch[key[s]] = "completed"
        BY <1>0, <3>1, <3>3
        DEF Planned, PlannedHasKey, Undisturbed, NoneOrphaned, Orphaned
      <4>2. s \in RowsIn(key[s], {"batched"})
        BY <3>3 DEF RowsIn
      <4> QED
        BY <1>0, <4>1, <4>2 DEF Undisturbed, CompletedIsEmpty
    <3> QED
      BY <3>2, <3>3
  <2> QED
    BY <1>11, <2>1, <2>2, ExecutorKeepsUndisturbed
<1> QED
  BY <1>1, <1>2, <1>3, <1>4, <1>5, <1>6, <1>7, <1>8, <1>9, <1>10, <1>11 DEF ExecutorStep

\* The reset: planned rows are planned again, completed batches queued again.
LEMMA ResetRows ==
  ASSUME Typing, NEW a \in Auditors, ApplyPrepareDryRun(a)
  PROVE  /\ \A s \in Subscribers :
              /\ row'[s] \in {"batched", "dry_run_sent"} <=> row[s] \in {"batched", "dry_run_sent"}
              /\ row'[s] # "dry_run_sent"
              /\ row'[s] = "queued" <=> row[s] = "queued"
         /\ \A n \in Keys : /\ batch'[n] = IF batch[n] = "completed" THEN "queued" ELSE batch[n]
                            /\ batch'[n] = "absent" <=> batch[n] = "absent"
         /\ UNCHANGED <<content, gen, key, batch_id>>
         /\ registry' = "batched"
BY Rows DEF ApplyPrepareDryRun

LEMMA AuditStepUndisturbed ==
  ASSUME Typing, Planned, Undisturbed, NEW a \in Auditors, AuditStep(a)
  PROVE  Undisturbed'
<1> USE Rows
<1>1. CASE UNCHANGED tables
  BY <1>1, AuditFrame DEF tables, history, Undisturbed, NoneOrphaned, Orphaned, IdsAreCurrent,
     LoadedMeansPlanned, NoneQueued, CompletedIsEmpty, RowsIn, CompletedHasNobodyWaiting
<1>2. CASE ApplyPrepareDryRun(a)
  <2> SUFFICES ASSUME ~disturbed
               PROVE  (/\ NoneOrphaned /\ IdsAreCurrent /\ LoadedMeansPlanned
                       /\ CompletedIsEmpty /\ CompletedHasNobodyWaiting)'
    BY AuditFrame DEF Undisturbed, history
  <2>1. NoneOrphaned'
    <3>1. \A s \in Subscribers : row[s] \in {"batched", "dry_run_sent"} => key[s] \in Keys
      BY DEF Planned, PlannedHasKey
    <3> QED
      BY <1>2, <3>1, ResetRows DEF Undisturbed, NoneOrphaned, Orphaned
  <2>2. IdsAreCurrent'
    <3>1. ex' = ex
      BY AuditFrame
    <3>2. \A e \in Executors : ex[e].at # "off" => ex[e].key \in Keys
      BY DEF Planned, LoadedWasPlanned
    <3> QED
      BY <1>2, <3>1, <3>2, ResetRows DEF Undisturbed, IdsAreCurrent
  <2>3. LoadedMeansPlanned'
    BY <1>2, ResetRows, AuditFrame DEF Undisturbed, LoadedMeansPlanned, NoneQueued
  <2>4. CompletedIsEmpty' /\ CompletedHasNobodyWaiting'
    BY <1>2, ResetRows DEF CompletedIsEmpty, CompletedHasNobodyWaiting
  <2> QED
    BY <2>1, <2>2, <2>3, <2>4
<1> QED
  BY <1>1, <1>2, AuditFrame

LEMMA InitUndisturbed == PrepareInit => Undisturbed
BY DEF PrepareInit, Init, NoRun, Undisturbed, NoneOrphaned, Orphaned, IdsAreCurrent,
   LoadedMeansPlanned, NoneQueued, CompletedIsEmpty, CompletedHasNobodyWaiting

LEMMA NextUndisturbed ==
  Typing /\ Planned /\ Undisturbed /\ [PrepareNext]_allVars => Undisturbed'
<1> SUFFICES ASSUME Typing, Planned, Undisturbed, [PrepareNext]_allVars
             PROVE  Undisturbed'
  OBVIOUS
<1>1. CASE SendyChanges \/ UNCHANGED allVars
  BY <1>1 DEF SendyChanges, allVars, vars, tables, history, Undisturbed, NoneOrphaned, Orphaned,
     IdsAreCurrent, LoadedMeansPlanned, NoneQueued, CompletedIsEmpty, RowsIn,
     CompletedHasNobodyWaiting
<1> QED
  BY <1>1, CommandStepUndisturbed, ExecutorStepUndisturbed, AuditStepUndisturbed
  DEF PrepareNext, Next

\* Whoever closes a campaign nobody got in the way of, an executor or the next one
\* that finds no batch, and whatever was reset in between: nobody is left waiting.
THEOREM CompletedIsDone == PrepareSpec => []CompletedHasNobodyWaiting
<1>1. Undisturbed => CompletedHasNobodyWaiting
  BY DEF Undisturbed, CompletedHasNobodyWaiting
<1> QED
  BY <1>1, AlwaysPlanned, InitUndisturbed, NextUndisturbed, PTL DEF PrepareSpec

-----------------------------------------------------------------------------
(* A queued batch has rows to load.                                        *)

\* Nothing but a plan, a mail or a refusal ends the invariant of fresh batches.
LEMMA CommandStepFresh ==
  ASSUME Typing, Planned, Undisturbed, FreshBatches, NEW c \in Commands, CommandStep(c)
  PROVE  FreshBatches'
<1> SUFFICES ASSUME Fresh'
             PROVE  /\ (\A n \in Keys : batch[n] # "absent" => RowsIn(n, {"batched", "dry_run_sent"}) # {})'
                    /\ (\A n \in Keys : batch[n] = "queued" => RowsIn(n, {"batched"}) # {})'
                    /\ \A e \in Executors : ex'[e].at # "finish"
  BY DEF FreshBatches
<1> USE Rows
<1>1. CASE Intake(c) \/ ResolveRecipients(c) \/ LoadQueuedRecipients(c)
  <2>1. UNCHANGED <<gen, row, key, batch, ex, disturbed, mails, failures>>
    BY <1>1 DEF Intake, ResolveRecipients, LoadQueuedRecipients, Starts, tables, history
  <2> QED
    BY <2>1 DEF FreshBatches, Fresh, RowsIn
<1>2. CASE ReplaceAudience(c)
  <2>1. ~Begun /\ UNCHANGED <<ex, batch>> /\ gen = 0
    <3>1. gen' = gen + 1 /\ gen' <= 1
      BY <1>2 DEF ReplaceAudience, Fresh
    <3>2. ~Begun /\ UNCHANGED <<ex, batch>>
      BY <1>2 DEF ReplaceAudience, Fresh
    <3> QED
      BY <3>1, <3>2
  <2>2. \A n \in Keys : batch'[n] = "absent"
    BY <2>1 DEF Planned, FirstResolve
  <2> QED
    BY <2>1, <2>2 DEF Begun
<1>3. CASE PlanBatches(c)
  <2> DEFINE held == cmd[c].held
  <2>1. CASE Kept \intersect Chunks(held) # {}
    <3>1. UNCHANGED <<gen, row, key, batch, ex, disturbed, mails, failures>>
      BY <1>3, <2>1 DEF PlanBatches, tables, history, bounds
    <3> QED
      BY <3>1 DEF FreshBatches, Fresh, RowsIn
  <2>2. CASE Kept \intersect Chunks(held) = {}
    <3>1. ~disturbed /\ ~Begun /\ cmd[c].gen = gen /\ UNCHANGED ex
      BY <1>3, <2>2 DEF PlanBatches, Fresh
    <3>2. /\ row' = [t \in Subscribers |-> IF t \in held THEN "batched" ELSE row[t]]
          /\ key' = [t \in Subscribers |-> IF t \in held THEN ChunkOf(held, t) ELSE key[t]]
          /\ batch' = [n \in Keys |-> IF n \in Chunks(held) THEN "queued"
                                       ELSE IF n \in Kept THEN batch[n] ELSE "absent"]
      BY <1>3, <2>2, <3>1 DEF PlanBatches
    <3>3. Kept = {}
      BY <3>1 DEF Begun, Kept, BatchesIn
    <3>4. ASSUME NEW n \in Keys, batch'[n] # "absent"
          PROVE  RowsIn(n, {"batched"})' # {}
      <4>1. PICK s \in held : n = ChunkOf(held, s)
        BY <3>2, <3>3, <3>4 DEF Chunks
      <4>2. held \subseteq Subscribers
        BY DEF CmdRecords
      <4>3. key'[s] = n /\ row'[s] = "batched"
        BY <3>2, <4>1, <4>2
      <4> QED
        BY <4>2, <4>3 DEF RowsIn
    <3>5. \A n : RowsIn(n, {"batched"})' \subseteq RowsIn(n, {"batched", "dry_run_sent"})'
      BY DEF RowsIn
    <3> QED
      BY <3>1, <3>4, <3>5 DEF Begun
  <2> QED
    BY <2>1, <2>2
<1> QED
  BY <1>1, <1>2, <1>3 DEF CommandStep

LEMMA ExecutorStepFresh ==
  ASSUME Typing, Planned, Undisturbed, FreshBatches, NEW e \in Executors, ExecutorStep(e)
  PROVE  FreshBatches'
<1> SUFFICES ASSUME Fresh'
             PROVE  FreshBatches'
  BY DEF FreshBatches
<1> USE Rows
<1>0. ~Send(e) /\ ~SendFails(e)
  <2>1. CASE Send(e)
    <3>1. PICK s \in ex[e].load : mails' = [mails EXCEPT ![s] = @ + 1]
      BY <2>1, LowestSubset DEF Send
    <3>2. s \in Subscribers /\ mails[s] \in Nat /\ mails'[s] = mails[s] + 1
      BY <3>1 DEF ExRecords, Typing, PrepareTypeOK, TypeOK
    <3> QED
      BY <3>2 DEF Fresh
  <2>2. CASE SendFails(e)
    BY <2>2 DEF SendFails, Fresh, Typing
  <2> QED
    BY <2>1, <2>2
<1>1. Fresh /\ ~disturbed
  <2>1. UNCHANGED <<mails, failures>>
    BY <1>0 DEF ExecutorStep, LoadBatchByCampaign, ClaimNextQueuedBatch, Reconcile,
       LoadRecipients, FailEmptyBatch, ExecuteDryRun, StartBatch, FinishBatchOrRequeue,
       CloseDispatchIfDone, history, bounds
  <2> QED
    BY <2>1, ExecutorFrame DEF Fresh
<1>2. ~FinishBatchOrRequeue(e)
  BY <1>1 DEF FinishBatchOrRequeue, FreshBatches
<1>3. \A f \in Executors : ex'[f].at # "finish"
  BY <1>0, <1>1 DEF ExecutorStep, LoadBatchByCampaign, ClaimNextQueuedBatch, Reconcile,
     LoadRecipients, FailEmptyBatch, ExecuteDryRun, StartBatch, FinishBatchOrRequeue,
     CloseDispatchIfDone, Holds, Step, NoRun, FreshBatches, ExRecords
<1>4. CASE ExecuteDryRun(e)
  <2> DEFINE hit == {s \in ex[e].load : gen = ex[e].gen /\ key[s] = ex[e].key /\ row[s] = "batched"}
             n == ex[e].key
  <2>1. ex[e].at = "dry_run" /\ n \in Keys /\ batch[n] # "absent" /\ batch_id[n] = ex[e].id
    BY <1>1, <1>4 DEF ExecuteDryRun, Undisturbed, IdsAreCurrent, Planned, LoadedWasPlanned
  <2>2. /\ row' = [s \in Subscribers |-> IF s \in hit THEN "dry_run_sent" ELSE row[s]]
        /\ batch' = [batch EXCEPT ![n] = IF RowsIn(n, {"batched"}) \ hit = {} THEN "completed"
                                                                             ELSE "queued"]
        /\ key' = key
    BY <1>4, <2>1 DEF ExecuteDryRun, SetBatch
  <2>3. \A m \in Keys : RowsIn(m, {"batched", "dry_run_sent"})' = RowsIn(m, {"batched", "dry_run_sent"})
    BY <2>2 DEF RowsIn
  <2>4. \A m \in Keys \ {n} : RowsIn(m, {"batched"})' = RowsIn(m, {"batched"})
    BY <2>2 DEF RowsIn
  <2>5. RowsIn(n, {"batched"}) \ hit \subseteq {s \in Subscribers : key'[s] = n /\ row'[s] = "batched"}
    BY <2>2 DEF RowsIn
  <2>6. ASSUME NEW m \in Keys, batch'[m] = "queued"
        PROVE  {s \in Subscribers : key'[s] = m /\ row'[s] = "batched"} # {}
    <3>1. CASE m = n
      BY <2>1, <2>2, <2>5, <2>6, <3>1
    <3>2. CASE m # n
      BY <1>1, <2>2, <2>4, <2>6, <3>2 DEF FreshBatches, RowsIn
    <3> QED
      BY <3>1, <3>2
  <2>7. \A m \in Keys : batch'[m] = "queued" => RowsIn(m, {"batched"})' # {}
    BY <2>6 DEF RowsIn
  <2>8. \A m \in Keys : batch'[m] # "absent" => RowsIn(m, {"batched", "dry_run_sent"})' # {}
    BY <1>1, <1>4, <2>3, ExecutorFrame DEF FreshBatches
  <2> QED
    BY <1>3, <2>7, <2>8 DEF FreshBatches
<1>5. CASE ~ExecuteDryRun(e)
  <2>1. UNCHANGED <<row, key>>
    BY <1>0, <1>5 DEF ExecutorStep, LoadBatchByCampaign, ClaimNextQueuedBatch, Reconcile,
       LoadRecipients, FailEmptyBatch, StartBatch, FinishBatchOrRequeue,
       CloseDispatchIfDone, tables
  <2>2. \A n \in Keys : batch'[n] = "queued" => batch[n] = "queued"
    <3>1. CASE ClaimNextQueuedBatch(e)
      BY <3>1 DEF ClaimNextQueuedBatch
    <3>2. CASE SetBatch(e, "running") \/ SetBatch(e, "failed")
      BY <3>2 DEF SetBatch
    <3> QED
      BY <1>0, <1>2, <1>5, <3>1, <3>2 DEF ExecutorStep, LoadBatchByCampaign, Reconcile,
         LoadRecipients, FailEmptyBatch, StartBatch, CloseDispatchIfDone, tables
  <2>3. \A n, states : RowsIn(n, states)' = RowsIn(n, states)
    BY <2>1 DEF RowsIn
  <2> QED
    BY <1>1, <1>3, <2>2, <2>3, ExecutorFrame DEF FreshBatches
<1> QED
  BY <1>4, <1>5

LEMMA AuditStepFresh ==
  ASSUME Typing, Planned, Undisturbed, FreshBatches, NEW a \in Auditors, AuditStep(a)
  PROVE  FreshBatches'
<1> USE Rows
<1>1. CASE UNCHANGED tables
  BY <1>1, AuditFrame DEF tables, history, bounds, FreshBatches, Fresh, RowsIn
<1>2. CASE ApplyPrepareDryRun(a)
  <2>1. UNCHANGED <<ex, mails, failures, disturbed, gen, key>>
    BY <1>2, AuditFrame, ResetRows DEF history, bounds
  <2>2. \A n \in Keys : RowsIn(n, {"batched", "dry_run_sent"}) \subseteq RowsIn(n, {"batched"})'
    BY <1>2, <2>1, ResetRows DEF RowsIn
  <2>3. \A n : RowsIn(n, {"batched"})' \subseteq RowsIn(n, {"batched", "dry_run_sent"})'
    BY DEF RowsIn
  <2> SUFFICES ASSUME Fresh
               PROVE  FreshBatches'
    BY <2>1 DEF FreshBatches, Fresh
  <2>4. ASSUME NEW n \in Keys, batch'[n] # "absent"
        PROVE  RowsIn(n, {"batched"})' # {}
    BY <1>2, <2>2, <2>4, ResetRows DEF FreshBatches
  <2> QED
    BY <2>1, <2>3, <2>4 DEF FreshBatches
<1> QED
  BY <1>1, <1>2, AuditFrame

LEMMA InitFresh == PrepareInit => FreshBatches
BY DEF PrepareInit, Init, NoRun, FreshBatches

LEMMA NextFresh ==
  Typing /\ Planned /\ Undisturbed /\ FreshBatches /\ [PrepareNext]_allVars => FreshBatches'
<1> SUFFICES ASSUME Typing, Planned, Undisturbed, FreshBatches, [PrepareNext]_allVars
             PROVE  FreshBatches'
  OBVIOUS
<1>1. CASE SendyChanges \/ UNCHANGED allVars
  BY <1>1 DEF SendyChanges, allVars, vars, tables, history, bounds, FreshBatches, Fresh, RowsIn
<1> QED
  BY <1>1, CommandStepFresh, ExecutorStepFresh, AuditStepFresh DEF PrepareNext, Next

\* Dry runs, resets and claims, in any order and any number, leave no queued batch
\* that the next executor would fail as empty.
THEOREM QueuedBatchIsLoadable == PrepareSpec => []QueuedBatchHasRows
<1>1. FreshBatches => QueuedBatchHasRows
  BY DEF FreshBatches, Fresh, QueuedBatchHasRows, BatchesIn
<1> QED
  BY <1>1, AlwaysPlanned, InitUndisturbed, NextUndisturbed, InitFresh, NextFresh, PTL
  DEF PrepareSpec

-----------------------------------------------------------------------------
(* Nobody is mailed more often than he was planned.                        *)

LEMMA Counts ==
  ASSUME Typing
  PROVE  /\ mails \in [Subscribers -> Nat] /\ batchings \in [Subscribers -> Nat]
         /\ \A p : Bit(p) \in {0, 1}
BY DEF Typing, PrepareTypeOK, TypeOK, Bit

\* A step after which nothing more is owed than before keeps the account.
LEMMA NothingOwed ==
  ASSUME Typing, Accounted, UNCHANGED <<mails, batchings>>,
         \A e \in Executors : ex'[e].at \in {"start", "send"} => e \in Senders,
         \A s \in Subscribers : RowOwes(s)' => RowOwes(s),
         \A e \in Senders, s \in Subscribers :
           /\ SenderHolds(e, s)' => RowOwes(s)'
           /\ SenderOwes(e, s)' => SenderOwes(e, s)
  PROVE  Accounted'
<1> USE Counts
<1>1. \A s \in Subscribers : Bit(RowOwes(s)') <= Bit(RowOwes(s))
  BY DEF Bit
<1>2. \A e \in Senders, s \in Subscribers : Bit(SenderOwes(e, s)') <= Bit(SenderOwes(e, s))
  BY DEF Bit
<1>3. ASSUME NEW s \in Subscribers
      PROVE  mails'[s] + Bit(RowOwes(s)') <= batchings'[s]
  <2>1. mails[s] + Bit(RowOwes(s)) <= batchings[s] /\ Bit(RowOwes(s)') <= Bit(RowOwes(s))
    BY <1>1 DEF Accounted
  <2>2. mails[s] \in Nat /\ batchings[s] \in Nat /\ Bit(RowOwes(s)) \in Nat /\ Bit(RowOwes(s)') \in Nat
    OBVIOUS
  <2> QED
    BY <2>1, <2>2
<1>4. ASSUME NEW e \in Senders, NEW s \in Subscribers
      PROVE  mails'[s] + Bit(RowOwes(s)') + Bit(SenderOwes(e, s)') <= batchings'[s]
  <2>1. /\ mails[s] + Bit(RowOwes(s)) + Bit(SenderOwes(e, s)) <= batchings[s]
        /\ Bit(RowOwes(s)') <= Bit(RowOwes(s)) /\ Bit(SenderOwes(e, s)') <= Bit(SenderOwes(e, s))
    BY <1>1, <1>2 DEF Accounted
  <2>2. /\ mails[s] \in Nat /\ batchings[s] \in Nat
        /\ Bit(RowOwes(s)) \in Nat /\ Bit(RowOwes(s)') \in Nat
        /\ Bit(SenderOwes(e, s)) \in Nat /\ Bit(SenderOwes(e, s)') \in Nat
    OBVIOUS
  <2> QED
    BY <2>1, <2>2
<1> QED
  BY <1>3, <1>4 DEF Accounted, Bit

LEMMA CommandStepAccounted ==
  ASSUME Typing, Planned, Accounted, NEW c \in Commands, CommandStep(c)
  PROVE  Accounted'
<1> USE Rows, Counts
<1>1. CASE Intake(c) \/ ResolveRecipients(c) \/ LoadQueuedRecipients(c)
  BY <1>1 DEF Intake, ResolveRecipients, LoadQueuedRecipients, tables, history, Accounted,
     RowOwes, SenderOwes, SenderHolds, Bit
<1>2. CASE ReplaceAudience(c)
  <2>1. /\ UNCHANGED <<ex, mails, batchings>> /\ gen' = gen + 1
        /\ \A s \in Subscribers : ~RowOwes(s)'
    BY <1>2 DEF ReplaceAudience, RowOwes
  <2>2. \A e \in Senders : ex[e].gen \in Nat /\ ex[e].gen <= gen
    BY DEF Planned, LoadedWasPlanned, Senders, ExRecords
  <2>3. ASSUME NEW e \in Senders, NEW s \in Subscribers
        PROVE  /\ ~SenderHolds(e, s)'
               /\ SenderOwes(e, s)' <=> SenderOwes(e, s) \/ SenderHolds(e, s)
    BY <2>1, <2>2 DEF SenderHolds, SenderOwes
  <2>4. ASSUME NEW s \in Subscribers
        PROVE  mails'[s] + Bit(RowOwes(s)') <= batchings'[s]
    BY <2>1 DEF Accounted, Bit
  <2>5. ASSUME NEW e \in Senders, NEW s \in Subscribers
        PROVE  mails'[s] + Bit(RowOwes(s)') + Bit(SenderOwes(e, s)') <= batchings'[s]
    <3>1. mails[s] + Bit(RowOwes(s)) + Bit(SenderOwes(e, s)) <= batchings[s]
      BY DEF Accounted
    <3>2. mails[s] \in Nat /\ batchings[s] \in Nat /\ Bit(RowOwes(s)') = 0
      BY <2>1 DEF Bit
    <3>3. CASE SenderHolds(e, s)
      <4>1. Bit(RowOwes(s)) = 1 /\ Bit(SenderOwes(e, s)) \in {0, 1} /\ Bit(SenderOwes(e, s)') \in {0, 1}
        BY <3>3 DEF Accounted, Bit
      <4> QED
        BY <2>1, <3>1, <3>2, <4>1
    <3>4. CASE ~SenderHolds(e, s)
      <4>1. Bit(SenderOwes(e, s)') = Bit(SenderOwes(e, s))
        BY <2>3, <3>4 DEF Bit
      <4>2. Bit(RowOwes(s)) \in {0, 1} /\ Bit(SenderOwes(e, s)) \in {0, 1}
        OBVIOUS
      <4> QED
        BY <2>1, <3>1, <3>2, <4>1, <4>2
    <3> QED
      BY <3>3, <3>4
  <2> QED
    BY <2>1, <2>3, <2>4, <2>5 DEF Accounted, Bit
<1>3. CASE PlanBatches(c)
  <2> DEFINE held == cmd[c].held
             hit == IF cmd[c].gen = gen THEN held ELSE {}
  <2>1. CASE Kept \intersect Chunks(held) # {}
    BY <1>3, <2>1 DEF PlanBatches, tables, history, Accounted, RowOwes, SenderOwes,
       SenderHolds, Bit
  <2>2. CASE Kept \intersect Chunks(held) = {}
    <3>1. /\ row' = [s \in Subscribers |-> IF s \in hit THEN "batched" ELSE row[s]]
          /\ batchings' = [s \in Subscribers |-> IF s \in hit THEN batchings[s] + 1
                                                              ELSE batchings[s]]
          /\ UNCHANGED <<ex, mails, gen>>
      BY <1>3, <2>2 DEF PlanBatches
    <3>2. /\ \A s \in Subscribers : IF s \in hit THEN RowOwes(s)' ELSE RowOwes(s)' = RowOwes(s)
          /\ \A e \in Senders, s \in Subscribers :
               /\ SenderOwes(e, s)' <=> SenderOwes(e, s)
               /\ SenderHolds(e, s)' <=> SenderHolds(e, s)
      BY <3>1 DEF RowOwes, SenderOwes, SenderHolds
    <3>3. ASSUME NEW s \in Subscribers
          PROVE  Bit(RowOwes(s)') - batchings'[s] <= Bit(RowOwes(s)) - batchings[s]
      <4>1. CASE s \in hit
        <5>1. batchings'[s] = batchings[s] + 1 /\ batchings[s] \in Nat
          BY <3>1, <4>1
        <5>2. Bit(RowOwes(s)') \in {0, 1} /\ Bit(RowOwes(s)) \in {0, 1}
          OBVIOUS
        <5> QED
          BY <5>1, <5>2
      <4>2. CASE s \notin hit
        <5>1. batchings'[s] = batchings[s] /\ Bit(RowOwes(s)') = Bit(RowOwes(s))
          BY <3>1, <3>2, <4>2 DEF Bit
        <5>2. batchings[s] \in Nat /\ Bit(RowOwes(s)) \in {0, 1}
          OBVIOUS
        <5> QED
          BY <5>1, <5>2
      <4> QED
        BY <4>1, <4>2
    <3>4. \A s \in Subscribers : /\ mails[s] \in Nat /\ batchings[s] \in Nat /\ batchings'[s] \in Nat
                                 /\ Bit(RowOwes(s)) \in {0, 1} /\ Bit(RowOwes(s)') \in {0, 1}
      BY <3>1
    <3>5. ASSUME NEW s \in Subscribers
          PROVE  mails'[s] + Bit(RowOwes(s)') <= batchings'[s]
      <4>1. mails[s] + Bit(RowOwes(s)) <= batchings[s]
        BY DEF Accounted
      <4> QED
        BY <3>1, <3>3, <3>4, <4>1
    <3>6. ASSUME NEW e \in Senders, NEW s \in Subscribers
          PROVE  mails'[s] + Bit(RowOwes(s)') + Bit(SenderOwes(e, s)') <= batchings'[s]
      <4>1. /\ mails[s] + Bit(RowOwes(s)) + Bit(SenderOwes(e, s)) <= batchings[s]
            /\ Bit(SenderOwes(e, s)') = Bit(SenderOwes(e, s)) /\ Bit(SenderOwes(e, s)) \in {0, 1}
        BY <3>2 DEF Accounted, Bit
      <4> QED
        BY <3>1, <3>3, <3>4, <4>1
    <3> QED
      BY <3>1, <3>2, <3>5, <3>6 DEF Accounted, Bit
  <2> QED
    BY <2>1, <2>2
<1> QED
  BY <1>1, <1>2, <1>3 DEF CommandStep

\* A mail settles what was owed: by the row, if it is still the row that was
\* loaded, by the sender otherwise.
LEMMA SendAccounted ==
  ASSUME OneSender, Typing, Planned, Accounted, NEW e \in Executors, Send(e)
  PROVE  Accounted'
<1> USE Rows, Counts
<1>1. PICK s \in ex[e].load : Send(e)!2!(s)
  BY LowestSubset DEF Send
<1>2. e \in Senders /\ ex[e].at = "send"
  BY DEF Send, Accounted
<1>3. s \in Subscribers
  BY <1>1 DEF ExRecords
<1>4. /\ mails' = [mails EXCEPT ![s] = @ + 1] /\ UNCHANGED <<batchings, gen>>
      /\ row' = IF gen = ex[e].gen THEN [row EXCEPT ![s] = "sent"] ELSE row
  BY <1>1 DEF Send, Mark
<1>5. /\ \A f \in Executors \ {e} : ex'[f] = ex[f]
      /\ ex'[e].gen = ex[e].gen /\ ex'[e].load = ex[e].load \ {s}
      /\ ex'[e].at \in {"send", "finish"}
  BY <1>1 DEF ExRecords
<1>6. \A f \in Senders : f = e
  BY <1>2 DEF OneSender
<1>7. ASSUME NEW t \in Subscribers, t # s
      PROVE  /\ RowOwes(t)' <=> RowOwes(t)
             /\ SenderOwes(e, t)' => SenderOwes(e, t)
             /\ SenderHolds(e, t)' => SenderHolds(e, t)
             /\ mails'[t] = mails[t]
  BY <1>2, <1>4, <1>5, <1>7 DEF RowOwes, SenderOwes, SenderHolds
<1>8. ~SenderOwes(e, s)' /\ ~SenderHolds(e, s)'
  BY <1>5 DEF SenderOwes, SenderHolds
<1>9. mails'[s] + Bit(RowOwes(s)') <= batchings'[s]
  <2>1. mails[s] + Bit(RowOwes(s)) + Bit(SenderOwes(e, s)) <= batchings[s]
    BY <1>2, <1>3 DEF Accounted
  <2>2. mails'[s] = mails[s] + 1 /\ mails[s] \in Nat /\ batchings'[s] = batchings[s] /\ batchings[s] \in Nat
    BY <1>3, <1>4
  <2>3. CASE ex[e].gen = gen
    <3>1. SenderHolds(e, s) /\ ~SenderOwes(e, s)
      BY <1>2, <2>3 DEF SenderHolds, SenderOwes
    <3>2. RowOwes(s) /\ ~RowOwes(s)'
      BY <1>2, <1>3, <1>4, <2>3, <3>1 DEF RowOwes, Accounted
    <3>3. Bit(RowOwes(s)) = 1 /\ Bit(RowOwes(s)') = 0 /\ Bit(SenderOwes(e, s)) = 0
      BY <3>1, <3>2 DEF Bit
    <3> QED
      BY <2>1, <2>2, <3>3
  <2>4. CASE ex[e].gen # gen
    <3>1. SenderOwes(e, s)
      BY <1>2, <2>4 DEF SenderOwes
    <3>2. RowOwes(s)' <=> RowOwes(s)
      BY <1>4, <2>4 DEF RowOwes
    <3>3. Bit(SenderOwes(e, s)) = 1 /\ Bit(RowOwes(s)') = Bit(RowOwes(s)) /\ Bit(RowOwes(s)) \in {0, 1}
      BY <3>1, <3>2 DEF Bit
    <3> QED
      BY <2>1, <2>2, <3>3
  <2> QED
    BY <2>3, <2>4
<1>10. ASSUME NEW t \in Subscribers
       PROVE  mails'[t] + Bit(RowOwes(t)') + Bit(SenderOwes(e, t)') <= batchings'[t]
  <2>1. CASE t = s
    <3>1. Bit(SenderOwes(e, s)') = 0
      BY <1>8 DEF Bit
    <3>2. mails'[s] \in Nat /\ Bit(RowOwes(s)') \in {0, 1} /\ batchings'[s] \in Nat
      BY <1>3, <1>4
    <3> QED
      BY <1>9, <2>1, <3>1, <3>2
  <2>2. CASE t # s
    <3>1. /\ Bit(RowOwes(t)') = Bit(RowOwes(t)) /\ mails'[t] = mails[t]
          /\ Bit(SenderOwes(e, t)') <= Bit(SenderOwes(e, t)) /\ batchings'[t] = batchings[t]
      BY <1>4, <1>7, <2>2 DEF Bit
    <3>2. mails[t] + Bit(RowOwes(t)) + Bit(SenderOwes(e, t)) <= batchings[t]
      BY <1>2 DEF Accounted
    <3>3. /\ Bit(RowOwes(t)) \in {0, 1} /\ Bit(SenderOwes(e, t)) \in {0, 1}
          /\ Bit(SenderOwes(e, t)') \in {0, 1} /\ mails[t] \in Nat /\ batchings[t] \in Nat
      OBVIOUS
    <3> QED
      BY <3>1, <3>2, <3>3
  <2> QED
    BY <2>1, <2>2
<1>11. \A t \in Subscribers : mails'[t] + Bit(RowOwes(t)') <= batchings'[t]
  <2>1. \A t \in Subscribers : /\ mails'[t] \in Nat /\ batchings'[t] \in Nat
                               /\ Bit(RowOwes(t)') \in {0, 1} /\ Bit(SenderOwes(e, t)') \in {0, 1}
    BY <1>3, <1>4
  <2> QED
    BY <1>10, <2>1
<1>12. \A f \in Executors : ex'[f].at \in {"start", "send"} => f \in Senders
  BY <1>2, <1>5 DEF Accounted
<1>13. \A t \in Subscribers : SenderHolds(e, t)' => RowOwes(t)'
  BY <1>2, <1>7, <1>8 DEF Accounted
<1> QED
  BY <1>6, <1>10, <1>11, <1>12, <1>13 DEF Accounted, Bit

LEMMA ExecutorStepAccounted ==
  ASSUME OneSender, Typing, Planned, Accounted, NEW e \in Executors, ExecutorStep(e)
  PROVE  Accounted'
<1> USE Rows
<1>1. CASE Send(e)
  BY <1>1, SendAccounted
<1>2. CASE SendFails(e)
  <2>1. /\ ex'[e].at = "off" /\ \A f \in Executors \ {e} : ex'[f] = ex[f]
        /\ UNCHANGED <<gen, mails, batchings>>
    BY <1>2 DEF SendFails, NoRun, history
  <2>2. e \in Senders
    BY <1>2 DEF SendFails, Accounted
  <2>3. \A s \in Subscribers : RowOwes(s)' => RowOwes(s)
    BY <1>2 DEF SendFails, RowOwes
  <2>4. \A f \in Senders, s \in Subscribers : ~SenderHolds(f, s)' /\ ~SenderOwes(f, s)'
    BY <2>1, <2>2 DEF OneSender, SenderHolds, SenderOwes
  <2>5. \A f \in Executors : ex'[f].at \in {"start", "send"} => f \in Senders
    BY <2>1 DEF Accounted
  <2> QED
    BY <2>1, <2>3, <2>4, <2>5, NothingOwed
<1>3. ASSUME \A f \in Executors \ {e} : ex'[f] = ex[f],
             UNCHANGED <<gen, mails, batchings>>,
             \A s \in Subscribers : RowOwes(s)' <=> RowOwes(s),
             ex'[e].at \in {"start", "send"} =>
               /\ e \in Senders
               /\ \/ ex'[e].gen = gen /\ \A s \in ex'[e].load \intersect Subscribers : RowOwes(s)
                  \/ /\ ex[e].at \in {"start", "send"}
                     /\ ex'[e].gen = ex[e].gen /\ ex'[e].load = ex[e].load
      PROVE  Accounted'
  <2>1. \A f \in Executors : ex'[f].at \in {"start", "send"} => f \in Senders
    BY <1>3 DEF Accounted
  <2>2. ASSUME NEW f \in Senders, NEW s \in Subscribers
        PROVE  /\ SenderHolds(f, s)' => RowOwes(s)'
               /\ SenderOwes(f, s)' => SenderOwes(f, s)
    BY <1>3 DEF Accounted, SenderHolds, SenderOwes, Senders
  <2> QED
    BY <1>3, <2>1, <2>2, NothingOwed
<1>4. CASE LoadBatchByCampaign(e)
  BY <1>3, <1>4 DEF LoadBatchByCampaign, Holds, tables, history, RowOwes
<1>5. CASE ClaimNextQueuedBatch(e)
  BY <1>3, <1>5 DEF ClaimNextQueuedBatch, Holds, history, RowOwes
<1>6. CASE Reconcile(e)
  BY <1>3, <1>6 DEF Reconcile, history, RowOwes
<1>7. CASE LoadRecipients(e)
  <2>1. /\ \A f \in Executors \ {e} : ex'[f] = ex[f]
        /\ ex'[e].at = IF e \in DryRun THEN "dry_run" ELSE "start"
        /\ ex'[e].gen = gen
        /\ ex'[e].load = Lowest(RowsIn(ex[e].key, {"batched"}), MaxRecipientsPerRun)
        /\ UNCHANGED <<gen, row, mails, batchings>>
    BY <1>7 DEF LoadRecipients, history, ExRecords
  <2>2. \A s \in ex'[e].load : RowOwes(s)
    BY <2>1, LowestSubset DEF RowsIn, RowOwes
  <2> QED
    BY <1>3, <2>1, <2>2 DEF RowOwes, Senders
<1>8. CASE FailEmptyBatch(e)
  BY <1>3, <1>8 DEF FailEmptyBatch, NoRun, history, RowOwes
<1>9. CASE ExecuteDryRun(e)
  <2>1. \A s \in Subscribers : RowOwes(s)' <=> RowOwes(s)
    BY <1>9 DEF ExecuteDryRun, RowOwes
  <2> QED
    BY <1>3, <1>9, <2>1 DEF ExecuteDryRun, Step, history, ExRecords
<1>10. CASE StartBatch(e)
  <2>1. /\ \A f \in Executors \ {e} : ex'[f] = ex[f]
        /\ ex'[e].gen = ex[e].gen /\ ex'[e].load = ex[e].load /\ ex[e].at = "start"
        /\ UNCHANGED <<gen, row, mails, batchings>>
    BY <1>10 DEF StartBatch, Step, history, ExRecords
  <2> QED
    BY <1>3, <2>1 DEF RowOwes, Accounted
<1>11. CASE FinishBatchOrRequeue(e)
  BY <1>3, <1>11 DEF FinishBatchOrRequeue, Step, history, RowOwes, ExRecords
<1>12. CASE CloseDispatchIfDone(e)
  BY <1>3, <1>12 DEF CloseDispatchIfDone, NoRun, history, RowOwes
<1> QED
  BY <1>1, <1>2, <1>4, <1>5, <1>6, <1>7, <1>8, <1>9, <1>10, <1>11, <1>12 DEF ExecutorStep

LEMMA AuditStepAccounted ==
  ASSUME Typing, Accounted, NEW a \in Auditors, AuditStep(a)
  PROVE  Accounted'
<1>1. UNCHANGED <<ex, gen, mails, batchings>>
  BY AuditFrame, ResetRows DEF history, tables
<1>2. \A s \in Subscribers : RowOwes(s)' <=> RowOwes(s)
  BY AuditFrame, ResetRows DEF RowOwes, tables
<1> QED
  BY <1>1, <1>2, NothingOwed DEF Accounted, SenderHolds, SenderOwes

LEMMA InitAccounted == PrepareInit => Accounted
<1> SUFFICES ASSUME PrepareInit
             PROVE  Accounted
  OBVIOUS
<1>1. /\ \A e \in Executors : ex[e].at = "off"
      /\ \A s \in Subscribers : mails[s] = 0 /\ batchings[s] = 0 /\ ~RowOwes(s)
  BY DEF PrepareInit, Init, NoRun, RowOwes
<1>2. \A e \in Senders, s \in Subscribers : ~SenderHolds(e, s) /\ ~SenderOwes(e, s)
  BY <1>1 DEF SenderHolds, SenderOwes, Senders
<1> QED
  BY <1>1, <1>2 DEF Accounted, Bit

LEMMA NextAccounted ==
  ASSUME OneSender
  PROVE  Typing /\ Planned /\ Accounted /\ [PrepareNext]_allVars => Accounted'
<1> SUFFICES ASSUME Typing, Planned, Accounted, [PrepareNext]_allVars
             PROVE  Accounted'
  OBVIOUS
<1>1. CASE SendyChanges \/ UNCHANGED allVars
  BY <1>1 DEF SendyChanges, allVars, vars, tables, history, Accounted, RowOwes, SenderOwes,
     SenderHolds, Bit
<1> QED
  BY <1>1, CommandStepAccounted, ExecutorStepAccounted, AuditStepAccounted
  DEF PrepareNext, Next

\* As long as one executor sends (any number of others dry-run), no interleaving of
\* plans, resolves, dry runs and resets sends a subscriber more mails than there
\* were plans that put him into a batch.
THEOREM MailedOncePerPlan ==
  ASSUME OneSender
  PROVE  PrepareSpec => []OncePerBatching
<1>1. Typing /\ Accounted => OncePerBatching
  <2> SUFFICES ASSUME Typing, Accounted, NEW s \in Subscribers
               PROVE  mails[s] <= batchings[s]
    BY DEF OncePerBatching
  <2>1. mails[s] + Bit(RowOwes(s)) <= batchings[s]
    BY DEF Accounted
  <2>2. mails[s] \in Nat /\ batchings[s] \in Nat /\ Bit(RowOwes(s)) \in {0, 1}
    BY Counts
  <2> QED
    BY <2>1, <2>2
<1> QED
  BY <1>1, AlwaysPlanned, InitAccounted, NextAccounted, PTL DEF PrepareSpec

=============================================================================
