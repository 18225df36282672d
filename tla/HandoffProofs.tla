--------------------------- MODULE HandoffProofs ----------------------------
(***************************************************************************)
(* Proofs about Handoff: what a handoff promises for any campaign, any     *)
(* split into groups and any number of handlers and executors.             *)
(*                                                                         *)
(* Six inductive invariants, each on top of the types:                     *)
(*   Writing      one transaction at a time holds the campaign, and every  *)
(*                identity it inserts is new;                              *)
(*   Preparing    what the groups of a request whose turn is over have got;*)
(*   Closing      what a transaction writes was completed only since it    *)
(*                began;                                                   *)
(*   Owning       a batch of the present rows belongs to one executor;     *)
(*   Undisturbed  where no rows were replaced under an executor, each      *)
(*                executor holds exactly the rows of its batch, and every  *)
(*                batched row is awaited by a batch that can be claimed;   *)
(*   Owed         the mails still to come fit into what was handed off.    *)
(***************************************************************************)
EXTENDS Handoff, FiniteSetTheorems, TLAPS

-----------------------------------------------------------------------------
(* Inductive invariants.                                                   *)

\* An executor has a dispatch and a batch from its claim until it is done.
HasDispatch ==
  \A e \in Executors :
    IF ex[e].at = "off" THEN ex[e].d = NoDispatch
                        ELSE ex[e].d \in Dispatches /\ ex[e].b \in BatchNumbers

Typing == TypeOK /\ HasDispatch

HasCampaign(h) == pc[h] \in {"select", "prepare", "variant"}

Quiet(h) ==
  /\ draft[h] = [d \in Dispatches |-> NoContent]
  /\ fresh[h] = [d \in Dispatches |-> NoIdentity]
  /\ noted[h] = {} /\ todo[h] = {} /\ ~broken[h]

OnlyMirrorsVary ==
  \A h \in Handlers, d \in Dispatches : pc[h] = "variant" /\ Turn(h, d) => d \in Mirrors

NothingBeforeUpsert == \A h \in Handlers : ~HasCampaign(h) => Quiet(h)

CampaignIsLocked == \A h \in Handlers : HasCampaign(h) => draft[h][Global] # NoContent

OneHasCampaign == \A h, k \in Handlers : HasCampaign(h) /\ HasCampaign(k) => h = k

IdentitiesDiffer ==
  \A c, d \in Dispatches : identity[c] = identity[d] /\ identity[c] # NoIdentity => c = d

FreshIdentitiesDiffer ==
  \A h \in Handlers, c, d \in Dispatches : fresh[h][c] # NoIdentity =>
    /\ identity[d] # fresh[h][c]
    /\ fresh[h][d] = fresh[h][c] => c = d

Writing ==
  OnlyMirrorsVary /\ NothingBeforeUpsert /\ CampaignIsLocked /\ OneHasCampaign
    /\ IdentitiesDiffer /\ FreshIdentitiesDiffer

Done(h) == Groups(request[h]) \ todo[h]

GroupsAreDecided(h) ==
  /\ todo[h] \subseteq Groups(request[h])
  /\ \A d \in Done(h) : draft[h][d] \in Contents \/ (d \in Mirrors /\ draft[h][d] = Cancel)
  /\ \A d \in Dispatches : draft[h][d] \in Contents => d \in Done(h)

GroupsTakeTurns(h) == \A d \in Done(h), c \in todo[h] : Place(d) <= Place(c)

Enforcing == FingerprintMode = "enforce" /\ "exact_parent_mirror_clone" \in EnforceReasons

ContentsAreNoted(h) ==
  \A d \in Dispatches : draft[h][d] \in Contents => <<d, draft[h][d]>> \in noted[h]

MirrorsDiffer(h) ==
  \A m \in Mirrors, d \in Dispatches :
    draft[h][m] \in Contents /\ draft[h][d] \in Contents /\ m # d
      => draft[h][m] # draft[h][d]

Prepared(h) ==
  /\ HasCampaign(h) => GroupsAreDecided(h) /\ GroupsTakeTurns(h)
  /\ HasCampaign(h) /\ Enforcing /\ ~broken[h] => ContentsAreNoted(h) /\ MirrorsDiffer(h)
  /\ pc[h] \in {"prepare", "variant"} => ~broken[h]

Preparing == \A h \in Handlers : Prepared(h)

\* The registry rows a transaction has checked for 'completed'.
Checked(h, d) ==
  \/ pc[h] = "upsert" /\ d = Global
  \/ draft[h][d] # NoContent
  \/ pc[h] \in {"prepare", "variant"} /\ Turn(h, d)

Closing ==
  \A h \in Handlers, d \in Dispatches :
    Checked(h, d) /\ registry[d] = "completed" => d \in meanwhile[h]

Active(e) == ex[e].at \in {"load", "mark", "send", "finish"}
Sending(e) == ex[e].at \in {"mark", "send"}
Current(e) == Active(e) /\ ex[e].g = gen[ex[e].d]
Waiting(d, n) == {r \in InBatch(d, n) : recipient[d][r] = "batched"}

GenerationsGrow ==
  \A e \in Executors : Active(e) =>
    /\ ex[e].g <= gen[ex[e].d]
    /\ Sending(e) => ex[e].g <= ex[e].rows /\ ex[e].rows <= gen[ex[e].d]

CurrentRuns == \A e \in Executors : Current(e) => batch[ex[e].d][ex[e].b] = "running"

OneCurrent ==
  \A e, f \in Executors : Current(e) /\ Current(f) /\ ex[e].d = ex[f].d => e = f

LoadedFromBatch ==
  \A e \in Executors : Sending(e) /\ ex[e].rows = gen[ex[e].d] =>
    ex[e].load \subseteq InBatch(ex[e].d, ex[e].b)

Owning == GenerationsGrow /\ CurrentRuns /\ OneCurrent /\ LoadedFromBatch

\* What holds of a dispatch whose rows were never replaced under an executor.
HoldsItsRows(e) ==
  LET d == ex[e].d IN
    /\ ~ex[e].failed
    /\ Active(e) => ex[e].g = gen[d]
    /\ ex[e].at = "load" => Waiting(d, ex[e].b) # {}
    /\ ex[e].at \in {"mark", "send", "finish"} => ex[e].load = Waiting(d, ex[e].b)
    /\ ex[e].at = "finish" => ex[e].load = {}
    /\ ex[e].at \in {"close_queue", "close_registry"} =>
         BatchesOfState(d, {"queued", "running"}) = {}

BatchesServed(d) ==
  \A n \in BatchNumbers :
    /\ batch[d][n] # "failed"
    /\ batch[d][n] = "queued" => Waiting(d, n) # {}

RowsAwaited(d) ==
  \A r \in Rows(d) : recipient[d][r] = "batched" =>
    batch[d][BatchNumber(Rows(d), r)] \in {"queued", "running"}

QueueAwaits(d) == BatchesOfState(d, {"queued", "running"}) # {} => queue[d] \in OpenQueue

Served(d) ==
  /\ \A e \in Executors : ex[e].d = d => HoldsItsRows(e)
  /\ BatchesServed(d) /\ RowsAwaited(d) /\ QueueAwaits(d)

Undisturbed == \A d \in Dispatches \ overrun : Served(d)

\* Executors that may mail a recipient beside the batch that owns the row now.
Holders(d, r) ==
  {e \in Executors : /\ ex[e].d = d /\ ~Current(e)
                     /\ ex[e].at = "load" \/ (Sending(e) /\ r \in ex[e].load)}

Due(d, r) ==
  \/ recipient[d][r] = "batched"
  \/ \E e \in Executors : Current(e) /\ ex[e].d = d /\ Sending(e) /\ r \in ex[e].load

Owed ==
  \A d \in Dispatches, r \in Recipients :
    mails[d][r] + Cardinality(Holders(d, r)) + (IF Due(d, r) THEN 1 ELSE 0)
      <= gen[d] + stale[d]

-----------------------------------------------------------------------------
(* What a step leaves alone.                                               *)

LEMMA GlobalIsDispatch == Global \in Dispatches /\ NoDispatch \notin Dispatches
BY HandoffAssumption DEF Dispatches

LEMMA GroupType ==
  ASSUME NEW req \in Requests, NEW d
  PROVE  Group(req, d) \subseteq Recipients
<1>1. req.emails \subseteq Recipients
  BY HandoffAssumption
<1> QED
  BY <1>1 DEF Group, PinnedTo, ParentHalf, MirrorHalf

\* What a handler does before it commits, nobody else sees.
LEMMA HandlerFrame ==
  ASSUME NEW h \in Handlers, HandlerStep(h), ~Commit(h)
  PROVE  UNCHANGED <<database, execution, history>>
<1>1. Receive(h) \/ UpsertRegistry(h) \/ SelectRegistry(h) \/ PrepareDispatch(h)
        \/ VariantRejected(h) \/ VariantApplied(h) \/ StatementFails(h)
        \/ StatementRefused(h)
  BY DEF HandlerStep
<1>2. CASE Receive(h)
  BY <1>2 DEF Receive, Rollback
<1>3. CASE UpsertRegistry(h)
  BY <1>3 DEF UpsertRegistry, Rollback
<1>4. CASE SelectRegistry(h)
  BY <1>4 DEF SelectRegistry, Rollback
<1>5. CASE PrepareDispatch(h)
  BY <1>5 DEF PrepareDispatch, PrepareGroup, Rollback
<1>6. CASE VariantRejected(h) \/ VariantApplied(h)
  BY <1>6 DEF VariantRejected, VariantApplied
<1>7. CASE StatementFails(h) \/ StatementRefused(h)
  BY <1>7 DEF StatementFails, StatementRefused, Rollback
<1> QED
  BY <1>1, <1>2, <1>3, <1>4, <1>5, <1>6, <1>7

\* Executors leave the transactions alone, but for closing dispatches under them.
LEMMA ExecutorFrame ==
  ASSUME NEW e \in Executors, ExecutorStep(e)
  PROVE  UNCHANGED <<rows, events, pc, request, existed, todo, draft, fresh, noted,
                     broken, outcome, history, bounds>>
<1> USE DEF transaction, ClosedMeanwhile
<1>1. CASE \E d \in Dispatches : Claim(e, d) \/ Reconcile(e, d)
  BY <1>1 DEF Claim, Reconcile
<1>2. CASE Load(e) \/ LoadNothing(e) \/ MarkDispatchRunning(e) \/ Send(e)
  BY <1>2 DEF Load, LoadNothing, MarkDispatchRunning, Send, database
<1>3. CASE FinishBatchOrRequeue(e) \/ CountOpenBatches(e) \/ CloseQueue(e)
             \/ CloseRegistry(e)
  BY <1>3 DEF FinishBatchOrRequeue, CountOpenBatches, CloseQueue, CloseRegistry, database
<1> QED
  BY <1>1, <1>2, <1>3 DEF ExecutorStep

-----------------------------------------------------------------------------
(* Types.                                                                  *)

ExecutorRecords ==
  [at : ExecutorSteps, d : Dispatches \union {NoDispatch}, g : Nat,
   b : BatchNumbers \union {0}, rows : Nat, load : SUBSET Recipients, failed : BOOLEAN]

Drafts == [Dispatches -> Contents \union {NoContent, Cancel}]

LEMMA IdleType == Idle \in ExecutorRecords
BY DEF Idle, ExecutorRecords, ExecutorSteps

LEMMA TransactionOverType ==
  ASSUME TypeOK, NEW h \in Handlers, NEW answer \in Outcomes, TransactionOver(h, answer)
  PROVE  /\ pc' \in [Handlers -> InTransaction \union {"idle"}]
         /\ request' \in [Handlers -> Requests]
         /\ existed' \in [Handlers -> BOOLEAN]
         /\ todo' \in [Handlers -> SUBSET Dispatches]
         /\ draft' \in [Handlers -> Drafts]
         /\ fresh' \in [Handlers -> [Dispatches -> Identities]]
         /\ noted' \in [Handlers -> SUBSET (Dispatches \X Contents)]
         /\ broken' \in [Handlers -> BOOLEAN]
         /\ meanwhile' \in [Handlers -> SUBSET Dispatches]
         /\ outcome' \in [Handlers -> Outcomes]
<1> USE DEF TypeOK, TransactionOver
<1>1. (CHOOSE req \in Requests : TRUE) \in Requests
  BY HandoffAssumption
<1>2. [d \in Dispatches |-> NoContent] \in Drafts
  BY DEF Drafts
<1>3. [d \in Dispatches |-> NoIdentity] \in [Dispatches -> Identities]
  BY DEF Identities
<1>4. draft \in [Handlers -> Drafts]
  BY DEF Drafts
<1>5. draft' \in [Handlers -> Drafts]
  BY <1>2, <1>4
<1>6. fresh' \in [Handlers -> [Dispatches -> Identities]]
  BY <1>3
<1>7. request' \in [Handlers -> Requests]
  BY <1>1
<1> QED
  BY <1>5, <1>6, <1>7

LEMMA RollbackType ==
  ASSUME TypeOK, NEW h \in Handlers, NEW answer \in Outcomes, Rollback(h, answer),
         handoffs' \in 0..MaxHandoffs, errors' \in 0..MaxErrors
  PROVE  TypeOK'
<1>1. TransactionOver(h, answer) /\ UNCHANGED <<database, execution, history>>
  BY DEF Rollback
<1> QED
  BY <1>1, TransactionOverType DEF TypeOK, Drafts, database, rows, execution, history

LEMMA IdentityType ==
  ASSUME NEW req, NEW d
  PROVE  SyntheticIdentity(req, d) \in Identities
<1> DEFINE kind == IF d \in Parents THEN Parents ELSE Mirrors
           upTo == {c \in kind \intersect Groups(req) : Place(c) <= Place(d)}
<1>1. ASSUME NEW S, NEW order \in Seq(S), S = Elements(order)
      PROVE  IsFiniteSet(S)
  <2>1. IsFiniteSet(DOMAIN order)
    <3>1. Len(order) \in Nat /\ DOMAIN order = 1..Len(order)
      BY <1>1
    <3> QED
      BY <3>1, FS_Interval
  <2>2. order \in Surjection(DOMAIN order, S)
    BY <1>1 DEF Surjection, Elements
  <2> QED
    BY <2>1, <2>2, FS_Surjection
<1>2. IsFiniteSet(kind)
  BY <1>1, HandoffAssumption DEF Parents, Mirrors
<1>3. upTo \in SUBSET kind
  OBVIOUS
<1> HIDE DEF kind, upTo
<1>4. Cardinality(upTo) \in Nat
  BY <1>2, <1>3, FS_Subset, FS_CardinalityType
<1> QED
  BY <1>4 DEF SyntheticIdentity, Identities, kind, upTo

LEMMA ContentSnapshotType ==
  ASSUME TypeOK, NEW h \in Handlers, NEW d \in Dispatches, NEW text \in Contents,
         NEW ok \in BOOLEAN, ContentSnapshot(h, d, text, ok)
  PROVE  /\ noted' \in [Handlers -> SUBSET (Dispatches \X Contents)]
         /\ broken' \in [Handlers -> BOOLEAN]
         /\ errors' \in 0..MaxErrors
<1>1. noted' \in [Handlers -> SUBSET (Dispatches \X Contents)]
  BY DEF ContentSnapshot, TypeOK
<1>2. broken' \in [Handlers -> BOOLEAN]
  BY DEF ContentSnapshot, TypeOK
<1>3. errors' \in 0..MaxErrors
  BY HandoffAssumption DEF ContentSnapshot, TypeOK
<1> QED
  BY <1>1, <1>2, <1>3

LEMMA DraftType ==
  ASSUME TypeOK, NEW h \in Handlers, NEW d \in Dispatches,
         NEW decision \in Contents \union {NoContent, Cancel}
  PROVE  [draft EXCEPT ![h][d] = decision] \in [Handlers -> Drafts]
<1>1. draft[h] \in Drafts
  BY DEF TypeOK, Drafts
<1>2. [draft[h] EXCEPT ![d] = decision] \in Drafts
  BY <1>1 DEF Drafts
<1> QED
  BY <1>2 DEF TypeOK, Drafts

LEMMA FreshType ==
  ASSUME TypeOK, NEW h \in Handlers, NEW d \in Dispatches, NEW id \in Identities
  PROVE  [fresh EXCEPT ![h][d] = id] \in [Handlers -> [Dispatches -> Identities]]
<1>1. [fresh[h] EXCEPT ![d] = id] \in [Dispatches -> Identities]
  BY DEF TypeOK
<1> QED
  BY <1>1 DEF TypeOK

LEMMA DecideType ==
  ASSUME TypeOK, NEW h \in Handlers, NEW d \in Dispatches,
         NEW decision \in Contents \union {Cancel}, Decide(h, d, decision)
  PROVE  /\ draft' \in [Handlers -> Drafts]
         /\ todo' \in [Handlers -> SUBSET Dispatches]
         /\ pc' \in [Handlers -> InTransaction \union {"idle"}]
BY DraftType DEF Decide, TypeOK, InTransaction

LEMMA AwaitVariantType ==
  ASSUME TypeOK, NEW h \in Handlers, NEW d \in Dispatches, AwaitVariant(h, d)
  PROVE  /\ draft' \in [Handlers -> Drafts]
         /\ todo' \in [Handlers -> SUBSET Dispatches]
         /\ pc' \in [Handlers -> InTransaction \union {"idle"}]
BY DraftType DEF AwaitVariant, TypeOK, InTransaction

LEMMA HandlerStepType ==
  ASSUME TypeOK, NEW h \in Handlers, HandlerStep(h), ~Commit(h)
  PROVE  TypeOK'
<1>1. UNCHANGED <<database, execution, history>>
  BY HandlerFrame
<1>2. \A text \in Variants : text \in Contents
  BY DEF Contents
<1>3. request[h].content \in Contents
  BY DEF Contents, TypeOK
<1>4. CASE Receive(h)
  <2>1. handoffs' \in 0..MaxHandoffs /\ errors' = errors
    BY <1>4, HandoffAssumption DEF Receive, TypeOK
  <2>2. CASE registry[Global] = "completed"
    BY <1>4, <2>1, <2>2, RollbackType DEF Receive, Outcomes, TypeOK
  <2>3. CASE registry[Global] # "completed"
    <3> PICK req \in Requests : request' = [request EXCEPT ![h] = req]
      BY <1>4, <2>3 DEF Receive
    <3>1. /\ existed' = [existed EXCEPT ![h] = registry[Global] # "absent"]
          /\ pc' = [pc EXCEPT ![h] = "upsert"]
          /\ outcome' = [outcome EXCEPT ![h] = "none"]
      BY <1>4, <2>3 DEF Receive
    <3>3. /\ request' \in [Handlers -> Requests]
          /\ existed' \in [Handlers -> BOOLEAN]
          /\ pc' \in [Handlers -> InTransaction \union {"idle"}]
          /\ outcome' \in [Handlers -> Outcomes]
      BY <3>1 DEF TypeOK, InTransaction, Outcomes
    <3>2. UNCHANGED <<todo, draft, fresh, noted, broken, meanwhile>>
      BY <1>4, <2>3 DEF Receive
    <3> QED
      BY <1>1, <2>1, <3>2, <3>3 DEF TypeOK, database, rows, execution, history
  <2> QED
    BY <2>2, <2>3
<1>5. CASE UpsertRegistry(h)
  <2>1. handoffs' \in 0..MaxHandoffs /\ errors' \in 0..MaxErrors
    BY <1>5 DEF UpsertRegistry, bounds, TypeOK
  <2>2. CASE Rollback(h, "duplicate_campaign")
    BY <2>1, <2>2, RollbackType DEF Outcomes
  <2>3. CASE ~Rollback(h, "duplicate_campaign")
    <3>1. /\ pc' = [pc EXCEPT ![h] = "select"]
          /\ draft' = [draft EXCEPT ![h][Global] = Cancel]
          /\ todo' = [todo EXCEPT ![h] = Groups(request[h])]
      BY <1>5, <2>3 DEF UpsertRegistry
    <3>3. draft' \in [Handlers -> Drafts]
      BY <3>1, DraftType, GlobalIsDispatch
    <3>4. /\ pc' \in [Handlers -> InTransaction \union {"idle"}]
          /\ todo' \in [Handlers -> SUBSET Dispatches]
      BY <3>1 DEF TypeOK, InTransaction, Groups
    <3>2. UNCHANGED <<request, existed, fresh, noted, broken, meanwhile, outcome>>
      BY <1>5, <2>3 DEF UpsertRegistry
    <3> QED
      BY <1>1, <2>1, <3>2, <3>3, <3>4
      DEF TypeOK, Drafts, database, rows, execution, history
  <2> QED
    BY <2>2, <2>3
<1>6. CASE SelectRegistry(h)
  <2>1. handoffs' \in 0..MaxHandoffs /\ errors' \in 0..MaxErrors
    BY <1>6 DEF SelectRegistry, bounds, TypeOK
  <2>2. CASE Rollback(h, "conflict")
    BY <2>1, <2>2, RollbackType DEF Outcomes
  <2>3. CASE ~Rollback(h, "conflict")
    <3>3. pc' = [pc EXCEPT ![h] = "prepare"]
      BY <1>6, <2>3 DEF SelectRegistry
    <3>1. pc' \in [Handlers -> InTransaction \union {"idle"}]
      BY <3>3 DEF TypeOK, InTransaction
    <3>2. UNCHANGED <<request, existed, todo, draft, fresh, noted, broken, meanwhile,
                      outcome>>
      BY <1>6, <2>3 DEF SelectRegistry
    <3> QED
      BY <1>1, <2>1, <3>1, <3>2 DEF TypeOK, database, rows, execution, history
  <2> QED
    BY <2>2, <2>3
<1>7. CASE PrepareDispatch(h)
  <2>1. PICK d \in Dispatches : PrepareGroup(h, d)
    BY <1>7 DEF PrepareDispatch
  <2>2. handoffs' = handoffs
    BY <1>7 DEF PrepareDispatch
  <2>3. CASE Rollback(h, "duplicate_identity") /\ UNCHANGED errors
    BY <2>2, <2>3, RollbackType DEF Outcomes, TypeOK
  <2>4. CASE ~(Rollback(h, "duplicate_identity") /\ UNCHANGED errors)
    <3> DEFINE text == request[h].content
    <3> DEFINE id == SyntheticIdentity(request[h], d)
    <3>6. fresh' = fresh \/ fresh' = [fresh EXCEPT ![h][d] = id]
      BY <2>1, <2>4 DEF PrepareGroup
    <3>7. id \in Identities
      BY IdentityType
    <3> HIDE DEF id
    <3>1. fresh' \in [Handlers -> [Dispatches -> Identities]]
      <4>1. fresh \in [Handlers -> [Dispatches -> Identities]]
        BY DEF TypeOK
      <4>2. [fresh EXCEPT ![h][d] = id] \in [Handlers -> [Dispatches -> Identities]]
        BY <3>7, FreshType
      <4> QED
        BY <3>6, <4>1, <4>2
    <3>2. UNCHANGED <<request, existed, meanwhile, outcome>>
      BY <2>1, <2>4 DEF PrepareGroup
    <3>3. PICK ok \in BOOLEAN : /\ ContentSnapshot(h, d, text, ok)
                                /\ AwaitVariant(h, d) \/ Decide(h, d, text)
      BY <2>1, <2>4 DEF PrepareGroup
    <3>4. /\ draft' \in [Handlers -> Drafts]
          /\ todo' \in [Handlers -> SUBSET Dispatches]
          /\ pc' \in [Handlers -> InTransaction \union {"idle"}]
      BY <1>3, <3>3, DecideType, AwaitVariantType
    <3>5. /\ noted' \in [Handlers -> SUBSET (Dispatches \X Contents)]
          /\ broken' \in [Handlers -> BOOLEAN]
          /\ errors' \in 0..MaxErrors
      BY <1>3, <3>3, ContentSnapshotType
    <3> QED
      BY <1>1, <2>2, <3>1, <3>2, <3>4, <3>5
      DEF TypeOK, Drafts, database, rows, execution, history
  <2> QED
    BY <2>3, <2>4
<1>8. CASE VariantRejected(h)
  <2>1. /\ draft' \in [Handlers -> Drafts]
        /\ todo' \in [Handlers -> SUBSET Dispatches]
        /\ pc' \in [Handlers -> InTransaction \union {"idle"}]
    BY <1>8, DecideType DEF VariantRejected
  <2>2. UNCHANGED <<request, existed, fresh, noted, broken, meanwhile, outcome, bounds>>
    BY <1>8 DEF VariantRejected
  <2> QED
    BY <1>1, <2>1, <2>2 DEF TypeOK, Drafts, database, rows, execution, history, bounds
<1>9. CASE VariantApplied(h)
  <2>1. PICK d \in Dispatches, variant \in Variants, ok \in BOOLEAN :
             /\ ContentSnapshot(h, d, variant, ok)
             /\ Decide(h, d, IF ok /\ Enforced(h, d, variant) THEN Cancel ELSE variant)
    BY <1>9 DEF VariantApplied
  <2>2. /\ draft' \in [Handlers -> Drafts]
        /\ todo' \in [Handlers -> SUBSET Dispatches]
        /\ pc' \in [Handlers -> InTransaction \union {"idle"}]
    BY <1>2, <2>1, DecideType
  <2>3. /\ noted' \in [Handlers -> SUBSET (Dispatches \X Contents)]
        /\ broken' \in [Handlers -> BOOLEAN]
        /\ errors' \in 0..MaxErrors
    BY <1>2, <2>1, ContentSnapshotType
  <2>4. UNCHANGED <<request, existed, fresh, meanwhile, outcome, handoffs>>
    BY <1>9 DEF VariantApplied
  <2> QED
    BY <1>1, <2>2, <2>3, <2>4 DEF TypeOK, Drafts, database, rows, execution, history
<1>10. CASE StatementFails(h)
  <2>1. handoffs' \in 0..MaxHandoffs /\ errors' \in 0..MaxErrors
    BY <1>10, HandoffAssumption DEF StatementFails, TypeOK
  <2> QED
    BY <1>10, <2>1, RollbackType DEF StatementFails, Outcomes
<1>11. CASE StatementRefused(h)
  <2>1. handoffs' \in 0..MaxHandoffs /\ errors' \in 0..MaxErrors
    BY <1>11 DEF StatementRefused, bounds, TypeOK
  <2> QED
    BY <1>11, <2>1, RollbackType DEF StatementRefused, Outcomes
<1> QED
  BY <1>4, <1>5, <1>6, <1>7, <1>8, <1>9, <1>10, <1>11 DEF HandlerStep

LEMMA CommitType ==
  ASSUME TypeOK, NEW h \in Handlers, Commit(h)
  PROVE  TypeOK'
<1> DEFINE writes == {d \in Dispatches : draft[h][d] \in Contents}
<1>1. TransactionOver(h, "ok") /\ "ok" \in Outcomes
  BY DEF Commit, Outcomes
<1>2. UNCHANGED <<execution, bounds>>
  BY DEF Commit
<1>3. ReplaceRows(writes, request[h])
  BY DEF Commit
<1>4. gen' \in [Dispatches -> Nat] /\ stale' \in [Dispatches -> Nat]
  BY <1>3 DEF Commit, ReplaceRows, TypeOK
<1>5. recipient' \in [Dispatches -> [Recipients -> {"absent", "batched", "sent"}]]
  BY <1>3 DEF ReplaceRows, TypeOK
<1>6. batch' \in [Dispatches ->
         [BatchNumbers -> {"absent", "queued", "running", "completed", "failed"}]]
  BY <1>3 DEF ReplaceRows, TypeOK
<1>7. queue' \in [Dispatches -> OpenQueue \union {"absent", "completed", "failed"}]
  BY <1>3 DEF ReplaceRows, TypeOK, OpenQueue
<1>8. content' \in [Dispatches -> Contents \union {NoContent}]
  BY DEF Commit, TypeOK
<1>9. registry' \in [Dispatches ->
         {"absent", "batched", "running", "completed", "failed", "cancelled"}]
  BY DEF Commit, TypeOK
<1>10. identity' \in [Dispatches -> Identities]
  BY DEF Commit, TypeOK
<1>11. events' \subseteq Dispatches \X Contents /\ overrun' \subseteq Dispatches
  BY DEF Commit, TypeOK
<1> QED
  BY <1>1, <1>2, <1>4, <1>5, <1>6, <1>7, <1>8, <1>9, <1>10, <1>11, TransactionOverType
  DEF TypeOK, Drafts, execution, bounds

LEMMA ClosedMeanwhileType ==
  ASSUME TypeOK, NEW d \in Dispatches, ClosedMeanwhile(d)
  PROVE  meanwhile' \in [Handlers -> SUBSET Dispatches]
BY DEF ClosedMeanwhile, TypeOK

LEMMA SetBatchType ==
  ASSUME TypeOK, NEW e \in Executors,
         NEW state \in {"absent", "queued", "running", "completed", "failed"},
         SetBatch(e, state)
  PROVE  batch' \in [Dispatches ->
           [BatchNumbers -> {"absent", "queued", "running", "completed", "failed"}]]
BY DEF SetBatch, TypeOK

LEMMA BatchInRange ==
  ASSUME NEW S \in SUBSET Recipients, NEW r \in S
  PROVE  BatchNumber(S, r) \in BatchNumbers
<1> DEFINE before == {x \in S : x < r}
<1>1. r \in Nat /\ ~(r < r)
  BY HandoffAssumption
<1>2. before \in SUBSET Recipients /\ before # Recipients
  BY <1>1
<1>3. /\ IsFiniteSet(before)
      /\ Cardinality(before) <= Cardinality(Recipients)
      /\ Cardinality(before) # Cardinality(Recipients)
  BY <1>2, FS_Subset, HandoffAssumption
<1>4. Cardinality(before) \in Nat /\ Cardinality(Recipients) \in Nat
  BY <1>3, FS_CardinalityType, HandoffAssumption
<1>5. Cardinality(before) \div BatchSize \in 0..Cardinality(before)
  <2>1. ASSUME NEW a \in Nat, NEW b \in Nat \ {0}
        PROVE  a \div b \in 0..a
    <3>1. a \div b \in Int /\ a \div b >= 0
      OBVIOUS
    <3>2. a = b * (a \div b) + (a % b) /\ a % b \in 0..(b - 1)
      OBVIOUS
    <3>3. b * (a \div b) >= a \div b
      BY <3>1
    <3> QED
      BY <3>1, <3>2, <3>3
  <2> QED
    BY <1>4, <2>1, HandoffAssumption
<1> HIDE DEF before
<1>6. (Cardinality(before) \div BatchSize) + 1 \in 1..Cardinality(Recipients)
  BY <1>3, <1>4, <1>5
<1> QED
  BY <1>6 DEF BatchNumber, BatchNumbers, before

LEMMA ClaimedRecord ==
  ASSUME TypeOK, NEW d \in Dispatches, NEW n \in BatchNumbers
  PROVE  [at |-> "load", d |-> d, g |-> gen[d], b |-> n, rows |-> 0, load |-> {},
          failed |-> FALSE] \in ExecutorRecords
<1>1. gen[d] \in Nat
  BY DEF TypeOK
<1> QED
  BY <1>1 DEF ExecutorRecords, ExecutorSteps

LEMMA LoadedRecord ==
  ASSUME NEW x \in ExecutorRecords, NEW found \in SUBSET Recipients, NEW n \in Nat
  PROVE  [x EXCEPT !.at = "mark", !.load = found, !.rows = n] \in ExecutorRecords
BY DEF ExecutorRecords, ExecutorSteps

LEMMA SentRecord ==
  ASSUME NEW x \in ExecutorRecords, NEW at \in ExecutorSteps, NEW r
  PROVE  [x EXCEPT !.load = @ \ {r}, !.at = at] \in ExecutorRecords
BY DEF ExecutorRecords

LEMMA CountedRecord ==
  ASSUME NEW x \in ExecutorRecords, NEW failed \in BOOLEAN
  PROVE  [x EXCEPT !.at = "close_queue", !.failed = failed] \in ExecutorRecords
BY DEF ExecutorRecords, ExecutorSteps

LEMMA StepType ==
  ASSUME TypeOK, NEW e \in Executors, NEW at \in ExecutorSteps, Step(e, at)
  PROVE  ex' \in [Executors -> ExecutorRecords]
<1>1. ex[e] \in ExecutorRecords
  BY DEF TypeOK, ExecutorRecords
<1>2. [ex[e] EXCEPT !.at = at] \in ExecutorRecords
  BY <1>1 DEF ExecutorRecords
<1> QED
  BY <1>2 DEF Step, TypeOK, ExecutorRecords

LEMMA ExecutorStepTyping ==
  ASSUME Typing, NEW e \in Executors, ExecutorStep(e)
  PROVE  Typing'
<1> DEFINE d == ex[e].d
<1>1. UNCHANGED <<rows, events, pc, request, existed, todo, draft, fresh, noted,
                  broken, outcome, history, bounds>>
  BY ExecutorFrame
<1>2. /\ ex \in [Executors -> ExecutorRecords] /\ ex[e] \in ExecutorRecords
      /\ TypeOK /\ HasDispatch
  BY DEF Typing, TypeOK, ExecutorRecords
<1>3. ASSUME ex' \in [Executors -> ExecutorRecords], HasDispatch',
             registry' \in [Dispatches ->
               {"absent", "batched", "running", "completed", "failed", "cancelled"}],
             queue' \in [Dispatches -> OpenQueue \union {"absent", "completed", "failed"}],
             recipient' \in [Dispatches -> [Recipients -> {"absent", "batched", "sent"}]],
             batch' \in [Dispatches ->
               [BatchNumbers -> {"absent", "queued", "running", "completed", "failed"}]],
             meanwhile' \in [Handlers -> SUBSET Dispatches],
             mails' \in [Dispatches -> [Recipients -> Nat]]
      PROVE  Typing'
  BY <1>1, <1>2, <1>3 DEF Typing, TypeOK, rows, history, bounds, ExecutorRecords
<1>4. ASSUME NEW next \in ExecutorRecords, ex' = [ex EXCEPT ![e] = next],
             IF next.at = "off" THEN next.d = NoDispatch
                                ELSE next.d \in Dispatches /\ next.b \in BatchNumbers
      PROVE  ex' \in [Executors -> ExecutorRecords] /\ HasDispatch'
  <2>1. ex' \in [Executors -> ExecutorRecords]
    BY <1>2, <1>4
  <2>2. \A f \in Executors : ex'[f] = IF f = e THEN next ELSE ex[f]
    BY <1>2, <1>4
  <2> QED
    BY <1>2, <1>4, <2>1, <2>2 DEF HasDispatch
<1>5. ASSUME ex' = [ex EXCEPT ![e] = Idle]
      PROVE  ex' \in [Executors -> ExecutorRecords] /\ HasDispatch'
  BY <1>4, <1>5, IdleType DEF Idle
<1>6. ASSUME NEW at \in ExecutorSteps \ {"off"}, Step(e, at), ex[e].at # "off"
      PROVE  ex' \in [Executors -> ExecutorRecords] /\ HasDispatch'
  <2> DEFINE next == [ex[e] EXCEPT !.at = at]
  <2>1. next \in ExecutorRecords /\ next.at = at /\ next.d = ex[e].d /\ next.b = ex[e].b
    BY <1>2 DEF ExecutorRecords
  <2>2. ex' = [ex EXCEPT ![e] = next]
    BY <1>2, <1>6 DEF Step
  <2> HIDE DEF next
  <2>3. d \in Dispatches /\ ex[e].b \in BatchNumbers
    BY <1>2, <1>6 DEF HasDispatch
  <2> QED
    BY <1>4, <1>6, <2>1, <2>2, <2>3
<1>7. ex[e].at # "off" => d \in Dispatches
  BY <1>2 DEF HasDispatch
<1>8. CASE \E c \in Dispatches : Claim(e, c)
  <2>1. PICK c \in Dispatches : Claim(e, c)
    BY <1>8
  <2>2. UNCHANGED <<registry, recipient, transaction, mails>>
    BY <2>1 DEF Claim
  <2>3. PICK n \in BatchesOfState(c, {"queued"}) :
           /\ ex' = [ex EXCEPT ![e] = [at |-> "load", d |-> c, g |-> gen[c], b |-> n,
                                      rows |-> 0, load |-> {}, failed |-> FALSE]]
           /\ batch' = [batch EXCEPT ![c][n] = "running"]
    BY <2>1 DEF Claim
  <2>4. n \in BatchNumbers
    BY <2>3 DEF BatchesOfState
  <2>5. ex' \in [Executors -> ExecutorRecords] /\ HasDispatch'
    BY <1>2, <1>4, <2>3, <2>4, ClaimedRecord
  <2>6. queue' \in [Dispatches -> OpenQueue \union {"absent", "completed", "failed"}]
    BY <1>2, <2>1 DEF Claim, TypeOK, OpenQueue
  <2>7. batch' \in [Dispatches ->
           [BatchNumbers -> {"absent", "queued", "running", "completed", "failed"}]]
    BY <1>2, <2>3, <2>4 DEF TypeOK
  <2> QED
    BY <1>2, <1>3, <2>2, <2>5, <2>6, <2>7 DEF TypeOK, transaction
<1>9. CASE \E c \in Dispatches : Reconcile(e, c)
  <2>1. PICK c \in Dispatches : Reconcile(e, c)
    BY <1>9
  <2>2. UNCHANGED <<recipient, batch, ex, mails>>
    BY <2>1 DEF Reconcile, execution
  <2>3. queue' \in [Dispatches -> OpenQueue \union {"absent", "completed", "failed"}]
    BY <1>2, <2>1 DEF Reconcile, TypeOK
  <2>4. registry' \in [Dispatches ->
           {"absent", "batched", "running", "completed", "failed", "cancelled"}]
    BY <1>2, <2>1 DEF Reconcile, TypeOK
  <2>5. meanwhile' \in [Handlers -> SUBSET Dispatches]
    BY <1>2, <2>1, ClosedMeanwhileType DEF Reconcile
  <2>6. HasDispatch'
    BY <1>2, <2>2 DEF HasDispatch
  <2> QED
    BY <1>2, <1>3, <2>2, <2>3, <2>4, <2>5, <2>6 DEF TypeOK
<1>10. CASE Load(e)
  <2> DEFINE found == {r \in InBatch(d, ex[e].b) : recipient[d][r] = "batched"}
             next == [ex[e] EXCEPT !.at = "mark", !.load = found, !.rows = gen[d]]
  <2>1. ex' = [ex EXCEPT ![e] = next]
    BY <1>2, <1>10 DEF Load
  <2>2. d \in Dispatches /\ ex[e].b \in BatchNumbers
    BY <1>2, <1>10 DEF Load, HasDispatch
  <2>3. found \in SUBSET Recipients
    BY DEF InBatch, Rows
  <2>4. gen[d] \in Nat
    BY <1>2, <2>2 DEF TypeOK
  <2> HIDE DEF found
  <2>5. next \in ExecutorRecords
    BY <1>2, <2>3, <2>4, LoadedRecord
  <2>6. next.at = "mark" /\ next.d = d /\ next.b = ex[e].b
    BY <1>2 DEF ExecutorRecords
  <2> HIDE DEF next
  <2>7. ex' \in [Executors -> ExecutorRecords] /\ HasDispatch'
    BY <1>4, <2>1, <2>2, <2>5, <2>6
  <2>8. UNCHANGED <<database, transaction, mails>>
    BY <1>10 DEF Load
  <2> QED
    BY <1>2, <1>3, <2>7, <2>8 DEF TypeOK, database, transaction
<1>11. CASE LoadNothing(e)
  <2>1. d \in Dispatches
    BY <1>7, <1>11 DEF LoadNothing
  <2>2. ex' \in [Executors -> ExecutorRecords] /\ HasDispatch'
    BY <1>5, <1>11 DEF LoadNothing
  <2>3. queue' \in [Dispatches -> OpenQueue \union {"absent", "completed", "failed"}]
    BY <1>2, <1>11 DEF LoadNothing, TypeOK
  <2>4. registry' \in [Dispatches ->
           {"absent", "batched", "running", "completed", "failed", "cancelled"}]
    BY <1>2, <1>11 DEF LoadNothing, TypeOK
  <2>5. meanwhile' \in [Handlers -> SUBSET Dispatches]
    BY <1>2, <1>11, <2>1, ClosedMeanwhileType DEF LoadNothing
  <2>6. batch' \in [Dispatches ->
           [BatchNumbers -> {"absent", "queued", "running", "completed", "failed"}]]
    BY <1>2, <1>11, SetBatchType DEF LoadNothing
  <2>7. UNCHANGED <<recipient, mails>>
    BY <1>11 DEF LoadNothing
  <2> QED
    BY <1>2, <1>3, <2>2, <2>3, <2>4, <2>5, <2>6, <2>7 DEF TypeOK
<1>12. CASE MarkDispatchRunning(e)
  <2>1. ex' \in [Executors -> ExecutorRecords] /\ HasDispatch'
    BY <1>6, <1>12 DEF MarkDispatchRunning, ExecutorSteps
  <2>2. queue' \in [Dispatches -> OpenQueue \union {"absent", "completed", "failed"}]
    BY <1>2, <1>12 DEF MarkDispatchRunning, TypeOK, OpenQueue
  <2>3. registry' \in [Dispatches ->
           {"absent", "batched", "running", "completed", "failed", "cancelled"}]
    BY <1>2, <1>12 DEF MarkDispatchRunning, TypeOK
  <2>4. UNCHANGED <<recipient, batch, transaction, mails>>
    BY <1>12 DEF MarkDispatchRunning
  <2> QED
    BY <1>2, <1>3, <2>1, <2>2, <2>3, <2>4 DEF TypeOK, transaction
<1>13. CASE Send(e)
  <2>1. PICK r \in ex[e].load :
           /\ mails' = [mails EXCEPT ![d][r] = @ + 1]
           /\ recipient' = IF gen[d] = ex[e].rows
                           THEN [recipient EXCEPT ![d][r] = "sent"] ELSE recipient
           /\ ex' = [ex EXCEPT ![e].load = @ \ {r},
                               ![e].at = IF ex[e].load = {r} THEN "finish" ELSE "send"]
    BY <1>13 DEF Send
  <2> DEFINE at == IF ex[e].load = {r} THEN "finish" ELSE "send"
             next == [ex[e] EXCEPT !.load = @ \ {r}, !.at = at]
  <2>2. d \in Dispatches /\ ex[e].b \in BatchNumbers
    BY <1>2, <1>13 DEF Send, HasDispatch
  <2>3. r \in Recipients
    BY <1>2 DEF ExecutorRecords
  <2>4. ex' = [ex EXCEPT ![e] = next]
    BY <1>2, <2>1
  <2>5. at \in ExecutorSteps \ {"off"}
    BY DEF ExecutorSteps
  <2> HIDE DEF at
  <2>6. next \in ExecutorRecords /\ next.at = at /\ next.d = d /\ next.b = ex[e].b
    BY <1>2, <2>5, SentRecord DEF ExecutorRecords
  <2> HIDE DEF next
  <2>7. ex' \in [Executors -> ExecutorRecords] /\ HasDispatch'
    BY <1>4, <2>2, <2>4, <2>5, <2>6
  <2>8. mails' \in [Dispatches -> [Recipients -> Nat]]
    BY <1>2, <2>1, <2>2, <2>3 DEF TypeOK
  <2>9. recipient' \in [Dispatches -> [Recipients -> {"absent", "batched", "sent"}]]
    BY <1>2, <2>1, <2>2, <2>3 DEF TypeOK
  <2>10. UNCHANGED <<registry, queue, batch, transaction>>
    BY <1>13 DEF Send
  <2> QED
    BY <1>2, <1>3, <2>7, <2>8, <2>9, <2>10 DEF TypeOK, transaction
<1>14. CASE FinishBatchOrRequeue(e)
  <2>1. ex' \in [Executors -> ExecutorRecords] /\ HasDispatch'
    BY <1>6, <1>14 DEF FinishBatchOrRequeue, ExecutorSteps
  <2>2. SetBatch(e, "completed") \/ SetBatch(e, "queued")
    BY <1>14 DEF FinishBatchOrRequeue
  <2>3. batch' \in [Dispatches ->
           [BatchNumbers -> {"absent", "queued", "running", "completed", "failed"}]]
    BY <1>2, <2>2, SetBatchType
  <2>4. UNCHANGED <<registry, queue, recipient, transaction, mails>>
    BY <1>14 DEF FinishBatchOrRequeue
  <2> QED
    BY <1>2, <1>3, <2>1, <2>3, <2>4 DEF TypeOK, transaction
<1>15. CASE CountOpenBatches(e)
  <2> DEFINE failed == BatchesOfState(d, {"failed"}) # {}
             next == [ex[e] EXCEPT !.at = "close_queue", !.failed = failed]
  <2>1. ex' = [ex EXCEPT ![e] = Idle] \/ ex' = [ex EXCEPT ![e] = next]
    BY <1>2, <1>15 DEF CountOpenBatches
  <2>2. d \in Dispatches /\ ex[e].b \in BatchNumbers
    BY <1>2, <1>15 DEF CountOpenBatches, HasDispatch
  <2>3. failed \in BOOLEAN
    OBVIOUS
  <2> HIDE DEF failed
  <2>4. next \in ExecutorRecords /\ next.at = "close_queue" /\ next.d = d
          /\ next.b = ex[e].b
    BY <1>2, <2>3, CountedRecord DEF ExecutorRecords
  <2> HIDE DEF next
  <2>5. ex' \in [Executors -> ExecutorRecords] /\ HasDispatch'
    BY <1>4, <1>5, <2>1, <2>2, <2>4
  <2>6. UNCHANGED <<database, transaction, mails>>
    BY <1>15 DEF CountOpenBatches
  <2> QED
    BY <1>2, <1>3, <2>5, <2>6 DEF TypeOK, database, transaction
<1>16. CASE CloseQueue(e)
  <2>1. ex' \in [Executors -> ExecutorRecords] /\ HasDispatch'
    BY <1>6, <1>16 DEF CloseQueue, ExecutorSteps
  <2>2. queue' \in [Dispatches -> OpenQueue \union {"absent", "completed", "failed"}]
    BY <1>2, <1>16 DEF CloseQueue, Verdict, TypeOK
  <2>3. UNCHANGED <<registry, recipient, batch, transaction, mails>>
    BY <1>16 DEF CloseQueue
  <2> QED
    BY <1>2, <1>3, <2>1, <2>2, <2>3 DEF TypeOK, transaction
<1>17. CASE CloseRegistry(e)
  <2>1. d \in Dispatches
    BY <1>7, <1>17 DEF CloseRegistry
  <2>2. ex' \in [Executors -> ExecutorRecords] /\ HasDispatch'
    BY <1>5, <1>17 DEF CloseRegistry
  <2>3. registry' \in [Dispatches ->
           {"absent", "batched", "running", "completed", "failed", "cancelled"}]
    BY <1>2, <1>17 DEF CloseRegistry, Verdict, TypeOK
  <2>4. meanwhile' \in [Handlers -> SUBSET Dispatches]
    BY <1>2, <1>17, <2>1, ClosedMeanwhileType DEF CloseRegistry
  <2>5. UNCHANGED <<queue, recipient, batch, mails>>
    BY <1>17 DEF CloseRegistry
  <2> QED
    BY <1>2, <1>3, <2>2, <2>3, <2>4, <2>5 DEF TypeOK
<1> QED
  BY <1>8, <1>9, <1>10, <1>11, <1>12, <1>13, <1>14, <1>15, <1>16, <1>17 DEF ExecutorStep

LEMMA InitTyping == Init => Typing
<1> SUFFICES ASSUME Init PROVE Typing
  OBVIOUS
<1>1. (CHOOSE req \in Requests : TRUE) \in Requests
  BY HandoffAssumption
<1>2. request \in [Handlers -> Requests]
  BY <1>1 DEF Init
<1>3. ex \in [Executors -> ExecutorRecords]
  BY IdleType DEF Init
<1>4. fresh \in [Handlers -> [Dispatches -> Identities]]
      /\ identity \in [Dispatches -> Identities]
  BY DEF Init, Identities
<1>5. HasDispatch
  BY DEF Init, HasDispatch, Idle
<1>6. handoffs \in 0..MaxHandoffs /\ errors \in 0..MaxErrors
  BY HandoffAssumption DEF Init
<1>7. TypeOK
  BY <1>2, <1>3, <1>4, <1>6 DEF Init, TypeOK, ExecutorRecords, Outcomes
<1> QED
  BY <1>5, <1>7 DEF Typing

LEMMA NextTyping == Typing /\ [Next]_vars => Typing'
<1> SUFFICES ASSUME Typing, [Next]_vars PROVE Typing'
  OBVIOUS
<1>1. ASSUME NEW h \in Handlers, HandlerStep(h) PROVE Typing'
  <2>1. UNCHANGED ex
    BY <1>1, HandlerFrame DEF Commit, execution
  <2>2. TypeOK'
    BY <1>1, HandlerStepType, CommitType DEF Typing
  <2> QED
    BY <2>1, <2>2 DEF Typing, HasDispatch
<1>2. CASE EventsExpire
  BY <1>2 DEF EventsExpire, Typing, TypeOK, HasDispatch, rows, transaction, execution,
              history, bounds
<1>3. CASE UNCHANGED vars
  BY <1>3 DEF Typing, TypeOK, HasDispatch, vars, database, rows, transaction, execution,
              history, bounds
<1> QED
  BY <1>1, <1>2, <1>3, ExecutorStepTyping DEF Next

\* Every reachable state has the declared types.
THEOREM TypeCorrect == Spec => []TypeOK
<1>1. Typing => TypeOK
  BY DEF Typing
<1> QED
  BY <1>1, InitTyping, NextTyping, PTL DEF Spec

-----------------------------------------------------------------------------
(* The steps of a transaction.                                             *)

SameTransaction(k) ==
  /\ pc'[k] = pc[k] /\ request'[k] = request[k] /\ todo'[k] = todo[k]
  /\ draft'[k] = draft[k] /\ fresh'[k] = fresh[k] /\ noted'[k] = noted[k]
  /\ broken'[k] = broken[k] /\ meanwhile'[k] = meanwhile[k]

Ends(h) == pc'[h] = "idle" /\ Quiet(h)' /\ meanwhile'[h] = {}

Begins(h) ==
  /\ pc[h] = "idle" /\ pc'[h] = "upsert" /\ registry[Global] # "completed"
  /\ todo'[h] = todo[h] /\ draft'[h] = draft[h] /\ fresh'[h] = fresh[h]
  /\ noted'[h] = noted[h] /\ broken'[h] = broken[h]

Takes(h) ==
  /\ pc[h] = "upsert" /\ pc'[h] = "select" /\ ~Locked(Global)
  /\ draft'[h] = [draft[h] EXCEPT ![Global] = Cancel]
  /\ todo'[h] = Groups(request[h]) /\ request'[h] = request[h]
  /\ fresh'[h] = fresh[h] /\ noted'[h] = noted[h] /\ broken'[h] = broken[h]
  /\ meanwhile'[h] = meanwhile[h]

Selects(h, d) ==
  /\ pc[h] = "select" /\ pc'[h] = "prepare" /\ ~broken[h] /\ Turn(h, d)
  /\ d = Global \/ registry[d] # "completed"
  /\ request'[h] = request[h] /\ todo'[h] = todo[h] /\ draft'[h] = draft[h]
  /\ fresh'[h] = fresh[h] /\ noted'[h] = noted[h] /\ broken'[h] = broken[h]
  /\ meanwhile'[h] = meanwhile[h]

AddsIdentity(h, d) ==
  \/ fresh'[h] = fresh[h]
  \/ \E id \in Identities : ~Taken(h, id) /\ fresh'[h] = [fresh[h] EXCEPT ![d] = id]

Awaits(h, d) ==
  /\ pc[h] = "prepare" /\ pc'[h] = "variant" /\ Turn(h, d) /\ ~broken'[h]
  /\ d \in Mirrors
  /\ draft'[h] = [draft[h] EXCEPT ![d] = Cancel]
  /\ request'[h] = request[h] /\ todo'[h] = todo[h] /\ meanwhile'[h] = meanwhile[h]
  /\ noted[h] \subseteq noted'[h] /\ AddsIdentity(h, d)

NotesContent(h, d, text) ==
  /\ <<d, text>> \in noted'[h]
  /\ d \in Mirrors => \A e \in noted[h] : ~(e[1] # d /\ e[2] = text)

Decides(h, d, decision) ==
  /\ pc[h] \in {"prepare", "variant"} /\ pc'[h] = "select" /\ Turn(h, d)
  /\ draft'[h] = [draft[h] EXCEPT ![d] = decision]
  /\ todo'[h] = todo[h] \ {d}
  /\ decision \in Contents \/ (decision = Cancel /\ d \in Mirrors)
  /\ request'[h] = request[h] /\ meanwhile'[h] = meanwhile[h]
  /\ noted[h] \subseteq noted'[h] /\ AddsIdentity(h, d)
  /\ decision \in Contents /\ Enforcing /\ ~broken'[h] => NotesContent(h, d, decision)

LEMMA ContentsAreNoDecisions == NoContent \notin Contents /\ Cancel \notin Contents
BY HandoffAssumption DEF NoContent, Cancel

LEMMA OverEnds ==
  ASSUME TypeOK, NEW h \in Handlers, NEW answer, TransactionOver(h, answer)
  PROVE  Ends(h)
BY DEF Ends, Quiet, TransactionOver, TypeOK

LEMMA OverOthers ==
  ASSUME TypeOK, NEW h \in Handlers, NEW answer, TransactionOver(h, answer),
         NEW k \in Handlers \ {h}
  PROVE  SameTransaction(k)
BY DEF SameTransaction, TransactionOver, TypeOK

LEMMA HandlerOthers ==
  ASSUME TypeOK, NEW h \in Handlers, HandlerStep(h), NEW k \in Handlers \ {h}
  PROVE  SameTransaction(k)
<1>1. ASSUME NEW answer, Rollback(h, answer) PROVE SameTransaction(k)
  BY <1>1, OverOthers DEF Rollback
<1>2. CASE Receive(h)
  BY <1>1, <1>2 DEF Receive, SameTransaction, TypeOK
<1>3. CASE UpsertRegistry(h)
  BY <1>1, <1>3 DEF UpsertRegistry, SameTransaction, TypeOK
<1>4. CASE SelectRegistry(h)
  BY <1>1, <1>4 DEF SelectRegistry, SameTransaction, TypeOK
<1>5. CASE PrepareDispatch(h)
  <2>1. PICK d \in Dispatches : PrepareGroup(h, d)
    BY <1>5 DEF PrepareDispatch
  <2> QED
    BY <1>1, <2>1
    DEF PrepareGroup, ContentSnapshot, Decide, AwaitVariant, SameTransaction, TypeOK
<1>6. CASE VariantRejected(h)
  BY <1>6 DEF VariantRejected, Decide, SameTransaction, TypeOK
<1>7. CASE VariantApplied(h)
  BY <1>7 DEF VariantApplied, ContentSnapshot, Decide, SameTransaction, TypeOK
<1>8. CASE StatementFails(h) \/ StatementRefused(h)
  BY <1>1, <1>8 DEF StatementFails, StatementRefused
<1>9. CASE Commit(h)
  BY <1>9, OverOthers DEF Commit
<1> QED
  BY <1>2, <1>3, <1>4, <1>5, <1>6, <1>7, <1>8, <1>9 DEF HandlerStep

LEMMA DecideDecides ==
  ASSUME TypeOK, NEW h \in Handlers, NEW d \in Dispatches, NEW decision,
         Decide(h, d, decision)
  PROVE  /\ draft'[h] = [draft[h] EXCEPT ![d] = decision]
         /\ todo'[h] = todo[h] \ {d} /\ pc'[h] = "select"
BY DEF Decide, TypeOK

LEMMA SnapshotNotes ==
  ASSUME TypeOK, NEW h \in Handlers, NEW d \in Dispatches, NEW text, NEW ok \in BOOLEAN,
         ContentSnapshot(h, d, text, ok)
  PROVE  /\ noted[h] \subseteq noted'[h] /\ broken'[h] = ~ok
         /\ Enforcing /\ ok => <<d, text>> \in noted'[h]
         /\ Enforcing /\ d \in Mirrors /\ ~Enforced(h, d, text) =>
              \A e \in noted[h] : ~(e[1] # d /\ e[2] = text)
<1>1. noted'[h] = IF ok /\ FingerprintMode # "disabled"
                  THEN noted[h] \union {<<d, text>>} ELSE noted[h]
  BY DEF ContentSnapshot, TypeOK
<1>2. broken'[h] = ~ok
  BY DEF ContentSnapshot, TypeOK
<1>3. Enforcing /\ d \in Mirrors /\ ~Enforced(h, d, text) =>
        \A e \in noted[h] : ~(e[1] # d /\ e[2] = text)
  BY DEF Enforcing, Enforced, RecentContentMatch
<1> QED
  BY <1>1, <1>2, <1>3 DEF Enforcing

\* What a handler does before it commits is one of these.
LEMMA TransactionCases ==
  ASSUME TypeOK, OnlyMirrorsVary, NEW h \in Handlers, HandlerStep(h), ~Commit(h)
  PROVE  \/ Ends(h) \/ Begins(h) \/ Takes(h)
         \/ \E d \in Dispatches : \/ Selects(h, d) \/ Awaits(h, d)
                                  \/ \E decision : Decides(h, d, decision)
<1>1. ASSUME NEW answer, Rollback(h, answer) PROVE Ends(h)
  BY <1>1, OverEnds DEF Rollback
<1>2. CASE Receive(h)
  <2>1. CASE registry[Global] # "completed"
    BY <1>2, <2>1 DEF Receive, Begins, TypeOK
  <2> QED
    BY <1>1, <1>2, <2>1 DEF Receive
<1>3. CASE UpsertRegistry(h)
  <2>1. CASE ~Rollback(h, "duplicate_campaign")
    BY <1>3, <2>1 DEF UpsertRegistry, Takes, TypeOK
  <2> QED
    BY <1>1, <2>1
<1>4. CASE SelectRegistry(h)
  <2>1. CASE ~Rollback(h, "conflict")
    <3>1. PICK d \in Dispatches :
             /\ Turn(h, d) /\ ~(d # Global /\ registry[d] = "completed")
             /\ pc' = [pc EXCEPT ![h] = "prepare"]
             /\ UNCHANGED <<request, todo, draft, fresh, noted, broken, meanwhile>>
      BY <1>4, <2>1 DEF SelectRegistry
    <3>2. Selects(h, d)
      BY <1>4, <3>1 DEF SelectRegistry, Selects, TypeOK
    <3> QED
      BY <3>2
  <2> QED
    BY <1>1, <2>1
<1>5. CASE PrepareDispatch(h)
  <2>1. PICK d \in Dispatches : Turn(h, d) /\ PrepareGroup(h, d)
    BY <1>5 DEF PrepareDispatch
  <2>2. CASE ~Rollback(h, "duplicate_identity")
    <3> DEFINE text == request[h].content
               id == SyntheticIdentity(request[h], d)
    <3>1. \/ fresh' = fresh
          \/ ~Taken(h, id) /\ fresh' = [fresh EXCEPT ![h][d] = id]
      BY <2>1, <2>2 DEF PrepareGroup
    <3>2. id \in Identities
      BY IdentityType
    <3> HIDE DEF id
    <3>3. AddsIdentity(h, d)
      BY <3>1, <3>2 DEF AddsIdentity, TypeOK
    <3>4. PICK ok \in BOOLEAN :
             /\ ContentSnapshot(h, d, text, ok)
             /\ IF ok /\ Enforced(h, d, text) THEN AwaitVariant(h, d)
                                              ELSE Decide(h, d, text)
      BY <2>1, <2>2 DEF PrepareGroup
    <3>5. UNCHANGED <<request, meanwhile>> /\ pc[h] = "prepare"
      BY <1>5, <2>1, <2>2 DEF PrepareGroup, PrepareDispatch
    <3>6. text \in Contents
      BY DEF Contents, TypeOK
    <3> HIDE DEF text
    <3>7. /\ noted[h] \subseteq noted'[h] /\ broken'[h] = ~ok
          /\ Enforcing /\ ok => <<d, text>> \in noted'[h]
          /\ Enforcing /\ d \in Mirrors /\ ~Enforced(h, d, text) =>
               \A e \in noted[h] : ~(e[1] # d /\ e[2] = text)
      BY <3>4, SnapshotNotes
    <3>8. CASE ok /\ Enforced(h, d, text)
      <4>1. AwaitVariant(h, d) /\ ~broken'[h] /\ d \in Mirrors
        BY <3>4, <3>7, <3>8 DEF Enforced
      <4>2. Awaits(h, d)
        BY <2>1, <3>3, <3>5, <3>7, <4>1 DEF AwaitVariant, Awaits, TypeOK
      <4> QED
        BY <4>2
    <3>9. CASE ~(ok /\ Enforced(h, d, text))
      <4>1. Decide(h, d, text)
        BY <3>4, <3>9
      <4>2. Enforcing /\ ~broken'[h] => NotesContent(h, d, text)
        BY <3>7, <3>9 DEF NotesContent
      <4>3. Decides(h, d, text)
        BY <2>1, <3>3, <3>5, <3>6, <3>7, <4>1, <4>2, DecideDecides DEF Decides
      <4> QED
        BY <4>3
    <3> QED
      BY <3>8, <3>9
  <2> QED
    BY <1>1, <2>2
<1>6. CASE VariantRejected(h)
  <2>1. PICK d \in Dispatches : Turn(h, d) /\ Decide(h, d, Cancel)
    BY <1>6 DEF VariantRejected
  <2>2. pc[h] = "variant" /\ UNCHANGED <<request, fresh, noted, broken, meanwhile>>
    BY <1>6 DEF VariantRejected
  <2>3. d \in Mirrors
    BY <2>1, <2>2 DEF OnlyMirrorsVary
  <2>4. Decides(h, d, Cancel)
    BY <2>1, <2>2, <2>3, DecideDecides, ContentsAreNoDecisions DEF Decides, AddsIdentity
  <2> QED
    BY <2>4
<1>7. CASE VariantApplied(h)
  <2>1. PICK d \in Dispatches, variant \in Variants, ok \in BOOLEAN :
           /\ Turn(h, d) /\ ContentSnapshot(h, d, variant, ok)
           /\ Decide(h, d, IF ok /\ Enforced(h, d, variant) THEN Cancel ELSE variant)
    BY <1>7 DEF VariantApplied
  <2>2. pc[h] = "variant" /\ UNCHANGED <<request, fresh, meanwhile>>
    BY <1>7 DEF VariantApplied
  <2>3. /\ noted[h] \subseteq noted'[h] /\ broken'[h] = ~ok
        /\ Enforcing /\ ok => <<d, variant>> \in noted'[h]
        /\ Enforcing /\ d \in Mirrors /\ ~Enforced(h, d, variant) =>
             \A e \in noted[h] : ~(e[1] # d /\ e[2] = variant)
    BY <2>1, SnapshotNotes
  <2>4. AddsIdentity(h, d)
    BY <2>2 DEF AddsIdentity
  <2>5. CASE ok /\ Enforced(h, d, variant)
    <3>1. Decide(h, d, Cancel) /\ d \in Mirrors
      BY <2>1, <2>5 DEF Enforced
    <3>2. Decides(h, d, Cancel)
      BY <2>1, <2>2, <2>3, <2>4, <3>1, DecideDecides, ContentsAreNoDecisions DEF Decides
    <3> QED
      BY <3>2
  <2>6. CASE ~(ok /\ Enforced(h, d, variant))
    <3>1. Decide(h, d, variant) /\ variant \in Contents
      BY <2>1, <2>6 DEF Contents
    <3>2. Enforcing /\ ~broken'[h] => NotesContent(h, d, variant)
      BY <2>3, <2>6 DEF NotesContent
    <3>3. Decides(h, d, variant)
      BY <2>1, <2>2, <2>3, <2>4, <3>1, <3>2, DecideDecides DEF Decides
    <3> QED
      BY <3>3
  <2> QED
    BY <2>5, <2>6
<1>8. CASE StatementFails(h) \/ StatementRefused(h)
  BY <1>1, <1>8 DEF StatementFails, StatementRefused
<1> QED
  BY <1>2, <1>3, <1>4, <1>5, <1>6, <1>7, <1>8 DEF HandlerStep

LEMMA PlaceOrder ==
  /\ \A d \in Dispatches : Place(d) \in Nat
  /\ \A c, d \in Dispatches : Place(c) = Place(d) => c = d
  /\ \A d \in Dispatches \ Mirrors, m \in Mirrors : Place(d) < Place(m)
<1>1. Place(Global) = 0
  BY DEF Place
<1>2. ASSUME NEW d \in Parents
      PROVE  /\ Place(d) \in DOMAIN ParentOrder /\ ParentOrder[Place(d)] = d
             /\ d # Global /\ d \notin Mirrors
  BY <1>2, HandoffAssumption DEF Place, Parents, Elements
<1>3. ASSUME NEW m \in Mirrors
      PROVE  \E i \in DOMAIN MirrorOrder :
               MirrorOrder[i] = m /\ Place(m) = Len(ParentOrder) + i
  <2>1. m # Global /\ m \notin Parents
    BY HandoffAssumption
  <2>2. \E i \in DOMAIN MirrorOrder : MirrorOrder[i] = m
    BY DEF Mirrors, Elements
  <2> QED
    BY <2>1, <2>2 DEF Place
<1>4. Len(ParentOrder) \in Nat /\ DOMAIN ParentOrder = 1..Len(ParentOrder)
  BY HandoffAssumption
<1>5. Len(MirrorOrder) \in Nat /\ DOMAIN MirrorOrder = 1..Len(MirrorOrder)
  BY HandoffAssumption
<1>6. \A d \in Parents : Place(d) \in 1..Len(ParentOrder)
  BY <1>2, <1>4
<1>7. \A m \in Mirrors : Place(m) \in Nat /\ Place(m) > Len(ParentOrder)
  BY <1>3, <1>4, <1>5
<1>8. \A c, d \in Parents : Place(c) = Place(d) => c = d
  BY <1>2
<1>9. ASSUME NEW c \in Mirrors, NEW d \in Mirrors, Place(c) = Place(d) PROVE c = d
  <2>1. PICK i \in DOMAIN MirrorOrder :
           MirrorOrder[i] = c /\ Place(c) = Len(ParentOrder) + i
    BY <1>3
  <2>2. PICK j \in DOMAIN MirrorOrder :
           MirrorOrder[j] = d /\ Place(d) = Len(ParentOrder) + j
    BY <1>3
  <2>3. Len(ParentOrder) + i = Len(ParentOrder) + j
    BY <1>9, <2>1, <2>2
  <2>4. i \in Nat /\ j \in Nat
    BY <1>5
  <2>5. i = j
    BY <1>4, <2>3, <2>4
  <2> QED
    BY <2>1, <2>2, <2>5
<1>10. Global \notin Mirrors
  BY HandoffAssumption
<1> HIDE DEF Place
<1>11. \A d \in Dispatches : d = Global \/ d \in Parents \/ d \in Mirrors
  BY DEF Dispatches
<1>12. \A d \in Dispatches : Place(d) \in Nat
  BY <1>1, <1>4, <1>6, <1>7, <1>11
<1>13. ASSUME NEW c \in Dispatches, NEW d \in Dispatches, Place(c) = Place(d) PROVE c = d
  BY <1>1, <1>4, <1>6, <1>7, <1>8, <1>9, <1>11, <1>13
<1>14. \A d \in Dispatches \ Mirrors, m \in Mirrors : Place(d) < Place(m)
  BY <1>1, <1>4, <1>6, <1>7, <1>11
<1> QED
  BY <1>12, <1>13, <1>14

LEMMA OneTurn ==
  ASSUME TypeOK, NEW h \in Handlers, NEW c \in Dispatches, NEW d \in Dispatches,
         Turn(h, c), Turn(h, d)
  PROVE  c = d
<1>1. Place(c) <= Place(d) /\ Place(d) <= Place(c)
  BY DEF Turn
<1>2. Place(c) \in Nat /\ Place(d) \in Nat
  BY PlaceOrder
<1> QED
  BY <1>1, <1>2, PlaceOrder

-----------------------------------------------------------------------------
(* One writer per campaign.                                                *)

LEMMA OthersKeepLock ==
  ASSUME TypeOK, Writing, NEW h \in Handlers, HandlerStep(h),
         NEW k \in Handlers, k # h, HasCampaign(k)
  PROVE  ~Takes(h) /\ ~HasCampaign(h)
<1>1. draft[k][Global] # NoContent
  BY DEF Writing, CampaignIsLocked
<1>2. ~Takes(h)
  BY <1>1 DEF Takes, Locked
<1> QED
  BY <1>2 DEF Writing, OneHasCampaign

\* What a handler's step means for its own transaction.
LEMMA OwnWriting ==
  ASSUME TypeOK, Writing, NEW h \in Handlers, HandlerStep(h), ~Commit(h)
  PROVE  /\ ~HasCampaign(h)' => Quiet(h)'
         /\ HasCampaign(h)' => draft'[h][Global] # NoContent /\ (HasCampaign(h) \/ Takes(h))
         /\ \A d \in Dispatches : pc'[h] = "variant" /\ Turn(h, d)' => d \in Mirrors
         /\ \A c, d \in Dispatches : fresh'[h][c] # NoIdentity =>
              /\ identity[d] # fresh'[h][c]
              /\ fresh'[h][d] = fresh'[h][c] => c = d
<1>1. draft[h] \in Drafts /\ fresh[h] \in [Dispatches -> Identities]
  BY DEF TypeOK, Drafts
<1>2. /\ ~HasCampaign(h) => Quiet(h)
      /\ HasCampaign(h) => draft[h][Global] # NoContent
      /\ \A c, d \in Dispatches : fresh[h][c] # NoIdentity =>
           /\ identity[d] # fresh[h][c]
           /\ fresh[h][d] = fresh[h][c] => c = d
  BY DEF Writing, NothingBeforeUpsert, CampaignIsLocked, FreshIdentitiesDiffer
<1>3. NoContent \notin Contents /\ Cancel # NoContent
  BY ContentsAreNoDecisions DEF NoContent, Cancel
<1>4. CASE Ends(h)
  BY <1>4 DEF Ends, Quiet, HasCampaign
<1>5. CASE Begins(h)
  BY <1>2, <1>5 DEF Begins, Quiet, HasCampaign
<1>6. CASE Takes(h)
  <2>1. draft'[h][Global] = Cancel
    BY <1>1, <1>6, GlobalIsDispatch DEF Takes, Drafts
  <2> QED
    BY <1>2, <1>3, <1>6, <2>1 DEF Takes, HasCampaign
<1>7. ASSUME NEW d \in Dispatches, AddsIdentity(h, d)
      PROVE  \A c, b \in Dispatches : fresh'[h][c] # NoIdentity =>
               /\ identity[b] # fresh'[h][c]
               /\ fresh'[h][b] = fresh'[h][c] => c = b
  <2>1. CASE fresh'[h] = fresh[h]
    BY <1>2, <2>1
  <2>2. ASSUME NEW id \in Identities, ~Taken(h, id),
               fresh'[h] = [fresh[h] EXCEPT ![d] = id]
        PROVE  \A c, b \in Dispatches : fresh'[h][c] # NoIdentity =>
                 /\ identity[b] # fresh'[h][c]
                 /\ fresh'[h][b] = fresh'[h][c] => c = b
    <3>1. \A c \in Dispatches : fresh'[h][c] = IF c = d THEN id ELSE fresh[h][c]
      BY <1>1, <2>2
    <3>2. \A c \in Dispatches : identity[c] # id /\ fresh[h][c] # id
      BY <2>2 DEF Taken
    <3> QED
      BY <1>2, <3>1, <3>2
  <2> QED
    BY <1>7, <2>1, <2>2 DEF AddsIdentity
<1>8. ASSUME NEW d \in Dispatches, Selects(h, d) \/ Awaits(h, d)
               \/ \E decision : Decides(h, d, decision)
      PROVE  HasCampaign(h) /\ HasCampaign(h)' /\ draft'[h][Global] # NoContent
  <2>1. HasCampaign(h) /\ HasCampaign(h)'
    BY <1>8 DEF Selects, Awaits, Decides, HasCampaign
  <2>2. draft'[h] = draft[h] \/ \E decision \in Contents \union {Cancel} :
                                  draft'[h] = [draft[h] EXCEPT ![d] = decision]
    BY <1>8 DEF Selects, Awaits, Decides
  <2> QED
    BY <1>1, <1>2, <1>3, <2>1, <2>2, GlobalIsDispatch DEF Drafts
<1>9. ASSUME NEW d \in Dispatches, Selects(h, d) PROVE fresh'[h] = fresh[h] /\ pc'[h] = "prepare"
  BY <1>9 DEF Selects
<1>10. ASSUME NEW d \in Dispatches, Awaits(h, d)
       PROVE  \A c \in Dispatches : Turn(h, c)' => c \in Mirrors
  <2>1. \A c \in Dispatches : Turn(h, c)' => Turn(h, c)
    BY <1>10 DEF Awaits, Turn
  <2>2. Turn(h, d) /\ d \in Mirrors
    BY <1>10 DEF Awaits
  <2> QED
    BY <2>1, <2>2, OneTurn
<1>11. ASSUME NEW d \in Dispatches, Selects(h, d) \/ Awaits(h, d)
                \/ \E decision : Decides(h, d, decision)
       PROVE  /\ \A c, b \in Dispatches : fresh'[h][c] # NoIdentity =>
                   /\ identity[b] # fresh'[h][c]
                   /\ fresh'[h][b] = fresh'[h][c] => c = b
              /\ \A c \in Dispatches : pc'[h] = "variant" /\ Turn(h, c)' => c \in Mirrors
  <2>1. fresh'[h] = fresh[h] \/ AddsIdentity(h, d)
    BY <1>11 DEF Selects, Awaits, Decides
  <2>2. Awaits(h, d) \/ pc'[h] # "variant"
    BY <1>11 DEF Selects, Decides
  <2> QED
    BY <1>2, <1>7, <1>10, <2>1, <2>2
<1>12. OnlyMirrorsVary
  BY DEF Writing
<1>13. CASE \E d \in Dispatches : Selects(h, d) \/ Awaits(h, d)
               \/ \E decision : Decides(h, d, decision)
  BY <1>8, <1>11, <1>13
<1> QED
  BY <1>4, <1>5, <1>6, <1>12, <1>13, TransactionCases

LEMMA CommitEnds ==
  ASSUME TypeOK, NEW h \in Handlers, Commit(h)
  PROVE  /\ Ends(h) /\ pc[h] = "select"
         /\ \A d \in Dispatches :
              identity'[d] = IF fresh[h][d] # NoIdentity THEN fresh[h][d] ELSE identity[d]
BY OverEnds DEF Commit, TypeOK

LEMMA InitWriting == Init => Writing
<1> SUFFICES ASSUME Init PROVE Writing
  OBVIOUS
<1>1. \A h \in Handlers : Quiet(h) /\ ~HasCampaign(h) /\ pc[h] # "variant"
  BY DEF Init, Quiet, HasCampaign
<1>2. FreshIdentitiesDiffer /\ IdentitiesDiffer
  BY DEF Init, FreshIdentitiesDiffer, IdentitiesDiffer
<1> QED
  BY <1>1, <1>2 DEF Writing, OnlyMirrorsVary, NothingBeforeUpsert, CampaignIsLocked,
                    OneHasCampaign

LEMMA HandlerStepWriting ==
  ASSUME Typing, Writing, NEW h \in Handlers, HandlerStep(h)
  PROVE  Writing'
<1> USE DEF Typing
<1>1. \A k \in Handlers \ {h} : SameTransaction(k)
  BY HandlerOthers
<1>2. /\ ~HasCampaign(h)' => Quiet(h)'
      /\ HasCampaign(h)' => draft'[h][Global] # NoContent /\ (HasCampaign(h) \/ Takes(h))
      /\ \A d \in Dispatches : pc'[h] = "variant" /\ Turn(h, d)' => d \in Mirrors
  <2>1. CASE Commit(h)
    BY <2>1, CommitEnds DEF Ends, HasCampaign
  <2> QED
    BY <2>1, OwnWriting
<1>3. OnlyMirrorsVary'
  <2>1. ASSUME NEW k \in Handlers \ {h}, NEW d \in Dispatches, pc'[k] = "variant",
               Turn(k, d)'
        PROVE  d \in Mirrors
    BY <1>1, <2>1 DEF SameTransaction, Turn, Writing, OnlyMirrorsVary
  <2> QED
    BY <1>2, <2>1 DEF OnlyMirrorsVary
<1>4. NothingBeforeUpsert'
  <2>1. ASSUME NEW k \in Handlers \ {h}, ~HasCampaign(k)' PROVE Quiet(k)'
    <3>1. Quiet(k)
      BY <1>1, <2>1 DEF SameTransaction, HasCampaign, Writing, NothingBeforeUpsert
    <3> QED
      BY <1>1, <3>1 DEF SameTransaction, Quiet
  <2> QED
    BY <1>2, <2>1 DEF NothingBeforeUpsert
<1>5. CampaignIsLocked'
  BY <1>1, <1>2 DEF SameTransaction, HasCampaign, Writing, CampaignIsLocked
<1>6. OneHasCampaign'
  <2>1. ASSUME NEW k \in Handlers, k # h, HasCampaign(h)' PROVE ~HasCampaign(k)'
    BY <1>1, <1>2, <2>1, OthersKeepLock DEF SameTransaction, HasCampaign
  <2>2. ASSUME NEW j \in Handlers \ {h}, NEW k \in Handlers \ {h}, HasCampaign(j)',
               HasCampaign(k)'
        PROVE  j = k
    BY <1>1, <2>2 DEF SameTransaction, HasCampaign, Writing, OneHasCampaign
  <2> QED
    BY <2>1, <2>2 DEF OneHasCampaign
<1>7. CASE Commit(h)
  <2>1. /\ Ends(h) /\ HasCampaign(h)
        /\ \A d \in Dispatches :
             identity'[d] = IF fresh[h][d] # NoIdentity THEN fresh[h][d] ELSE identity[d]
    BY <1>7, CommitEnds DEF HasCampaign
  <2>2. IdentitiesDiffer'
    <3>1. IdentitiesDiffer /\ FreshIdentitiesDiffer
      BY DEF Writing
    <3> QED
      BY <2>1, <3>1 DEF IdentitiesDiffer, FreshIdentitiesDiffer
  <2>3. \A k \in Handlers, d \in Dispatches : fresh'[k][d] = NoIdentity
    <3>1. \A d \in Dispatches : fresh'[h][d] = NoIdentity
      BY <2>1 DEF Ends, Quiet
    <3>2. ASSUME NEW k \in Handlers \ {h}, NEW d \in Dispatches
          PROVE  fresh'[k][d] = NoIdentity
      <4>1. ~HasCampaign(k)
        BY <2>1 DEF Writing, OneHasCampaign
      <4>2. fresh[k][d] = NoIdentity
        BY <4>1 DEF Writing, NothingBeforeUpsert, Quiet
      <4> QED
        BY <1>1, <4>2 DEF SameTransaction
    <3> QED
      BY <3>1, <3>2
  <2>4. FreshIdentitiesDiffer'
    BY <2>3 DEF FreshIdentitiesDiffer
  <2> QED
    BY <1>3, <1>4, <1>5, <1>6, <2>2, <2>4 DEF Writing
<1>8. CASE ~Commit(h)
  <2>1. identity' = identity
    BY <1>8, HandlerFrame DEF database, rows
  <2>2. IdentitiesDiffer'
    BY <2>1 DEF Writing, IdentitiesDiffer
  <2>3. FreshIdentitiesDiffer'
    <3>1. ASSUME NEW k \in Handlers \ {h}, NEW c \in Dispatches, NEW d \in Dispatches,
                 fresh'[k][c] # NoIdentity
          PROVE  identity[d] # fresh'[k][c] /\ (fresh'[k][d] = fresh'[k][c] => c = d)
      BY <1>1, <3>1 DEF SameTransaction, Writing, FreshIdentitiesDiffer
    <3>2. \A c, d \in Dispatches : fresh'[h][c] # NoIdentity =>
            identity[d] # fresh'[h][c] /\ (fresh'[h][d] = fresh'[h][c] => c = d)
      BY <1>8, OwnWriting
    <3> QED
      BY <2>1, <3>1, <3>2 DEF FreshIdentitiesDiffer
  <2> QED
    BY <1>3, <1>4, <1>5, <1>6, <2>2, <2>3 DEF Writing
<1> QED
  BY <1>7, <1>8

LEMMA NextWriting == Typing /\ Writing /\ [Next]_vars => Writing'
<1> SUFFICES ASSUME Typing, Writing, [Next]_vars PROVE Writing'
  OBVIOUS
<1>1. ASSUME UNCHANGED <<identity, pc, todo, draft, fresh, noted, broken>>
      PROVE  Writing'
  BY <1>1 DEF Writing, OnlyMirrorsVary, Turn, NothingBeforeUpsert, CampaignIsLocked,
              OneHasCampaign, IdentitiesDiffer, FreshIdentitiesDiffer, HasCampaign, Quiet
<1>2. ASSUME NEW e \in Executors, ExecutorStep(e) PROVE Writing'
  BY <1>1, <1>2, ExecutorFrame DEF rows
<1>3. CASE EventsExpire
  BY <1>1, <1>3 DEF EventsExpire, rows, transaction
<1>4. CASE UNCHANGED vars
  BY <1>1, <1>4 DEF vars, database, rows, transaction
<1> QED
  BY <1>2, <1>3, <1>4, HandlerStepWriting DEF Next

\* Two handoffs of a campaign never hold its registry rows together, and no two
\* dispatches have the same synthetic sendy_campaign_id, however many handlers
\* run and however the groups of their requests differ.
THEOREM OneWriter == Spec => []OneWriterPerCampaign
<1>1. Typing /\ Writing => OneWriterPerCampaign
  <2> SUFFICES ASSUME Typing, Writing PROVE OneWriterPerCampaign
    OBVIOUS
  <2>1. \A h \in Handlers : draft[h][Global] # NoContent => HasCampaign(h)
    BY GlobalIsDispatch DEF Writing, NothingBeforeUpsert, Quiet
  <2> QED
    BY <2>1 DEF Writing, OneHasCampaign, IdentitiesDiffer, OneWriterPerCampaign
<1> QED
  BY <1>1, InitTyping, InitWriting, NextTyping, NextWriting, PTL DEF Spec

-----------------------------------------------------------------------------
(* What the groups of a request get.                                       *)

LEMMA SamePrepared ==
  ASSUME NEW k \in Handlers, Prepared(k), SameTransaction(k)
  PROVE  Prepared(k)'
BY DEF Prepared, SameTransaction, HasCampaign, GroupsAreDecided, GroupsTakeTurns, Done,
       ContentsAreNoted, MirrorsDiffer

LEMMA DecidesPrepared ==
  ASSUME TypeOK, NEW h \in Handlers, Prepared(h), NEW d \in Dispatches, NEW decision,
         Decides(h, d, decision)
  PROVE  Prepared(h)'
<1>1. /\ GroupsAreDecided(h) /\ GroupsTakeTurns(h) /\ ~broken[h]
      /\ Enforcing => ContentsAreNoted(h) /\ MirrorsDiffer(h)
  BY DEF Prepared, Decides, HasCampaign
<1>2. /\ pc'[h] = "select" /\ request'[h] = request[h] /\ todo'[h] = todo[h] \ {d}
      /\ decision \in Contents \/ (decision = Cancel /\ d \in Mirrors)
      /\ noted[h] \subseteq noted'[h]
      /\ decision \in Contents /\ Enforcing /\ ~broken'[h] => NotesContent(h, d, decision)
  BY DEF Decides
<1>3. \A c \in Dispatches : draft'[h][c] = IF c = d THEN decision ELSE draft[h][c]
  BY DEF Decides, TypeOK
<1>4. d \in todo[h] /\ \A c \in todo[h] : Place(d) <= Place(c)
  BY DEF Decides, Turn
<1>5. Done(h) \subseteq Dispatches /\ d \in Groups(request[h])
  BY <1>1, <1>4 DEF Done, Groups, GroupsAreDecided
<1>6. \A c : c \in Done(h)' <=> c \in Done(h) \/ c = d
  BY <1>2, <1>4, <1>5 DEF Done
<1>7. d \notin Done(h)
  BY <1>4 DEF Done
<1>8. GroupsAreDecided(h)'
  <2>1. todo'[h] \subseteq Groups(request'[h])
    BY <1>1, <1>2 DEF GroupsAreDecided
  <2>2. \A c \in Done(h)' :
          draft'[h][c] \in Contents \/ (c \in Mirrors /\ draft'[h][c] = Cancel)
    BY <1>1, <1>2, <1>3, <1>5, <1>6 DEF GroupsAreDecided
  <2>3. \A c \in Dispatches : draft'[h][c] \in Contents => c \in Done(h)'
    BY <1>1, <1>3, <1>6 DEF GroupsAreDecided
  <2> QED
    BY <2>1, <2>2, <2>3 DEF GroupsAreDecided
<1>9. GroupsTakeTurns(h)'
  BY <1>1, <1>2, <1>4, <1>6 DEF GroupsTakeTurns
<1>10. ASSUME Enforcing, ~broken'[h] PROVE ContentsAreNoted(h)'
  BY <1>1, <1>2, <1>3, <1>10 DEF ContentsAreNoted, NotesContent
<1>11. ASSUME Enforcing, ~broken'[h] PROVE MirrorsDiffer(h)'
  <2>1. ASSUME NEW m \in Mirrors, NEW c \in Dispatches, m # c,
               draft'[h][m] \in Contents, draft'[h][c] \in Contents
        PROVE  draft'[h][m] # draft'[h][c]
    <3>1. m \in Dispatches
      BY DEF Dispatches
    <3>2. CASE m # d /\ c # d
      BY <1>1, <1>3, <1>11, <2>1, <3>1, <3>2 DEF MirrorsDiffer
    <3>3. CASE m = d
      <4>1. <<c, draft[h][c]>> \in noted[h]
        BY <1>1, <1>3, <1>11, <2>1, <3>3 DEF ContentsAreNoted
      <4>2. draft[h][c] # decision
        BY <1>2, <1>3, <1>11, <2>1, <3>3, <4>1 DEF NotesContent
      <4> QED
        BY <1>3, <2>1, <3>3, <4>2
    <3>4. CASE c = d
      <4>1. draft[h][m] \in Contents
        BY <1>3, <2>1, <3>1, <3>4
      <4>2. Place(m) <= Place(d)
        BY <1>1, <1>4, <3>1, <4>1 DEF GroupsAreDecided, GroupsTakeTurns
      <4>3. d \in Mirrors
        BY <3>1, <4>2, PlaceOrder
      <4>4. <<m, draft[h][m]>> \in noted[h]
        BY <1>1, <1>11, <3>1, <4>1 DEF ContentsAreNoted
      <4>5. draft[h][m] # decision
        BY <1>2, <1>3, <1>11, <2>1, <3>4, <4>3, <4>4 DEF NotesContent
      <4> QED
        BY <1>3, <2>1, <3>1, <3>4, <4>5
    <3> QED
      BY <3>2, <3>3, <3>4
  <2> QED
    BY <2>1 DEF MirrorsDiffer
<1>12. pc'[h] \notin {"prepare", "variant"}
  BY <1>2
<1> QED
  BY <1>8, <1>9, <1>10, <1>11, <1>12 DEF Prepared

LEMMA OwnPrepared ==
  ASSUME TypeOK, Writing, NEW h \in Handlers, Prepared(h), HandlerStep(h)
  PROVE  Prepared(h)'
<1>1. CASE Ends(h) \/ Begins(h)
  BY <1>1 DEF Ends, Begins, Prepared, HasCampaign
<1>2. CASE Takes(h)
  <2>1. \A c \in Dispatches : draft[h][c] = NoContent
    BY <1>2 DEF Takes, Writing, NothingBeforeUpsert, Quiet, HasCampaign
  <2>2. \A c \in Dispatches : draft'[h][c] \notin Contents
    BY <1>2, <2>1, ContentsAreNoDecisions DEF Takes, TypeOK
  <2>3. /\ Done(h)' = {} /\ todo'[h] \subseteq Groups(request'[h])
        /\ pc'[h] \notin {"prepare", "variant"}
    BY <1>2 DEF Takes, Done
  <2>4. Mirrors \subseteq Dispatches
    BY DEF Dispatches
  <2> QED
    BY <2>2, <2>3, <2>4 DEF Prepared, GroupsAreDecided, GroupsTakeTurns, ContentsAreNoted,
                            MirrorsDiffer
<1>3. ASSUME NEW d \in Dispatches, Selects(h, d) PROVE Prepared(h)'
  BY <1>3 DEF Selects, Prepared, HasCampaign, GroupsAreDecided, GroupsTakeTurns, Done,
              ContentsAreNoted, MirrorsDiffer
<1>4. ASSUME NEW d \in Dispatches, Awaits(h, d) PROVE Prepared(h)'
  <2>1. /\ GroupsAreDecided(h) /\ GroupsTakeTurns(h)
        /\ Enforcing => ContentsAreNoted(h) /\ MirrorsDiffer(h)
    BY <1>4 DEF Prepared, Awaits, HasCampaign
  <2>2. \A c \in Dispatches : draft'[h][c] = IF c = d THEN Cancel ELSE draft[h][c]
    BY <1>4 DEF Awaits, TypeOK
  <2>3. /\ Done(h)' = Done(h) /\ d \notin Done(h) /\ noted[h] \subseteq noted'[h]
        /\ todo'[h] = todo[h] /\ request'[h] = request[h] /\ ~broken'[h]
    BY <1>4 DEF Awaits, Turn, Done
  <2>4. Done(h) \subseteq Dispatches /\ Mirrors \subseteq Dispatches
    BY DEF Done, Groups, Dispatches
  <2>5. \A c \in Dispatches :
          draft'[h][c] \in Contents => c # d /\ draft'[h][c] = draft[h][c]
    BY <2>2, ContentsAreNoDecisions
  <2>6. GroupsAreDecided(h)'
    <3>1. \A c \in Done(h) :
            draft'[h][c] \in Contents \/ (c \in Mirrors /\ draft'[h][c] = Cancel)
      BY <2>1, <2>2, <2>3, <2>4 DEF GroupsAreDecided
    <3>2. \A c \in Dispatches : draft'[h][c] \in Contents => c \in Done(h)
      BY <2>1, <2>5 DEF GroupsAreDecided
    <3> QED
      BY <2>1, <2>3, <3>1, <3>2 DEF GroupsAreDecided
  <2>7. GroupsTakeTurns(h)'
    BY <2>1, <2>3 DEF GroupsTakeTurns
  <2>8. Enforcing => ContentsAreNoted(h)' /\ MirrorsDiffer(h)'
    BY <2>1, <2>3, <2>4, <2>5 DEF ContentsAreNoted, MirrorsDiffer
  <2> QED
    BY <2>3, <2>6, <2>7, <2>8 DEF Prepared
<1>5. CASE Commit(h)
  BY <1>1, <1>5, CommitEnds
<1>6. OnlyMirrorsVary
  BY DEF Writing
<1> QED
  BY <1>1, <1>2, <1>3, <1>4, <1>5, <1>6, DecidesPrepared, TransactionCases

LEMMA InitPreparing == Init => Preparing
BY DEF Init, Preparing, Prepared, HasCampaign

LEMMA NextPreparing == Typing /\ Writing /\ Preparing /\ [Next]_vars => Preparing'
<1> SUFFICES ASSUME Typing, Writing, Preparing, [Next]_vars PROVE Preparing'
  OBVIOUS
<1>1. ASSUME UNCHANGED <<pc, request, todo, draft, noted, broken>>
      PROVE  Preparing'
  BY <1>1 DEF Preparing, Prepared, HasCampaign, GroupsAreDecided, GroupsTakeTurns, Done,
              ContentsAreNoted, MirrorsDiffer
<1>2. ASSUME NEW e \in Executors, ExecutorStep(e) PROVE Preparing'
  BY <1>1, <1>2, ExecutorFrame
<1>3. CASE EventsExpire
  BY <1>1, <1>3 DEF EventsExpire, transaction
<1>4. CASE UNCHANGED vars
  BY <1>1, <1>4 DEF vars, transaction
<1>5. ASSUME NEW h \in Handlers, HandlerStep(h) PROVE Preparing'
  BY <1>5, HandlerOthers, SamePrepared, OwnPrepared DEF Preparing, Typing
<1> QED
  BY <1>2, <1>3, <1>4, <1>5 DEF Next

LEMMA OnlyCommitCommits ==
  ASSUME TypeOK, [Next]_vars, NEW h \in Handlers, Commits(h)
  PROVE  Commit(h)
<1>1. pc[h] = "select" /\ pc'[h] = "idle" /\ outcome'[h] = "ok"
  BY DEF Commits
<1>2. pc'[h] # pc[h]
  BY <1>1
<1>3. HandlerStep(h)
  <2>1. ASSUME NEW k \in Handlers, HandlerStep(k), k # h PROVE FALSE
    BY <1>2, <2>1, HandlerOthers DEF SameTransaction
  <2>2. ASSUME NEW e \in Executors, ExecutorStep(e) PROVE FALSE
    BY <1>2, <2>2, ExecutorFrame
  <2>3. ~EventsExpire /\ ~UNCHANGED vars
    BY <1>2 DEF EventsExpire, vars, transaction
  <2> QED
    BY <2>1, <2>2, <2>3 DEF Next
<1>4. ASSUME NEW answer, Rollback(h, answer) PROVE answer = "ok"
  BY <1>1, <1>4 DEF Rollback, TransactionOver, TypeOK
<1>5. ~Receive(h) /\ ~UpsertRegistry(h) /\ ~PrepareDispatch(h) /\ ~VariantRejected(h)
        /\ ~VariantApplied(h)
  BY <1>1 DEF Receive, UpsertRegistry, PrepareDispatch, VariantRejected, VariantApplied
<1>6. ~StatementFails(h) /\ ~StatementRefused(h)
  BY <1>4 DEF StatementFails, StatementRefused
<1>7. ~SelectRegistry(h)
  <2>1. ~Rollback(h, "conflict")
    BY <1>4
  <2> QED
    BY <1>1, <2>1 DEF SelectRegistry, TypeOK
<1> QED
  BY <1>3, <1>5, <1>6, <1>7 DEF HandlerStep

LEMMA CommitWrites ==
  ASSUME TypeOK, NEW h \in Handlers, Commit(h), NEW d \in Written(h)
  PROVE  /\ d \in Dispatches /\ draft[h][d] \in Contents
         /\ content'[d] = draft[h][d]
         /\ \A r \in Recipients :
              recipient'[d][r] = IF r \in Group(request[h], d) THEN "batched" ELSE "absent"
BY DEF Commit, ReplaceRows, Written

LEMMA CommitPrepared ==
  ASSUME Preparing, NEW h \in Handlers, Commit(h)
  PROVE  /\ GroupsAreDecided(h) /\ Done(h) = Groups(request[h])
         /\ Enforcing => MirrorsDiffer(h)
BY DEF Preparing, Prepared, Commit, HasCampaign, Done

LEMMA PlannedStep ==
  ASSUME TypeOK, Preparing, NEW h \in Handlers, Commit(h), NEW r \in request[h].emails
  PROVE  \/ \E d \in Written(h) : recipient'[d][r] = "batched"
         \/ MirrorOf[r] \in Mirrors /\ draft[h][MirrorOf[r]] = Cancel
<1> DEFINE req == request[h]
<1>1. req \in Requests /\ r \in Recipients
  BY HandoffAssumption DEF TypeOK
<1>2. ASSUME NEW d \in Dispatches, r \in Group(req, d)
      PROVE  \/ \E c \in Written(h) : recipient'[c][r] = "batched"
             \/ d \in Mirrors /\ draft[h][d] = Cancel
  <2>1. d \in Done(h)
    BY <1>2, CommitPrepared DEF Groups
  <2>2. draft[h][d] \in Contents \/ (d \in Mirrors /\ draft[h][d] = Cancel)
    BY <2>1, CommitPrepared DEF GroupsAreDecided
  <2>3. ASSUME draft[h][d] \in Contents
        PROVE  d \in Written(h) /\ recipient'[d][r] = "batched"
    <3>1. d \in Written(h)
      BY <2>3 DEF Written
    <3> QED
      BY <1>1, <1>2, <3>1, CommitWrites
  <2> QED
    BY <2>2, <2>3
<1>3. CASE r \in Pinned(req)
  <2>1. PICK d \in Parents \union Mirrors : r \in PinnedTo(req, d)
    BY <1>3 DEF Pinned
  <2>2. d \in Dispatches /\ d # Global
    BY HandoffAssumption DEF Dispatches
  <2>3. r \in Group(req, d)
    BY <2>1, <2>2 DEF Group
  <2>4. d \in Mirrors => MirrorOf[r] = d
    BY <2>1, HandoffAssumption DEF PinnedTo
  <2> QED
    BY <1>2, <2>2, <2>3, <2>4
<1>4. CASE r \notin Pinned(req)
  <2>1. r \in Group(req, Global) /\ Global \notin Mirrors
    BY <1>4, HandoffAssumption DEF Group
  <2> QED
    BY <1>2, <2>1, GlobalIsDispatch
<1> QED
  BY <1>3, <1>4

\* A handoff that commits leaves no requested recipient out, whatever the split
\* and the groups: each is batched in a dispatch it wrote, or pinned to a mirror
\* that it cancelled.
THEOREM EverybodyIsPlanned == Spec => EveryRecipientPlanned
<1>1. Typing /\ Writing /\ Preparing /\ [Next]_vars =>
        [\A h \in Handlers : Commits(h) =>
           \A r \in request[h].emails :
             \/ \E d \in Written(h) : recipient'[d][r] = "batched"
             \/ MirrorOf[r] \in Mirrors /\ draft[h][MirrorOf[r]] = Cancel]_vars
  BY OnlyCommitCommits, PlannedStep DEF Typing
<1> QED
  BY <1>1, InitTyping, InitWriting, InitPreparing, NextTyping, NextWriting, NextPreparing,
     PTL DEF Spec, EveryRecipientPlanned

\* The recipients before r in the hash order are counted by a number.
LEMMA PlaceOfRecipient ==
  ASSUME NEW req \in Requests, NEW r \in req.emails \ req.twice
  PROVE  \E i : Places(req, r) = {i}
<1> DEFINE before == {x \in req.emails : x < r}
           first == Cardinality(before) + Cardinality(before \intersect req.twice)
<1>1. before \in SUBSET Recipients /\ before \intersect req.twice \in SUBSET Recipients
  BY HandoffAssumption
<1> HIDE DEF before
<1>2. Cardinality(before) \in Nat /\ Cardinality(before \intersect req.twice) \in Nat
  BY <1>1, FS_Subset, FS_CardinalityType, HandoffAssumption
<1>3. first \in Nat
  BY <1>2
<1>4. Places(req, r) = first..first
  BY DEF Places, before
<1> HIDE DEF first
<1>5. first..first = {first}
  BY <1>3
<1> QED
  BY <1>4, <1>5

LEMMA OneCopyStep ==
  ASSUME TypeOK, NEW h \in Handlers, Commit(h), Splits(request[h]),
         NEW r \in request[h].emails \ request[h].twice
  PROVE  Cardinality({d \in Written(h) : recipient'[d][r] = "batched"}) <= 1
<1> DEFINE req == request[h]
           copies == {d \in Written(h) : recipient'[d][r] = "batched"}
<1>1. req \in Requests /\ r \in Recipients
  BY HandoffAssumption DEF TypeOK
<1>2. \A d \in copies : d \in Dispatches /\ r \in Group(req, d)
  BY <1>1, CommitWrites
<1>3. ~(r \in ParentHalf(req) /\ r \in MirrorHalf(req))
  <2>1. PICK i : Places(req, r) = {i}
    BY <1>1, PlaceOfRecipient
  <2>2. ~(i % 2 = 0 /\ i % 2 = 1)
    OBVIOUS
  <2> QED
    BY <2>1, <2>2 DEF ParentHalf, MirrorHalf
<1>4. ASSUME NEW d \in Dispatches, r \in Group(req, d)
      PROVE  \/ d = Global /\ r \notin Pinned(req)
             \/ d # Global /\ d \in Parents /\ r \in ParentHalf(req) /\ ParentOf[r] = d
             \/ d # Global /\ d \in Mirrors /\ r \in MirrorHalf(req) /\ MirrorOf[r] = d
  BY <1>4 DEF Group, PinnedTo, Dispatches
<1>5. ASSUME NEW d \in Dispatches, d # Global, r \in Group(req, d)
      PROVE  r \in Pinned(req)
  BY <1>5 DEF Group, Pinned, Dispatches
<1>6. ASSUME NEW c \in copies, NEW d \in copies PROVE c = d
  BY <1>2, <1>3, <1>4, <1>5
<1> HIDE DEF copies
<1>7. copies = {} \/ \E d : copies = {d}
  BY <1>6
<1>8. Cardinality(copies) <= 1
  <2>1. Cardinality({}) = 0 /\ \A d : Cardinality({d}) = 1
    BY FS_EmptySet, FS_Singleton
  <2>2. Cardinality(copies) = 0 \/ Cardinality(copies) = 1
    BY <1>7, <2>1
  <2> QED
    BY <2>2
<1> QED
  BY <1>8 DEF copies

\* A campaign that is split between senders: an address given once is batched by
\* a single dispatch, for any number of recipients, parents and mirrors.
THEOREM OneCopy == Spec => SplitMailsOneCopy
<1>1. Typing /\ [Next]_vars =>
        [\A h \in Handlers : Commits(h) /\ Splits(request[h]) =>
           \A r \in request[h].emails \ request[h].twice :
             Cardinality({d \in Written(h) : recipient'[d][r] = "batched"}) <= 1]_vars
  BY OnlyCommitCommits, OneCopyStep DEF Typing
<1> QED
  BY <1>1, InitTyping, NextTyping, PTL DEF Spec, SplitMailsOneCopy

\* Under enforcement no mirror is queued with the content of another dispatch of
\* the same handoff, whatever contents the variant generator finds.
THEOREM NoClones == Spec => NoClonedMirrorQueued
<1>1. ASSUME Typing, Preparing, [Next]_vars, Enforcing, NEW h \in Handlers, Commits(h),
             NEW m \in Mirrors \intersect Written(h), NEW d \in Written(h), m # d
      PROVE  content'[m] # content'[d]
  <2>1. Commit(h) /\ TypeOK
    BY <1>1, OnlyCommitCommits DEF Typing
  <2>2. MirrorsDiffer(h)
    BY <1>1, <2>1, CommitPrepared
  <2> QED
    BY <1>1, <2>1, <2>2, CommitWrites DEF MirrorsDiffer
<1>2. Typing /\ Writing /\ Preparing /\ [Next]_vars =>
        [FingerprintMode = "enforce" /\ "exact_parent_mirror_clone" \in EnforceReasons =>
           \A h \in Handlers : Commits(h) =>
             \A m \in Mirrors \intersect Written(h), d \in Written(h) :
               m # d => content'[m] # content'[d]]_vars
  BY <1>1 DEF Enforcing
<1> QED
  BY <1>2, InitTyping, InitWriting, InitPreparing, NextTyping, NextWriting, NextPreparing,
     PTL DEF Spec, NoClonedMirrorQueued

-----------------------------------------------------------------------------
(* Who owns a batch.                                                       *)

LEMMA ExecutorTypes ==
  ASSUME Typing, NEW e \in Executors
  PROVE  /\ ex \in [Executors -> ExecutorRecords] /\ ex[e] \in ExecutorRecords
         /\ ex[e].at # "off" => ex[e].d \in Dispatches /\ ex[e].b \in BatchNumbers
         /\ ex[e].at = "off" => ex[e].d = NoDispatch /\ ex[e].d \notin Dispatches
         /\ ex[e].g \in Nat /\ ex[e].rows \in Nat /\ ex[e].load \in SUBSET Recipients
<1>1. ex \in [Executors -> ExecutorRecords]
  BY DEF Typing, TypeOK, ExecutorRecords
<1>2. ex[e] \in ExecutorRecords
  BY <1>1
<1> QED
  BY <1>1, <1>2, GlobalIsDispatch DEF ExecutorRecords, Typing, HasDispatch

LEMMA ExecutorOthers ==
  ASSUME Typing, NEW e \in Executors, ExecutorStep(e), NEW f \in Executors, f # e
  PROVE  ex'[f] = ex[f]
<1> USE ExecutorTypes
<1>1. CASE \E d \in Dispatches : Claim(e, d) \/ Reconcile(e, d)
  BY <1>1 DEF Claim, Reconcile, execution
<1>2. CASE Load(e) \/ LoadNothing(e) \/ MarkDispatchRunning(e) \/ Send(e)
  BY <1>2 DEF Load, LoadNothing, MarkDispatchRunning, Send, Step
<1>3. CASE FinishBatchOrRequeue(e) \/ CountOpenBatches(e) \/ CloseQueue(e)
             \/ CloseRegistry(e)
  BY <1>3 DEF FinishBatchOrRequeue, CountOpenBatches, CloseQueue, CloseRegistry, Step
<1> QED
  BY <1>1, <1>2, <1>3 DEF ExecutorStep

SendsTo(e, r) ==
  /\ ex'[e] = [ex[e] EXCEPT !.load = @ \ {r},
                 !.at = IF ex[e].load = {r} THEN "finish" ELSE "send"]
  /\ r \in ex[e].load /\ r \in Recipients
  /\ \A c \in Dispatches, s \in Recipients :
       mails'[c][s] = IF c = ex[e].d /\ s = r THEN mails[c][s] + 1 ELSE mails[c][s]
  /\ \A c \in Dispatches, s \in Recipients :
       recipient'[c][s] = IF c = ex[e].d /\ s = r /\ gen[c] = ex[e].rows
                          THEN "sent" ELSE recipient[c][s]
  /\ gen[ex[e].d] = ex[e].rows => r \in InBatch(ex[e].d, ex[e].b)

LEMMA SendFacts ==
  ASSUME Typing, Owning, NEW e \in Executors, Send(e)
  PROVE  \E r \in Recipients : SendsTo(e, r)
<1> USE ExecutorTypes
<1>1. PICK r \in ex[e].load :
         /\ mails' = [mails EXCEPT ![ex[e].d][r] = @ + 1]
         /\ recipient' = IF gen[ex[e].d] = ex[e].rows
                         THEN [recipient EXCEPT ![ex[e].d][r] = "sent"] ELSE recipient
         /\ ex' = [ex EXCEPT ![e].load = @ \ {r},
                             ![e].at = IF ex[e].load = {r} THEN "finish" ELSE "send"]
  BY DEF Send
<1>2. ex[e].at = "send"
  BY DEF Send
<1>3. ex[e].d \in Dispatches /\ r \in Recipients
  BY <1>2
<1>4. ex'[e] = [ex[e] EXCEPT !.load = @ \ {r},
                             !.at = IF ex[e].load = {r} THEN "finish" ELSE "send"]
  BY <1>1
<1>5. \A c \in Dispatches, s \in Recipients :
        /\ mails'[c][s] = IF c = ex[e].d /\ s = r THEN mails[c][s] + 1 ELSE mails[c][s]
        /\ recipient'[c][s] = IF c = ex[e].d /\ s = r /\ gen[c] = ex[e].rows
                              THEN "sent" ELSE recipient[c][s]
  BY <1>1, <1>3 DEF Typing, TypeOK
<1>6. gen[ex[e].d] = ex[e].rows => r \in InBatch(ex[e].d, ex[e].b)
  BY <1>2 DEF Owning, LoadedFromBatch, Sending
<1>7. SendsTo(e, r)
  BY <1>3, <1>4, <1>5, <1>6 DEF SendsTo
<1> QED
  BY <1>3, <1>7

LEMMA OnlySendMarks ==
  ASSUME NEW e \in Executors, ExecutorStep(e), ~Send(e)
  PROVE  recipient' = recipient /\ mails' = mails
<1>1. CASE \E d \in Dispatches : Claim(e, d) \/ Reconcile(e, d)
  BY <1>1 DEF Claim, Reconcile, execution
<1>2. CASE Load(e) \/ LoadNothing(e) \/ MarkDispatchRunning(e)
  BY <1>2 DEF Load, LoadNothing, MarkDispatchRunning, database
<1>3. CASE FinishBatchOrRequeue(e) \/ CountOpenBatches(e) \/ CloseQueue(e)
             \/ CloseRegistry(e)
  BY <1>3 DEF FinishBatchOrRequeue, CountOpenBatches, CloseQueue, CloseRegistry, database
<1> QED
  BY <1>1, <1>2, <1>3 DEF ExecutorStep

\* Executors neither add nor remove rows.
LEMMA RowsKept ==
  ASSUME Typing, Owning, NEW e \in Executors, ExecutorStep(e), NEW d \in Dispatches
  PROVE  Rows(d)' = Rows(d) /\ \A n : InBatch(d, n)' = InBatch(d, n)
<1>1. \A r \in Recipients : recipient'[d][r] = "absent" <=> recipient[d][r] = "absent"
  <2>1. CASE Send(e)
    <3>1. PICK r \in Recipients : SendsTo(e, r)
      BY <2>1, SendFacts
    <3>2. r \in InBatch(ex[e].d, ex[e].b) => recipient[ex[e].d][r] # "absent"
      BY DEF InBatch, Rows
    <3> QED
      BY <3>1, <3>2 DEF SendsTo
  <2> QED
    BY <2>1, OnlySendMarks
<1>2. Rows(d)' = Rows(d)
  BY <1>1 DEF Rows
<1> QED
  BY <1>2 DEF InBatch, BatchNumber

Claims(e, d, n) ==
  /\ ex[e].at = "off" /\ BatchesOfState(d, {"running"}) = {}
  /\ batch[d][n] = "queued"
  /\ ex'[e] = [at |-> "load", d |-> d, g |-> gen[d], b |-> n, rows |-> 0,
               load |-> {}, failed |-> FALSE]
  /\ \A c \in Dispatches, m \in BatchNumbers :
       batch'[c][m] = IF c = d /\ m = n THEN "running" ELSE batch[c][m]
  /\ \A c \in Dispatches : queue'[c] = IF c = d THEN "running" ELSE queue[c]

LEMMA ClaimFacts ==
  ASSUME Typing, NEW e \in Executors, NEW d \in Dispatches, Claim(e, d)
  PROVE  \E n \in BatchNumbers : Claims(e, d, n)
<1>1. PICK n \in BatchesOfState(d, {"queued"}) :
         /\ ex' = [ex EXCEPT ![e] = [at |-> "load", d |-> d, g |-> gen[d], b |-> n,
                                    rows |-> 0, load |-> {}, failed |-> FALSE]]
         /\ batch' = [batch EXCEPT ![d][n] = "running"]
  BY DEF Claim
<1>2. n \in BatchNumbers /\ batch[d][n] = "queued"
  BY DEF BatchesOfState
<1>3. \A c \in Dispatches, m \in BatchNumbers :
        batch'[c][m] = IF c = d /\ m = n THEN "running" ELSE batch[c][m]
  BY <1>1, <1>2 DEF Typing, TypeOK
<1>4. \A c \in Dispatches : queue'[c] = IF c = d THEN "running" ELSE queue[c]
  BY DEF Claim, Typing, TypeOK
<1>5. ex'[e] = [at |-> "load", d |-> d, g |-> gen[d], b |-> n, rows |-> 0,
                load |-> {}, failed |-> FALSE]
  BY <1>1, ExecutorTypes
<1>6. Claims(e, d, n)
  BY <1>2, <1>3, <1>4, <1>5 DEF Claim, Claims
<1> QED
  BY <1>2, <1>6

LEMMA SetBatchFacts ==
  ASSUME Typing, NEW e \in Executors, ex[e].at # "off", NEW state, SetBatch(e, state)
  PROVE  \A c \in Dispatches, m \in BatchNumbers :
           batch'[c][m] = IF c = ex[e].d /\ m = ex[e].b /\ gen[c] = ex[e].g
                          THEN state ELSE batch[c][m]
BY ExecutorTypes DEF SetBatch, Typing, TypeOK

LEMMA LoadFacts ==
  ASSUME Typing, NEW e \in Executors, Load(e)
  PROVE  /\ ex[e].at = "load" /\ Waiting(ex[e].d, ex[e].b) # {}
         /\ ex'[e] = [ex[e] EXCEPT !.at = "mark", !.load = Waiting(ex[e].d, ex[e].b),
                                   !.rows = gen[ex[e].d]]
         /\ UNCHANGED <<batch, queue>>
BY ExecutorTypes DEF Load, Waiting, database

LEMMA StepFacts ==
  ASSUME Typing, NEW e \in Executors, NEW at, Step(e, at)
  PROVE  ex'[e] = [ex[e] EXCEPT !.at = at]
BY ExecutorTypes DEF Step

\* What becomes of the batches when an executor steps.
LEMMA BatchSteps ==
  ASSUME Typing, NEW e \in Executors, ExecutorStep(e)
  PROVE  \/ batch' = batch
         \/ \E d \in Dispatches : Claim(e, d)
         \/ \E state \in {"failed", "completed", "queued"} :
              Active(e) /\ ~Active(e)' /\ SetBatch(e, state)
<1>1. CASE Reconcile(e, CHOOSE d \in Dispatches : Reconcile(e, d))
  BY <1>1 DEF Reconcile
<1>2. CASE \E d \in Dispatches : Reconcile(e, d)
  BY <1>2 DEF Reconcile
<1>3. CASE Load(e) \/ MarkDispatchRunning(e) \/ Send(e)
  BY <1>3 DEF Load, MarkDispatchRunning, Send, database
<1>4. CASE LoadNothing(e)
  <2>1. ex[e].at = "load" /\ ex'[e] = Idle /\ SetBatch(e, "failed")
    BY <1>4, ExecutorTypes DEF LoadNothing
  <2> QED
    BY <2>1 DEF Active, Idle
<1>5. CASE FinishBatchOrRequeue(e)
  <2>1. ex[e].at = "finish" /\ Step(e, "count")
        /\ (SetBatch(e, "completed") \/ SetBatch(e, "queued"))
    BY <1>5 DEF FinishBatchOrRequeue
  <2>2. ex'[e].at = "count"
    <3>1. ex'[e] = [ex[e] EXCEPT !.at = "count"]
      BY <2>1, StepFacts
    <3> QED
      BY <3>1, ExecutorTypes DEF ExecutorRecords
  <2> QED
    BY <2>1, <2>2 DEF Active
<1>6. CASE CountOpenBatches(e) \/ CloseQueue(e) \/ CloseRegistry(e)
  BY <1>6 DEF CountOpenBatches, CloseQueue, CloseRegistry, database
<1> QED
  BY <1>2, <1>3, <1>4, <1>5, <1>6 DEF ExecutorStep

\* An executor's step either claims a batch or keeps the claim it has.
LEMMA ClaimsKept ==
  ASSUME Typing, NEW e \in Executors, ExecutorStep(e), ~\E d \in Dispatches : Claim(e, d)
  PROVE  /\ Active(e)' => /\ Active(e) /\ ex'[e].d = ex[e].d /\ ex'[e].g = ex[e].g
                          /\ ex'[e].b = ex[e].b
         /\ Sending(e)' => (Sending(e) /\ ex'[e].rows = ex[e].rows
                             /\ ex'[e].load \subseteq ex[e].load) \/ Load(e)
<1> USE ExecutorTypes
<1>1. CASE \E d \in Dispatches : Reconcile(e, d)
  BY <1>1 DEF Reconcile, execution, Active, Sending
<1>2. CASE Load(e)
  BY <1>2, LoadFacts DEF Active, Sending, ExecutorRecords
<1>3. CASE LoadNothing(e) \/ CloseRegistry(e)
  BY <1>3 DEF LoadNothing, CloseRegistry, Active, Sending, Idle
<1>4. CASE MarkDispatchRunning(e)
  <2>1. ex'[e] = [ex[e] EXCEPT !.at = "send"] /\ ex[e].at = "mark"
    BY <1>4, StepFacts DEF MarkDispatchRunning
  <2> QED
    BY <2>1 DEF Active, Sending, ExecutorRecords
<1>5. CASE Send(e)
  <2>1. ex[e].at = "send"
    BY <1>5 DEF Send
  <2>2. PICK r : ex' = [ex EXCEPT ![e].load = @ \ {r},
                                  ![e].at = IF ex[e].load = {r} THEN "finish" ELSE "send"]
    BY <1>5 DEF Send
  <2>3. ex'[e] = [ex[e] EXCEPT !.load = @ \ {r},
                               !.at = IF ex[e].load = {r} THEN "finish" ELSE "send"]
    BY <2>2
  <2> QED
    BY <2>1, <2>3 DEF Active, Sending, ExecutorRecords
<1>6. CASE FinishBatchOrRequeue(e)
  <2>1. ex'[e] = [ex[e] EXCEPT !.at = "count"]
    BY <1>6, StepFacts DEF FinishBatchOrRequeue
  <2> QED
    BY <2>1 DEF Active, Sending, ExecutorRecords
<1>7. CASE CountOpenBatches(e)
  <2> DEFINE failed == BatchesOfState(ex[e].d, {"failed"}) # {}
  <2>1. ex'[e] = Idle
          \/ ex'[e] = [ex[e] EXCEPT !.at = "close_queue", !.failed = failed]
    BY <1>7 DEF CountOpenBatches
  <2> HIDE DEF failed
  <2>2. ASSUME ex'[e] = [ex[e] EXCEPT !.at = "close_queue", !.failed = failed]
        PROVE  ex'[e].at = "close_queue"
    BY <2>2 DEF ExecutorRecords
  <2>3. ex'[e].at \in {"off", "close_queue"}
    BY <2>1, <2>2 DEF Idle
  <2> QED
    BY <2>3 DEF Active, Sending
<1>8. CASE CloseQueue(e)
  <2>1. ex'[e] = [ex[e] EXCEPT !.at = "close_registry"]
    BY <1>8, StepFacts DEF CloseQueue
  <2> QED
    BY <2>1 DEF Active, Sending, ExecutorRecords
<1> QED
  BY <1>1, <1>2, <1>3, <1>4, <1>5, <1>6, <1>7, <1>8 DEF ExecutorStep

LEMMA CommitFacts ==
  ASSUME Typing, NEW h \in Handlers, Commit(h), NEW d \in Dispatches
  PROVE  /\ UNCHANGED <<ex, mails>>
         /\ d \in Written(h) =>
              /\ gen'[d] = gen[d] + 1 /\ queue'[d] = "queued"
              /\ \A r \in Recipients : recipient'[d][r] =
                   IF r \in Group(request[h], d) THEN "batched" ELSE "absent"
              /\ \A n \in BatchNumbers : batch'[d][n] =
                   IF \E r \in Group(request[h], d) : BatchNumber(Group(request[h], d), r) = n
                   THEN "queued" ELSE "absent"
              /\ stale'[d] = IF \E e \in Executors : ex[e].at = "load" /\ ex[e].d = d
                                                       /\ ex[e].g = gen[d]
                             THEN stale[d] + 1 ELSE stale[d]
              /\ d \in overrun' \/ \A e \in Executors : ex[e].d # d
         /\ d \notin Written(h) =>
              /\ gen'[d] = gen[d] /\ queue'[d] = queue[d] /\ recipient'[d] = recipient[d]
              /\ batch'[d] = batch[d] /\ stale'[d] = stale[d]
         /\ d \in overrun => d \in overrun'
<1>1. UNCHANGED <<ex, mails>>
  BY DEF Commit, execution
<1>2. ReplaceRows(Written(h), request[h])
  BY DEF Commit, Written
<1>3. d \in Written(h) =>
        /\ gen'[d] = gen[d] + 1 /\ queue'[d] = "queued"
        /\ \A r \in Recipients : recipient'[d][r] =
             IF r \in Group(request[h], d) THEN "batched" ELSE "absent"
        /\ \A n \in BatchNumbers : batch'[d][n] =
             IF \E r \in Group(request[h], d) : BatchNumber(Group(request[h], d), r) = n
             THEN "queued" ELSE "absent"
  BY <1>2 DEF ReplaceRows
<1>4. d \notin Written(h) =>
        /\ gen'[d] = gen[d] /\ queue'[d] = queue[d] /\ recipient'[d] = recipient[d]
        /\ batch'[d] = batch[d]
  BY <1>2 DEF ReplaceRows
<1>5. stale'[d] = IF d \in Written(h) /\ \E e \in Executors : ex[e].at = "load"
                       /\ ex[e].d = d /\ ex[e].g = gen[d]
                  THEN stale[d] + 1 ELSE stale[d]
  BY DEF Commit, Written
<1>6. /\ d \in overrun => d \in overrun'
      /\ d \in Written(h) => d \in overrun' \/ \A e \in Executors : ex[e].d # d
  BY DEF Commit, Written
<1> QED
  BY <1>1, <1>3, <1>4, <1>5, <1>6

LEMMA CommitOwning ==
  ASSUME Typing, Owning, NEW h \in Handlers, Commit(h)
  PROVE  Owning'
<1> USE ExecutorTypes
<1>1. ex' = ex
  BY CommitFacts, GlobalIsDispatch
<1>2. \A d \in Dispatches :
        /\ gen[d] \in Nat
        /\ gen'[d] = gen[d] + 1
           \/ (gen'[d] = gen[d] /\ recipient'[d] = recipient[d] /\ batch'[d] = batch[d])
  BY CommitFacts DEF Typing, TypeOK
<1>3. \A e \in Executors : Active(e) => ex[e].d \in Dispatches
  BY DEF Active
<1>4. \A e \in Executors : Sending(e) => Active(e)
  BY DEF Active, Sending
<1>5. \A e \in Executors : (Active(e)' <=> Active(e)) /\ (Sending(e)' <=> Sending(e))
  BY <1>1 DEF Active, Sending
<1>6. GenerationsGrow'
  <2>1. ASSUME NEW e \in Executors, Active(e)
        PROVE  /\ ex[e].g <= gen'[ex[e].d]
               /\ Sending(e) => ex[e].g <= ex[e].rows /\ ex[e].rows <= gen'[ex[e].d]
    <3>1. gen[ex[e].d] \in Nat /\ gen'[ex[e].d] \in Nat /\ gen[ex[e].d] <= gen'[ex[e].d]
      BY <1>2, <1>3, <2>1
    <3>2. ex[e].g <= gen[ex[e].d]
          /\ (Sending(e) => ex[e].g <= ex[e].rows /\ ex[e].rows <= gen[ex[e].d])
      BY <2>1 DEF Owning, GenerationsGrow
    <3> QED
      BY <3>1, <3>2
  <2> QED
    BY <1>1, <1>5, <2>1 DEF GenerationsGrow
<1>7. ASSUME NEW e \in Executors, Current(e)'
      PROVE  Current(e) /\ gen'[ex[e].d] = gen[ex[e].d]
  <2>1. Active(e) /\ ex[e].g = gen'[ex[e].d]
    BY <1>1, <1>5, <1>7 DEF Current
  <2>2. ex[e].g <= gen[ex[e].d]
    BY <2>1 DEF Owning, GenerationsGrow
  <2>3. gen'[ex[e].d] = gen[ex[e].d]
    BY <1>2, <1>3, <2>1, <2>2
  <2> QED
    BY <2>1, <2>3 DEF Current
<1>8. ASSUME NEW d \in Dispatches, gen'[d] = gen[d]
      PROVE  batch'[d] = batch[d] /\ recipient'[d] = recipient[d]
  BY <1>2, <1>8
<1>9. CurrentRuns'
  BY <1>1, <1>3, <1>7, <1>8 DEF CurrentRuns, Owning, Current
<1>10. OneCurrent'
  BY <1>1, <1>7 DEF OneCurrent, Owning
<1>11. LoadedFromBatch'
  <2>1. ASSUME NEW e \in Executors, Sending(e), ex[e].rows = gen'[ex[e].d]
        PROVE  ex[e].load \subseteq InBatch(ex[e].d, ex[e].b)'
    <3>1. ex[e].rows <= gen[ex[e].d] /\ ex[e].d \in Dispatches
      BY <1>3, <1>4, <2>1 DEF Owning, GenerationsGrow
    <3>2. gen'[ex[e].d] = gen[ex[e].d]
      BY <1>2, <2>1, <3>1
    <3>3. \A d \in Dispatches : gen'[d] = gen[d] => Rows(d)' = Rows(d)
      BY <1>8 DEF Rows
    <3>4. \A d \in Dispatches : \A n : gen'[d] = gen[d] => InBatch(d, n)' = InBatch(d, n)
      BY <3>3 DEF InBatch, BatchNumber
    <3> QED
      BY <1>1, <2>1, <3>1, <3>2, <3>4 DEF Owning, LoadedFromBatch
  <2> QED
    BY <1>1, <1>5, <2>1 DEF LoadedFromBatch
<1> QED
  BY <1>6, <1>9, <1>10, <1>11 DEF Owning

LEMMA ExecutorOwning ==
  ASSUME Typing, Owning, NEW e \in Executors, ExecutorStep(e)
  PROVE  Owning'
<1> USE ExecutorTypes
<1>1. gen' = gen /\ \A f \in Executors \ {e} : ex'[f] = ex[f]
  BY ExecutorFrame, ExecutorOthers DEF rows
<1>2. \A f \in Executors \ {e} :
        (Active(f)' <=> Active(f)) /\ (Sending(f)' <=> Sending(f)) /\ (Current(f)' <=> Current(f))
  BY <1>1 DEF Active, Sending, Current
<1>3. \A f \in Executors : Active(f) => ex[f].d \in Dispatches /\ ex[f].b \in BatchNumbers
  BY DEF Active
<1>4. \A d \in Dispatches : gen[d] \in Nat
  BY DEF Typing, TypeOK
<1>5. CASE \E d \in Dispatches : Claim(e, d)
  <2>1. PICK d \in Dispatches : Claim(e, d)
    BY <1>5
  <2> PICK n \in BatchNumbers : Claims(e, d, n)
    BY <2>1, ClaimFacts
  <2>2. /\ ex[e].at = "off" /\ BatchesOfState(d, {"running"}) = {}
        /\ ex'[e] = [at |-> "load", d |-> d, g |-> gen[d], b |-> n, rows |-> 0,
                     load |-> {}, failed |-> FALSE]
        /\ \A c \in Dispatches, m \in BatchNumbers :
             batch'[c][m] = IF c = d /\ m = n THEN "running" ELSE batch[c][m]
    BY DEF Claims
  <2>3. ex'[e].d = d /\ ex'[e].g = gen[d] /\ ex'[e].b = n /\ ~Sending(e)' /\ Active(e)'
    BY <2>2 DEF Sending, Active
  <2>4. \A f \in Executors \ {e} : Current(f) => ex[f].d # d
    BY <1>3, <2>2 DEF Owning, CurrentRuns, BatchesOfState, Current
  <2>5. GenerationsGrow'
    BY <1>1, <1>2, <1>4, <2>3 DEF Owning, GenerationsGrow
  <2>6. CurrentRuns'
    BY <1>1, <1>2, <1>3, <2>2, <2>3 DEF Owning, CurrentRuns, Current
  <2>7. OneCurrent'
    BY <1>1, <1>2, <2>3, <2>4 DEF Owning, OneCurrent
  <2>8. LoadedFromBatch'
    <3>1. \A f \in Executors \ {e} : Sending(f) =>
            InBatch(ex[f].d, ex[f].b)' = InBatch(ex[f].d, ex[f].b)
      BY <1>1, <1>3, RowsKept DEF Sending, Active
    <3> QED
      BY <1>1, <1>2, <2>3, <3>1 DEF Owning, LoadedFromBatch
  <2> QED
    BY <2>5, <2>6, <2>7, <2>8 DEF Owning
<1>6. CASE ~\E d \in Dispatches : Claim(e, d)
  <2>1. /\ Active(e)' => /\ Active(e) /\ ex'[e].d = ex[e].d /\ ex'[e].g = ex[e].g
                         /\ ex'[e].b = ex[e].b
        /\ Sending(e)' => (Sending(e) /\ ex'[e].rows = ex[e].rows
                            /\ ex'[e].load \subseteq ex[e].load) \/ Load(e)
    BY <1>6, ClaimsKept
  <2>2. Sending(e)' => Active(e)'
    BY DEF Sending, Active
  <2>3. Load(e) => /\ ex'[e].rows = gen[ex[e].d]
                   /\ ex'[e].load = Waiting(ex[e].d, ex[e].b)
    BY LoadFacts DEF ExecutorRecords
  <2>4. \A f \in Executors : Current(f)' => Current(f) /\ ex'[f].d = ex[f].d
                                              /\ ex'[f].b = ex[f].b
    BY <1>1, <1>2, <2>1 DEF Current
  <2>5. GenerationsGrow'
    <3>1. ASSUME Active(e)'
          PROVE  /\ ex'[e].g <= gen[ex'[e].d]
                 /\ Sending(e)' => ex'[e].g <= ex'[e].rows /\ ex'[e].rows <= gen[ex'[e].d]
      <4>1. Active(e) /\ ex'[e].d = ex[e].d /\ ex'[e].g = ex[e].g
        BY <2>1, <3>1
      <4>2. ex[e].g <= gen[ex[e].d]
            /\ (Sending(e) => ex[e].g <= ex[e].rows /\ ex[e].rows <= gen[ex[e].d])
        BY <4>1 DEF Owning, GenerationsGrow
      <4>3. gen[ex[e].d] \in Nat
        BY <1>3, <1>4, <4>1
      <4> QED
        BY <2>1, <2>3, <4>1, <4>2, <4>3
    <3> QED
      BY <1>1, <1>2, <3>1 DEF Owning, GenerationsGrow
  <2>6. CurrentRuns'
    <3>1. ASSUME NEW f \in Executors, Current(f)'
          PROVE  batch'[ex[f].d][ex[f].b] = "running"
      <4>1. /\ Current(f) /\ batch[ex[f].d][ex[f].b] = "running"
            /\ ex[f].d \in Dispatches /\ ex[f].b \in BatchNumbers
        BY <1>3, <2>4, <3>1 DEF Owning, CurrentRuns, Current
      <4>2. ASSUME NEW state, Active(e), ~Active(e)', SetBatch(e, state)
            PROVE  batch'[ex[f].d][ex[f].b] = batch[ex[f].d][ex[f].b]
        <5>1. f # e
          BY <3>1, <4>2 DEF Current
        <5>2. ~(ex[f].d = ex[e].d /\ gen[ex[e].d] = ex[e].g)
          BY <4>1, <4>2, <5>1 DEF Owning, OneCurrent, Current
        <5>3. ex[e].at # "off"
          BY <4>2 DEF Active
        <5> QED
          BY <4>1, <4>2, <5>2, <5>3, SetBatchFacts
      <4> QED
        BY <1>6, <4>1, <4>2, BatchSteps
    <3> QED
      BY <2>4, <3>1 DEF CurrentRuns
  <2>7. OneCurrent'
    BY <2>4 DEF Owning, OneCurrent
  <2>8. LoadedFromBatch'
    <3>1. \A d \in Dispatches : \A n : InBatch(d, n)' = InBatch(d, n)
      BY RowsKept
    <3>2. ASSUME NEW f \in Executors, Sending(f)', ex'[f].rows = gen[ex'[f].d]
          PROVE  ex'[f].load \subseteq InBatch(ex'[f].d, ex'[f].b)
      <4>1. CASE f # e
        BY <1>1, <1>2, <3>2, <4>1 DEF Owning, LoadedFromBatch
      <4>2. CASE f = e /\ Load(e)
        <5>1. ex'[e].load = Waiting(ex[e].d, ex[e].b) /\ ex'[e].d = ex[e].d
              /\ ex'[e].b = ex[e].b
          BY <2>1, <2>2, <2>3, <3>2, <4>2
        <5>2. Waiting(ex[e].d, ex[e].b) \subseteq InBatch(ex[e].d, ex[e].b)
          BY DEF Waiting
        <5> QED
          BY <4>2, <5>1, <5>2
      <4>3. CASE f = e /\ ~Load(e)
        <5>1. /\ Sending(e) /\ ex'[e].rows = ex[e].rows /\ ex'[e].load \subseteq ex[e].load
              /\ ex'[e].d = ex[e].d /\ ex'[e].b = ex[e].b
          BY <2>1, <2>2, <3>2, <4>3
        <5>2. ex[e].load \subseteq InBatch(ex[e].d, ex[e].b)
          BY <3>2, <4>3, <5>1 DEF Owning, LoadedFromBatch
        <5> QED
          BY <4>3, <5>1, <5>2
      <4> QED
        BY <4>1, <4>2, <4>3
    <3>3. \A f \in Executors : Sending(f)' => ex'[f].d \in Dispatches
      BY <1>1, <1>2, <1>3, <2>1, <2>2 DEF Sending, Active
    <3> QED
      BY <1>1, <3>1, <3>2, <3>3 DEF LoadedFromBatch
  <2> QED
    BY <2>5, <2>6, <2>7, <2>8 DEF Owning
<1> QED
  BY <1>5, <1>6

LEMMA InitOwning == Init => Owning
BY DEF Init, Owning, GenerationsGrow, CurrentRuns, OneCurrent, LoadedFromBatch, Current,
       Active, Sending, Idle

LEMMA NextOwning == Typing /\ Owning /\ [Next]_vars => Owning'
<1> SUFFICES ASSUME Typing, Owning, [Next]_vars PROVE Owning'
  OBVIOUS
<1>1. ASSUME UNCHANGED <<ex, gen, batch, recipient>>
      PROVE  Owning'
  BY <1>1 DEF Owning, GenerationsGrow, CurrentRuns, OneCurrent, LoadedFromBatch, Current,
              Active, Sending, InBatch, Rows
<1>2. CASE EventsExpire
  BY <1>1, <1>2 DEF EventsExpire, rows, execution
<1>3. CASE UNCHANGED vars
  BY <1>1, <1>3 DEF vars, database, rows, execution
<1>4. ASSUME NEW h \in Handlers, HandlerStep(h), ~Commit(h) PROVE Owning'
  BY <1>1, <1>4, HandlerFrame DEF database, rows, execution
<1> QED
  BY <1>2, <1>3, <1>4, CommitOwning, ExecutorOwning DEF Next

-----------------------------------------------------------------------------
(* Dispatches whose rows were never replaced under an executor.            *)

LEMMA SameServed ==
  ASSUME NEW d \in Dispatches, Served(d),
         batch'[d] = batch[d], recipient'[d] = recipient[d], queue'[d] = queue[d],
         gen'[d] = gen[d],
         \A f \in Executors : ex'[f].d = d => ex'[f] = ex[f]
  PROVE  Served(d)'
<1>1. Rows(d)' = Rows(d)
  BY DEF Rows
<1>2. \A n : InBatch(d, n)' = InBatch(d, n)
  BY <1>1 DEF InBatch
<1>3. \A n : Waiting(d, n)' = Waiting(d, n)
  BY <1>2 DEF Waiting
<1>4. \A states : BatchesOfState(d, states)' = BatchesOfState(d, states)
  BY DEF BatchesOfState
<1>5. ASSUME NEW f \in Executors, ex'[f].d = d PROVE HoldsItsRows(f)'
  <2>1. ex'[f] = ex[f] /\ HoldsItsRows(f)
    BY <1>5 DEF Served
  <2> QED
    BY <1>3, <1>4, <1>5, <2>1 DEF HoldsItsRows, Active
<1>6. BatchesServed(d)'
  BY <1>3 DEF Served, BatchesServed
<1>7. RowsAwaited(d)'
  BY <1>1 DEF Served, RowsAwaited
<1>8. QueueAwaits(d)'
  BY <1>4 DEF Served, QueueAwaits
<1> QED
  BY <1>5, <1>6, <1>7, <1>8 DEF Served

\* Beside an executor that owns a batch, the others on the dispatch only count.
LEMMA OthersCount ==
  ASSUME Typing, Owning, NEW d \in Dispatches, Served(d), NEW e \in Executors,
         ex[e].d = d, Active(e), NEW f \in Executors \ {e}, ex[f].d = d
  PROVE  ex[f].at = "count"
<1> USE ExecutorTypes
<1>1. Current(e) /\ batch[d][ex[e].b] = "running" /\ ex[e].b \in BatchNumbers
  BY DEF Served, HoldsItsRows, Current, Owning, CurrentRuns, Active
<1>2. ~Active(f)
  BY <1>1 DEF Served, HoldsItsRows, Current, Owning, OneCurrent
<1>3. ex[f].at \notin {"close_queue", "close_registry"}
  BY <1>1 DEF Served, HoldsItsRows, BatchesOfState
<1>4. ex[f].at # "off" /\ ex[f].at \in ExecutorSteps
  BY DEF ExecutorRecords
<1> QED
  BY <1>2, <1>3, <1>4 DEF Active, ExecutorSteps

\* An executor that counts is not disturbed by what happens to the batches.
LEMMA CountingHolds ==
  ASSUME NEW f \in Executors, ex'[f] = ex[f], HoldsItsRows(f), ex[f].at = "count"
  PROVE  HoldsItsRows(f)'
BY DEF HoldsItsRows, Active

LEMMA ClaimServed ==
  ASSUME Typing, Owning, NEW e \in Executors, NEW d \in Dispatches, Claim(e, d), Served(d)
  PROVE  Served(d)'
<1> USE ExecutorTypes
<1>1. PICK n \in BatchNumbers : Claims(e, d, n)
  BY ClaimFacts
<1>2. ExecutorStep(e) /\ ~Send(e)
  BY DEF ExecutorStep, Claim, Send
<1>3. /\ gen' = gen /\ recipient' = recipient
      /\ \A f \in Executors \ {e} : ex'[f] = ex[f]
  BY <1>2, ExecutorFrame, ExecutorOthers, OnlySendMarks DEF rows
<1>4. Rows(d)' = Rows(d) /\ \A m : InBatch(d, m)' = InBatch(d, m)
  BY <1>2, RowsKept
<1>5. \A m : Waiting(d, m)' = Waiting(d, m)
  BY <1>3, <1>4 DEF Waiting
<1>6. \A m \in BatchNumbers : batch'[d][m] = IF m = n THEN "running" ELSE batch[d][m]
  BY <1>1 DEF Claims
<1>7. ASSUME NEW f \in Executors \ {e}, ex[f].d = d PROVE ex[f].at = "count"
  <2>1. ~Active(f)
    <3>1. ASSUME Active(f) PROVE FALSE
      <4>1. batch[d][ex[f].b] = "running" /\ ex[f].b \in BatchNumbers
        BY <1>7, <3>1 DEF Served, HoldsItsRows, Current, Owning, CurrentRuns, Active
      <4> QED
        BY <1>1, <4>1 DEF Claims, BatchesOfState
    <3> QED
      BY <3>1
  <2>2. ex[f].at \notin {"close_queue", "close_registry"}
    BY <1>1, <1>7 DEF Served, HoldsItsRows, BatchesOfState, Claims
  <2>3. ex[f].at # "off" /\ ex[f].at \in ExecutorSteps
    BY <1>7 DEF ExecutorRecords
  <2> QED
    BY <2>1, <2>2, <2>3 DEF Active, ExecutorSteps
<1>8. HoldsItsRows(e)'
  <2>1. /\ ex'[e].d = d /\ ex'[e].g = gen[d] /\ ex'[e].b = n /\ ex'[e].at = "load"
        /\ ex'[e].failed = FALSE
    BY <1>1 DEF Claims
  <2>2. Waiting(d, n) # {}
    BY <1>1 DEF Served, BatchesServed, Claims
  <2> QED
    BY <1>3, <1>5, <2>1, <2>2 DEF HoldsItsRows
<1>9. ASSUME NEW f \in Executors, ex'[f].d = d PROVE HoldsItsRows(f)'
  BY <1>3, <1>7, <1>8, <1>9, CountingHolds DEF Served
<1>10. BatchesServed(d)'
  BY <1>5, <1>6 DEF Served, BatchesServed
<1>11. RowsAwaited(d)'
  <2>1. \A r \in Rows(d) : BatchNumber(Rows(d), r) \in BatchNumbers
    BY BatchInRange DEF Rows
  <2> QED
    BY <1>3, <1>4, <1>6, <2>1 DEF Served, RowsAwaited
<1>12. QueueAwaits(d)'
  BY <1>1 DEF Claims, QueueAwaits, OpenQueue
<1> QED
  BY <1>9, <1>10, <1>11, <1>12 DEF Served

\* A step that leaves the batches and the rows of a dispatch alone.
LEMMA QuietServed ==
  ASSUME Typing, Owning, NEW e \in Executors, ExecutorStep(e), NEW d \in Dispatches,
         Served(d), batch'[d] = batch[d], recipient'[d] = recipient[d],
         ex'[e].d = d => HoldsItsRows(e)', QueueAwaits(d)'
  PROVE  Served(d)'
<1>1. gen' = gen /\ \A f \in Executors \ {e} : ex'[f] = ex[f]
  BY ExecutorFrame, ExecutorOthers DEF rows
<1>2. Rows(d)' = Rows(d) /\ \A n : InBatch(d, n)' = InBatch(d, n)
  BY RowsKept
<1>3. \A n : Waiting(d, n)' = Waiting(d, n)
  BY <1>2 DEF Waiting
<1>4. \A states : BatchesOfState(d, states)' = BatchesOfState(d, states)
  BY DEF BatchesOfState
<1>5. ASSUME NEW f \in Executors \ {e}, ex'[f].d = d PROVE HoldsItsRows(f)'
  <2>1. ex'[f] = ex[f] /\ HoldsItsRows(f)
    BY <1>1, <1>5 DEF Served
  <2> QED
    BY <1>1, <1>3, <1>4, <1>5, <2>1 DEF HoldsItsRows, Active
<1>6. BatchesServed(d)'
  BY <1>3 DEF Served, BatchesServed
<1>7. RowsAwaited(d)'
  BY <1>2 DEF Served, RowsAwaited
<1> QED
  BY <1>5, <1>6, <1>7 DEF Served

LEMMA SendServed ==
  ASSUME Typing, Owning, NEW e \in Executors, Send(e), NEW d \in Dispatches, ex[e].d = d,
         Served(d)
  PROVE  Served(d)'
<1> USE ExecutorTypes
<1>1. PICK r \in Recipients : SendsTo(e, r)
  BY SendFacts
<1>2. ExecutorStep(e) /\ ex[e].at = "send" /\ UNCHANGED <<batch, queue>>
  BY DEF ExecutorStep, Send
<1>3. gen' = gen /\ \A f \in Executors \ {e} : ex'[f] = ex[f]
  BY <1>2, ExecutorFrame, ExecutorOthers DEF rows
<1>4. Rows(d)' = Rows(d) /\ \A m : InBatch(d, m)' = InBatch(d, m)
  BY <1>2, RowsKept
<1>5. HoldsItsRows(e) /\ Active(e) /\ Sending(e)
  BY <1>2 DEF Served, Active, Sending
<1>6. gen[d] = ex[e].rows /\ gen[d] = ex[e].g
  <2>1. ex[e].g = gen[d]
    BY <1>5 DEF HoldsItsRows
  <2>2. ex[e].g <= ex[e].rows /\ ex[e].rows <= gen[d]
    BY <1>5 DEF Owning, GenerationsGrow
  <2>3. ex[e].rows \in Nat /\ gen[d] \in Nat
    BY DEF Typing, TypeOK
  <2> QED
    BY <2>1, <2>2, <2>3
<1>7. r \in ex[e].load /\ r \in InBatch(d, ex[e].b) /\ ex[e].load = Waiting(d, ex[e].b)
  BY <1>1, <1>2, <1>5, <1>6 DEF SendsTo, HoldsItsRows
<1>8. \A s \in Recipients : recipient'[d][s] = IF s = r THEN "sent" ELSE recipient[d][s]
  BY <1>1, <1>6 DEF SendsTo
<1>9. \A m : Waiting(d, m)' = Waiting(d, m) \ {r}
  BY <1>4, <1>8 DEF Waiting, InBatch, Rows
<1>10. batch[d][ex[e].b] = "running"
  BY <1>5, <1>6 DEF Owning, CurrentRuns, Current
<1>11. \A m : m # ex[e].b => r \notin Waiting(d, m)
  BY <1>7 DEF Waiting, InBatch
<1>12. HoldsItsRows(e)'
  <2> DEFINE at == IF ex[e].load = {r} THEN "finish" ELSE "send"
  <2>1. ex'[e] = [ex[e] EXCEPT !.load = @ \ {r}, !.at = at]
    BY <1>1 DEF SendsTo
  <2> HIDE DEF at
  <2>2. /\ ex'[e].load = ex[e].load \ {r} /\ ex'[e].at = at /\ ex'[e].d = d
        /\ ex'[e].b = ex[e].b /\ ex'[e].g = ex[e].g /\ ex'[e].failed = ex[e].failed
    BY <2>1 DEF ExecutorRecords
  <2>3. at \in {"send", "finish"} /\ (at = "finish" => ex[e].load \ {r} = {})
    BY DEF at
  <2>4. ~ex'[e].failed
    BY <1>5, <2>2 DEF HoldsItsRows
  <2>5. ex'[e].load = Waiting(d, ex[e].b)'
    BY <1>7, <1>9, <2>2
  <2> QED
    BY <1>3, <1>6, <2>2, <2>3, <2>4, <2>5 DEF HoldsItsRows
<1>13. ASSUME NEW f \in Executors, ex'[f].d = d PROVE HoldsItsRows(f)'
  <2>1. ASSUME f # e PROVE HoldsItsRows(f)'
    <3>1. ex'[f] = ex[f] /\ ex[f].d = d /\ HoldsItsRows(f)
      BY <1>3, <1>13, <2>1 DEF Served
    <3>2. ex[f].at = "count"
      BY <1>5, <2>1, <3>1, OthersCount
    <3> QED
      BY <3>1, <3>2, CountingHolds
  <2> QED
    BY <1>12, <2>1
<1>14. BatchesServed(d)'
  BY <1>2, <1>9, <1>10, <1>11 DEF Served, BatchesServed
<1>15. RowsAwaited(d)'
  BY <1>2, <1>4, <1>8 DEF Served, RowsAwaited, Rows
<1>16. QueueAwaits(d)'
  BY <1>2 DEF Served, QueueAwaits, BatchesOfState
<1> QED
  BY <1>13, <1>14, <1>15, <1>16 DEF Served

LEMMA FinishServed ==
  ASSUME Typing, Owning, NEW e \in Executors, FinishBatchOrRequeue(e),
         NEW d \in Dispatches, ex[e].d = d, Served(d)
  PROVE  Served(d)'
<1> USE ExecutorTypes
<1>1. /\ ExecutorStep(e) /\ ex[e].at = "finish" /\ Step(e, "count")
      /\ UNCHANGED <<recipient, queue>>
      /\ SetBatch(e, IF Waiting(d, ex[e].b) = {} THEN "completed" ELSE "queued")
  BY DEF ExecutorStep, FinishBatchOrRequeue, Waiting
<1>2. gen' = gen /\ \A f \in Executors \ {e} : ex'[f] = ex[f]
  BY <1>1, ExecutorFrame, ExecutorOthers DEF rows
<1>3. Rows(d)' = Rows(d) /\ \A m : InBatch(d, m)' = InBatch(d, m)
  BY <1>1, RowsKept
<1>4. \A m : Waiting(d, m)' = Waiting(d, m)
  BY <1>1, <1>3 DEF Waiting
<1>5. HoldsItsRows(e) /\ Active(e)
  BY <1>1 DEF Served, Active
<1>6. Waiting(d, ex[e].b) = {} /\ gen[d] = ex[e].g
  BY <1>1, <1>5 DEF HoldsItsRows
<1>7. SetBatch(e, "completed")
  BY <1>1, <1>6
<1>8. \A m \in BatchNumbers :
        batch'[d][m] = IF m = ex[e].b THEN "completed" ELSE batch[d][m]
  BY <1>1, <1>6, <1>7, SetBatchFacts
<1>9. batch[d][ex[e].b] = "running"
  BY <1>5, <1>6 DEF Owning, CurrentRuns, Current
<1>10. ex'[e] = [ex[e] EXCEPT !.at = "count"]
  BY <1>1, StepFacts
<1>11. ex'[e].at = "count" /\ ex'[e].failed = ex[e].failed
  BY <1>10 DEF ExecutorRecords
<1>12. ASSUME NEW f \in Executors, ex'[f].d = d PROVE HoldsItsRows(f)'
  <2>1. ASSUME f # e PROVE HoldsItsRows(f)'
    <3>1. ex'[f] = ex[f] /\ ex[f].d = d /\ HoldsItsRows(f)
      BY <1>2, <1>12, <2>1 DEF Served
    <3>2. ex[f].at = "count"
      BY <1>5, <2>1, <3>1, OthersCount
    <3> QED
      BY <3>1, <3>2, CountingHolds
  <2>2. HoldsItsRows(e)'
    BY <1>5, <1>11 DEF HoldsItsRows, Active
  <2> QED
    BY <2>1, <2>2
<1>13. BatchesServed(d)'
  BY <1>4, <1>8 DEF Served, BatchesServed
<1>14. RowsAwaited(d)'
  <2>1. ASSUME NEW r \in Rows(d), recipient[d][r] = "batched"
        PROVE  batch'[d][BatchNumber(Rows(d), r)] \in {"queued", "running"}
    <3>1. BatchNumber(Rows(d), r) # ex[e].b
      BY <1>6, <2>1 DEF Waiting, InBatch
    <3>2. BatchNumber(Rows(d), r) \in BatchNumbers
      BY BatchInRange DEF Rows
    <3> QED
      BY <1>8, <2>1, <3>1, <3>2 DEF Served, RowsAwaited
  <2> QED
    BY <1>1, <1>3, <2>1 DEF RowsAwaited
<1>15. QueueAwaits(d)'
  BY <1>1, <1>8 DEF Served, QueueAwaits, BatchesOfState
<1> QED
  BY <1>12, <1>13, <1>14, <1>15 DEF Served

LEMMA OwnServed ==
  ASSUME Typing, Owning, NEW e \in Executors, ExecutorStep(e), NEW d \in Dispatches,
         ex[e].d = d, Served(d)
  PROVE  Served(d)'
<1> USE ExecutorTypes
<1>1. HoldsItsRows(e) /\ ex[e].at # "off"
  BY DEF Served
<1>2. ~\E c \in Dispatches : Claim(e, c) \/ Reconcile(e, c)
  BY <1>1 DEF Claim, Reconcile
<1>3. gen' = gen
  BY ExecutorFrame DEF rows
<1>4. QueueAwaits(d)
  BY DEF Served
<1>5. CASE Load(e)
  <2>1. /\ Waiting(d, ex[e].b) # {} /\ ex[e].at = "load" /\ UNCHANGED <<batch, queue>>
        /\ ex'[e] = [ex[e] EXCEPT !.at = "mark", !.load = Waiting(d, ex[e].b),
                                  !.rows = gen[d]]
    BY <1>5, LoadFacts
  <2>2. recipient' = recipient
    BY <1>5 DEF Load, database
  <2>3. /\ ex'[e].at = "mark" /\ ex'[e].load = Waiting(d, ex[e].b) /\ ex'[e].d = d
        /\ ex'[e].b = ex[e].b /\ ex'[e].g = ex[e].g /\ ex'[e].failed = ex[e].failed
    BY <2>1 DEF ExecutorRecords
  <2>4. Waiting(d, ex[e].b)' = Waiting(d, ex'[e].b)
    <3>1. Rows(d)' = Rows(d)
      BY <2>2 DEF Rows
    <3> QED
      BY <2>2, <3>1 DEF Waiting, InBatch
  <2>5. ex[e].g = gen[d]
    BY <1>1, <2>1 DEF HoldsItsRows, Active
  <2>6. HoldsItsRows(e)'
    BY <1>1, <1>3, <2>3, <2>4, <2>5 DEF HoldsItsRows
  <2>7. QueueAwaits(d)'
    BY <1>4, <2>1 DEF QueueAwaits, BatchesOfState
  <2> QED
    BY <2>1, <2>2, <2>6, <2>7, QuietServed
<1>6. CASE LoadNothing(e)
  BY <1>1, <1>6 DEF LoadNothing, HoldsItsRows, Waiting
<1>7. CASE MarkDispatchRunning(e)
  <2>1. /\ ex[e].at = "mark" /\ Step(e, "send") /\ UNCHANGED <<batch, recipient>>
        /\ queue' = [queue EXCEPT ![d] = IF @ = "queued" THEN "running" ELSE @]
    BY <1>7 DEF MarkDispatchRunning
  <2>2. ex'[e] = [ex[e] EXCEPT !.at = "send"]
    BY <2>1, StepFacts
  <2>3. /\ ex'[e].at = "send" /\ ex'[e].load = ex[e].load /\ ex'[e].d = d
        /\ ex'[e].b = ex[e].b /\ ex'[e].g = ex[e].g /\ ex'[e].failed = ex[e].failed
    BY <2>2 DEF ExecutorRecords
  <2>4. Waiting(d, ex[e].b)' = Waiting(d, ex'[e].b)
    <3>1. Rows(d)' = Rows(d)
      BY <2>1 DEF Rows
    <3> QED
      BY <2>1, <3>1 DEF Waiting, InBatch
  <2>5. HoldsItsRows(e)'
    BY <1>1, <1>3, <2>1, <2>3, <2>4 DEF HoldsItsRows, Active
  <2>6. QueueAwaits(d)'
    BY <1>4, <2>1 DEF QueueAwaits, BatchesOfState, OpenQueue, Typing, TypeOK
  <2> QED
    BY <2>1, <2>5, <2>6, QuietServed
<1>8. CASE CountOpenBatches(e)
  <2> DEFINE failed == BatchesOfState(d, {"failed"}) # {}
  <2>1. UNCHANGED <<batch, recipient, queue>>
    BY <1>8 DEF CountOpenBatches, database
  <2>2. \/ ex'[e] = Idle
        \/ /\ ex'[e] = [ex[e] EXCEPT !.at = "close_queue", !.failed = failed]
           /\ BatchesOfState(d, {"queued", "running"}) = {}
    BY <1>8 DEF CountOpenBatches
  <2>3. ~failed
    BY DEF Served, BatchesServed, BatchesOfState
  <2>4. QueueAwaits(d)'
    BY <1>4, <2>1 DEF QueueAwaits, BatchesOfState
  <2>5. CASE ex'[e] = Idle
    <3>1. ex'[e].d # d
      BY <2>5, GlobalIsDispatch DEF Idle
    <3> QED
      BY <2>1, <2>4, <3>1, QuietServed
  <2>6. CASE /\ ex'[e] = [ex[e] EXCEPT !.at = "close_queue", !.failed = failed]
             /\ BatchesOfState(d, {"queued", "running"}) = {}
    <3> HIDE DEF failed
    <3>1. ex'[e].at = "close_queue" /\ ex'[e].failed = failed /\ ex'[e].d = d
      BY <2>6 DEF ExecutorRecords
    <3>2. BatchesOfState(d, {"queued", "running"})' = {}
      BY <2>1, <2>6 DEF BatchesOfState
    <3>3. HoldsItsRows(e)'
      BY <2>3, <3>1, <3>2 DEF HoldsItsRows, Active
    <3> QED
      BY <2>1, <2>4, <3>3, QuietServed
  <2> QED
    BY <2>2, <2>5, <2>6
<1>9. CASE CloseQueue(e)
  <2>1. ex[e].at = "close_queue" /\ Step(e, "close_registry")
        /\ UNCHANGED <<batch, recipient>>
    BY <1>9 DEF CloseQueue
  <2>2. ex'[e] = [ex[e] EXCEPT !.at = "close_registry"]
    BY <2>1, StepFacts
  <2>3. ex'[e].at = "close_registry" /\ ex'[e].d = d /\ ex'[e].failed = ex[e].failed
    BY <2>2 DEF ExecutorRecords
  <2>4. BatchesOfState(d, {"queued", "running"}) = {}
    BY <1>1, <2>1 DEF HoldsItsRows
  <2>5. BatchesOfState(d, {"queued", "running"})' = {}
    BY <2>1, <2>4 DEF BatchesOfState
  <2>6. HoldsItsRows(e)' /\ QueueAwaits(d)'
    BY <1>1, <2>3, <2>5 DEF HoldsItsRows, Active, QueueAwaits
  <2> QED
    BY <2>1, <2>6, QuietServed
<1>10. CASE CloseRegistry(e)
  <2>1. UNCHANGED <<batch, recipient, queue>> /\ ex'[e] = Idle
    BY <1>10 DEF CloseRegistry
  <2>2. ex'[e].d # d
    BY <2>1, GlobalIsDispatch DEF Idle
  <2>3. QueueAwaits(d)'
    BY <1>4, <2>1 DEF QueueAwaits, BatchesOfState
  <2> QED
    BY <2>1, <2>2, <2>3, QuietServed
<1> QED
  BY <1>2, <1>5, <1>6, <1>7, <1>8, <1>9, <1>10, SendServed, FinishServed DEF ExecutorStep

LEMMA ReconcileServed ==
  ASSUME Typing, Owning, NEW e \in Executors, NEW d \in Dispatches, Reconcile(e, d),
         Served(d)
  PROVE  Served(d)'
<1> USE ExecutorTypes
<1>1. /\ ExecutorStep(e) /\ ex' = ex /\ batch' = batch /\ recipient' = recipient
      /\ ex[e].at = "off" /\ BatchesOfState(d, {"queued", "running"}) = {}
  BY DEF ExecutorStep, Reconcile, execution
<1>2. ex'[e].d # d
  BY <1>1
<1>3. QueueAwaits(d)'
  BY <1>1 DEF QueueAwaits, BatchesOfState
<1> QED
  BY <1>1, <1>2, <1>3, QuietServed

\* The step of an executor that works on another dispatch, or takes one up.
LEMMA ElsewhereServed ==
  ASSUME Typing, Owning, NEW e \in Executors, ExecutorStep(e), NEW d \in Dispatches,
         ex[e].d # d, ~Claim(e, d), ~Reconcile(e, d), Served(d)
  PROVE  Served(d)'
<1> USE ExecutorTypes
<1>1. ASSUME ex'[e].d # d, batch'[d] = batch[d], recipient'[d] = recipient[d],
             queue'[d] = queue[d]
      PROVE  Served(d)'
  <2>1. gen' = gen /\ \A f \in Executors \ {e} : ex'[f] = ex[f]
    BY ExecutorFrame, ExecutorOthers DEF rows
  <2> QED
    BY <1>1, <2>1, SameServed
<1>2. CASE \E c \in Dispatches : Claim(e, c)
  <2>1. PICK c \in Dispatches : Claim(e, c)
    BY <1>2
  <2>2. c # d
    BY <2>1
  <2>3. PICK n \in BatchNumbers : Claims(e, c, n)
    BY <2>1, ClaimFacts
  <2>4. ex'[e].d # d /\ queue'[d] = queue[d]
    BY <2>2, <2>3 DEF Claims
  <2>5. recipient' = recipient /\ \E m : batch' = [batch EXCEPT ![c][m] = "running"]
    BY <2>1 DEF Claim
  <2>6. batch'[d] = batch[d]
    BY <2>2, <2>5
  <2> QED
    BY <1>1, <2>4, <2>5, <2>6
<1>3. CASE \E c \in Dispatches : Reconcile(e, c)
  <2>1. PICK c \in Dispatches : Reconcile(e, c)
    BY <1>3
  <2>2. c # d /\ ex' = ex /\ batch' = batch /\ recipient' = recipient
    BY <2>1 DEF Reconcile, execution
  <2>3. queue'[d] = queue[d]
    BY <2>1, <2>2 DEF Reconcile
  <2> QED
    BY <1>1, <2>2, <2>3
<1>4. CASE Load(e)
  <2>1. ex'[e].d # d
    BY <1>4, LoadFacts DEF ExecutorRecords
  <2> QED
    BY <1>1, <1>4, <2>1 DEF Load, database
<1>5. CASE LoadNothing(e)
  <2>1. ex'[e] = Idle /\ SetBatch(e, "failed") /\ recipient' = recipient
    BY <1>5 DEF LoadNothing
  <2>2. ex'[e].d # d
    BY <2>1, GlobalIsDispatch DEF Idle
  <2>3. batch'[d] = batch[d]
    BY <2>1 DEF SetBatch
  <2>4. queue'[d] = queue[d]
    BY <1>5 DEF LoadNothing
  <2> QED
    BY <1>1, <2>1, <2>2, <2>3, <2>4
<1>6. CASE MarkDispatchRunning(e)
  <2>1. ex'[e] = [ex[e] EXCEPT !.at = "send"]
    BY <1>6, StepFacts DEF MarkDispatchRunning
  <2>2. ex'[e].d # d
    BY <2>1 DEF ExecutorRecords
  <2> QED
    BY <1>1, <1>6, <2>2 DEF MarkDispatchRunning
<1>7. CASE Send(e)
  <2>1. PICK r \in Recipients : SendsTo(e, r)
    BY <1>7, SendFacts
  <2>2. ex'[e].d # d
    <3> DEFINE at == IF ex[e].load = {r} THEN "finish" ELSE "send"
    <3>1. ex'[e] = [ex[e] EXCEPT !.load = @ \ {r}, !.at = at]
      BY <2>1 DEF SendsTo
    <3> HIDE DEF at
    <3> QED
      BY <3>1 DEF ExecutorRecords
  <2>3. recipient'[d] = recipient[d] /\ batch' = batch /\ queue' = queue
    BY <1>7 DEF Send
  <2> QED
    BY <1>1, <2>2, <2>3
<1>8. CASE FinishBatchOrRequeue(e)
  <2>1. /\ ex'[e] = [ex[e] EXCEPT !.at = "count"]
        /\ recipient' = recipient /\ queue' = queue
        /\ \E state : SetBatch(e, state)
    BY <1>8, StepFacts DEF FinishBatchOrRequeue
  <2>2. ex'[e].d # d
    BY <2>1 DEF ExecutorRecords
  <2>3. batch'[d] = batch[d]
    BY <2>1 DEF SetBatch
  <2> QED
    BY <1>1, <2>1, <2>2, <2>3
<1>9. CASE CountOpenBatches(e)
  <2> DEFINE failed == BatchesOfState(ex[e].d, {"failed"}) # {}
  <2>1. ex'[e] = Idle \/ ex'[e] = [ex[e] EXCEPT !.at = "close_queue", !.failed = failed]
    BY <1>9 DEF CountOpenBatches
  <2> HIDE DEF failed
  <2>2. ex'[e] = Idle => ex'[e].d # d
    BY GlobalIsDispatch DEF Idle
  <2>3. ex'[e] = [ex[e] EXCEPT !.at = "close_queue", !.failed = failed] => ex'[e].d # d
    BY DEF ExecutorRecords
  <2> QED
    BY <1>1, <1>9, <2>1, <2>2, <2>3 DEF CountOpenBatches, database
<1>10. CASE CloseQueue(e)
  <2>1. ex'[e] = [ex[e] EXCEPT !.at = "close_registry"]
    BY <1>10, StepFacts DEF CloseQueue
  <2>2. ex'[e].d # d
    BY <2>1 DEF ExecutorRecords
  <2> QED
    BY <1>1, <1>10, <2>2 DEF CloseQueue
<1>11. CASE CloseRegistry(e)
  <2>1. ex'[e] = Idle
    BY <1>11 DEF CloseRegistry
  <2>2. ex'[e].d # d
    BY <2>1, GlobalIsDispatch DEF Idle
  <2> QED
    BY <1>1, <1>11, <2>2 DEF CloseRegistry
<1> QED
  BY <1>2, <1>3, <1>4, <1>5, <1>6, <1>7, <1>8, <1>9, <1>10, <1>11 DEF ExecutorStep

\* Rows that a handoff has just written, with nobody at work on them.
LEMMA CommitServed ==
  ASSUME Typing, NEW h \in Handlers, Commit(h), NEW d \in Dispatches, d \notin overrun',
         Served(d)
  PROVE  Served(d)'
<1> DEFINE G == Group(request[h], d)
<1>1. ex' = ex
  BY CommitFacts
<1>2. CASE d \notin Written(h)
  <2>1. /\ gen'[d] = gen[d] /\ queue'[d] = queue[d] /\ recipient'[d] = recipient[d]
        /\ batch'[d] = batch[d]
    BY <1>2, CommitFacts
  <2> QED
    BY <1>1, <2>1, SameServed
<1>3. CASE d \in Written(h)
  <2>1. /\ queue'[d] = "queued"
        /\ \A r \in Recipients : recipient'[d][r] = IF r \in G THEN "batched" ELSE "absent"
        /\ \A n \in BatchNumbers : batch'[d][n] =
             IF \E r \in G : BatchNumber(G, r) = n THEN "queued" ELSE "absent"
        /\ \A e \in Executors : ex[e].d # d
    BY <1>3, CommitFacts
  <2>2. G \subseteq Recipients
    BY GroupType DEF Typing, TypeOK
  <2>3. Rows(d)' = G
    BY <2>1, <2>2 DEF Rows
  <2>4. \A n : Waiting(d, n)' = {r \in G : BatchNumber(G, r) = n}
    BY <2>1, <2>2, <2>3 DEF Waiting, InBatch
  <2>5. \A r \in G : BatchNumber(G, r) \in BatchNumbers
    BY <2>2, BatchInRange
  <2> HIDE DEF G
  <2>6. BatchesServed(d)'
    BY <2>1, <2>4 DEF BatchesServed
  <2>7. RowsAwaited(d)'
    BY <2>1, <2>3, <2>5 DEF RowsAwaited
  <2>8. QueueAwaits(d)'
    BY <2>1 DEF QueueAwaits, OpenQueue
  <2> QED
    BY <1>1, <2>1, <2>6, <2>7, <2>8 DEF Served
<1> QED
  BY <1>2, <1>3

LEMMA InitUndisturbed == Init => Undisturbed
<1> SUFFICES ASSUME Init, NEW d \in Dispatches PROVE Served(d)
  BY DEF Undisturbed
<1>1. \A e \in Executors : ex[e].d # d
  BY GlobalIsDispatch DEF Init, Idle
<1>2. \A n \in BatchNumbers : batch[d][n] = "absent"
  BY DEF Init
<1>3. Rows(d) = {}
  BY DEF Init, Rows
<1> QED
  BY <1>1, <1>2, <1>3
  DEF Served, BatchesServed, RowsAwaited, QueueAwaits, BatchesOfState

LEMMA NextUndisturbed ==
  Typing /\ Owning /\ Undisturbed /\ [Next]_vars => Undisturbed'
<1> SUFFICES ASSUME Typing, Owning, Undisturbed, [Next]_vars,
                    NEW d \in Dispatches, d \notin overrun'
             PROVE  Served(d)'
  BY DEF Undisturbed
<1>1. ASSUME overrun' = overrun PROVE Served(d)
  BY <1>1 DEF Undisturbed
<1>2. ASSUME UNCHANGED <<ex, gen, batch, recipient, queue, overrun>> PROVE Served(d)'
  BY <1>1, <1>2, SameServed
<1>3. CASE EventsExpire
  BY <1>2, <1>3 DEF EventsExpire, rows, execution, history
<1>4. CASE UNCHANGED vars
  BY <1>2, <1>4 DEF vars, database, rows, execution, history
<1>5. ASSUME NEW h \in Handlers, HandlerStep(h) PROVE Served(d)'
  <2>1. CASE Commit(h)
    <3>1. d \notin overrun
      BY <2>1, CommitFacts
    <3> QED
      BY <2>1, <3>1, CommitServed DEF Undisturbed
  <2>2. CASE ~Commit(h)
    BY <1>2, <1>5, <2>2, HandlerFrame DEF database, rows, execution, history
  <2> QED
    BY <2>1, <2>2
<1>6. ASSUME NEW e \in Executors, ExecutorStep(e) PROVE Served(d)'
  <2>1. Served(d)
    BY <1>1, <1>6, ExecutorFrame DEF history
  <2> QED
    BY <1>6, <2>1, OwnServed, ClaimServed, ReconcileServed, ElsewhereServed
<1> QED
  BY <1>3, <1>4, <1>5, <1>6 DEF Next

\* A dispatch that no handoff rewrote under an executor strands nothing: its
\* batched recipients lie in queued or running batches, and it can be claimed
\* while it has a queued one.
THEOREM ServedInTheEnd == Spec => []NothingStranded
<1>1. Undisturbed => NothingStranded
  BY DEF Undisturbed, Served, RowsAwaited, QueueAwaits, NothingStranded
<1> QED
  BY <1>1, InitTyping, NextTyping, InitOwning, NextOwning, InitUndisturbed,
     NextUndisturbed, PTL DEF Spec

-----------------------------------------------------------------------------
(* What a transaction writes over was completed only since it began.       *)

\* An executor that completes a dispatch is noticed by every transaction.
LEMMA ExecutorCloses ==
  ASSUME Typing, NEW e \in Executors, ExecutorStep(e), NEW h \in Handlers
  PROVE  /\ meanwhile[h] \subseteq meanwhile'[h]
         /\ \A d \in Dispatches : registry'[d] = "completed" /\ registry[d] # "completed"
              => pc[h] = "idle" \/ d \in meanwhile'[h]
<1> USE ExecutorTypes
<1>1. ASSUME registry' = registry, meanwhile' = meanwhile
      PROVE  /\ meanwhile[h] \subseteq meanwhile'[h]
             /\ \A d \in Dispatches : registry'[d] = "completed" => registry[d] = "completed"
  BY <1>1
<1>2. ASSUME NEW c \in Dispatches, ClosedMeanwhile(c),
             \A d \in Dispatches \ {c} : registry'[d] = registry[d]
      PROVE  /\ meanwhile[h] \subseteq meanwhile'[h]
             /\ \A d \in Dispatches : registry'[d] = "completed" /\ registry[d] # "completed"
                  => pc[h] = "idle" \/ d \in meanwhile'[h]
  BY <1>2 DEF ClosedMeanwhile
<1>3. CASE \E d \in Dispatches : Claim(e, d)
  BY <1>1, <1>3 DEF Claim, transaction
<1>4. CASE \E d \in Dispatches : Reconcile(e, d)
  <2>1. PICK c \in Dispatches : Reconcile(e, c)
    BY <1>4
  <2>2. \A d \in Dispatches \ {c} : registry'[d] = registry[d]
    BY <2>1 DEF Reconcile
  <2> QED
    BY <1>2, <2>1, <2>2 DEF Reconcile
<1>5. CASE LoadNothing(e)
  <2>1. ex[e].d \in Dispatches
    BY <1>5 DEF LoadNothing
  <2>2. \A d \in Dispatches \ {ex[e].d} : registry'[d] = registry[d]
    BY <1>5 DEF LoadNothing
  <2> QED
    BY <1>2, <1>5, <2>1, <2>2 DEF LoadNothing
<1>6. CASE CloseRegistry(e)
  <2>1. ex[e].d \in Dispatches
    BY <1>6 DEF CloseRegistry
  <2>2. \A d \in Dispatches \ {ex[e].d} : registry'[d] = registry[d]
    BY <1>6 DEF CloseRegistry
  <2> QED
    BY <1>2, <1>6, <2>1, <2>2 DEF CloseRegistry
<1>7. CASE MarkDispatchRunning(e)
  <2>1. meanwhile' = meanwhile /\ ex[e].d \in Dispatches
    BY <1>7 DEF MarkDispatchRunning, transaction
  <2>2. \A d \in Dispatches : registry'[d] = "completed" => registry[d] = "completed"
    BY <1>7, <2>1 DEF MarkDispatchRunning, Typing, TypeOK
  <2> QED
    BY <2>1, <2>2
<1>8. CASE Load(e) \/ Send(e) \/ FinishBatchOrRequeue(e) \/ CountOpenBatches(e)
             \/ CloseQueue(e)
  BY <1>1, <1>8
  DEF Load, Send, FinishBatchOrRequeue, CountOpenBatches, CloseQueue, database, transaction
<1> QED
  BY <1>3, <1>4, <1>5, <1>6, <1>7, <1>8 DEF ExecutorStep

LEMMA CheckedInTransaction ==
  ASSUME Writing, NEW h \in Handlers, NEW d \in Dispatches, Checked(h, d)
  PROVE  pc[h] # "idle"
BY DEF Writing, NothingBeforeUpsert, Quiet, HasCampaign, Checked

\* A transaction checks before it writes, by its own steps.
LEMMA OwnChecked ==
  ASSUME Typing, Writing, NEW h \in Handlers, HandlerStep(h), ~Commit(h),
         NEW c \in Dispatches, Checked(h, c)', registry[c] = "completed"
  PROVE  Checked(h, c) /\ meanwhile'[h] = meanwhile[h]
<1>1. TypeOK /\ OnlyMirrorsVary /\ draft[h] \in Drafts
  BY DEF Typing, TypeOK, Drafts, Writing
<1>2. CASE Ends(h)
  BY <1>2 DEF Ends, Quiet, Checked
<1>3. CASE Begins(h)
  <2>1. draft[h][c] = NoContent
    BY <1>3 DEF Begins, Writing, NothingBeforeUpsert, HasCampaign, Quiet
  <2> QED
    BY <1>3, <2>1 DEF Begins, Checked
<1>4. CASE Takes(h)
  BY <1>1, <1>4 DEF Takes, Checked, Drafts
<1>5. ASSUME NEW d \in Dispatches, Selects(h, d) PROVE Checked(h, c) /\ meanwhile'[h] = meanwhile[h]
  <2>1. Turn(h, c)' => Turn(h, c)
    BY <1>5 DEF Selects, Turn
  <2>2. Turn(h, c) => c = d
    BY <1>1, <1>5, OneTurn DEF Selects
  <2>3. draft[h][Global] # NoContent
    BY <1>5 DEF Selects, Writing, CampaignIsLocked, HasCampaign
  <2> QED
    BY <1>5, <2>1, <2>2, <2>3 DEF Selects, Checked
<1>6. ASSUME NEW d \in Dispatches, Awaits(h, d) PROVE Checked(h, c) /\ meanwhile'[h] = meanwhile[h]
  <2>1. Turn(h, c)' => Turn(h, c)
    BY <1>6 DEF Awaits, Turn
  <2>2. c # d => draft'[h][c] = draft[h][c]
    BY <1>1, <1>6 DEF Awaits, Drafts
  <2> QED
    BY <1>6, <2>1, <2>2 DEF Awaits, Checked
<1>7. ASSUME NEW d \in Dispatches, NEW decision, Decides(h, d, decision)
      PROVE Checked(h, c) /\ meanwhile'[h] = meanwhile[h]
  <2>1. c # d => draft'[h][c] = draft[h][c]
    BY <1>1, <1>7 DEF Decides, Drafts
  <2> QED
    BY <1>7, <2>1 DEF Decides, Checked
<1> QED
  BY <1>1, <1>2, <1>3, <1>4, <1>5, <1>6, <1>7, TransactionCases

LEMMA SameChecked ==
  ASSUME NEW h \in Handlers, NEW d \in Dispatches, SameTransaction(h)
  PROVE  Checked(h, d)' <=> Checked(h, d)
BY DEF SameTransaction, Checked, Turn

\* A commit completes nothing.
LEMMA CommitCompletesNothing ==
  ASSUME NEW h \in Handlers, Commit(h), NEW d \in Dispatches
  PROVE  /\ registry'[d] = "completed" => registry[d] = "completed"
         /\ registry'[d] # registry[d] => draft[h][d] \in Contents \union {Cancel}
BY DEF Commit

LEMMA InitClosing == Init => Closing
BY DEF Init, Closing

LEMMA NextClosing == Typing /\ Writing /\ Closing /\ [Next]_vars => Closing'
<1> SUFFICES ASSUME Typing, Writing, Closing, [Next]_vars, NEW h \in Handlers,
                    NEW d \in Dispatches, Checked(h, d)', registry'[d] = "completed"
             PROVE  d \in meanwhile'[h]
  BY DEF Closing
<1>1. ASSUME SameTransaction(h), registry[d] = "completed" PROVE d \in meanwhile'[h]
  BY <1>1, SameChecked DEF Closing, SameTransaction
<1>2. CASE EventsExpire \/ UNCHANGED vars
  BY <1>1, <1>2 DEF EventsExpire, vars, database, transaction, SameTransaction
<1>3. ASSUME NEW k \in Handlers, HandlerStep(k) PROVE d \in meanwhile'[h]
  <2>1. registry[d] = "completed"
    BY <1>3, CommitCompletesNothing, HandlerFrame DEF database
  <2>2. CASE k # h
    BY <1>1, <1>3, <2>1, <2>2, HandlerOthers DEF Typing
  <2>3. CASE k = h /\ ~Commit(h)
    BY <1>3, <2>1, <2>3, OwnChecked DEF Closing
  <2>4. CASE k = h /\ Commit(h)
    BY <2>4, CommitEnds DEF Typing, Ends, Quiet, Checked
  <2> QED
    BY <2>2, <2>3, <2>4
<1>4. ASSUME NEW e \in Executors, ExecutorStep(e) PROVE d \in meanwhile'[h]
  <2>1. Checked(h, d)
    BY <1>4, ExecutorFrame DEF Checked, Turn
  <2>2. pc[h] # "idle"
    BY <2>1, CheckedInTransaction
  <2> QED
    BY <1>4, <2>1, <2>2, ExecutorCloses DEF Closing
<1> QED
  BY <1>2, <1>3, <1>4 DEF Next

\* An executor that nobody disturbed never takes 'completed' back.
LEMMA ExecutorReopens ==
  ASSUME Typing, Undisturbed, NEW e \in Executors, ExecutorStep(e), NEW d \in Dispatches,
         registry[d] = "completed", registry'[d] # "completed"
  PROVE  d \in overrun
<1> USE ExecutorTypes
<1>1. registry \in [Dispatches -> {"absent", "batched", "running", "completed", "failed",
                                   "cancelled"}]
  BY DEF Typing, TypeOK
<1>2. ~\E c \in Dispatches : Claim(e, c) \/ Reconcile(e, c)
  BY <1>1 DEF Claim, Reconcile
<1>3. ~LoadNothing(e) /\ ~MarkDispatchRunning(e)
  BY <1>1 DEF LoadNothing, MarkDispatchRunning
<1>4. ~Load(e) /\ ~Send(e) /\ ~FinishBatchOrRequeue(e) /\ ~CountOpenBatches(e)
        /\ ~CloseQueue(e)
  BY DEF Load, Send, FinishBatchOrRequeue, CountOpenBatches, CloseQueue, database
<1>5. CloseRegistry(e)
  BY <1>2, <1>3, <1>4 DEF ExecutorStep
<1>6. ex[e].d = d /\ ex[e].failed
  BY <1>1, <1>5 DEF CloseRegistry, Verdict
<1> QED
  BY <1>6 DEF Undisturbed, Served, HoldsItsRows

\* A completed dispatch changes its state again only by a handoff that began
\* before it was completed, or after one rewrote it under an executor.
THEOREM ReopenedByRace == Spec => ReopenedOnlyByRace
<1>1. ASSUME Typing, Writing, Closing, Undisturbed, [Next]_vars, NEW d \in Dispatches,
             registry[d] = "completed", registry'[d] # "completed"
      PROVE  (\E h \in Handlers : Commits(h) /\ d \in meanwhile[h]) \/ d \in overrun
  <2>1. CASE EventsExpire \/ UNCHANGED vars
    BY <1>1, <2>1 DEF EventsExpire, vars, database
  <2>2. ASSUME NEW h \in Handlers, HandlerStep(h)
        PROVE  Commits(h) /\ d \in meanwhile[h]
    <3>1. Commit(h)
      BY <1>1, <2>2, HandlerFrame DEF database
    <3>2. Commits(h)
      BY <1>1, <3>1 DEF Commits, Commit, TransactionOver, Typing, TypeOK
    <3>3. draft[h][d] # NoContent
      BY <1>1, <3>1, CommitCompletesNothing, ContentsAreNoDecisions DEF Cancel, NoContent
    <3> QED
      BY <1>1, <3>2, <3>3 DEF Closing, Checked
  <2>3. ASSUME NEW e \in Executors, ExecutorStep(e) PROVE d \in overrun
    BY <1>1, <2>3, ExecutorReopens
  <2> QED
    BY <1>1, <2>1, <2>2, <2>3 DEF Next
<1>2. Typing /\ Writing /\ Closing /\ Undisturbed /\ [Next]_vars =>
        [\A d \in Dispatches : registry[d] = "completed" /\ registry'[d] # "completed" =>
           \/ \E h \in Handlers : Commits(h) /\ d \in meanwhile[h]
           \/ d \in overrun]_vars
  BY <1>1
<1> QED
  BY <1>2, InitTyping, NextTyping, InitWriting, NextWriting, InitClosing, NextClosing,
     InitOwning, NextOwning, InitUndisturbed, NextUndisturbed,
     PTL DEF Spec, ReopenedOnlyByRace

-----------------------------------------------------------------------------
(* The mails still to come.                                                *)

LEMMA OwedTypes ==
  ASSUME TypeOK, NEW d \in Dispatches, NEW r \in Recipients
  PROVE  /\ mails[d][r] \in Nat /\ gen[d] \in Nat /\ stale[d] \in Nat
         /\ IsFiniteSet(Holders(d, r)) /\ Cardinality(Holders(d, r)) \in Nat
<1>1. Holders(d, r) \subseteq Executors
  BY DEF Holders
<1>2. IsFiniteSet(Holders(d, r))
  BY <1>1, FS_Subset, HandoffAssumption
<1> QED
  BY <1>2, FS_CardinalityType DEF TypeOK

\* Fewer holders and nothing new due: nothing more is owed.
LEMMA OwedKept ==
  ASSUME Typing, Typing', Owed, NEW d \in Dispatches, NEW r \in Recipients,
         mails'[d][r] = mails[d][r], gen'[d] = gen[d], stale'[d] = stale[d],
         Holders(d, r)' \subseteq Holders(d, r), Due(d, r)' => Due(d, r)
  PROVE  mails'[d][r] + Cardinality(Holders(d, r)') + (IF Due(d, r)' THEN 1 ELSE 0)
           <= gen'[d] + stale'[d]
<1> DEFINE H == Holders(d, r)
<1>1. /\ mails[d][r] \in Nat /\ gen[d] \in Nat /\ stale[d] \in Nat
      /\ IsFiniteSet(H) /\ Cardinality(H) \in Nat
  BY OwedTypes DEF Typing
<1>2. Cardinality(H') \in Nat /\ Cardinality(H') <= Cardinality(H)
  BY <1>1, FS_Subset, FS_CardinalityType
<1>3. mails[d][r] + Cardinality(H) + (IF Due(d, r) THEN 1 ELSE 0) <= gen[d] + stale[d]
  BY DEF Owed
<1> HIDE DEF H
<1>4. mails[d][r] + Cardinality(H') + (IF Due(d, r)' THEN 1 ELSE 0) <= gen[d] + stale[d]
  BY <1>1, <1>2, <1>3
<1> QED
  BY <1>4 DEF H

\* Only a claim leads to a load.
LEMMA OnlyClaimsLoad ==
  ASSUME Typing, Owning, NEW e \in Executors, ExecutorStep(e), ~\E d \in Dispatches : Claim(e, d)
  PROVE  ex'[e].at # "load"
<1> USE ExecutorTypes
<1>1. CASE \E d \in Dispatches : Reconcile(e, d)
  BY <1>1 DEF Reconcile, execution
<1>2. CASE Load(e)
  BY <1>2, LoadFacts DEF ExecutorRecords
<1>3. CASE LoadNothing(e) \/ CloseRegistry(e)
  BY <1>3 DEF LoadNothing, CloseRegistry, Idle
<1>4. CASE MarkDispatchRunning(e) \/ FinishBatchOrRequeue(e) \/ CloseQueue(e)
  <2>1. PICK at \in {"send", "count", "close_registry"} : ex'[e] = [ex[e] EXCEPT !.at = at]
    BY <1>4, StepFacts DEF MarkDispatchRunning, FinishBatchOrRequeue, CloseQueue
  <2> QED
    BY <2>1 DEF ExecutorRecords
<1>5. CASE Send(e)
  <2>1. PICK r \in Recipients : SendsTo(e, r)
    BY <1>5, SendFacts
  <2> DEFINE at == IF ex[e].load = {r} THEN "finish" ELSE "send"
  <2>2. ex'[e] = [ex[e] EXCEPT !.load = @ \ {r}, !.at = at] /\ at \in {"finish", "send"}
    BY <2>1 DEF SendsTo
  <2> HIDE DEF at
  <2> QED
    BY <2>2 DEF ExecutorRecords
<1>6. CASE CountOpenBatches(e)
  <2> DEFINE failed == BatchesOfState(ex[e].d, {"failed"}) # {}
  <2>1. ex'[e] = Idle \/ ex'[e] = [ex[e] EXCEPT !.at = "close_queue", !.failed = failed]
    BY <1>6 DEF CountOpenBatches
  <2> HIDE DEF failed
  <2>2. ex'[e] = [ex[e] EXCEPT !.at = "close_queue", !.failed = failed] =>
          ex'[e].at = "close_queue"
    BY DEF ExecutorRecords
  <2> QED
    BY <2>1, <2>2 DEF Idle
<1> QED
  BY <1>1, <1>2, <1>3, <1>4, <1>5, <1>6 DEF ExecutorStep

\* An executor's step gives a recipient no new holder, and makes nothing due.
LEMMA ExecutorHolds ==
  ASSUME Typing, Owning, NEW e \in Executors, ExecutorStep(e), NEW d \in Dispatches,
         NEW r \in Recipients
  PROVE  Holders(d, r)' \subseteq Holders(d, r) /\ (Due(d, r)' => Due(d, r))
<1> USE ExecutorTypes
<1>1. gen' = gen /\ \A f \in Executors \ {e} : ex'[f] = ex[f]
  BY ExecutorFrame, ExecutorOthers DEF rows
<1>2. \A f \in Executors \ {e} : (Sending(f)' <=> Sending(f)) /\ (Current(f)' <=> Current(f))
  BY <1>1 DEF Active, Sending, Current
<1>3. recipient'[d][r] = "batched" => recipient[d][r] = "batched"
  <2>1. CASE Send(e)
    <3>1. PICK s \in Recipients : SendsTo(e, s)
      BY <2>1, SendFacts
    <3> QED
      BY <3>1 DEF SendsTo
  <2> QED
    BY <2>1, OnlySendMarks
<1>4. e \in Holders(d, r)' => e \in Holders(d, r)
  <2>1. CASE \E c \in Dispatches : Claim(e, c)
    <3>1. PICK c \in Dispatches, n \in BatchNumbers : Claims(e, c, n)
      BY <2>1, ClaimFacts
    <3>2. Current(e)'
      BY <1>1, <3>1 DEF Claims, Current, Active
    <3> QED
      BY <3>2 DEF Holders
  <2>2. CASE ~\E c \in Dispatches : Claim(e, c)
    <3> SUFFICES ASSUME ex'[e].d = d, ~Current(e)', Sending(e)', r \in ex'[e].load
                 PROVE  e \in Holders(d, r)
      BY <2>2, OnlyClaimsLoad DEF Holders
    <3>1. Active(e)'
      BY DEF Active, Sending
    <3>2. /\ Active(e) /\ ex[e].d = d /\ ex'[e].g = ex[e].g
          /\ Load(e) \/ (Sending(e) /\ r \in ex[e].load)
      BY <2>2, <3>1, ClaimsKept
    <3>3. ~Current(e)
      BY <1>1, <3>1, <3>2 DEF Current
    <3> QED
      BY <3>2, <3>3 DEF Holders, Load
  <2> QED
    BY <2>1, <2>2
<1>5. ASSUME Current(e)', ex'[e].d = d, Sending(e)', r \in ex'[e].load
      PROVE  Due(d, r)
  <2>1. ASSUME NEW c \in Dispatches, Claim(e, c) PROVE FALSE
    <3>1. PICK n \in BatchNumbers : Claims(e, c, n)
      BY <2>1, ClaimFacts
    <3>2. ex'[e].at = "load"
      BY <3>1 DEF Claims
    <3> QED
      BY <1>5, <3>2 DEF Sending
  <2>2. /\ Active(e) /\ ex[e].d = d /\ ex'[e].g = ex[e].g
        /\ Load(e) \/ (Sending(e) /\ r \in ex[e].load)
    BY <1>5, <2>1, ClaimsKept DEF Current
  <2>3. Current(e)
    BY <1>1, <1>5, <2>2 DEF Current
  <2>4. CASE Load(e)
    <3>1. ex'[e].load = Waiting(d, ex[e].b)
      BY <2>2, <2>4, LoadFacts DEF ExecutorRecords
    <3> QED
      BY <1>5, <3>1 DEF Waiting, Due
  <2> QED
    BY <2>2, <2>3, <2>4 DEF Due
<1>6. Due(d, r)' => Due(d, r)
  <2>1. ASSUME NEW f \in Executors \ {e}, Current(f)', ex'[f].d = d, Sending(f)',
               r \in ex'[f].load
        PROVE  Due(d, r)
    BY <1>1, <1>2, <2>1 DEF Due
  <2> QED
    BY <1>3, <1>5, <2>1 DEF Due
<1>7. \A f \in Executors \ {e} : f \in Holders(d, r)' => f \in Holders(d, r)
  BY <1>1, <1>2 DEF Holders
<1>8. Holders(d, r)' \subseteq Executors
  BY DEF Holders
<1> QED
  BY <1>4, <1>6, <1>7, <1>8

\* A mail is taken off what was owed.
LEMMA SendOwed ==
  ASSUME Typing, Typing', Owning, Owed, NEW e \in Executors, Send(e),
         NEW r \in Recipients, SendsTo(e, r), NEW d \in Dispatches, d = ex[e].d
  PROVE  mails'[d][r] + Cardinality(Holders(d, r)') + (IF Due(d, r)' THEN 1 ELSE 0)
           <= gen'[d] + stale'[d]
<1> USE ExecutorTypes
<1> DEFINE H == Holders(d, r)
           due == IF Due(d, r) THEN 1 ELSE 0
           due1 == IF Due(d, r)' THEN 1 ELSE 0
<1>1. ExecutorStep(e) /\ ex[e].at = "send" /\ r \in ex[e].load /\ Sending(e) /\ Active(e)
  BY DEF ExecutorStep, Send, SendsTo, Sending, Active
<1>2. H' \subseteq H /\ (Due(d, r)' => Due(d, r))
  BY <1>1, ExecutorHolds
<1>3. mails'[d][r] = mails[d][r] + 1
  BY DEF SendsTo
<1>4. gen' = gen /\ stale' = stale
  BY <1>1, ExecutorFrame DEF rows, history
<1>5. /\ mails[d][r] \in Nat /\ gen[d] \in Nat /\ stale[d] \in Nat
      /\ IsFiniteSet(H) /\ Cardinality(H) \in Nat
  BY OwedTypes DEF Typing
<1>6. mails[d][r] + Cardinality(H) + due <= gen[d] + stale[d]
  BY DEF Owed
<1>7. r \notin ex'[e].load /\ ex'[e].at \in {"finish", "send"}
  <2> DEFINE at == IF ex[e].load = {r} THEN "finish" ELSE "send"
  <2>1. ex'[e] = [ex[e] EXCEPT !.load = @ \ {r}, !.at = at] /\ at \in {"finish", "send"}
    BY DEF SendsTo
  <2> HIDE DEF at
  <2> QED
    BY <2>1 DEF ExecutorRecords
<1>8. Cardinality(H') \in Nat /\ Cardinality(H') <= Cardinality(H)
  BY <1>2, <1>5, FS_Subset, FS_CardinalityType
<1>9. CASE Current(e)
  <2>1. Due(d, r)
    BY <1>1, <1>9 DEF Due
  <2>2. gen[d] = ex[e].rows
    <3>1. ex[e].g <= ex[e].rows /\ ex[e].rows <= gen[d] /\ ex[e].g = gen[d]
      BY <1>1, <1>9 DEF Owning, GenerationsGrow, Current
    <3> QED
      BY <1>5, <3>1
  <2>3. recipient'[d][r] = "sent"
    BY <2>2 DEF SendsTo
  <2>4. ASSUME NEW f \in Executors, Current(f)', ex'[f].d = d, r \in ex'[f].load
        PROVE  FALSE
    <3>1. f # e
      BY <1>7, <2>4
    <3>2. ex'[f] = ex[f]
      BY <1>1, <3>1, ExecutorOthers
    <3>3. Current(f)
      BY <1>4, <2>4, <3>2 DEF Current, Active
    <3> QED
      BY <1>9, <2>4, <3>1, <3>2, <3>3 DEF Owning, OneCurrent
  <2>5. ~Due(d, r)'
    BY <2>3, <2>4 DEF Due
  <2> HIDE DEF H
  <2>6. mails[d][r] + Cardinality(H) + 1 <= gen[d] + stale[d]
    BY <1>6, <2>1
  <2>7. mails[d][r] + 1 + Cardinality(H') + 0 <= gen[d] + stale[d]
    BY <1>5, <1>8, <2>6
  <2> QED
    BY <1>3, <1>4, <2>5, <2>7 DEF H
<1>10. CASE ~Current(e)
  <2>1. e \in H
    BY <1>1, <1>10 DEF Holders
  <2>2. e \notin H'
    BY <1>7 DEF Holders
  <2>3. IsFiniteSet(H \ {e}) /\ Cardinality(H \ {e}) = Cardinality(H) - 1
    BY <1>5, <2>1, FS_RemoveElement
  <2>4. H' \subseteq H \ {e}
    BY <1>2, <2>2
  <2>5. Cardinality(H') <= Cardinality(H) - 1
    BY <2>3, <2>4, FS_Subset
  <2> HIDE DEF H
  <2>6. due \in {0, 1} /\ due1 \in {0, 1} /\ due1 <= due
    BY <1>2
  <2> HIDE DEF due, due1
  <2>7. mails[d][r] + 1 + Cardinality(H') + due1 <= gen[d] + stale[d]
    BY <1>5, <1>6, <1>8, <2>5, <2>6
  <2> QED
    BY <1>3, <1>4, <2>7 DEF H, due1
<1> QED
  BY <1>9, <1>10

LEMMA ExecutorOwed ==
  ASSUME Typing, Typing', Owning, Owed, NEW e \in Executors, ExecutorStep(e)
  PROVE  Owed'
<1> SUFFICES ASSUME NEW d \in Dispatches, NEW r \in Recipients
             PROVE  mails'[d][r] + Cardinality(Holders(d, r)')
                      + (IF Due(d, r)' THEN 1 ELSE 0) <= gen'[d] + stale'[d]
  BY DEF Owed
<1>1. gen' = gen /\ stale' = stale
  BY ExecutorFrame DEF rows, history
<1>2. Holders(d, r)' \subseteq Holders(d, r) /\ (Due(d, r)' => Due(d, r))
  BY ExecutorHolds
<1>3. CASE mails'[d][r] = mails[d][r]
  BY <1>1, <1>2, <1>3, OwedKept
<1>4. CASE mails'[d][r] # mails[d][r]
  <2>1. Send(e)
    BY <1>4, OnlySendMarks
  <2>2. PICK s \in Recipients : SendsTo(e, s)
    BY <2>1, SendFacts
  <2>3. s = r /\ d = ex[e].d
    BY <1>4, <2>2 DEF SendsTo
  <2> QED
    BY <2>1, <2>2, <2>3, SendOwed
<1> QED
  BY <1>3, <1>4

\* A handoff that replaces the rows of a dispatch adds one mail for each of its
\* recipients, and one more for an executor that will load them by batch key.
LEMMA CommitOwed ==
  ASSUME Typing, Typing', Owning, Owed, NEW h \in Handlers, Commit(h)
  PROVE  Owed'
<1> USE ExecutorTypes
<1> SUFFICES ASSUME NEW d \in Dispatches, NEW r \in Recipients
             PROVE  mails'[d][r] + Cardinality(Holders(d, r)')
                      + (IF Due(d, r)' THEN 1 ELSE 0) <= gen'[d] + stale'[d]
  BY DEF Owed
<1> DEFINE H == Holders(d, r)
           due == IF Due(d, r) THEN 1 ELSE 0
           due1 == IF Due(d, r)' THEN 1 ELSE 0
           Replaced(e) == /\ ex[e].d = d /\ Current(e)
                          /\ ex[e].at = "load" \/ (Sending(e) /\ r \in ex[e].load)
<1>1. ex' = ex /\ mails' = mails
  BY CommitFacts
<1>2. \A e \in Executors : (Sending(e)' <=> Sending(e)) /\ (Active(e)' <=> Active(e))
  BY <1>1 DEF Sending, Active
<1>3. CASE d \notin Written(h)
  <2>1. gen'[d] = gen[d] /\ stale'[d] = stale[d] /\ recipient'[d] = recipient[d]
    BY <1>3, CommitFacts
  <2>2. \A e \in Executors : ex[e].d = d => (Current(e)' <=> Current(e))
    BY <1>1, <1>2, <2>1 DEF Current
  <2>3. Holders(d, r)' \subseteq Holders(d, r) /\ (Due(d, r)' => Due(d, r))
    BY <1>1, <1>2, <2>1, <2>2 DEF Holders, Due
  <2> QED
    BY <1>1, <2>1, <2>3, OwedKept
<1>4. CASE d \in Written(h)
  <2>1. /\ gen'[d] = gen[d] + 1
        /\ stale'[d] = IF \E e \in Executors : ex[e].at = "load" /\ ex[e].d = d
                                                /\ ex[e].g = gen[d]
                       THEN stale[d] + 1 ELSE stale[d]
    BY <1>4, CommitFacts
  <2>2. /\ mails[d][r] \in Nat /\ gen[d] \in Nat /\ stale[d] \in Nat
        /\ IsFiniteSet(H) /\ Cardinality(H) \in Nat
    BY OwedTypes DEF Typing
  <2>3. mails[d][r] + Cardinality(H) + due <= gen[d] + stale[d]
    BY DEF Owed
  <2>4. \A e \in H' : e \in H \/ Replaced(e)
    BY <1>1, <1>2 DEF Holders
  <2>5. due \in {0, 1} /\ due1 \in {0, 1}
    OBVIOUS
  <2>6. Cardinality(H') \in Nat
    <3>1. H' \subseteq Executors
      BY DEF Holders
    <3> QED
      BY <3>1, FS_Subset, FS_CardinalityType, HandoffAssumption
  <2>7. CASE ~\E e \in Executors : Replaced(e)
    <3>1. H' \subseteq H
      BY <2>4, <2>7 DEF Holders
    <3>2. Cardinality(H') <= Cardinality(H)
      BY <2>2, <3>1, FS_Subset
    <3>3. stale[d] <= stale'[d] /\ stale'[d] \in Nat
      BY <2>1, <2>2
    <3> HIDE DEF H, due, due1
    <3>4. mails[d][r] + Cardinality(H') + due1 <= gen[d] + 1 + stale'[d]
      BY <2>2, <2>3, <2>5, <2>6, <3>2, <3>3
    <3> QED
      BY <1>1, <2>1, <3>4 DEF H, due1
  <2>8. CASE \E e \in Executors : Replaced(e)
    <3>1. PICK e \in Executors : Replaced(e)
      BY <2>8
    <3>2. \A f \in Executors : Replaced(f) => f = e
      BY <3>1 DEF Owning, OneCurrent
    <3>3. H' \subseteq H \union {e}
      BY <2>4, <3>2 DEF Holders
    <3>4. Cardinality(H') <= Cardinality(H) + 1
      <4>1. IsFiniteSet(H \union {e}) /\ Cardinality(H \union {e}) <= Cardinality(H) + 1
        <5> HIDE DEF H
        <5>1. /\ IsFiniteSet(H \union {e})
              /\ \/ Cardinality(H \union {e}) = Cardinality(H)
                 \/ Cardinality(H \union {e}) = Cardinality(H) + 1
          BY <2>2, FS_AddElement
        <5> QED
          BY <2>2, <5>1
      <4>2. Cardinality(H') <= Cardinality(H \union {e}) /\ Cardinality(H \union {e}) \in Nat
        BY <3>3, <4>1, FS_Subset, FS_CardinalityType
      <4> HIDE DEF H
      <4> QED
        BY <2>2, <2>6, <4>1, <4>2
    <3>5. CASE ex[e].at = "load"
      <4>1. stale'[d] = stale[d] + 1
        BY <2>1, <3>1, <3>5 DEF Current
      <4> HIDE DEF H, due, due1
      <4>2. mails[d][r] + Cardinality(H') + due1 <= gen[d] + 1 + (stale[d] + 1)
        BY <2>2, <2>3, <2>5, <2>6, <3>4
      <4> QED
        BY <1>1, <2>1, <4>1, <4>2 DEF H, due1
    <3>6. CASE Sending(e) /\ r \in ex[e].load
      <4>1. due = 1
        BY <3>1, <3>6 DEF Due
      <4>2. stale[d] <= stale'[d] /\ stale'[d] \in Nat
        BY <2>1, <2>2
      <4> HIDE DEF H, due, due1
      <4>3. mails[d][r] + Cardinality(H') + due1 <= gen[d] + 1 + stale'[d]
        BY <2>2, <2>3, <2>5, <2>6, <3>4, <4>1, <4>2
      <4> QED
        BY <1>1, <2>1, <4>3 DEF H, due1
    <3> QED
      BY <3>1, <3>5, <3>6
  <2> QED
    BY <2>7, <2>8
<1> QED
  BY <1>3, <1>4

LEMMA InitOwed == Init => Owed
<1> SUFFICES ASSUME Init, NEW d \in Dispatches, NEW r \in Recipients
             PROVE  mails[d][r] + Cardinality(Holders(d, r)) + (IF Due(d, r) THEN 1 ELSE 0)
                      <= gen[d] + stale[d]
  BY DEF Owed
<1>1. \A e \in Executors : ex[e].at = "off"
  BY DEF Init, Idle
<1>2. Holders(d, r) = {} /\ ~Due(d, r)
  BY <1>1 DEF Init, Holders, Due, Sending
<1>3. Cardinality(Holders(d, r)) = 0
  BY <1>2, FS_EmptySet
<1> QED
  BY <1>2, <1>3 DEF Init

LEMMA NextOwed == Typing /\ Owning /\ Owed /\ [Next]_vars => Owed'
<1> SUFFICES ASSUME Typing, Owning, Owed, [Next]_vars PROVE Owed'
  OBVIOUS
<1>1. Typing'
  BY NextTyping
<1>2. ASSUME UNCHANGED <<ex, mails, gen, stale, recipient>> PROVE Owed'
  <2>1. ASSUME NEW d \in Dispatches, NEW r \in Recipients
        PROVE  Holders(d, r)' = Holders(d, r) /\ (Due(d, r)' <=> Due(d, r))
    BY <1>2 DEF Holders, Due, Current, Active, Sending
  <2> QED
    BY <1>1, <1>2, <2>1, OwedKept DEF Owed
<1>3. CASE EventsExpire
  BY <1>2, <1>3 DEF EventsExpire, rows, execution, history
<1>4. CASE UNCHANGED vars
  BY <1>2, <1>4 DEF vars, database, rows, execution, history
<1>5. ASSUME NEW h \in Handlers, HandlerStep(h), ~Commit(h) PROVE Owed'
  BY <1>2, <1>5, HandlerFrame DEF database, rows, execution, history
<1> QED
  BY <1>1, <1>3, <1>4, <1>5, CommitOwed, ExecutorOwed DEF Next

\* However handoffs are repeated under running executors, a dispatch mails a
\* recipient at most once per committed handoff, and once more for each that
\* replaced the rows between an executor's claim and its load.
THEOREM MailedOncePerHandoff == Spec => []OncePerHandoff
<1>1. ASSUME Typing, Owed, NEW d \in Dispatches, NEW r \in Recipients
      PROVE  mails[d][r] <= gen[d] + stale[d]
  <2>1. /\ mails[d][r] \in Nat /\ gen[d] \in Nat /\ stale[d] \in Nat
        /\ Cardinality(Holders(d, r)) \in Nat
    BY <1>1, OwedTypes DEF Typing
  <2>2. mails[d][r] + Cardinality(Holders(d, r)) + (IF Due(d, r) THEN 1 ELSE 0)
          <= gen[d] + stale[d]
    BY <1>1 DEF Owed
  <2> QED
    BY <2>1, <2>2
<1>2. Typing /\ Owed => OncePerHandoff
  BY <1>1 DEF OncePerHandoff
<1> QED
  BY <1>2, InitTyping, NextTyping, InitOwning, NextOwning, InitOwed, NextOwed,
     PTL DEF Spec

=============================================================================
