------------------------------ MODULE Handoff -------------------------------
(***************************************************************************)
(* POST /handoff/sendy-campaign-snapshot (src/server.js): the transaction  *)
(* that turns one Sendy campaign into dispatches, run by concurrent        *)
(* Handlers and beside executors that work on what earlier handoffs left.  *)
(*                                                                         *)
(* The campaign has one Global dispatch and, for recipients pinned to a    *)
(* sender, one dispatch per parent bucket and one per reserve domain.      *)
(* A handoff replaces the recipient and batch rows of a dispatch: gen[d]   *)
(* counts the generations of rows, and an executor that still holds the    *)
(* row ids of an earlier generation updates nothing.                       *)
(*                                                                         *)
(* The transaction is READ COMMITTED.  Its writes become visible at Commit *)
(* and are applied there; before it, only its reads (other handoffs and    *)
(* executors commit between them) and the locks on the registry rows it    *)
(* has written matter.  A later write may be moved to the commit because   *)
(* the transaction reads none of the rows it replaces.                     *)
(*                                                                         *)
(* Executors are reduced to one statement per row kind, without faults:    *)
(* RelayExecutor has them in full.                                         *)
(***************************************************************************)
EXTENDS Naturals, Sequences, FiniteSets

CONSTANTS
  Recipients,      \* e-mail addresses, in the order of the mirror-split hash
  Global,          \* the campaign's own dispatch
  ParentOrder,     \* parent bucket dispatches, in the order of their query
  MirrorOrder,     \* reserve domain dispatches, by reserve_rank
  ParentOf,        \* the parent bucket a recipient is pinned to
  MirrorOf,        \* the reserve domain its mirror goes to
  NoDispatch,      \* neither
  BatchSize,
  Requests,        \* bodies the endpoint may be sent
  Variants,        \* contents the variant generator can produce
  FingerprintMode, \* FINGERPRINT_GOVERNANCE_MODE
  EnforceReasons,  \* FINGERPRINT_GOVERNANCE_ENFORCE_REASONS
  Handlers,        \* requests that may be served at the same time
  Executors,
  MaxHandoffs,     \* bound on requests
  MaxErrors        \* bound on statements that fail

Elements(seq) == {seq[i] : i \in DOMAIN seq}
Parents == Elements(ParentOrder)
Mirrors == Elements(MirrorOrder)
Dispatches == {Global} \union Parents \union Mirrors
Contents == {req.content : req \in Requests} \union Variants

ASSUME HandoffAssumption ==
  /\ Recipients \subseteq Nat \ {0}
  /\ IsFiniteSet(Recipients)
  /\ ParentOrder \in Seq(Parents)
  /\ MirrorOrder \in Seq(Mirrors)
  /\ Global \notin Parents \union Mirrors \union {NoDispatch}
  /\ Parents \intersect Mirrors = {}
  /\ NoDispatch \notin Parents \union Mirrors
  /\ ParentOf \in [Recipients -> Parents \union {NoDispatch}]
  /\ MirrorOf \in [Recipients -> Mirrors \union {NoDispatch}]
  /\ BatchSize \in Nat \ {0}
  /\ Requests # {}
  /\ \A req \in Requests :
       /\ req.emails \subseteq Recipients /\ req.emails # {}
       /\ req.twice \subseteq req.emails
       /\ req.split \in BOOLEAN
  /\ Contents \intersect {"none", "cancel"} = {}
  /\ FingerprintMode \in {"disabled", "observe_only", "enforce"}
  /\ IsFiniteSet(Executors)
  /\ MaxHandoffs \in Nat /\ MaxErrors \in Nat

VARIABLES
  registry,    \* direct_dispatch_state of each dispatch, or "absent"
  identity,    \* the synthetic sendy_campaign_id of a parent or mirror row
  queue,       \* queue_state, or "absent"
  gen,         \* how often the rows of a dispatch were replaced
  content,     \* content of its ready snapshot
  recipient,   \* recipient_state of each recipient in a dispatch, or "absent"
  batch,       \* batch_state of each batch number, or "absent"
  events,      \* fingerprint events within the window: <<dispatch, content>>
  pc,          \* what each handler does next
  request,     \* the body it serves
  existed,     \* whether its first SELECT found the registry row
  todo,        \* groups it has still to prepare, in the order of Place
  draft,       \* what it writes for a dispatch: this content, or "cancel"
  fresh,       \* identities it has inserted
  noted,       \* fingerprint events it has inserted
  broken,      \* a statement failed: Postgres refuses the rest
  meanwhile,   \* dispatches that were closed since it began
  outcome,     \* its last HTTP answer
  ex,          \* each executor: where it is and what it holds
  mails,       \* how often a recipient was mailed by a dispatch
  overrun,     \* dispatches whose rows were replaced under an executor
  stale,       \* how often between its claim and its load of the rows
  handoffs,    \* requests received
  errors       \* statements that failed

rows == <<identity, gen, content>>
database == <<rows, registry, queue, recipient, batch, events>>
transaction == <<pc, request, existed, todo, draft, fresh, noted, broken,
                 meanwhile, outcome>>
execution == <<ex, mails>>
bounds == <<handoffs, errors>>
history == <<overrun, stale>>
vars == <<database, transaction, execution, history, bounds>>

OpenQueue == {"queued", "running"}
BatchNumbers == 1..Cardinality(Recipients)
InTransaction == {"upsert", "select", "prepare", "variant"}
Idle == [at |-> "off", d |-> NoDispatch, g |-> 0, b |-> 0, rows |-> 0,
         load |-> {}, failed |-> FALSE]
NoContent == "none"
Cancel == "cancel"
ExecutorSteps ==
  {"off", "load", "mark", "send", "finish", "count", "close_queue", "close_registry"}
Outcomes ==
  {"none", "ok", "conflict", "duplicate_campaign", "duplicate_identity",
   "aborted", "refused"}
NoIdentity == <<"none", 0>>
Identities == {NoIdentity} \union ({"parent", "mirror"} \X Nat)

TypeOK ==
  /\ registry \in [Dispatches ->
       {"absent", "batched", "running", "completed", "failed", "cancelled"}]
  /\ identity \in [Dispatches -> Identities]
  /\ queue \in [Dispatches -> OpenQueue \union {"absent", "completed", "failed"}]
  /\ gen \in [Dispatches -> Nat]
  /\ content \in [Dispatches -> Contents \union {NoContent}]
  /\ recipient \in [Dispatches -> [Recipients -> {"absent", "batched", "sent"}]]
  /\ batch \in [Dispatches ->
       [BatchNumbers -> {"absent", "queued", "running", "completed", "failed"}]]
  /\ events \subseteq Dispatches \X Contents
  /\ pc \in [Handlers -> InTransaction \union {"idle"}]
  /\ request \in [Handlers -> Requests]
  /\ existed \in [Handlers -> BOOLEAN]
  /\ todo \in [Handlers -> SUBSET Dispatches]
  /\ draft \in [Handlers -> [Dispatches -> Contents \union {NoContent, Cancel}]]
  /\ fresh \in [Handlers -> [Dispatches -> Identities]]
  /\ noted \in [Handlers -> SUBSET (Dispatches \X Contents)]
  /\ broken \in [Handlers -> BOOLEAN]
  /\ meanwhile \in [Handlers -> SUBSET Dispatches]
  /\ outcome \in [Handlers -> Outcomes]
  /\ ex \in [Executors -> [at : ExecutorSteps, d : Dispatches \union {NoDispatch},
                           g : Nat, b : BatchNumbers \union {0}, rows : Nat,
                           load : SUBSET Recipients, failed : BOOLEAN]]
  /\ mails \in [Dispatches -> [Recipients -> Nat]]
  /\ overrun \subseteq Dispatches
  /\ stale \in [Dispatches -> Nat]
  /\ handoffs \in 0..MaxHandoffs /\ errors \in 0..MaxErrors

Init ==
  /\ registry = [d \in Dispatches |-> "absent"]
  /\ identity = [d \in Dispatches |-> NoIdentity]
  /\ queue = [d \in Dispatches |-> "absent"]
  /\ gen = [d \in Dispatches |-> 0]
  /\ content = [d \in Dispatches |-> NoContent]
  /\ recipient = [d \in Dispatches |-> [r \in Recipients |-> "absent"]]
  /\ batch = [d \in Dispatches |-> [n \in BatchNumbers |-> "absent"]]
  /\ events = {}
  /\ pc = [h \in Handlers |-> "idle"]
  /\ request = [h \in Handlers |-> CHOOSE req \in Requests : TRUE]
  /\ existed = [h \in Handlers |-> FALSE]
  /\ todo = [h \in Handlers |-> {}]
  /\ draft = [h \in Handlers |-> [d \in Dispatches |-> NoContent]]
  /\ fresh = [h \in Handlers |-> [d \in Dispatches |-> NoIdentity]]
  /\ noted = [h \in Handlers |-> {}]
  /\ broken = [h \in Handlers |-> FALSE]
  /\ meanwhile = [h \in Handlers |-> {}]
  /\ outcome = [h \in Handlers |-> "none"]
  /\ ex = [e \in Executors |-> Idle]
  /\ mails = [d \in Dispatches |-> [r \in Recipients |-> 0]]
  /\ overrun = {}
  /\ stale = [d \in Dispatches |-> 0]
  /\ handoffs = 0 /\ errors = 0

-----------------------------------------------------------------------------
(* How a request's recipients are distributed.                             *)

\* The places of a recipient in the list sorted by hash, counted from 0.  An
\* address given twice takes two neighbouring places.
Places(req, r) ==
  LET before == {x \in req.emails : x < r}
      first == Cardinality(before) + Cardinality(before \intersect req.twice)
  IN  first .. (IF r \in req.twice THEN first + 1 ELSE first)

Splits(req) == req.split /\ Cardinality(req.emails) + Cardinality(req.twice) >= 2

ParentHalf(req) ==
  {r \in req.emails : Splits(req) => \E i \in Places(req, r) : i % 2 = 0}

\* Mutant: the mirrors are not split off.
MirrorOfEveryone(req) == req.emails

MirrorHalf(req) ==
  {r \in req.emails : Splits(req) => \E i \in Places(req, r) : i % 2 = 1}

PinnedTo(req, d) ==
  IF d \in Parents THEN {r \in ParentHalf(req) : ParentOf[r] = d}
                   ELSE {r \in MirrorHalf(req) : MirrorOf[r] = d}

\* Mutant: whoever has a bucket is pinned, whichever half they are in.
PinnedAnywhere(req) ==
  {r \in req.emails : ParentOf[r] # NoDispatch \/ MirrorOf[r] # NoDispatch}

Pinned(req) == UNION {PinnedTo(req, d) : d \in Parents \union Mirrors}

\* The recipients each dispatch gets from a request.
Group(req, d) ==
  IF d = Global THEN req.emails \ Pinned(req) ELSE PinnedTo(req, d)

Groups(req) == {d \in Dispatches : Group(req, d) # {}}

\* The order in which the groups of a request are prepared.
Place(d) ==
  IF d = Global THEN 0
  ELSE IF d \in Parents THEN CHOOSE i \in DOMAIN ParentOrder : ParentOrder[i] = d
  ELSE Len(ParentOrder) + CHOOSE i \in DOMAIN MirrorOrder : MirrorOrder[i] = d

\* The number of a recipient's batch when the rows S are cut into batches.
BatchNumber(S, r) == (Cardinality({x \in S : x < r}) \div BatchSize) + 1

Rows(d) == {r \in Recipients : recipient[d][r] # "absent"}
InBatch(d, n) == {r \in Rows(d) : BatchNumber(Rows(d), r) = n}

-----------------------------------------------------------------------------
(* The handoff transaction.                                                *)

\* Mutant: writes do not wait.
LockedByNobody(d) == FALSE

\* The registry rows a transaction has written, and so locked.
Locked(d) == \E h \in Handlers : draft[h][d] # NoContent

TransactionOver(h, answer) ==
  /\ pc' = [pc EXCEPT ![h] = "idle"]
  /\ outcome' = [outcome EXCEPT ![h] = answer]
  /\ todo' = [todo EXCEPT ![h] = {}]
  /\ draft' = [draft EXCEPT ![h] = [d \in Dispatches |-> NoContent]]
  /\ fresh' = [fresh EXCEPT ![h] = [d \in Dispatches |-> NoIdentity]]
  /\ noted' = [noted EXCEPT ![h] = {}]
  /\ broken' = [broken EXCEPT ![h] = FALSE]
  /\ meanwhile' = [meanwhile EXCEPT ![h] = {}]
  /\ existed' = [existed EXCEPT ![h] = FALSE]
  /\ request' = [request EXCEPT ![h] = CHOOSE req \in Requests : TRUE]

Rollback(h, answer) ==
  /\ TransactionOver(h, answer)
  /\ UNCHANGED <<database, execution, history>>

\* Mutant: a completed campaign is taken again.
ReceiveAlways(h) ==
  /\ pc[h] = "idle"
  /\ handoffs < MaxHandoffs
  /\ handoffs' = handoffs + 1
  /\ \E req \in Requests : request' = [request EXCEPT ![h] = req]
  /\ existed' = [existed EXCEPT ![h] = registry[Global] # "absent"]
  /\ pc' = [pc EXCEPT ![h] = "upsert"]
  /\ outcome' = [outcome EXCEPT ![h] = "none"]
  /\ UNCHANGED <<database, todo, draft, fresh, noted, broken, meanwhile, execution,
                 history, errors>>

\* loadRegistry, without a lock; a completed campaign is answered with 409.
Receive(h) ==
  /\ pc[h] = "idle"
  /\ handoffs < MaxHandoffs
  /\ handoffs' = handoffs + 1
  /\ IF registry[Global] = "completed"
       THEN Rollback(h, "conflict")
       ELSE /\ \E req \in Requests : request' = [request EXCEPT ![h] = req]
            /\ existed' = [existed EXCEPT ![h] = registry[Global] # "absent"]
            /\ pc' = [pc EXCEPT ![h] = "upsert"]
            /\ outcome' = [outcome EXCEPT ![h] = "none"]
            /\ UNCHANGED <<database, todo, draft, fresh, noted, broken,
                           meanwhile, execution, history>>
  /\ UNCHANGED errors

\* The UPDATE waits for a transaction that holds the row.  An INSERT waits
\* for one that inserted the same sendy_campaign_id, and fails if it commits.
\* A campaign without recipients of its own is cancelled.
UpsertRegistry(h) ==
  /\ pc[h] = "upsert"
  /\ ~Locked(Global)
  /\ IF ~existed[h] /\ registry[Global] # "absent"
       THEN Rollback(h, "duplicate_campaign")
       ELSE /\ pc' = [pc EXCEPT ![h] = "select"]
            /\ draft' = [draft EXCEPT ![h][Global] = Cancel]
            /\ todo' = [todo EXCEPT ![h] = Groups(request[h])]
            /\ UNCHANGED <<database, request, existed, fresh, noted, broken,
                           meanwhile, outcome, execution, history>>
  /\ UNCHANGED bounds

\* The group whose turn it is.
Turn(h, d) == d \in todo[h] /\ \A c \in todo[h] : Place(d) <= Place(c)

\* The SELECT of createMirrorRegistry and createPinnedParentRegistry.
SelectRegistry(h) ==
  /\ pc[h] = "select" /\ ~broken[h]
  /\ \E d \in Dispatches :
       /\ Turn(h, d)
       /\ IF d # Global /\ registry[d] = "completed"
          THEN Rollback(h, "conflict")
          ELSE /\ pc' = [pc EXCEPT ![h] = "prepare"]
               /\ UNCHANGED <<database, request, existed, todo, draft, fresh, noted,
                              broken, meanwhile, outcome, execution, history>>
  /\ UNCHANGED bounds

\* createMirrorRegistry and createPinnedParentRegistry derive a negative
\* sendy_campaign_id from the place of the group among this request's groups.
SyntheticIdentity(req, d) ==
  LET kind == IF d \in Parents THEN Parents ELSE Mirrors
  IN  <<IF d \in Parents THEN "parent" ELSE "mirror",
        Cardinality({c \in kind \intersect Groups(req) : Place(c) <= Place(d)})>>

Taken(h, id) == \E d \in Dispatches : identity[d] = id \/ fresh[h][d] = id

\* Mutant: what this transaction inserted is not searched.
CommittedContentMatch(h, d, text) == \E e \in events : e[1] # d /\ e[2] = text

\* findRecentContentMatch: another dispatch had the same content recently.
RecentContentMatch(h, d, text) ==
  \E e \in events \union noted[h] : e[1] # d /\ e[2] = text

\* decideSnapshotPolicy for a mirror and shouldEnforceFingerprintDecision.
Enforced(h, d, text) ==
  /\ d \in Mirrors
  /\ FingerprintMode = "enforce"
  /\ "exact_parent_mirror_clone" \in EnforceReasons
  /\ RecentContentMatch(h, d, text)

\* createContentSnapshot.  A failing fingerprint statement (ok = FALSE) is
\* caught and logged, but leaves the transaction aborted.
ContentSnapshot(h, d, text, ok) ==
  /\ noted' = [noted EXCEPT ![h] = IF ok /\ FingerprintMode # "disabled"
                                   THEN @ \union {<<d, text>>} ELSE @]
  /\ broken' = [broken EXCEPT ![h] = ~ok]
  /\ IF ok THEN UNCHANGED errors
           ELSE /\ FingerprintMode # "disabled"
                /\ errors < MaxErrors
                /\ errors' = errors + 1

\* What the rest of the group's turn writes: its rows, or 'cancelled'.
Decide(h, d, decision) ==
  /\ draft' = [draft EXCEPT ![h][d] = decision]
  /\ todo' = [todo EXCEPT ![h] = @ \ {d}]
  /\ pc' = [pc EXCEPT ![h] = "select"]

AwaitVariant(h, d) ==
  /\ draft' = [draft EXCEPT ![h][d] = Cancel]
  /\ pc' = [pc EXCEPT ![h] = "variant"]
  /\ UNCHANGED todo

\* The registry row of the group, inserted or updated, and its content.
PrepareGroup(h, d) ==
  LET text == request[h].content
      id == SyntheticIdentity(request[h], d)
      inserts == d # Global /\ registry[d] = "absent"
  IN  IF inserts /\ Taken(h, id)
      THEN Rollback(h, "duplicate_identity") /\ UNCHANGED errors
      ELSE /\ fresh' = IF inserts THEN [fresh EXCEPT ![h][d] = id] ELSE fresh
           /\ \E ok \in BOOLEAN :
                /\ ContentSnapshot(h, d, text, ok)
                /\ IF ok /\ Enforced(h, d, text) THEN AwaitVariant(h, d)
                                                ELSE Decide(h, d, text)
           /\ UNCHANGED <<database, request, existed, meanwhile, outcome,
                          execution, history>>

PrepareDispatch(h) ==
  /\ pc[h] = "prepare"
  /\ \E d \in Dispatches : Turn(h, d) /\ PrepareGroup(h, d)
  /\ UNCHANGED handoffs

\* generateFingerprintVariant failed, threw, or is switched off.
VariantRejected(h) ==
  /\ pc[h] = "variant"
  /\ \E d \in Dispatches : Turn(h, d) /\ Decide(h, d, Cancel)
  /\ UNCHANGED <<database, request, existed, fresh, noted, broken, meanwhile,
                 outcome, execution, history, bounds>>

VariantApplied(h) ==
  /\ pc[h] = "variant"
  /\ \E d \in Dispatches, variant \in Variants, ok \in BOOLEAN :
         /\ Turn(h, d)
         /\ ContentSnapshot(h, d, variant, ok)
         /\ Decide(h, d, IF ok /\ Enforced(h, d, variant) THEN Cancel ELSE variant)
  /\ UNCHANGED <<database, request, existed, fresh, meanwhile, outcome, execution,
                 history, handoffs>>

\* A statement fails, or the handler dies.
StatementFails(h) ==
  /\ pc[h] \in InTransaction /\ ~broken[h]
  /\ errors < MaxErrors
  /\ errors' = errors + 1
  /\ Rollback(h, "aborted")
  /\ UNCHANGED handoffs

\* The statement after a failed one: "current transaction is aborted".
StatementRefused(h) ==
  /\ broken[h]
  /\ Rollback(h, "refused")
  /\ UNCHANGED bounds

\* insertRecipients, createBatches and ensureDispatchQueue of every dispatch.
ReplaceRows(writes, req) ==
  /\ gen' = [d \in Dispatches |-> IF d \in writes THEN gen[d] + 1 ELSE gen[d]]
  /\ recipient' = [d \in Dispatches |->
       IF d \in writes
       THEN [r \in Recipients |-> IF r \in Group(req, d) THEN "batched" ELSE "absent"]
       ELSE recipient[d]]
  /\ batch' = [d \in Dispatches |->
       IF d \in writes
       THEN [n \in BatchNumbers |->
               IF \E r \in Group(req, d) : BatchNumber(Group(req, d), r) = n
               THEN "queued" ELSE "absent"]
       ELSE batch[d]]
  /\ queue' = [d \in Dispatches |-> IF d \in writes THEN "queued" ELSE queue[d]]

Commit(h) ==
  LET writes == {d \in Dispatches : draft[h][d] \in Contents}
      atWork == {ex[e].d : e \in Executors}
  IN  /\ pc[h] = "select" /\ ~broken[h] /\ todo[h] = {}
      /\ ReplaceRows(writes, request[h])
      /\ content' = [d \in Dispatches |-> IF d \in writes THEN draft[h][d]
                                                         ELSE content[d]]
      /\ registry' = [d \in Dispatches |->
            IF d \in writes THEN "batched"
            ELSE IF draft[h][d] = Cancel THEN "cancelled" ELSE registry[d]]
      /\ identity' = [d \in Dispatches |->
            IF fresh[h][d] # NoIdentity THEN fresh[h][d] ELSE identity[d]]
      /\ events' = events \union noted[h]
      /\ overrun' = overrun \union (writes \intersect (atWork \union meanwhile[h]))
      /\ stale' = [d \in Dispatches |->
            IF d \in writes /\ \E e \in Executors :
                 ex[e].at = "load" /\ ex[e].d = d /\ ex[e].g = gen[d]
            THEN stale[d] + 1 ELSE stale[d]]
      /\ TransactionOver(h, "ok")
      /\ UNCHANGED <<execution, bounds>>

\* The window of findRecentContentMatch passes.
EventsExpire ==
  /\ events # {}
  /\ events' = {}
  /\ UNCHANGED <<rows, registry, queue, recipient, batch, transaction,
                 execution, history, bounds>>

-----------------------------------------------------------------------------
(* Executors (relay-executor.js).                                          *)

BatchesOfState(d, states) == {n \in BatchNumbers : batch[d][n] \in states}

\* Mutant: the batch is written by its key, not its id.
SetBatchByKey(e, state) == batch' = [batch EXCEPT ![ex[e].d][ex[e].b] = state]

\* A statement on a batch row of an earlier generation updates nothing.
SetBatch(e, state) ==
  batch' = IF gen[ex[e].d] = ex[e].g
           THEN [batch EXCEPT ![ex[e].d][ex[e].b] = state] ELSE batch

ClosedMeanwhile(d) ==
  /\ meanwhile' = [h \in Handlers |->
       IF pc[h] = "idle" THEN meanwhile[h] ELSE meanwhile[h] \union {d}]
  /\ UNCHANGED <<pc, request, existed, todo, draft, fresh, noted, broken, outcome>>

Step(e, at) == ex' = [ex EXCEPT ![e].at = at]

Claim(e, d) ==
  LET waiting == BatchesOfState(d, {"queued"})
  IN  /\ ex[e].at = "off"
      /\ queue[d] \in OpenQueue
      /\ BatchesOfState(d, {"running"}) = {}
      /\ waiting # {}
      /\ \E n \in waiting :
           /\ \A m \in waiting : n <= m
           /\ ex' = [ex EXCEPT ![e] = [at |-> "load", d |-> d, g |-> gen[d],
                                      b |-> n, rows |-> 0, load |-> {}, failed |-> FALSE]]
           /\ batch' = [batch EXCEPT ![d][n] = "running"]
      /\ queue' = [queue EXCEPT ![d] = "running"]
      /\ UNCHANGED <<rows, registry, recipient, events, transaction,
                     mails, history, bounds>>

\* reconcileDispatchWithoutQueuedBatch
Reconcile(e, d) ==
  LET failed == BatchesOfState(d, {"failed"}) # {} \/
                \E r \in Recipients : recipient[d][r] = "batched"
  IN  /\ ex[e].at = "off"
      /\ queue[d] \in OpenQueue
      /\ BatchesOfState(d, {"queued", "running"}) = {}
      /\ ~Locked(d)
      /\ queue' = [queue EXCEPT ![d] = IF failed THEN "failed" ELSE "completed"]
      /\ registry' = [registry EXCEPT ![d] =
            IF failed THEN IF @ = "completed" THEN @ ELSE "failed"
                      ELSE IF @ = "failed" THEN @ ELSE "completed"]
      /\ ClosedMeanwhile(d)
      /\ UNCHANGED <<rows, recipient, batch, events, execution, history, bounds>>

\* loadRecipients selects by batch_key: whatever generation is there now.
Load(e) ==
  LET d == ex[e].d
      found == {r \in InBatch(d, ex[e].b) : recipient[d][r] = "batched"}
  IN  /\ ex[e].at = "load"
      /\ found # {}
      /\ ex' = [ex EXCEPT ![e].at = "mark", ![e].load = found, ![e].rows = gen[d]]
      /\ UNCHANGED <<database, transaction, mails, history, bounds>>

\* failBatchAndDispatch: the batch by its id, the queue row by its campaign.
LoadNothing(e) ==
  LET d == ex[e].d IN
  /\ ex[e].at = "load"
  /\ ~Locked(d)
  /\ {r \in InBatch(d, ex[e].b) : recipient[d][r] = "batched"} = {}
  /\ SetBatch(e, "failed")
  /\ queue' = [queue EXCEPT ![d] = IF @ \in OpenQueue THEN "failed" ELSE @]
  /\ registry' = [registry EXCEPT ![d] = IF @ = "completed" THEN @ ELSE "failed"]
  /\ ex' = [ex EXCEPT ![e] = Idle]
  /\ ClosedMeanwhile(d)
  /\ UNCHANGED <<rows, recipient, events, mails, history, bounds>>

MarkDispatchRunning(e) ==
  /\ ex[e].at = "mark"
  /\ ~Locked(ex[e].d)
  /\ registry' = [registry EXCEPT ![ex[e].d] = IF @ = "batched" THEN "running" ELSE @]
  /\ queue' = [queue EXCEPT ![ex[e].d] = IF @ = "queued" THEN "running" ELSE @]
  /\ Step(e, "send")
  /\ UNCHANGED <<rows, recipient, batch, events, transaction, mails, history,
                 bounds>>

\* The mail, and the row by its recipient_queue_id.
Send(e) ==
  LET d == ex[e].d IN
  /\ ex[e].at = "send"
  /\ \E r \in ex[e].load :
       /\ \A s \in ex[e].load : r <= s
       /\ mails' = [mails EXCEPT ![d][r] = @ + 1]
       /\ recipient' = IF gen[d] = ex[e].rows
                       THEN [recipient EXCEPT ![d][r] = "sent"] ELSE recipient
       /\ ex' = [ex EXCEPT ![e].load = @ \ {r},
                           ![e].at = IF ex[e].load = {r} THEN "finish" ELSE "send"]
  /\ UNCHANGED <<rows, registry, queue, batch, events, transaction, history,
                 bounds>>

FinishBatchOrRequeue(e) ==
  LET d == ex[e].d
      remaining == {r \in InBatch(d, ex[e].b) : recipient[d][r] = "batched"}
  IN  /\ ex[e].at = "finish"
      /\ SetBatch(e, IF remaining = {} THEN "completed" ELSE "queued")
      /\ Step(e, "count")
      /\ UNCHANGED <<rows, registry, queue, recipient, events, transaction,
                     mails, history, bounds>>

\* Mutant: queued batches do not count as open.
CountRunningBatches(e) ==
  LET d == ex[e].d IN
  /\ ex[e].at = "count"
  /\ ex' = [ex EXCEPT ![e] =
       IF BatchesOfState(d, {"running"}) # {} THEN Idle
       ELSE [@ EXCEPT !.at = "close_queue",
                      !.failed = BatchesOfState(d, {"failed"}) # {}]]
  /\ UNCHANGED <<database, transaction, mails, history, bounds>>

CountOpenBatches(e) ==
  LET d == ex[e].d IN
  /\ ex[e].at = "count"
  /\ ex' = [ex EXCEPT ![e] =
       IF BatchesOfState(d, {"queued", "running"}) # {} THEN Idle
       ELSE [@ EXCEPT !.at = "close_queue",
                      !.failed = BatchesOfState(d, {"failed"}) # {}]]
  /\ UNCHANGED <<database, transaction, mails, history, bounds>>

\* Mutant: a state outside the CHECK constraint.
VerdictUnknown(e) == IF ex[e].failed THEN "error" ELSE "completed"

Verdict(e) == IF ex[e].failed THEN "failed" ELSE "completed"

CloseQueue(e) ==
  /\ ex[e].at = "close_queue"
  /\ queue' = [queue EXCEPT ![ex[e].d] = Verdict(e)]
  /\ Step(e, "close_registry")
  /\ UNCHANGED <<rows, registry, recipient, batch, events, transaction, mails,
                 history, bounds>>

CloseRegistry(e) ==
  LET d == ex[e].d IN
  /\ ex[e].at = "close_registry"
  /\ ~Locked(d)
  /\ registry' = [registry EXCEPT ![d] = Verdict(e)]
  /\ ex' = [ex EXCEPT ![e] = Idle]
  /\ ClosedMeanwhile(d)
  /\ UNCHANGED <<rows, queue, recipient, batch, events, mails, history, bounds>>

-----------------------------------------------------------------------------

HandlerStep(h) ==
  \/ Receive(h) \/ UpsertRegistry(h) \/ SelectRegistry(h) \/ PrepareDispatch(h)
  \/ VariantRejected(h) \/ VariantApplied(h) \/ Commit(h)
  \/ StatementFails(h) \/ StatementRefused(h)

ExecutorStep(e) ==
  \/ \E d \in Dispatches : Claim(e, d) \/ Reconcile(e, d)
  \/ Load(e) \/ LoadNothing(e) \/ MarkDispatchRunning(e) \/ Send(e)
  \/ FinishBatchOrRequeue(e) \/ CountOpenBatches(e) \/ CloseQueue(e)
  \/ CloseRegistry(e)

Next ==
  \/ \E h \in Handlers : HandlerStep(h)
  \/ \E e \in Executors : ExecutorStep(e)
  \/ EventsExpire

Spec == Init /\ [][Next]_vars

-----------------------------------------------------------------------------
(* Properties.                                                             *)

Commits(h) == pc[h] = "select" /\ pc'[h] = "idle" /\ outcome'[h] = "ok"
Written(h) == {d \in Dispatches : draft[h][d] \in Contents}

\* A handoff that commits leaves no requested recipient out: each is batched
\* in a dispatch it wrote, or pinned to a mirror it cancelled
\* (handleSnapshotHandoff's split into global, parent and mirror recipients).
EveryRecipientPlanned ==
  [][\A h \in Handlers : Commits(h) =>
       \A r \in request[h].emails :
         \/ \E d \in Written(h) : recipient'[d][r] = "batched"
         \/ MirrorOf[r] \in Mirrors /\ draft[h][MirrorOf[r]] = Cancel]_vars

\* An automated test campaign is split between senders: an address given once
\* is batched by a single dispatch, so it gets one copy
\* (splitRecipientsForTestMirrors).
SplitMailsOneCopy ==
  [][\A h \in Handlers : Commits(h) /\ Splits(request[h]) =>
       \A r \in request[h].emails \ request[h].twice :
         Cardinality({d \in Written(h) : recipient'[d][r] = "batched"}) <= 1]_vars

\* Under enforcement no mirror is queued with the content of another dispatch
\* of the same handoff, the case exact_parent_mirror_clone is about.
NoClonedMirrorQueued ==
  [][FingerprintMode = "enforce" /\ "exact_parent_mirror_clone" \in EnforceReasons =>
       \A h \in Handlers : Commits(h) =>
         \A m \in Mirrors \intersect Written(h), d \in Written(h) :
           m # d => content'[m] # content'[d]]_vars

\* However handoffs are repeated under running executors, a dispatch mails a
\* recipient at most once per committed handoff, and once more for each that
\* replaced the rows between an executor's claim and its load: that executor
\* loads the rows of the new handoff (loadRecipients selects by batch_key).
OncePerHandoff ==
  \A d \in Dispatches, r \in Recipients : mails[d][r] <= gen[d] + stale[d]

\* A dispatch that no handoff rewrote under an executor never strands a row:
\* a batched recipient lies in a queued or running batch, and while a batch is
\* queued the dispatch can be claimed (createBatches, ensureDispatchQueue).
NothingStranded ==
  \A d \in Dispatches \ overrun :
    /\ \A r \in Rows(d) : recipient[d][r] = "batched" =>
         batch[d][BatchNumber(Rows(d), r)] \in {"queued", "running"}
    /\ BatchesOfState(d, {"queued", "running"}) # {} => queue[d] \in OpenQueue

\* A completed dispatch changes its state again only by a handoff that began
\* before it was completed, or after one rewrote it under an executor: the 409
\* check reads without a lock, and closeDispatchIfDone writes without a condition.
ReopenedOnlyByRace ==
  [][\A d \in Dispatches : registry[d] = "completed" /\ registry'[d] # "completed" =>
       \/ \E h \in Handlers : Commits(h) /\ d \in meanwhile[h]
       \/ d \in overrun]_vars

\* Two handoffs of a campaign never hold its registry rows together, and a
\* later one builds on what the earlier one committed: no parent or mirror
\* dispatch is given an identity twice.
OneWriterPerCampaign ==
  /\ \A h, k \in Handlers : draft[h][Global] # NoContent /\ draft[k][Global] # NoContent
       => h = k
  /\ \A c, d \in Dispatches : identity[c] = identity[d] /\ identity[c] # NoIdentity
       => c = d

\* What a handoff queued is sent, as long as handlers and executors keep
\* running and no handoff replaced the rows under an executor.
FairSpec ==
  /\ Spec
  /\ \A h \in Handlers :
       WF_vars(UpsertRegistry(h) \/ SelectRegistry(h) \/ PrepareDispatch(h)
               \/ VariantRejected(h) \/ Commit(h) \/ StatementRefused(h))
  /\ \A e \in Executors : WF_vars(ExecutorStep(e))

HandedOffIsSent ==
  \A d \in Dispatches :
    (\E r \in Recipients : recipient[d][r] = "batched")
      ~> (d \in overrun \/ \A r \in Recipients : recipient[d][r] # "batched")

=============================================================================
