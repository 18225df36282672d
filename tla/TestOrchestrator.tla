-------------------------- MODULE TestOrchestrator --------------------------
(***************************************************************************)
(* One day of the test mail orchestrator (src/test-mail-orchestrator.js),  *)
(* started by cron (scripts/run-test-orchestrator-cron.sh): every run      *)
(* plans the whole day again, picks the slots that are due within the      *)
(* lookback, and posts one handoff after the other; the first handoff that *)
(* fails ends the run.  The dispatcher behind the endpoint is reduced to   *)
(* what a run can notice: it refuses a campaign that is completed, and     *)
(* plans any other campaign from the posted recipients.                    *)
(*                                                                         *)
(* Hashes and the seeded generator only make choices repeatable: what they *)
(* choose is chosen once, in Init.  Seeds are numbered in hash order.      *)
(***************************************************************************)
EXTENDS Integers, SequencesExt

CONSTANTS
  Brands,          \* tenant keys, in the order of localeCompare
  FullPool,        \* brands whose slots take every recipient (shopology)
  NumSeeds,        \* test recipients of a brand
  MinPerSlot, MaxPerSlot,      \* recipientCohorts
  MaxSlots,        \* dailySends.maxPerBrand; minPerBrand is 1
  WindowStart, WindowEnd,      \* sendWindow, in minutes
  Lookback,        \* TEST_ORCHESTRATOR_DUE_LOOKBACK_MINUTES
  Limit,           \* TEST_ORCHESTRATOR_LIMIT
  Every,           \* minutes between two runs
  DayEnd,          \* bound on the clock
  MaxFailures,     \* bound on runs that fail
  MaxChanges       \* bound on recipients switched on or off

ASSUME OrchestratorAssumption ==
  /\ Brands \in Seq(STRING) /\ FullPool \subseteq Range(Brands)
  /\ MinPerSlot \in Nat \ {0} /\ MaxPerSlot \in Nat /\ MinPerSlot <= MaxPerSlot
  /\ NumSeeds \in Nat /\ MaxSlots \in Nat \ {0}
  /\ WindowStart \in Nat /\ WindowEnd \in Nat /\ WindowStart < WindowEnd
  /\ Every \in Nat \ {0} /\ DayEnd \in Nat
  /\ Lookback \in Nat /\ Limit \in Int
  /\ MaxFailures \in Nat /\ MaxChanges \in Nat

VARIABLES
  now,        \* minute of the day
  minuteOf,   \* minute of a slot, Unplanned when the day does not have it
  sizeOf,     \* minRecipientsPerSlot + hash % range
  enabled,    \* recipients of a brand that are switched on
  bell,       \* cron has to start a run
  due,        \* due slots the run has still to post
  cohort,     \* what the run selected for each slot
  registry,   \* direct_dispatch_state of a slot's campaign
  waiting,    \* recipients of the campaign that are not mailed yet
  handed,     \* every recipient the slot was ever handed off with
  cut,        \* slots that a failed or missing run left behind
  failures, changes

vars == <<now, minuteOf, sizeOf, enabled, bell, due, cohort, registry,
          waiting, handed, cut, failures, changes>>

plan == <<minuteOf, sizeOf>>
dispatcher == <<registry, waiting, handed>>

BrandSet == Range(Brands)
Seeds == 1..NumSeeds
Slots == [brand : BrandSet, index : 1..MaxSlots]
Unplanned == -1
Planned == {s \in Slots : minuteOf[s] # Unplanned}

-----------------------------------------------------------------------------
(* The plan of the day.                                                    *)

\* Math.floor((random() - 0.5) * Math.min(baseGap * 0.7, 55))
Jitters(count) ==
  LET twentieths == IF 7 * (WindowEnd - WindowStart) < 550 * count
                    THEN 7 * (WindowEnd - WindowStart) ELSE 550 * count
      half == (twentieths + 20 * count - 1) \div (20 * count)
  IN (-half)..(half - 1)

Clamp(lo, hi, x) == IF x < lo THEN lo ELSE IF x > hi THEN hi ELSE x

\* The minute of slot i (from 1) of a day with count slots.
SlotMinutes(count, i) ==
  {Clamp(WindowStart, WindowEnd - 1,
         WindowStart + ((2 * i - 1) * (WindowEnd - WindowStart)) \div (2 * count) + j)
     : j \in Jitters(count)}

\* The first count slots of a brand are planned, each in its share of the window.
DayOf(m, b, count) ==
  \A i \in 1..MaxSlots :
    m[[brand |-> b, index |-> i]] \in
      IF i <= count THEN SlotMinutes(count, i) ELSE {Unplanned}

BuildDailySlots ==
  {m \in [Slots -> (WindowStart..(WindowEnd - 1)) \union {Unplanned}] :
     \A b \in BrandSet : \E count \in 1..MaxSlots : DayOf(m, b, count)}

\* The elements of S, sorted: i - 1 others come before the i-th.
InOrder(S, before) ==
  [i \in 1..Cardinality(S) |->
     CHOOSE x \in S : Cardinality({y \in S : <<y, x>> \in before}) = i - 1]

HashOrder == {p \in Seeds \X Seeds : p[1] < p[2]}

\* Mutant: the cohorts of a brand start minRecipientsPerSlot apart.
OverlappingCohort(s) ==
  LET ordered == InOrder(enabled[s.brand], HashOrder)
      n == Len(ordered)
      start == (s.index - 1) * MinPerSlot
  IN IF s.brand \in FullPool \/ n <= MaxPerSlot THEN enabled[s.brand]
     ELSE {ordered[((start + k) % n) + 1] : k \in 0..(sizeOf[s] - 1)}

SelectRecipientsForSlot(s) ==
  LET ordered == InOrder(enabled[s.brand], HashOrder)
      n == Len(ordered)
      start == (s.index - 1) * MaxPerSlot
  IN IF s.brand \in FullPool \/ n <= MaxPerSlot THEN enabled[s.brand]
     ELSE {ordered[((start + k) % n) + 1] : k \in 0..(sizeOf[s] - 1)}

IsSlotDue(s, t) == minuteOf[s] <= t /\ t - minuteOf[s] <= Lookback

DueAt(t) == {s \in Planned : IsSlotDue(s, t)}

\* comparePlannedBySlot; the sort keeps a brand's own slots in their order.
Position(b) == CHOOSE k \in DOMAIN Brands : Brands[k] = b
ComparePlannedBySlot ==
  {p \in Slots \X Slots :
     LET s == p[1] t == p[2] IN
     \/ minuteOf[s] < minuteOf[t]
     \/ minuteOf[s] = minuteOf[t] /\ Position(s.brand) < Position(t.brand)
     \/ minuteOf[s] = minuteOf[t] /\ s.brand = t.brand /\ s.index < t.index}

\* Mutant: the limit of a preview, one slot.
PickedFirst(t) ==
  LET all == InOrder(DueAt(t), ComparePlannedBySlot)
  IN SubSeq(all, 1, IF all = <<>> THEN 0 ELSE 1)

\* planned.filter(due).slice(0, Math.max(limit, 1))
Picked(t) ==
  LET all == InOrder(DueAt(t), ComparePlannedBySlot)
      n == IF Limit > 1 THEN Limit ELSE 1
  IN SubSeq(all, 1, IF Len(all) < n THEN Len(all) ELSE n)

-----------------------------------------------------------------------------

Init ==
  /\ now = 0
  /\ minuteOf \in BuildDailySlots
  /\ sizeOf \in [Slots -> MinPerSlot..MaxPerSlot]
  /\ enabled = [b \in BrandSet |-> Seeds]
  /\ bell = FALSE
  /\ due = <<>>
  /\ cohort = [s \in Slots |-> {}]
  /\ registry = [s \in Slots |-> "none"]
  /\ waiting = [s \in Slots |-> {}]
  /\ handed = [s \in Slots |-> {}]
  /\ cut = {}
  /\ failures = 0
  /\ changes = 0

\* The clock.  Cron rings every Every minutes; it starts no run while the
\* last one is still going.
Tick ==
  /\ now < DayEnd /\ ~bell
  /\ now' = now + 1
  /\ LET rings == (now + 1) % Every = 0
     IN /\ bell' = (rings /\ due = <<>>)
        /\ cut' = IF rings /\ due # <<>> THEN cut \union DueAt(now + 1) ELSE cut
  /\ UNCHANGED <<plan, enabled, due, cohort, dispatcher, failures, changes>>

\* main up to the loop over the due slots.
PlanDay ==
  /\ bell
  /\ bell' = FALSE
  /\ due' = Picked(now)
  /\ cohort' = [s \in Slots |-> IF s \in Planned THEN SelectRecipientsForSlot(s) ELSE {}]
  /\ UNCHANGED <<now, plan, enabled, dispatcher, cut, failures, changes>>

\* A brand without an enabled sender, or a query that fails, ends the run
\* before anything is posted, for every brand.
PlanFails ==
  /\ bell /\ failures < MaxFailures
  /\ bell' = FALSE
  /\ failures' = failures + 1
  /\ cut' = cut \union DueAt(now)
  /\ UNCHANGED <<now, plan, enabled, due, cohort, dispatcher, changes>>

\* handleSnapshotHandoff: 409 alreadyCompleted.
Refused(s) == registry[s] = "completed"

\* The dispatcher replaces what is left of the campaign by the posted rows.
Accept(s) ==
  /\ registry' = [registry EXCEPT ![s] = "running"]
  /\ waiting' = [waiting EXCEPT ![s] = cohort[s]]
  /\ handed' = [handed EXCEPT ![s] = @ \union cohort[s]]

\* postHandoff with a good answer.
PostHandoff ==
  /\ due # <<>> /\ ~Refused(Head(due))
  /\ Accept(Head(due))
  /\ due' = Tail(due)
  /\ UNCHANGED <<now, plan, enabled, bell, cohort, cut, failures, changes>>

\* postHandoff with 409 alreadyCompleted: reported as skipped.
SkipCompleted ==
  /\ due # <<>> /\ Refused(Head(due))
  /\ due' = Tail(due)
  /\ UNCHANGED <<now, plan, enabled, bell, cohort, dispatcher, cut, failures,
                 changes>>

\* postHandoff throws: the handoff was rejected or did not arrive, or it was
\* committed and the answer was lost.  main gives up the other due slots.
PostFails ==
  /\ due # <<>> /\ failures < MaxFailures
  /\ \/ UNCHANGED dispatcher
     \/ ~Refused(Head(due)) /\ Accept(Head(due))
  /\ due' = <<>>
  /\ cut' = cut \union Range(due)
  /\ failures' = failures + 1
  /\ UNCHANGED <<now, plan, enabled, bell, cohort, changes>>

\* An executor mails the campaign's next recipient.
MailNext(s) ==
  /\ registry[s] = "running" /\ waiting[s] # {}
  /\ waiting' = [waiting EXCEPT ![s] = @ \ {CHOOSE r \in @ : \A x \in @ : r <= x}]
  /\ UNCHANGED <<now, plan, enabled, bell, due, cohort, registry, handed, cut,
                 failures, changes>>

\* An executor finishes the campaign.
Complete(s) ==
  /\ registry[s] = "running" /\ waiting[s] = {}
  /\ registry' = [registry EXCEPT ![s] = "completed"]
  /\ UNCHANGED <<now, plan, enabled, bell, due, cohort, waiting, handed,
                 cut, failures, changes>>

\* An operator switches a test recipient on or off.
SwitchRecipient(b, r) ==
  /\ changes < MaxChanges
  /\ enabled' = [enabled EXCEPT ![b] = IF r \in @ THEN @ \ {r} ELSE @ \union {r}]
  /\ changes' = changes + 1
  /\ UNCHANGED <<now, plan, bell, due, cohort, dispatcher, cut, failures>>

Next ==
  \/ Tick
  \/ PlanDay
  \/ PlanFails
  \/ PostHandoff
  \/ SkipCompleted
  \/ PostFails
  \/ \E s \in Slots : MailNext(s)
  \/ \E s \in Slots : Complete(s)
  \/ \E b \in BrandSet, r \in Seeds : SwitchRecipient(b, r)

Spec == Init /\ [][Next]_vars

-----------------------------------------------------------------------------
(* Properties.                                                             *)

\* A slot whose window is over was handed off, or is about to be, unless a run
\* that should have posted it failed or could not start: runs at most
\* Lookback + 1 minutes apart leave no minute of the day out (isSlotDue, the
\* limit and the order of the due slots).
NoSlotForgotten ==
  \A s \in Planned :
    (now > minuteOf[s] + Lookback /\ ~bell)
      => registry[s] # "none" \/ s \in Range(due) \/ s \in cut

\* Enough recipients for separate cohorts means separate cohorts: over all runs
\* of the day no recipient is handed off by two slots of a brand, and no slot
\* takes more than maxRecipientsPerSlot (selectRecipientsForSlot).
CohortsAreApart ==
  \A s, t \in Slots :
    (/\ s.brand = t.brand /\ s # t /\ s.brand \notin FullPool
     /\ changes = 0 /\ NumSeeds >= MaxSlots * MaxPerSlot /\ NumSeeds > MaxPerSlot)
      => handed[s] \intersect handed[t] = {} /\ Cardinality(handed[s]) <= MaxPerSlot

=============================================================================
