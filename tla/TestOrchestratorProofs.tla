----------------------- MODULE TestOrchestratorProofs -----------------------
(***************************************************************************)
(* What the cron runs of a day promise, for every plan of the day, any     *)
(* number of brands, slots and recipients, and any failures.               *)
(***************************************************************************)
EXTENDS TestOrchestrator, FiniteSetTheorems, TLAPS

-----------------------------------------------------------------------------
(* Sorting.  An element of a finite, totally ordered set is known by how    *)
(* many others come before it.                                             *)

Rank(S, before, x) == Cardinality({y \in S : <<y, x>> \in before})

LEMMA Ranks ==
  ASSUME NEW S, IsFiniteSet(S), NEW R,
         \A x \in S : <<x, x>> \notin R,
         \A x, y, z \in S : <<x, y>> \in R /\ <<y, z>> \in R => <<x, z>> \in R,
         \A x, y \in S : x # y => <<x, y>> \in R \/ <<y, x>> \in R
  PROVE  /\ \A i \in 1..Cardinality(S) : \E x \in S : Rank(S, R, x) = i - 1
         /\ \A x \in S : Rank(S, R, x) \in Nat /\ Rank(S, R, x) + 1 \in 1..Cardinality(S)
         /\ \A x, y \in S : Rank(S, R, x) = Rank(S, R, y) => x = y
<1> DEFINE Below(x) == {y \in S : <<y, x>> \in R}
           n == Cardinality(S)
           rank == [x \in S |-> Cardinality(Below(x)) + 1]
<1>1. n \in Nat
  BY FS_CardinalityType
<1>2. ASSUME NEW x \in S
      PROVE  Cardinality(Below(x)) \in Nat /\ Cardinality(Below(x)) + 1 \in 1..n
  <2>1. Below(x) \in SUBSET S /\ x \notin Below(x)
    OBVIOUS
  <2>2. Below(x) # S
    BY <2>1
  <2> HIDE DEF Below
  <2>3. IsFiniteSet(Below(x)) /\ Cardinality(Below(x)) <= n /\ Cardinality(Below(x)) # n
    BY <2>1, <2>2, FS_Subset
  <2>4. Cardinality(Below(x)) \in Nat
    BY <2>3, FS_CardinalityType
  <2> HIDE DEF n
  <2> QED
    BY <1>1, <2>3, <2>4
<1>3. ASSUME NEW x \in S, NEW y \in S, <<x, y>> \in R
      PROVE  Cardinality(Below(x)) # Cardinality(Below(y))
  <2>1. Below(x) \in SUBSET Below(y) /\ x \in Below(y) /\ x \notin Below(x)
    BY <1>3
  <2>2. IsFiniteSet(Below(y))
    BY FS_Subset, Below(y) \in SUBSET S
  <2>3. Below(x) # Below(y)
    BY <2>1
  <2> HIDE DEF Below
  <2> QED
    BY <2>1, <2>2, <2>3, FS_Subset
<1>4. ASSUME NEW x \in S, NEW y \in S, Cardinality(Below(x)) = Cardinality(Below(y))
      PROVE  x = y
  BY <1>3, <1>4
<1> HIDE DEF Below
<1>5. rank \in Injection(S, 1..n)
  <2>1. rank \in [S -> 1..n]
    BY <1>2
  <2>2. \A x, y \in S : rank[x] = rank[y] => x = y
    BY <1>2, <1>4
  <2> QED
    BY <2>1, <2>2 DEF Injection, IsInjective
<1>6. rank \in Surjection(S, 1..n)
  <2>1. IsFiniteSet(1..n) /\ Cardinality(1..n) = n
    BY <1>1, FS_Interval
  <2> QED
    BY <1>5, <2>1, FS_Injection
<1>7. ASSUME NEW i \in 1..n
      PROVE  \E x \in S : Cardinality(Below(x)) = i - 1
  <2>1. PICK x \in S : rank[x] = i
    BY <1>6 DEF Surjection
  <2>2. Cardinality(Below(x)) + 1 = i
    BY <2>1
  <2> QED
    BY <1>2, <2>2
<1> QED
  BY <1>2, <1>4, <1>7 DEF Below, Rank

\* A sorted sequence has every element at one place.
LEMMA Sorted ==
  ASSUME NEW S, IsFiniteSet(S), NEW R,
         \A x \in S : <<x, x>> \notin R,
         \A x, y, z \in S : <<x, y>> \in R /\ <<y, z>> \in R => <<x, z>> \in R,
         \A x, y \in S : x # y => <<x, y>> \in R \/ <<y, x>> \in R
  PROVE  /\ InOrder(S, R) \in [1..Cardinality(S) -> S]
         /\ InOrder(S, R) \in Seq(S) /\ Len(InOrder(S, R)) = Cardinality(S)
         /\ \A i, j \in 1..Cardinality(S) : InOrder(S, R)[i] = InOrder(S, R)[j] => i = j
         /\ \A x \in S : \E i \in 1..Cardinality(S) : InOrder(S, R)[i] = x
<1> DEFINE n == Cardinality(S)
           f == InOrder(S, R)
<1>1. n \in Nat
  BY FS_CardinalityType
<1>2. /\ \A i \in 1..n : \E x \in S : Rank(S, R, x) = i - 1
      /\ \A x \in S : Rank(S, R, x) \in Nat /\ Rank(S, R, x) + 1 \in 1..n
      /\ \A x, y \in S : Rank(S, R, x) = Rank(S, R, y) => x = y
  BY Ranks
<1>3. f = [i \in 1..n |-> CHOOSE x \in S : Rank(S, R, x) = i - 1]
  BY DEF InOrder, Rank
<1>4. Len(f) = n
  BY <1>1, <1>3
<1> HIDE DEF n, f
<1>5. ASSUME NEW i \in 1..n
      PROVE  f[i] \in S /\ Rank(S, R, f[i]) = i - 1
  BY <1>2, <1>3
<1>6. ASSUME NEW x \in S
      PROVE  \E i \in 1..n : f[i] = x
  <2> DEFINE k == Rank(S, R, x) + 1
  <2>1. k \in 1..n
    BY <1>2
  <2>2. f[k] \in S /\ Rank(S, R, f[k]) = Rank(S, R, x)
    <3>1. f[k] \in S /\ Rank(S, R, f[k]) = k - 1
      BY <1>5, <2>1
    <3>2. k - 1 = Rank(S, R, x)
      BY <1>2
    <3> QED
      BY <3>1, <3>2
  <2> QED
    BY <1>2, <2>1, <2>2
<1>7. f \in [1..n -> S]
  BY <1>3, <1>5
<1>8. f \in Seq(S)
  BY <1>1, <1>7
<1>9. \A i, j \in 1..n : f[i] = f[j] => i = j
  BY <1>1, <1>5
<1> QED
  BY <1>4, <1>6, <1>7, <1>8, <1>9 DEF n, f

LEMMA SlotsFinite == IsFiniteSet(Slots) /\ IsFiniteSet(BrandSet)
<1>1. Brands \in [1..Len(Brands) -> STRING] /\ Len(Brands) \in Nat
  BY OrchestratorAssumption
<1>2. IsFiniteSet(1..Len(Brands)) /\ IsFiniteSet(1..MaxSlots)
  BY <1>1, OrchestratorAssumption, FS_Interval
<1>3. Brands \in Surjection(1..Len(Brands), BrandSet)
  BY <1>1 DEF BrandSet, Range, Surjection
<1>4. IsFiniteSet(BrandSet)
  BY <1>2, <1>3, FS_Surjection
<1>5. IsFiniteSet(BrandSet \X (1..MaxSlots))
  BY <1>2, <1>4, FS_Product
<1> DEFINE P == BrandSet \X (1..MaxSlots)
           f == [p \in P |-> [brand |-> p[1], index |-> p[2]]]
<1>6. f \in Surjection(P, Slots)
  <2>1. f \in [P -> Slots]
    BY DEF Slots
  <2>2. ASSUME NEW s \in Slots
        PROVE  \E p \in P : f[p] = s
    <3>1. <<s.brand, s.index>> \in P
      BY DEF Slots
    <3>2. f[<<s.brand, s.index>>] = s
      BY <3>1 DEF Slots
    <3> QED
      BY <3>1, <3>2
  <2> QED
    BY <2>1, <2>2 DEF Surjection
<1> QED
  BY <1>4, <1>5, <1>6, FS_Surjection

-----------------------------------------------------------------------------
(* Cohorts.                                                                *)

Seed == InOrder(Seeds, HashOrder)

\* Every recipient has one place in the order.
LEMMA SeedOrder ==
  /\ Len(Seed) = NumSeeds
  /\ \A i, j \in 1..NumSeeds : Seed[i] = Seed[j] => i = j
<1>1. IsFiniteSet(Seeds) /\ Cardinality(Seeds) = NumSeeds /\ NumSeeds \in Nat
  BY OrchestratorAssumption, FS_Interval DEF Seeds
<1>2. /\ \A x \in Seeds : <<x, x>> \notin HashOrder
      /\ \A x, y, z \in Seeds :
           <<x, y>> \in HashOrder /\ <<y, z>> \in HashOrder => <<x, z>> \in HashOrder
      /\ \A x, y \in Seeds : x # y => <<x, y>> \in HashOrder \/ <<y, x>> \in HashOrder
  BY OrchestratorAssumption DEF Seeds, HashOrder
<1> QED
  BY <1>1, <1>2, Sorted DEF Seed

\* There are enough recipients for every slot of a brand to have its own.
Enough == NumSeeds >= MaxSlots * MaxPerSlot /\ NumSeeds > MaxPerSlot

Share(s) == {Seed[(s.index - 1) * MaxPerSlot + k + 1] : k \in 0..(sizeOf[s] - 1)}

LEMMA NextShare ==
  ASSUME NEW i \in Nat \ {0}, NEW j \in Nat, i < j
  PROVE  (j - 1) * MaxPerSlot >= (i - 1) * MaxPerSlot + MaxPerSlot
<1>1. j - 1 = (i - 1) + 1 + (j - i - 1) /\ j - i - 1 \in Nat /\ i - 1 \in Nat
  OBVIOUS
<1>2. MaxPerSlot \in Nat
  BY OrchestratorAssumption
<1>3. \A a, b \in Nat : (a + 1 + b) * MaxPerSlot = a * MaxPerSlot + MaxPerSlot + b * MaxPerSlot
                        /\ b * MaxPerSlot >= 0 /\ a * MaxPerSlot \in Nat
  BY <1>2
<1> QED
  BY <1>1, <1>2, <1>3

\* A place of a share lies before the end of the order.
LEMMA PlaceInOrder ==
  ASSUME Enough, NEW s \in Slots, sizeOf[s] \in MinPerSlot..MaxPerSlot,
         NEW k \in 0..(sizeOf[s] - 1)
  PROVE  /\ (s.index - 1) * MaxPerSlot \in Nat
         /\ (s.index - 1) * MaxPerSlot + k \in 0..(NumSeeds - 1)
         /\ k < MaxPerSlot
<1>1. s.index \in 1..MaxSlots /\ MaxPerSlot \in Nat /\ MinPerSlot \in Nat /\ k < MaxPerSlot
      /\ MaxSlots \in Nat /\ NumSeeds \in Nat
  BY OrchestratorAssumption DEF Slots
<1>2. (s.index - 1) * MaxPerSlot \in Nat
  BY <1>1
<1>3. MaxSlots * MaxPerSlot >= (s.index - 1) * MaxPerSlot + MaxPerSlot
  <2>1. MaxSlots + 1 \in Nat /\ s.index \in Nat \ {0} /\ s.index < MaxSlots + 1
    BY <1>1
  <2>2. ((MaxSlots + 1) - 1) * MaxPerSlot >= (s.index - 1) * MaxPerSlot + MaxPerSlot
    BY <2>1, NextShare
  <2> QED
    BY <1>1, <2>2
<1>4. MaxSlots * MaxPerSlot \in Nat
  BY <1>1
<1> QED
  BY <1>1, <1>2, <1>3, <1>4 DEF Enough

LEMMA ShareIsCohort ==
  ASSUME Enough, NEW s \in Slots, sizeOf[s] \in MinPerSlot..MaxPerSlot,
         s.brand \notin FullPool, enabled[s.brand] = Seeds
  PROVE  SelectRecipientsForSlot(s) = Share(s)
<1>1. Len(Seed) = NumSeeds /\ ~(NumSeeds <= MaxPerSlot)
  BY SeedOrder, OrchestratorAssumption DEF Enough
<1> DEFINE start == (s.index - 1) * MaxPerSlot
<1>2. SelectRecipientsForSlot(s) =
        {Seed[((start + k) % NumSeeds) + 1] : k \in 0..(sizeOf[s] - 1)}
  BY <1>1 DEF SelectRecipientsForSlot, Seed
<1>3. ASSUME NEW k \in 0..(sizeOf[s] - 1)
      PROVE  ((start + k) % NumSeeds) + 1 = start + k + 1
  <2>1. start \in Nat /\ start + k \in 0..(NumSeeds - 1)
    BY PlaceInOrder
  <2> HIDE DEF start
  <2>2. NumSeeds \in Nat /\ k \in Int
    BY OrchestratorAssumption
  <2> QED
    BY <2>1, <2>2
<1> HIDE DEF start
<1>4. SelectRecipientsForSlot(s) = {Seed[start + k + 1] : k \in 0..(sizeOf[s] - 1)}
  BY <1>2, <1>3
<1> QED
  BY <1>4 DEF Share, start

LEMMA SharesAreApart ==
  ASSUME Enough, NEW s \in Slots, NEW t \in Slots, s.brand = t.brand, s # t,
         sizeOf[s] \in MinPerSlot..MaxPerSlot, sizeOf[t] \in MinPerSlot..MaxPerSlot
  PROVE  Share(s) \intersect Share(t) = {}
<1>1. s.index \in Nat \ {0} /\ t.index \in Nat \ {0} /\ s.index # t.index
  BY OrchestratorAssumption DEF Slots
<1>2. ASSUME NEW k \in 0..(sizeOf[s] - 1), NEW l \in 0..(sizeOf[t] - 1),
             Seed[(s.index - 1) * MaxPerSlot + k + 1] = Seed[(t.index - 1) * MaxPerSlot + l + 1]
      PROVE  FALSE
  <2> DEFINE a == (s.index - 1) * MaxPerSlot
             b == (t.index - 1) * MaxPerSlot
  <2>1. /\ a \in Nat /\ a + k \in 0..(NumSeeds - 1) /\ k < MaxPerSlot
        /\ b \in Nat /\ b + l \in 0..(NumSeeds - 1) /\ l < MaxPerSlot
    BY PlaceInOrder
  <2>2. \/ s.index < t.index /\ b >= a + MaxPerSlot
        \/ t.index < s.index /\ a >= b + MaxPerSlot
    BY <1>1, NextShare
  <2>3. Seed[a + k + 1] = Seed[b + l + 1]
    BY <1>2
  <2> HIDE DEF a, b
  <2>4. k \in Nat /\ l \in Nat /\ NumSeeds \in Nat /\ MaxPerSlot \in Nat
    BY OrchestratorAssumption
  <2>5. a + k + 1 \in 1..NumSeeds /\ b + l + 1 \in 1..NumSeeds /\ a + k + 1 # b + l + 1
    BY <2>1, <2>2, <2>4
  <2> QED
    BY <2>3, <2>5, SeedOrder
<1> QED
  BY <1>2 DEF Share

LEMMA ShareIsSmall ==
  ASSUME NEW s \in Slots, sizeOf[s] \in MinPerSlot..MaxPerSlot
  PROVE  IsFiniteSet(Share(s)) /\ Cardinality(Share(s)) <= MaxPerSlot
<1> DEFINE K == 0..(sizeOf[s] - 1)
           f == [k \in K |-> Seed[(s.index - 1) * MaxPerSlot + k + 1]]
<1>1. /\ sizeOf[s] \in Nat \ {0} /\ sizeOf[s] <= MaxPerSlot /\ MaxPerSlot \in Nat
  BY OrchestratorAssumption
<1>2. IsFiniteSet(K) /\ Cardinality(K) = sizeOf[s]
  <2>1. \A n \in Nat \ {0} : IsFiniteSet(0..(n - 1)) /\ Cardinality(0..(n - 1)) = n
    <3> TAKE n \in Nat \ {0}
    <3> DEFINE m == n - 1
    <3>1. m \in Int /\ ~(0 > m) /\ m - 0 + 1 = n
      OBVIOUS
    <3> HIDE DEF m
    <3>2. IsFiniteSet(0..m) /\ Cardinality(0..m) = m - 0 + 1
      BY <3>1, FS_Interval
    <3> QED
      BY <3>1, <3>2 DEF m
  <2> QED
    BY <1>1, <2>1
<1>3. f \in Surjection(K, Share(s))
  BY DEF Share, Surjection
<1>4. IsFiniteSet(Share(s)) /\ Cardinality(Share(s)) <= sizeOf[s]
  BY <1>2, <1>3, FS_Surjection
<1>5. Cardinality(Share(s)) \in Nat
  BY <1>4, FS_CardinalityType
<1> QED
  BY <1>1, <1>4, <1>5

\* As long as nobody is switched, every run selects the same cohorts and whatever
\* was handed off comes from them.
SameCohorts ==
  /\ changes \in Nat /\ sizeOf \in [Slots -> MinPerSlot..MaxPerSlot]
  /\ DOMAIN handed = Slots
  /\ Enough /\ changes = 0 =>
       /\ \A b \in BrandSet : enabled[b] = Seeds
       /\ \A s \in Slots : s.brand \notin FullPool =>
            cohort[s] \subseteq Share(s) /\ handed[s] \subseteq Share(s)

LEMMA InitCohorts == Init => SameCohorts
BY DEF Init, SameCohorts

LEMMA NextCohorts == SameCohorts /\ [Next]_vars => SameCohorts'
<1> SUFFICES ASSUME SameCohorts, [Next]_vars
             PROVE  SameCohorts'
  OBVIOUS
<1> USE DEF plan, dispatcher
<1>1. ASSUME UNCHANGED <<sizeOf, enabled, cohort, handed, changes>>
      PROVE  SameCohorts'
  BY <1>1 DEF SameCohorts, Share
<1>2. CASE Tick \/ PlanFails \/ SkipCompleted \/ UNCHANGED vars
  BY <1>1, <1>2 DEF Tick, PlanFails, SkipCompleted, vars
<1>3. ASSUME NEW s \in Slots, MailNext(s) \/ Complete(s)
      PROVE  SameCohorts'
  BY <1>1, <1>3 DEF MailNext, Complete
<1>4. CASE PlanDay
  <2>1. UNCHANGED <<sizeOf, enabled, handed, changes>>
    BY <1>4 DEF PlanDay
  <2>2. ASSUME Enough, changes = 0, NEW s \in Slots, s.brand \notin FullPool
        PROVE  cohort'[s] \subseteq Share(s)
    <3>1. s.brand \in BrandSet
      BY DEF Slots
    <3>2. SelectRecipientsForSlot(s) = Share(s)
      BY <2>2, <3>1, ShareIsCohort DEF SameCohorts
    <3> QED
      BY <1>4, <3>2 DEF PlanDay
  <2> QED
    BY <2>1, <2>2 DEF SameCohorts, Share
<1>5. ASSUME UNCHANGED <<sizeOf, enabled, cohort, changes>>, NEW s, Accept(s)
      PROVE  SameCohorts'
  BY <1>5 DEF SameCohorts, Share, Accept
<1>6. CASE PostHandoff
  BY <1>5, <1>6 DEF PostHandoff
<1>7. CASE PostFails
  BY <1>1, <1>5, <1>7 DEF PostFails
<1>8. ASSUME NEW b \in BrandSet, NEW r \in Seeds, SwitchRecipient(b, r)
      PROVE  SameCohorts'
  BY <1>8 DEF SwitchRecipient, SameCohorts
<1> QED
  BY <1>2, <1>3, <1>4, <1>6, <1>7, <1>8 DEF Next

\* With enough recipients no recipient is handed off by two slots of a brand and
\* no slot takes more than maxRecipientsPerSlot, over all runs of the day, for any
\* number of slots and recipients (selectRecipientsForSlot).
THEOREM CohortsNeverMeet == Spec => []CohortsAreApart
<1>1. SameCohorts => CohortsAreApart
  <2> SUFFICES ASSUME SameCohorts, NEW s \in Slots, NEW t \in Slots,
                      s.brand = t.brand, s # t, s.brand \notin FullPool, changes = 0,
                      Enough
               PROVE  /\ handed[s] \intersect handed[t] = {}
                      /\ Cardinality(handed[s]) <= MaxPerSlot
    BY DEF CohortsAreApart, Enough
  <2>1. /\ handed[s] \subseteq Share(s) /\ handed[t] \subseteq Share(t)
        /\ sizeOf[s] \in MinPerSlot..MaxPerSlot /\ sizeOf[t] \in MinPerSlot..MaxPerSlot
    BY DEF SameCohorts
  <2>2. Share(s) \intersect Share(t) = {}
    BY <2>1, SharesAreApart
  <2>3. IsFiniteSet(Share(s)) /\ Cardinality(Share(s)) <= MaxPerSlot
    BY <2>1, ShareIsSmall
  <2>4. /\ Cardinality(handed[s]) <= Cardinality(Share(s))
        /\ Cardinality(handed[s]) \in Nat /\ Cardinality(Share(s)) \in Nat
    BY <2>1, <2>3, FS_Subset, FS_CardinalityType
  <2> QED
    BY <2>1, <2>2, <2>3, <2>4, OrchestratorAssumption
<1> QED
  BY <1>1, InitCohorts, NextCohorts, PTL DEF Spec

-----------------------------------------------------------------------------
(* Due slots.                                                              *)

\* Runs leave no minute of the day out: a slot cannot be on minute 0, the next run
\* comes before it has left the lookback, and TEST_ORCHESTRATOR_LIMIT cuts nothing.
Punctual ==
  /\ WindowStart > 0 /\ Every <= Lookback + 1
  /\ Cardinality(Slots) <= Limit

PlanType ==
  /\ minuteOf \in [Slots -> Int]
  /\ \A s \in Planned : minuteOf[s] >= WindowStart

LEMMA DueFinite == IsFiniteSet(DueAt(now)) /\ Cardinality(DueAt(now)) <= Cardinality(Slots)
<1>1. DueAt(now) \in SUBSET Slots
  BY DEF DueAt, Planned
<1> QED
  BY <1>1, SlotsFinite, FS_Subset

\* comparePlannedBySlot is a total order.
LEMMA PlannedOrder ==
  ASSUME PlanType
  PROVE  /\ \A s \in Slots : <<s, s>> \notin ComparePlannedBySlot
         /\ \A s, t, u \in Slots :
              <<s, t>> \in ComparePlannedBySlot /\ <<t, u>> \in ComparePlannedBySlot
                => <<s, u>> \in ComparePlannedBySlot
         /\ \A s, t \in Slots : s # t =>
              <<s, t>> \in ComparePlannedBySlot \/ <<t, s>> \in ComparePlannedBySlot
<1>1. \A s, t \in Slots : <<s, t>> \in ComparePlannedBySlot <=>
        \/ minuteOf[s] < minuteOf[t]
        \/ minuteOf[s] = minuteOf[t] /\ Position(s.brand) < Position(t.brand)
        \/ minuteOf[s] = minuteOf[t] /\ s.brand = t.brand /\ s.index < t.index
  BY DEF ComparePlannedBySlot
<1>2. \A b \in BrandSet : Position(b) \in Int /\ Brands[Position(b)] = b
  <2>1. Brands \in [1..Len(Brands) -> STRING] /\ Len(Brands) \in Nat
    BY OrchestratorAssumption
  <2>2. \A b \in BrandSet : \E k \in DOMAIN Brands : Brands[k] = b
    BY DEF BrandSet, Range
  <2>3. \A b \in BrandSet : Position(b) \in DOMAIN Brands /\ Brands[Position(b)] = b
    BY <2>2 DEF Position
  <2> QED
    BY <2>1, <2>3
<1>3. \A s \in Slots : minuteOf[s] \in Int /\ s.brand \in BrandSet /\ s.index \in Int
  <2>1. 1..MaxSlots \subseteq Int
    BY OrchestratorAssumption
  <2> QED
    BY <2>1 DEF PlanType, Slots
<1>4. \A s \in Slots : <<s, s>> \notin ComparePlannedBySlot
  BY <1>1, <1>2, <1>3
<1>5. ASSUME NEW s \in Slots, NEW t \in Slots, NEW u \in Slots,
             <<s, t>> \in ComparePlannedBySlot, <<t, u>> \in ComparePlannedBySlot
      PROVE  <<s, u>> \in ComparePlannedBySlot
  BY <1>1, <1>2, <1>3, <1>5
<1>6. ASSUME NEW s \in Slots, NEW t \in Slots, s # t
      PROVE  <<s, t>> \in ComparePlannedBySlot \/ <<t, s>> \in ComparePlannedBySlot
  <2>1. s.brand # t.brand \/ s.index # t.index
    BY <1>6 DEF Slots
  <2>2. s.brand # t.brand => Position(s.brand) # Position(t.brand)
    BY <1>2, <1>3
  <2> QED
    BY <1>1, <1>2, <1>3, <2>1, <2>2
<1> QED
  BY <1>4, <1>5, <1>6

\* A run picks every slot that is due.
LEMMA AllPicked ==
  ASSUME Punctual, PlanType
  PROVE  Picked(now) \in Seq(Slots) /\ DueAt(now) \subseteq Range(Picked(now))
<1> DEFINE D == DueAt(now)
           all == InOrder(D, ComparePlannedBySlot)
<1>1. D \subseteq Slots
  BY DEF DueAt, Planned
<1>2. IsFiniteSet(D) /\ Cardinality(D) \in Nat /\ Cardinality(D) <= Cardinality(Slots)
      /\ Cardinality(Slots) \in Nat
  BY DueFinite, SlotsFinite, FS_CardinalityType
<1> HIDE DEF D
<1>3. /\ \A s \in D : <<s, s>> \notin ComparePlannedBySlot
      /\ \A s, t, u \in D :
           <<s, t>> \in ComparePlannedBySlot /\ <<t, u>> \in ComparePlannedBySlot
             => <<s, u>> \in ComparePlannedBySlot
      /\ \A s, t \in D : s # t =>
           <<s, t>> \in ComparePlannedBySlot \/ <<t, s>> \in ComparePlannedBySlot
  BY <1>1, PlannedOrder
<1>4. /\ all \in [1..Cardinality(D) -> D] /\ all \in Seq(D) /\ Len(all) = Cardinality(D)
      /\ \A x \in D : \E i \in 1..Cardinality(D) : all[i] = x
  BY <1>2, <1>3, Sorted
<1> DEFINE n == IF Limit > 1 THEN Limit ELSE 1
           m == IF Len(all) < n THEN Len(all) ELSE n
<1>5. Picked(now) = SubSeq(all, 1, m)
  BY DEF Picked, D
<1>6. m = Len(all)
  BY <1>2, <1>4, OrchestratorAssumption DEF Punctual
<1> HIDE DEF all, m
<1>7. Len(all) \in Nat
  BY <1>2, <1>4
<1>8. SubSeq(all, 1, Len(all)) \in Seq(D) /\ Len(SubSeq(all, 1, Len(all))) = Len(all)
      /\ \A i \in 1..Len(all) : SubSeq(all, 1, Len(all))[i] = all[i]
  BY <1>4, <1>7
<1>9. \A x \in D : \E i \in DOMAIN SubSeq(all, 1, Len(all)) : SubSeq(all, 1, Len(all))[i] = x
  BY <1>4, <1>8
<1> QED
  BY <1>1, <1>5, <1>6, <1>8, <1>9 DEF Range, D

\* A slot that was due in a run is posted, or still to be posted, or cut off.
Served(s) == registry[s] # "none" \/ s \in Range(due) \/ s \in cut

\* Cron has started a run in minute t, or was kept from it.
Rung(t) == t % Every = 0 /\ (t < now \/ ~bell)

Noticed ==
  /\ now \in Nat /\ bell \in BOOLEAN /\ PlanType
  /\ due \in Seq(Slots) /\ DOMAIN registry = Slots
  /\ bell => due = <<>>
  /\ \A s \in Planned : \A t \in 1..now : Rung(t) /\ IsSlotDue(s, t) => Served(s)

LEMMA InitNoticed == Init => Noticed
<1> SUFFICES ASSUME Init
             PROVE  Noticed
  OBVIOUS
<1>1. minuteOf \in [Slots -> (WindowStart..(WindowEnd - 1)) \union {Unplanned}]
  BY DEF Init, BuildDailySlots
<1>2. PlanType
  BY <1>1, OrchestratorAssumption DEF PlanType, Planned, Unplanned
<1>3. now = 0 /\ bell = FALSE /\ due = <<>> /\ DOMAIN registry = Slots
  BY DEF Init
<1>4. due \in Seq(Slots) /\ \A t : t \notin 1..now
  BY <1>3
<1> QED
  BY <1>2, <1>3, <1>4 DEF Noticed

\* Serving goes on.
LEMMA StillServed ==
  ASSUME NEW s \in Slots, Served(s), DOMAIN registry = Slots,
         registry'[s] = registry[s] \/ registry'[s] # "none",
         cut \subseteq cut',
         s \in Range(due) => s \in Range(due') \/ registry'[s] # "none" \/ s \in cut'
  PROVE  Served(s)'
BY DEF Served

LEMMA HeadOrTail ==
  ASSUME due \in Seq(Slots), due # <<>>, NEW s \in Range(due)
  PROVE  s = Head(due) \/ s \in Range(Tail(due))
<1>1. PICK i \in 1..Len(due) : due[i] = s
  BY DEF Range
<1>2. CASE i = 1
  BY <1>1, <1>2
<1>3. ASSUME i # 1
      PROVE  s \in Range(Tail(due))
  <2>1. Tail(due) \in Seq(Slots) /\ Len(Tail(due)) = Len(due) - 1 /\ Len(due) \in Nat
    OBVIOUS
  <2>2. i \in Int /\ i - 1 \in 1..(Len(due) - 1) /\ (i - 1) + 1 = i
    BY <1>1, <1>3, <2>1
  <2>3. \A j \in 1..(Len(due) - 1) : Tail(due)[j] = due[j + 1]
    OBVIOUS
  <2>4. Tail(due)[i - 1] = due[i]
    BY <2>2, <2>3
  <2>5. i - 1 \in DOMAIN Tail(due)
    BY <2>1, <2>2
  <2> QED
    BY <1>1, <2>4, <2>5 DEF Range
<1> QED
  BY <1>2, <1>3

LEMMA NextNoticed ==
  ASSUME Punctual, Noticed, [Next]_vars
  PROVE  Noticed'
<1> USE DEF plan, dispatcher
<1>1. minuteOf' = minuteOf
  BY DEF Next, Tick, PlanDay, PlanFails, PostHandoff, SkipCompleted, PostFails,
     MailNext, Complete, SwitchRecipient, vars
<1>2. /\ PlanType' /\ Planned' = Planned
      /\ \A s \in Planned : \A t \in Nat : IsSlotDue(s, t)' = IsSlotDue(s, t)
  BY <1>1 DEF Noticed, PlanType, Planned, IsSlotDue
<1>3. ASSUME now' = now, bell' = bell, due' \in Seq(Slots), bell => due' = <<>>,
             DOMAIN registry' = Slots,
             \A s \in Planned : Served(s) => Served(s)'
      PROVE  Noticed'
  BY <1>2, <1>3 DEF Noticed, Rung
<1>4. CASE UNCHANGED vars
  <2>1. \A s \in Planned : Served(s) => Served(s)'
    BY <1>4 DEF Served, vars
  <2> QED
    BY <1>3, <1>4, <2>1 DEF vars, Noticed
<1>5. CASE Tick
  <2>1. /\ now' = now + 1 /\ ~bell /\ due' = due /\ registry' = registry /\ cut \subseteq cut'
        /\ bell' = ((now + 1) % Every = 0 /\ due = <<>>)
    BY <1>5 DEF Tick
  <2>2. ASSUME NEW s \in Planned, NEW t \in 1..now', Rung(t)', IsSlotDue(s, t)
        PROVE  Served(s)'
    <3>1. CASE t \in 1..now
      <4>1. Served(s)
        BY <2>1, <2>2, <3>1 DEF Noticed, Rung
      <4> QED
        BY <2>1, <4>1 DEF Served
    <3>2. CASE t = now + 1
      <4>1. (now + 1) % Every = 0 /\ ~bell'
        BY <2>1, <2>2, <3>2 DEF Noticed, Rung
      <4>2. due # <<>>
        BY <2>1, <4>1
      <4>3. s \in DueAt(now + 1)
        BY <2>2, <3>2 DEF DueAt
      <4>4. s \in cut'
        BY <1>5, <4>1, <4>2, <4>3 DEF Tick
      <4> QED
        BY <4>4 DEF Served
    <3> QED
      BY <2>1, <3>1, <3>2 DEF Noticed
  <2> QED
    BY <1>2, <2>1, <2>2 DEF Noticed
<1>6. CASE PlanDay
  <2>1. /\ bell /\ bell' = FALSE /\ now' = now /\ due' = Picked(now) /\ due = <<>>
        /\ registry' = registry /\ cut' = cut /\ PlanType
    BY <1>6 DEF PlanDay, Noticed
  <2>2. due' \in Seq(Slots) /\ DueAt(now) \subseteq Range(due')
    BY <2>1, AllPicked
  <2>3. ASSUME NEW s \in Planned, NEW t \in 1..now, Rung(t)', IsSlotDue(s, t)
        PROVE  Served(s)'
    <3>1. CASE t = now
      BY <2>2, <2>3, <3>1 DEF DueAt, Served
    <3>2. CASE t < now
      <4>1. Served(s)
        BY <2>3, <3>2 DEF Noticed, Rung
      <4>2. s \notin Range(due)
        BY <2>1 DEF Range
      <4> QED
        BY <2>1, <4>1, <4>2 DEF Served
    <3> QED
      BY <3>1, <3>2 DEF Noticed
  <2>4. ASSUME NEW s \in Planned', NEW t \in 1..now', Rung(t)', IsSlotDue(s, t)'
        PROVE  Served(s)'
    BY <1>2, <2>1, <2>3, <2>4 DEF Noticed
  <2>5. due' \in Seq(Slots) /\ now' \in Nat /\ DOMAIN registry' = Slots
    BY <2>1, <2>2 DEF Noticed
  <2> QED
    BY <1>2, <2>1, <2>4, <2>5 DEF Noticed
<1>7. CASE PlanFails
  <2>1. /\ bell /\ bell' = FALSE /\ now' = now /\ due' = due
        /\ registry' = registry /\ cut' = cut \union DueAt(now)
    BY <1>7 DEF PlanFails
  <2>2. ASSUME NEW s \in Planned, NEW t \in 1..now, Rung(t)', IsSlotDue(s, t)
        PROVE  Served(s)'
    <3>1. CASE t = now
      BY <2>1, <2>2, <3>1 DEF DueAt, Served
    <3>2. CASE t < now
      <4>1. Served(s)
        BY <2>2, <3>2 DEF Noticed, Rung
      <4> QED
        BY <2>1, <4>1 DEF Served
    <3> QED
      BY <3>1, <3>2 DEF Noticed
  <2>3. ASSUME NEW s \in Planned', NEW t \in 1..now', Rung(t)', IsSlotDue(s, t)'
        PROVE  Served(s)'
    BY <1>2, <2>1, <2>2, <2>3 DEF Noticed
  <2>4. due' \in Seq(Slots) /\ now' \in Nat /\ DOMAIN registry' = Slots
    BY <2>1 DEF Noticed
  <2> QED
    BY <1>2, <2>1, <2>3, <2>4 DEF Noticed
<1>8. CASE PostHandoff
  <2>1. /\ due # <<>> /\ due' = Tail(due) /\ now' = now /\ bell' = bell /\ cut' = cut
        /\ registry' = [registry EXCEPT ![Head(due)] = "running"]
    BY <1>8 DEF PostHandoff, Accept
  <2>2. ASSUME NEW s \in Planned, Served(s)
        PROVE  Served(s)'
    BY <2>1, <2>2, HeadOrTail, StillServed DEF Noticed, Planned
  <2>3. due' \in Seq(Slots) /\ DOMAIN registry' = Slots /\ ~bell
    BY <2>1 DEF Noticed
  <2> QED
    BY <1>3, <2>1, <2>2, <2>3
<1>9. CASE SkipCompleted
  <2>1. /\ due # <<>> /\ due' = Tail(due) /\ now' = now /\ bell' = bell /\ cut' = cut
        /\ registry' = registry /\ registry[Head(due)] = "completed"
    BY <1>9 DEF SkipCompleted, Refused
  <2>2. ASSUME NEW s \in Planned, Served(s)
        PROVE  Served(s)'
    BY <2>1, <2>2, HeadOrTail, StillServed DEF Noticed, Planned
  <2>3. due' \in Seq(Slots) /\ DOMAIN registry' = Slots /\ ~bell
    BY <2>1 DEF Noticed
  <2> QED
    BY <1>3, <2>1, <2>2, <2>3
<1>10. CASE PostFails
  <2>1. /\ due # <<>> /\ due' = <<>> /\ now' = now /\ bell' = bell
        /\ cut' = cut \union Range(due)
        /\ \/ registry' = registry
           \/ registry' = [registry EXCEPT ![Head(due)] = "running"]
    BY <1>10 DEF PostFails, Accept
  <2>2. ASSUME NEW s \in Planned, Served(s)
        PROVE  Served(s)'
    BY <2>1, <2>2, StillServed DEF Noticed, Planned
  <2>3. due' \in Seq(Slots) /\ DOMAIN registry' = Slots /\ ~bell
    BY <2>1 DEF Noticed
  <2> QED
    BY <1>3, <2>1, <2>2, <2>3
<1>11. ASSUME NEW r \in Slots, MailNext(r) \/ Complete(r)
       PROVE  Noticed'
  <2>1. /\ due' = due /\ now' = now /\ bell' = bell /\ cut' = cut
        /\ \/ registry' = registry
           \/ registry' = [registry EXCEPT ![r] = "completed"]
    BY <1>11 DEF MailNext, Complete
  <2>2. ASSUME NEW s \in Planned, Served(s)
        PROVE  Served(s)'
    BY <2>1, <2>2, StillServed DEF Noticed, Planned
  <2>3. due' \in Seq(Slots) /\ DOMAIN registry' = Slots /\ (bell => due' = <<>>)
    BY <2>1 DEF Noticed
  <2> QED
    BY <1>3, <2>1, <2>2, <2>3
<1>12. ASSUME NEW b \in BrandSet, NEW r \in Seeds, SwitchRecipient(b, r)
       PROVE  Noticed'
  <2>1. UNCHANGED <<due, now, bell, cut, registry>>
    BY <1>12 DEF SwitchRecipient
  <2>2. \A s \in Planned : Served(s) => Served(s)'
    BY <2>1 DEF Served
  <2> QED
    BY <1>3, <2>1, <2>2 DEF Noticed
<1> QED
  BY <1>4, <1>5, <1>6, <1>7, <1>8, <1>9, <1>10, <1>11, <1>12 DEF Next

\* Every minute is followed by a run before Every minutes are over.
LEMMA NextRun ==
  ASSUME NEW m \in Nat, NEW e \in Nat \ {0}
  PROVE  \E t \in m..(m + e - 1) : t % e = 0
<1> DEFINE q == (m + e - 1) \div e
           r == (m + e - 1) % e
<1>1. q \in Nat /\ r \in 0..(e - 1) /\ m + e - 1 = e * q + r
  OBVIOUS
<1>2. (e * q) % e = 0 /\ e * q \in Nat
  BY <1>1
<1> HIDE DEF q, r
<1>3. e * q \in m..(m + e - 1)
  BY <1>1, <1>2
<1> QED
  BY <1>2, <1>3

\* No slot of the day is forgotten, whenever its minute lies and however many are
\* due together, unless a failed or missing run cut it off (isSlotDue, the limit
\* and the order of the due slots).
THEOREM NobodyForgotten ==
  ASSUME Punctual
  PROVE  Spec => []NoSlotForgotten
<1>1. Noticed => NoSlotForgotten
  <2> SUFFICES ASSUME Noticed, NEW s \in Planned, now > minuteOf[s] + Lookback, ~bell
               PROVE  Served(s)
    BY DEF NoSlotForgotten, Served
  <2>1. /\ minuteOf[s] \in Nat /\ minuteOf[s] >= 1 /\ now \in Nat
        /\ Every \in Nat \ {0} /\ Lookback \in Nat /\ Every <= Lookback + 1
    BY OrchestratorAssumption DEF Noticed, PlanType, Punctual, Planned
  <2>2. PICK t \in minuteOf[s]..(minuteOf[s] + Every - 1) : t % Every = 0
    BY <2>1, NextRun
  <2>3. t \in 1..now /\ t < now /\ IsSlotDue(s, t)
    BY <2>1, <2>2 DEF IsSlotDue
  <2> QED
    BY <2>2, <2>3 DEF Noticed, Rung
<1>2. Noticed /\ [Next]_vars => Noticed'
  BY NextNoticed
<1> QED
  BY <1>1, <1>2, InitNoticed, PTL DEF Spec

=============================================================================
