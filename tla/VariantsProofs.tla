--------------------------- MODULE VariantsProofs ---------------------------
(***************************************************************************)
(* What the validation of a variant excludes, for every vocabulary, every  *)
(* length of a body and every sizes of n-grams: bodies are compared by the *)
(* sets of their n-grams, and a copied passage shares all of its n-grams.  *)
(***************************************************************************)
EXTENDS Variants, FiniteSetTheorems, TLAPS

-----------------------------------------------------------------------------
(* N-grams of a passage.                                                   *)

\* The n-grams of a body are finitely many.
LEMMA NgramsFinite ==
  ASSUME NEW tokens \in Seq(Words), NEW size \in Nat \ {0}
  PROVE  IsFiniteSet(Ngrams(tokens, size))
<1> DEFINE P == 1..(Len(tokens) - size + 1)
           f == [i \in P |-> SubSeq(tokens, i, i + size - 1)]
<1>1. IsFiniteSet(P)
  BY FS_Interval
<1>2. f \in Surjection(P, Ngrams(tokens, size))
  BY DEF Ngrams, Surjection
<1> QED
  BY <1>1, <1>2, FS_Surjection DEF ExistsSurjection

\* An excerpt of an excerpt is an excerpt.
LEMMA Excerpt ==
  ASSUME NEW b \in Seq(Words), NEW i \in Nat, NEW n \in Nat, i + n <= Len(b),
         NEW j \in 1..n, NEW k \in j..n
  PROVE  SubSeq(SubSeq(b, i + 1, i + n), j, k) = SubSeq(b, i + j, i + k)
<1> DEFINE a == SubSeq(b, i + 1, i + n)
<1>1. /\ a \in Seq(Words) /\ Len(a) = n
      /\ \A m \in 1..n : a[m] = b[i + m]
  OBVIOUS
<1> HIDE DEF a
<1>2. /\ SubSeq(a, j, k) \in Seq(Words) /\ Len(SubSeq(a, j, k)) = k - j + 1
      /\ \A m \in 1..(k - j + 1) : SubSeq(a, j, k)[m] = a[j + m - 1]
  BY <1>1
<1>3. /\ SubSeq(b, i + j, i + k) \in Seq(Words) /\ Len(SubSeq(b, i + j, i + k)) = k - j + 1
      /\ \A m \in 1..(k - j + 1) : SubSeq(b, i + j, i + k)[m] = b[i + j + m - 1]
  OBVIOUS
<1>4. \A m \in 1..(k - j + 1) : j + m - 1 \in 1..n /\ i + (j + m - 1) = i + j + m - 1
  OBVIOUS
<1>5. \A m \in 1..(k - j + 1) : SubSeq(a, j, k)[m] = SubSeq(b, i + j, i + k)[m]
  BY <1>1, <1>2, <1>3, <1>4
<1> QED
  BY <1>2, <1>3, <1>5 DEF a

\* A passage has n-grams, and they are all n-grams of the body that holds it.
LEMMA PassageSharesNgrams ==
  ASSUME NEW a \in Seq(Words), NEW b \in Seq(Words), Passage(a, b),
         NEW size \in Nat \ {0}, size <= Len(a)
  PROVE  /\ Ngrams(a, size) # {}
         /\ Ngrams(a, size) \subseteq Ngrams(b, size)
<1>1. PICK i \in 0..(Len(b) - Len(a)) : SubSeq(b, i + 1, i + Len(a)) = a
  BY DEF Passage
<1>2. 1 \in 1..(Len(a) - size + 1)
  OBVIOUS
<1>3. Ngrams(a, size) # {}
  BY <1>2 DEF Ngrams
<1>4. ASSUME NEW j \in 1..(Len(a) - size + 1)
      PROVE  SubSeq(a, j, j + size - 1) \in Ngrams(b, size)
  <2>1. j \in 1..Len(a) /\ j + size - 1 \in j..Len(a)
    OBVIOUS
  <2>2. SubSeq(a, j, j + size - 1) = SubSeq(b, i + j, i + (j + size - 1))
    BY <1>1, <2>1, Excerpt, i + Len(a) <= Len(b)
  <2>3. /\ i + j \in 1..(Len(b) - size + 1)
        /\ i + (j + size - 1) = (i + j) + size - 1
    OBVIOUS
  <2> QED
    BY <2>2, <2>3 DEF Ngrams
<1> QED
  BY <1>3, <1>4 DEF Ngrams

-----------------------------------------------------------------------------
(* Their overlap.                                                          *)

\* A quotient rounded up that is covered completely is at least the whole.
LEMMA WholeQuotient ==
  ASSUME NEW n \in Nat \ {0}
  PROVE  (100 * n + n - 1) \div n >= 100
OBVIOUS

\* A set compared with one that holds it overlaps completely, on either side.
LEMMA SubsetOverlaps ==
  ASSUME NEW S, NEW T, S \subseteq T, S # {}, IsFiniteSet(T)
  PROVE  OverlapRatio(S, T) >= 100 /\ OverlapRatio(T, S) >= 100
<1>1. /\ IsFiniteSet(S) /\ Cardinality(S) \in Nat /\ Cardinality(T) \in Nat
      /\ Cardinality(S) <= Cardinality(T) /\ Cardinality(S) # 0
  BY FS_Subset, FS_CardinalityType, FS_EmptySet
<1>2. S \intersect T = S /\ T \intersect S = S /\ T # {}
  OBVIOUS
<1> DEFINE n == Cardinality(S)
           m == Cardinality(T)
<1> HIDE DEF n, m
<1>3. (100 * n + n - 1) \div n >= 100
  BY <1>1, WholeQuotient DEF n
<1>6. /\ (IF n < m THEN n ELSE m) = n
      /\ (IF m < n THEN m ELSE n) = n
  BY <1>1 DEF n, m
<1>4. OverlapRatio(S, T) = (100 * n + n - 1) \div n
  BY <1>2, <1>6 DEF OverlapRatio, n, m
<1>5. OverlapRatio(T, S) = (100 * n + n - 1) \div n
  BY <1>2, <1>6 DEF OverlapRatio, n, m
<1> QED
  BY <1>3, <1>4, <1>5

\* Bodies that are apart hold no passage of each other.
LEMMA ApartIsNoPassage ==
  ASSUME MaxNgramOverlap < 100,
         NEW a \in Seq(Words), NEW b \in Seq(Words), NgramsApart(a, b)
  PROVE  /\ Len(a) >= MinGram => ~Passage(a, b)
         /\ Len(b) >= MinGram => ~Passage(b, a)
<1>1. MinGram \in MinGram..MaxGram /\ MinGram \in Nat \ {0} /\ MaxNgramOverlap \in Int
  BY VariantsAssumption
<1>2. OverlapRatio(Ngrams(a, MinGram), Ngrams(b, MinGram)) <= MaxNgramOverlap
  BY <1>1 DEF NgramsApart
<1>3. IsFiniteSet(Ngrams(a, MinGram)) /\ IsFiniteSet(Ngrams(b, MinGram))
  BY <1>1, NgramsFinite
<1>4. OverlapRatio(Ngrams(a, MinGram), Ngrams(b, MinGram)) \in Int
  <2>1. /\ Cardinality(Ngrams(a, MinGram)) \in Nat
        /\ Cardinality(Ngrams(b, MinGram)) \in Nat
        /\ Cardinality(Ngrams(a, MinGram) \intersect Ngrams(b, MinGram)) \in Nat
    BY <1>3, FS_CardinalityType, FS_Subset
  <2>2. /\ Ngrams(a, MinGram) # {} => Cardinality(Ngrams(a, MinGram)) # 0
        /\ Ngrams(b, MinGram) # {} => Cardinality(Ngrams(b, MinGram)) # 0
    BY <1>3, FS_EmptySet
  <2> QED
    BY <2>1, <2>2 DEF OverlapRatio
<1>5. ASSUME Passage(a, b), Len(a) >= MinGram
      PROVE  FALSE
  BY <1>1, <1>2, <1>3, <1>4, <1>5, PassageSharesNgrams, SubsetOverlaps
<1>6. ASSUME Passage(b, a), Len(b) >= MinGram
      PROVE  FALSE
  BY <1>1, <1>2, <1>3, <1>4, <1>6, PassageSharesNgrams, SubsetOverlaps
<1> QED
  BY <1>5, <1>6

-----------------------------------------------------------------------------
(* The generation.                                                         *)

\* What was accepted was validated against the original, which stays.
AcceptedIsValid ==
  /\ original.body \in Seq(Words)
  /\ accepted # Nothing =>
       accepted.body \in Seq(Words) /\ ValidateFingerprintVariant(accepted)

LEMMA BodiesAreSequences ==
  ASSUME NEW n, NEW body \in Bodies(n)
  PROVE  body \in Seq(Words)
BY DEF Bodies

\* Only the subject of a proposal is touched before it is validated.
LEMMA SubjectOnly ==
  ASSUME NEW proposal \in Proposals, NEW p \in EnsureVariantSubjectChanged(proposal)
  PROVE  p.body \in Seq(Words)
<1>1. p.body = proposal.body
  BY DEF EnsureVariantSubjectChanged, Proposals
<1> QED
  BY <1>1, BodiesAreSequences DEF Proposals

LEMMA InitAccepted == Init => AcceptedIsValid
BY BodiesAreSequences DEF Init, AcceptedIsValid

LEMMA NextAccepted == AcceptedIsValid /\ [Next]_vars => AcceptedIsValid'
<1> SUFFICES ASSUME AcceptedIsValid, [Next]_vars
             PROVE  AcceptedIsValid'
  OBVIOUS
<1>1. ASSUME UNCHANGED <<original, accepted>>
      PROVE  AcceptedIsValid'
  BY <1>1 DEF AcceptedIsValid, ValidateFingerprintVariant, SubjectChanged, BodyChanged,
     ContentFingerprintChanged, ChangedLayers
<1>2. CASE Skip \/ Request \/ RequestFails \/ TimerFires \/ UNCHANGED vars
  BY <1>1, <1>2 DEF Skip, Request, RequestFails, TimerFires, vars
<1>3. ASSUME Answer
      PROVE  AcceptedIsValid'
  <2>1. PICK proposal \in Proposals : \E p \in EnsureVariantSubjectChanged(proposal) :
          Unsafe(p) \/ Invalid(p) \/ Valid(p)
    BY <1>3 DEF Answer
  <2>2. PICK p \in EnsureVariantSubjectChanged(proposal) : Unsafe(p) \/ Invalid(p) \/ Valid(p)
    BY <2>1
  <2>3. original' = original
    BY <1>3 DEF Answer
  <2>4. CASE Unsafe(p) \/ Invalid(p)
    BY <1>1, <2>3, <2>4 DEF Unsafe, Invalid
  <2>5. CASE Valid(p)
    <3>1. accepted' = p /\ ValidateFingerprintVariant(p)
      BY <2>5 DEF Valid
    <3>2. p.body \in Seq(Words)
      BY SubjectOnly
    <3> QED
      BY <2>3, <3>1, <3>2 DEF AcceptedIsValid, ValidateFingerprintVariant, SubjectChanged,
         BodyChanged, ContentFingerprintChanged, ChangedLayers
  <2> QED
    BY <2>2, <2>4, <2>5
<1> QED
  BY <1>2, <1>3 DEF Next

\* A variant that is accepted is neither the original with text around it nor an
\* excerpt of it, for every vocabulary, length and size of n-grams, whatever the
\* model answers: compareSimilarity against any threshold below 100 percent, and
\* an unchanged body after ensureVariantSubjectChanged.
THEOREM CopiesAreRefused ==
  ASSUME MaxNgramOverlap < 100
  PROVE  Spec => []NoCopiedPassage
<1>1. AcceptedIsValid => NoCopiedPassage
  BY ApartIsNoPassage DEF AcceptedIsValid, NoCopiedPassage, ValidateFingerprintVariant
<1> QED
  BY <1>1, InitAccepted, NextAccepted, PTL DEF Spec

=============================================================================
