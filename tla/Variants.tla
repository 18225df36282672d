------------------------------- MODULE Variants -----------------------------
(***************************************************************************)
(* Generation of a content variant for a mirror whose content repeats a    *)
(* recent one (src/fingerprint/variant-generator.js), and its validation   *)
(* (src/fingerprint/similarity-validator.js).  The handoff waits for it    *)
(* inside its transaction.                                                 *)
(*                                                                         *)
(* A body is its sequence of tokens.  The first 200 characters are the     *)
(* first Window tokens; a subject is a pair of its two normal forms.  The  *)
(* checks that look for given words, marks and metadata are one flag of    *)
(* the proposal, and ratios are in percent.                                *)
(***************************************************************************)
EXTENDS Integers, SequencesExt

CONSTANTS
  Words,
  MaxOriginal, MaxBody,          \* bounds on the tokens of a body
  MinGram, MaxGram,              \* 4 and 8
  Window,
  Buckets,                       \* upper ends of very_short, short, medium: <<12, 45, 110>>
  MaxNgramOverlap,               \* fingerprintVariantMaxNgramOverlap
  MaxFirstWindowOverlap,         \* fingerprintVariantMaxFirstWindowOverlap
  MinChangedLayers,              \* fingerprintVariantMinChangedLayers
  AttemptSettings                \* values of fingerprintVariantMaxAttempts

ASSUME VariantsAssumption ==
  /\ MaxOriginal \in Nat /\ MaxBody \in Nat /\ Window \in Nat
  /\ MinGram \in Nat \ {0} /\ MaxGram \in Nat /\ MinGram <= MaxGram
  /\ Buckets \in Seq(Nat)
  /\ MaxNgramOverlap \in 0..100 /\ MaxFirstWindowOverlap \in 0..100
  /\ MinChangedLayers \in Nat /\ AttemptSettings \subseteq Int

VARIABLES
  setting,    \* the mode, and the configured attempts
  original,   \* the content to vary
  pc,
  attempt,
  feedback,   \* what the next request tells about the last proposal
  accepted    \* the proposal that was accepted

vars == <<setting, original, pc, attempt, feedback, accepted>>

Bodies(n) == UNION {[1..k -> Words] : k \in 0..n}

\* "plain" is the original's subject; "punctuated" is the same to the generator
\* alone, "prefixed" ("re: ...") to the validator alone.
Subjects == {"plain", "punctuated", "prefixed", "other"}
LooseForm(s) == IF s = "punctuated" THEN "plain" ELSE s
NormalForm(s) == IF s = "prefixed" THEN "plain" ELSE s

Proposals ==
  [subject : Subjects, body : Bodies(MaxBody), paragraphs : 1..2,
   clean : BOOLEAN, safe_to_send : BOOLEAN]

Nothing == [none |-> TRUE]

-----------------------------------------------------------------------------
(* similarity-validator.js                                                 *)

Ngrams(tokens, size) ==
  {SubSeq(tokens, i, i + size - 1) : i \in 1..(Len(tokens) - size + 1)}

\* Mutant: the share of the larger set.
OverlapOfLarger(left, right) ==
  LET n == Cardinality(left) m == Cardinality(right)
  IN IF left = {} \/ right = {} THEN 0
     ELSE (100 * Cardinality(left \intersect right)) \div (IF n > m THEN n ELSE m)

\* Whole percents; the thresholds are whole, and rounding up keeps the comparison.
OverlapRatio(left, right) ==
  LET n == Cardinality(left) m == Cardinality(right)
      least == IF n < m THEN n ELSE m
  IN IF left = {} \/ right = {} THEN 0
     ELSE (100 * Cardinality(left \intersect right) + least - 1) \div least

NgramsApart(a, b) ==
  \A size \in MinGram..MaxGram :
    OverlapRatio(Ngrams(a, size), Ngrams(b, size)) <= MaxNgramOverlap

FirstWindow(tokens) == {tokens[i] : i \in {k \in DOMAIN tokens : k <= Window}}

OpeningsApart(a, b) ==
  OverlapRatio(FirstWindow(a), FirstWindow(b)) <= MaxFirstWindowOverlap

LengthBucket(count) == Cardinality({i \in DOMAIN Buckets : count > Buckets[i]})

SubjectChanged(p) == NormalForm(p.subject) # NormalForm(original.subject)
BodyChanged(p) == original.body # <<>> /\ p.body # <<>> /\ p.body # original.body

\* The fingerprint hashes the normalised subject, body and domains.
ContentFingerprintChanged(p) == SubjectChanged(p) \/ p.body # original.body

ChangedLayers(p) ==
  {layer \in {"subject", "body", "content_fingerprint", "structure", "opening",
              "length", "paragraph_count"} :
     CASE layer = "subject" -> SubjectChanged(p)
       [] layer = "body" -> BodyChanged(p)
       [] layer = "content_fingerprint" -> ContentFingerprintChanged(p)
       [] layer = "structure" -> NgramsApart(original.body, p.body)
       [] layer = "opening" -> OpeningsApart(original.body, p.body)
       [] layer = "length" ->
            LengthBucket(Len(original.body)) # LengthBucket(Len(p.body))
       [] layer = "paragraph_count" -> original.paragraphs # p.paragraphs}

ValidateFingerprintVariant(p) ==
  /\ SubjectChanged(p) /\ BodyChanged(p) /\ ContentFingerprintChanged(p)
  /\ NgramsApart(original.body, p.body)
  /\ OpeningsApart(original.body, p.body)
  /\ p.clean
  /\ Cardinality(ChangedLayers(p)) >= MinChangedLayers

-----------------------------------------------------------------------------
(* variant-generator.js                                                    *)

\* ensureVariantSubjectChanged: an unchanged subject is replaced by one of a
\* list, which may hold the original.
EnsureVariantSubjectChanged(p) ==
  IF LooseForm(p.subject) # LooseForm(original.subject) THEN {p}
  ELSE {[p EXCEPT !.subject = s] : s \in {"plain", "other"}}

\* Number.parseInt(... || 3), at most 5.
MaxAttempts ==
  IF setting.attempts > 0
    THEN IF setting.attempts < 5 THEN setting.attempts ELSE 5
    ELSE 3

Init ==
  /\ setting \in [mode : {"disabled", "observe_only", "enforce"},
                  attempts : AttemptSettings]
  /\ original \in [subject : {"plain"}, body : Bodies(MaxOriginal), paragraphs : {1}]
  /\ pc = "start"
  /\ attempt = 0
  /\ feedback = "none"
  /\ accepted = Nothing

Skip ==
  /\ pc = "start"
  /\ setting.mode # "enforce"
  /\ pc' = "skipped"
  /\ UNCHANGED <<setting, original, attempt, feedback, accepted>>

\* The head of the loop.
Request ==
  /\ \/ pc = "start" /\ setting.mode = "enforce"
     \/ pc = "again"
  /\ IF attempt < MaxAttempts
       THEN /\ attempt' = attempt + 1
            /\ pc' = "waiting"
       ELSE /\ pc' = "failed"
            /\ UNCHANGED attempt
  /\ UNCHANGED <<setting, original, feedback, accepted>>

Unsafe(p) ==
  /\ ~p.safe_to_send
  /\ feedback' = "unsafe"
  /\ pc' = "again"
  /\ UNCHANGED accepted

Invalid(p) ==
  /\ p.safe_to_send
  /\ ~ValidateFingerprintVariant(p)
  /\ feedback' = "checks"
  /\ pc' = "again"
  /\ UNCHANGED accepted

Valid(p) ==
  /\ p.safe_to_send
  /\ ValidateFingerprintVariant(p)
  /\ accepted' = p
  /\ pc' = "accepted"
  /\ UNCHANGED feedback

\* The model's answer arrives before the timer.
Answer ==
  /\ pc = "waiting"
  /\ \E proposal \in Proposals :
       \E p \in EnsureVariantSubjectChanged(proposal) :
         Unsafe(p) \/ Invalid(p) \/ Valid(p)
  /\ UNCHANGED <<setting, original, attempt>>

\* An error, or an answer that is not JSON, ends the generation at once.
RequestFails ==
  /\ pc = "waiting"
  /\ pc' = "thrown"
  /\ UNCHANGED <<setting, original, attempt, feedback, accepted>>

\* Mutant: the timer is cleared before the answer.
TimerCleared == FALSE /\ UNCHANGED vars

\* The timer aborts the request.
TimerFires ==
  /\ pc = "waiting"
  /\ pc' = "aborted"
  /\ UNCHANGED <<setting, original, attempt, feedback, accepted>>

Next == Skip \/ Request \/ Answer \/ RequestFails \/ TimerFires

\* Nothing says that the model answers; the timer does fire.
Spec == Init /\ [][Next]_vars /\ WF_vars(Skip) /\ WF_vars(Request) /\ WF_vars(TimerFires)

-----------------------------------------------------------------------------
(* Properties.                                                             *)

\* b holds a as one uninterrupted passage.
Passage(a, b) == \E i \in 0..(Len(b) - Len(a)) : SubSeq(b, i + 1, i + Len(a)) = a

\* A variant is neither the original with text around it nor an excerpt of it,
\* however long the rest is, once the shared passage has an n-gram to compare
\* (maxNgramOverlap and overlapRatio).
NoCopiedPassage ==
  accepted # Nothing =>
    LET a == original.body b == accepted.body IN
    /\ Len(a) >= MinGram => ~Passage(a, b)
    /\ Len(b) >= MinGram => ~Passage(b, a)

\* The generation ends although the model may never answer (the abort timer).
GenerationEnds == <>(pc \in {"skipped", "failed", "thrown", "aborted", "accepted"})

=============================================================================
