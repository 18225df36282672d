----------------------------- MODULE MCHandoff ------------------------------
(* Instances of Handoff for TLC.  Recipient 1 is pinned to parent bucket p and *)
(* mirrored by m1, recipient 2 is mirrored by m2, recipients 3 and 4 are not   *)
(* pinned.                                                                     *)
EXTENDS Handoff

CONSTANTS g, p, m1, m2, none, h1, h2, e1, e2, original, rewritten, other

NoParents == <<>>
OneParent == <<p>>
TwoMirrors == <<m1, m2>>
MCParentOf == [r \in Recipients |-> IF r = 1 /\ ParentOrder # <<>> THEN p ELSE none]
MCMirrorOf == [r \in Recipients |-> IF MirrorOrder = <<>> THEN none
                 ELSE IF r = 1 THEN m1 ELSE IF r = 2 THEN m2 ELSE none]

Body(emails, twice, split) ==
  [emails |-> emails, twice |-> twice, split |-> split, content |-> original]

\* Every list of recipients, split between senders or not, with doubles.
PossibleRequests ==
  {Body(emails, twice, split) :
     emails \in SUBSET Recipients \ {{}}, twice \in {{}, {1}}, split \in BOOLEAN}
    \ {Body(emails, {1}, split) :
         emails \in SUBSET (Recipients \ {1}), split \in BOOLEAN}
\* A campaign of three recipients, and its repetition with others: recipient 3
\* is in the first batch of one and in the second batch of the other.
PlainRequests == {Body({2, 3, 4}, {}, FALSE), Body({1, 2, 3}, {}, FALSE)}

=============================================================================
