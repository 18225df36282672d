------------------------------ MODULE MCVariants ----------------------------
(* Bodies of up to four words; n-grams of two and three.                   *)
EXTENDS Variants

MCBuckets == <<1, 3>>
MCAttempts == {-1, 9}

=============================================================================
