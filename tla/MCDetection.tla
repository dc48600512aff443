---------------------------- MODULE MCDetection ----------------------------
(* Model-checking instances of Detection. *)
EXTENDS Detection, TLC

CONSTANTS aurora, redis

Distinct == <<aurora, redis>>
Twice == <<aurora, aurora>>
DistinctOrTwice == {Distinct, Twice}

Symmetry == Permutations(Workers)
=============================================================================
