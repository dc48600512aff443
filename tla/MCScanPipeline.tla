--------------------------- MODULE MCScanPipeline ---------------------------
(* Model-checking instances of ScanPipeline. *)
EXTENDS ScanPipeline, TLC

Symmetry == Permutations(Types) \cup Permutations(Workers)
=============================================================================
