---------------------------- MODULE MCFindingStore ----------------------------
(* Model-checking instances of FindingStore. *)
EXTENDS FindingStore

CONSTANTS i1, i2, i3, aurora, redis

(* Two resources of one type and one of another. *)
Separate == [t \in Types |-> IF t = aurora THEN {i1, i2} ELSE {i3}]
=============================================================================
