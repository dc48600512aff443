-------------------------- MODULE MCSnapshotStore --------------------------
(* Model-checking instances of SnapshotStore. *)
EXTENDS SnapshotStore

(* 2 is a string that ends with the one of 1, as a caller's "re-a" and "a" *)
(* do.                                                                     *)
OneEndsTwo == {<<1, 1>>, <<2, 2>>, <<1, 2>>}
=============================================================================
