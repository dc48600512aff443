---------------------------- MODULE TypeListings ----------------------------
(***************************************************************************)
(* What the rest of the system takes the findings store to be: a listing   *)
(* per resource type that a scan of that type replaces as a whole, without *)
(* touching the other types (Detection and ScanPipeline build on this).    *)
(* FindingStore implements it on a map from resource IDs to findings.      *)
(***************************************************************************)
CONSTANTS
    Types,
    Entries    \* what a listing shows of a finding

VARIABLE listing

Init == listing = [t \in Types |-> {}]

Replace(t, entries) == listing' = [listing EXCEPT ![t] = entries]

Next == \E t \in Types, entries \in SUBSET Entries : Replace(t, entries)

Spec == Init /\ [][Next]_listing
=============================================================================
