---------------------------- MODULE FindingStore ----------------------------
(***************************************************************************)
(* The in-memory findings store (pkg/store/memory/store.go), a map keyed   *)
(* by resource ID, and the finding objects it shares with others: the      *)
(* batch DetectDrift cached is the one StoreFindings stores, a retry of    *)
(* StoreFindings stores it again, and ListFindings hands out the same      *)
(* pointers.  A mutex makes every operation on the map one step.           *)
(*                                                                         *)
(*   now       the clock, which advances between any two writes            *)
(*   scans     how many scans have detected findings so far                *)
(*   heap      the finding objects: heap[s][i] is the one that scan s made *)
(*             for resource i                                              *)
(*   batch     the resource type of each scan and the resources in its     *)
(*             findings batch                                              *)
(*   findings  Store.findings: which scan's object is stored for a resource*)
(*             (0: none)                                                   *)
(***************************************************************************)
EXTENDS Naturals, FiniteSets

CONSTANTS
    IDs,       \* the resource IDs
    Types,     \* the resource types
    Inventory, \* the resources that may be listed for each type
    Statuses,  \* the statuses a finding may have
    MaxScans,  \* bound: how many batches of findings are made
    MaxNow,    \* bound: how often the store is written
    None       \* no object

ASSUME FindingAssumption ==
    /\ Inventory \in [Types -> SUBSET IDs]
    /\ MaxScans \in Nat /\ MaxNow \in Nat
    /\ None \notin Types

(* No resource is listed for two types.  Nothing in the code sees to that. *)
Disjoint == \A t, u \in Types : Inventory[t] \cap Inventory[u] # {} => t = u

VARIABLES now, scans, heap, batch, findings
vars == <<now, scans, heap, batch, findings>>

ScanIDs == 1 .. MaxScans
Times == 0 .. MaxNow  \* 0 is the zero time
Finding == [status : Statuses, detected : Times, updated : Times]

Init ==
    /\ now = 0
    /\ scans = 0
    /\ heap = [s \in ScanIDs |-> [i \in IDs |-> None]]
    /\ batch = [s \in ScanIDs |-> [type |-> None, ids |-> {}]]
    /\ findings = [i \in IDs |-> 0]

(* DetectDrift makes a finding for each resource in the inventory of a     *)
(* type.  Neither timestamp is set.                                        *)
DetectDrift(t, ids, status) ==
    /\ scans < MaxScans
    /\ ids \subseteq Inventory[t]
    /\ scans' = scans + 1
    /\ heap' = [heap EXCEPT ![scans + 1] =
                  [i \in IDs |-> IF i \in ids
                                 THEN [status |-> status[i], detected |-> 0, updated |-> 0]
                                 ELSE None]]
    /\ batch' = [batch EXCEPT ![scans + 1] = [type |-> t, ids |-> ids]]
    /\ UNCHANGED <<now, findings>>

(* mutants: the detection time is set by every write, or by none *)
StampAlways(s) ==
    heap' = [heap EXCEPT ![s] = [i \in IDs |->
               IF i \in batch[s].ids
               THEN [heap[s][i] EXCEPT !.updated = now', !.detected = now']
               ELSE heap[s][i]]]
StampUpdated(s) ==
    heap' = [heap EXCEPT ![s] = [i \in IDs |->
               IF i \in batch[s].ids THEN [heap[s][i] EXCEPT !.updated = now'] ELSE heap[s][i]]]

(* The timestamps of the findings a write is given. *)
Stamp(s) ==
    heap' = [heap EXCEPT ![s] = [i \in IDs |->
               IF i \in batch[s].ids
               THEN [heap[s][i] EXCEPT !.updated = now',
                                       !.detected = IF @ = 0 THEN now' ELSE @]
               ELSE heap[s][i]]]

(* mutants: nothing is evicted; everything is *)
EvictedNone(t) == findings
EvictedAll(t) == [i \in IDs |-> 0]

(* The map without the findings of a type. *)
Evicted(t) == [i \in IDs |-> IF findings[i] # 0 /\ batch[findings[i]].type = t
                             THEN 0 ELSE findings[i]]

Upsert(map, s) == [i \in IDs |-> IF i \in batch[s].ids THEN s ELSE map[i]]

Write(s, map) ==
    /\ s <= scans /\ now < MaxNow
    /\ now' = now + 1
    /\ findings' = map
    /\ Stamp(s)
    /\ UNCHANGED <<scans, batch>>

(* StoreFindings of scan s, also its retries and its late attempts. *)
ReplaceFindings(s) == Write(s, Upsert(Evicted(batch[s].type), s))

(* The plain upsert of workflows recorded before StoreInput had a type. *)
SaveFindings(s) == Write(s, Upsert(findings, s))

Done == now = MaxNow /\ scans = MaxScans /\ UNCHANGED vars

Next ==
    \/ \E t \in Types, ids \in SUBSET IDs, status \in [IDs -> Statuses] :
           DetectDrift(t, ids, status)
    \/ \E s \in ScanIDs : ReplaceFindings(s) \/ SaveFindings(s)
    \/ Done

Spec == Init /\ [][Next]_vars

-----------------------------------------------------------------------------
(* The readers. *)

Stored(i) == heap[findings[i]][i]

(* ListFindings with a filter on the type, as CreateSnapshot calls it. *)
ListFindings(t) == {i \in IDs : findings[i] # 0 /\ batch[findings[i]].type = t}

-----------------------------------------------------------------------------
(* What a listing shows of a finding, and the map seen as listings. *)
Entries == {<<i, st>> : i \in IDs, st \in Statuses}
Listing(t) == {<<i, Stored(i).status>> : i \in ListFindings(t)}
MapListing == [t \in Types |-> Listing(t)]
Listings == INSTANCE TypeListings WITH listing <- MapListing

(* Properties. *)

(* Every variable has its type. *)
TypeOK ==
    /\ now \in Times /\ scans \in 0 .. MaxScans
    /\ heap \in [ScanIDs -> [IDs -> Finding \cup {None}]]
    /\ batch \in [ScanIDs -> [type : Types \cup {None}, ids : SUBSET IDs]]
    /\ findings \in [IDs -> 0 .. MaxScans]

(* The map of all findings is a listing per type: a write replaces what is *)
(* listed for the scan's type and nothing of another type, although all    *)
(* types share the map and findings are evicted one by one.                *)
ImplementsListings == Listings!Spec

(* A listing is made by one scan: right after a type was replaced it shows *)
(* exactly the resources that scan found, so resources that are gone from  *)
(* the inventory are gone from the snapshots.                              *)
EvictsGone ==
    [][\A s \in ScanIDs :
          s <= scans /\ ReplaceFindings(s) => ListFindings(batch[s].type)' = batch[s].ids]_vars

(* What the store lists was made by a scan of its type and has both times  *)
(* set, in order, although retries and late attempts stamp the same        *)
(* objects again.                                                          *)
ListedAreStamped ==
    \A i \in IDs : findings[i] # 0 =>
        /\ findings[i] <= scans
        /\ i \in batch[findings[i]].ids
        /\ Stored(i).detected \in 1 .. Stored(i).updated

(* Storing a batch again does not move the time its findings were detected.*)
DetectedOnce ==
    [][\A s \in 1 .. scans : \A i \in batch[s].ids :
          heap[s][i].detected # 0 => heap'[s][i].detected = heap[s][i].detected]_vars

(* "DetectedAt is when this finding was first detected": a resource that   *)
(* stays listed keeps the time.                                            *)
FirstDetected ==
    [][\A i \in IDs : findings[i] # 0 /\ findings'[i] # 0 =>
          Stored(i)'.detected = Stored(i).detected]_vars
=============================================================================
