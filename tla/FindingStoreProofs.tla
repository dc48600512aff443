------------------------- MODULE FindingStoreProofs -------------------------
(***************************************************************************)
(* Proofs about FindingStore, for any number of types, resources, scans    *)
(* and writes: it implements TypeListings, provided that no resource is    *)
(* listed for two types; what it lists is stamped, once and for all.       *)
(***************************************************************************)
EXTENDS FindingStore, TLAPS

(* A batch holds resources of its type only, and a finding object is there *)
(* for each of them.                                                       *)
BatchInv(s) ==
    /\ batch[s].type \in Types
    /\ batch[s].ids \subseteq Inventory[batch[s].type]
    /\ \A i \in batch[s].ids : heap[s][i] \in Finding

(* What is stored for a resource comes from a batch that has it. *)
ListedInv(i) ==
    findings[i] # 0 => findings[i] \in 1 .. scans /\ i \in batch[findings[i]].ids

Inv ==
    /\ TypeOK
    /\ \A s \in 1 .. scans : BatchInv(s)
    /\ \A i \in IDs : ListedInv(i)

LEMMA InitInv == Init => Inv
<1> SUFFICES ASSUME Init PROVE Inv OBVIOUS
<1> USE FindingAssumption DEF FindingAssumption
<1>1. TypeOK BY DEF Init, TypeOK, Times
<1>2. 1 .. scans = {} BY DEF Init
<1>3. \A i \in IDs : ListedInv(i) BY DEF Init, ListedInv
<1>4. QED BY <1>1, <1>2, <1>3 DEF Inv

LEMMA ScansAreIDs == TypeOK => 1 .. scans \subseteq ScanIDs /\ scans \in Nat
BY FindingAssumption DEF FindingAssumption, TypeOK, ScanIDs

(* Stamping a batch changes nothing but timestamps. *)
LEMMA StampKeeps ==
    ASSUME Inv, NEW s \in 1 .. scans, Stamp(s), now' \in Times
    PROVE  /\ heap' \in [ScanIDs -> [IDs -> Finding \cup {None}]]
           /\ \A r \in 1 .. scans : \A i \in batch[r].ids :
                 heap'[r][i] \in Finding /\ heap'[r][i].status = heap[r][i].status
<1>1. TypeOK /\ s \in ScanIDs BY ScansAreIDs DEF Inv
<1> DEFINE new == [i \in IDs |->
               IF i \in batch[s].ids
               THEN [heap[s][i] EXCEPT !.updated = now',
                                       !.detected = IF @ = 0 THEN now' ELSE @]
               ELSE heap[s][i]]
<1>2. heap' = [heap EXCEPT ![s] = new] BY DEF Stamp
<1>3. batch[s].ids \subseteq IDs BY <1>1 DEF TypeOK
<1>4. \A i \in batch[s].ids : new[i] \in Finding /\ new[i].status = heap[s][i].status
  <2> SUFFICES ASSUME NEW i \in batch[s].ids
               PROVE  new[i] \in Finding /\ new[i].status = heap[s][i].status
    OBVIOUS
  <2>1. heap[s][i] \in Finding BY DEF Inv, BatchInv
  <2>2. new[i] = [heap[s][i] EXCEPT !.updated = now',
                                    !.detected = IF heap[s][i].detected = 0 THEN now'
                                                 ELSE heap[s][i].detected]
    BY <1>3, <2>1 DEF Finding
  <2>3. QED BY <2>1, <2>2 DEF Finding
<1>5. new \in [IDs -> Finding \cup {None}]
  <2>1. \A i \in IDs : new[i] \in Finding \cup {None}
    <3> SUFFICES ASSUME NEW i \in IDs PROVE new[i] \in Finding \cup {None} OBVIOUS
    <3>1. CASE i \in batch[s].ids BY <1>4, <3>1
    <3>2. CASE i \notin batch[s].ids BY <1>1, <3>2 DEF TypeOK
    <3>3. QED BY <3>1, <3>2
  <2>2. QED BY <2>1
<1> HIDE DEF new
<1>6. heap' \in [ScanIDs -> [IDs -> Finding \cup {None}]] BY <1>1, <1>2, <1>5 DEF TypeOK
<1>7. ASSUME NEW r \in 1 .. scans, NEW i \in batch[r].ids
      PROVE  heap'[r][i] \in Finding /\ heap'[r][i].status = heap[r][i].status
  <2>1. r \in ScanIDs BY <1>1, ScansAreIDs
  <2>2. heap[r][i] \in Finding BY DEF Inv, BatchInv
  <2>3. heap'[r] = IF r = s THEN new ELSE heap[r] BY <1>1, <1>2, <2>1 DEF TypeOK
  <2>4. QED BY <1>4, <2>2, <2>3
<1>8. QED BY <1>6, <1>7

(* The map a write leaves: the batch's own entries and, of the others, no  *)
(* more than there were.                                                   *)
Narrowed(map, s) ==
    /\ map \in [IDs -> 0 .. MaxScans]
    /\ \A i \in IDs : \/ i \in batch[s].ids /\ map[i] = s
                      \/ i \notin batch[s].ids /\ map[i] \in {findings[i], 0}

LEMMA Writes ==
    ASSUME Inv, NEW s \in 1 .. scans
    PROVE  /\ Narrowed(Upsert(findings, s), s)
           /\ Narrowed(Upsert(Evicted(batch[s].type), s), s)
<1>1. s \in 0 .. MaxScans /\ 0 \in 0 .. MaxScans /\ findings \in [IDs -> 0 .. MaxScans]
  BY ScansAreIDs, FindingAssumption DEF FindingAssumption, Inv, TypeOK, ScanIDs
<1>2. Evicted(batch[s].type) \in [IDs -> 0 .. MaxScans]
      /\ \A i \in IDs : Evicted(batch[s].type)[i] \in {findings[i], 0}
  BY <1>1 DEF Evicted
<1>3. ASSUME NEW map \in [IDs -> 0 .. MaxScans], \A i \in IDs : map[i] \in {findings[i], 0}
      PROVE  Narrowed(Upsert(map, s), s)
  BY <1>1, <1>3 DEF Upsert, Narrowed
<1>4. QED BY <1>1, <1>2, <1>3

LEMMA WriteInv ==
    ASSUME Inv, NEW s \in 1 .. scans, NEW map, Narrowed(map, s), Write(s, map)
    PROVE  Inv'
<1>1. /\ findings' = map /\ now' = now + 1 /\ now < MaxNow /\ Stamp(s)
      /\ UNCHANGED <<scans, batch>>
  BY DEF Write
<1>2. now' \in Times BY <1>1, FindingAssumption DEF FindingAssumption, Inv, TypeOK, Times
<1>3. TypeOK'
  BY <1>1, <1>2, StampKeeps DEF Inv, TypeOK, Narrowed
<1>4. \A r \in 1 .. scans' : BatchInv(r)'
  BY <1>1, <1>2, StampKeeps DEF Inv, BatchInv
<1>5. \A i \in IDs : ListedInv(i)'
  BY <1>1 DEF Inv, ListedInv, Narrowed
<1>6. QED BY <1>3, <1>4, <1>5 DEF Inv

LEMMA DetectInv ==
    ASSUME Inv, NEW t \in Types, NEW ids \in SUBSET IDs, NEW status \in [IDs -> Statuses],
           DetectDrift(t, ids, status)
    PROVE  Inv'
<1> DEFINE new == [i \in IDs |-> IF i \in ids
                                 THEN [status |-> status[i], detected |-> 0, updated |-> 0]
                                 ELSE None]
<1>1. /\ scans < MaxScans /\ ids \subseteq Inventory[t] /\ scans' = scans + 1
      /\ heap' = [heap EXCEPT ![scans + 1] = new]
      /\ batch' = [batch EXCEPT ![scans + 1] = [type |-> t, ids |-> ids]]
      /\ UNCHANGED <<now, findings>>
  BY DEF DetectDrift
<1>2. scans + 1 \in ScanIDs /\ scans \in Nat /\ TypeOK
  BY <1>1, FindingAssumption DEF FindingAssumption, Inv, TypeOK, ScanIDs
<1>3. 0 \in Times BY FindingAssumption DEF FindingAssumption, Times
<1>4. \A i \in ids : new[i] \in Finding BY <1>3 DEF Finding
<1>5. new \in [IDs -> Finding \cup {None}] BY <1>4
<1> HIDE DEF new
<1>6. TypeOK'
  <2>1. scans' \in 0 .. MaxScans BY <1>1, <1>2, FindingAssumption DEF FindingAssumption
  <2>2. QED BY <1>1, <1>2, <1>5, <2>1 DEF TypeOK
<1>7. ASSUME NEW r \in 1 .. scans'
      PROVE  BatchInv(r)'
  <2>1. CASE r = scans + 1
    <3>1. batch'[r] = [type |-> t, ids |-> ids] /\ heap'[r] = new
      BY <1>1, <1>2, <2>1 DEF TypeOK
    <3>2. QED BY <1>1, <1>4, <3>1 DEF BatchInv
  <2>2. CASE r # scans + 1
    <3>1. r \in 1 .. scans /\ r \in ScanIDs BY <1>1, <1>2, <2>2, ScansAreIDs
    <3>2. batch'[r] = batch[r] /\ heap'[r] = heap[r] BY <1>1, <1>2, <2>2, <3>1 DEF TypeOK
    <3>3. QED BY <3>1, <3>2 DEF Inv, BatchInv
  <2>3. QED BY <2>1, <2>2
<1>8. ASSUME NEW i \in IDs
      PROVE  ListedInv(i)'
  <2>1. CASE findings[i] # 0
    <3>1. findings[i] \in 1 .. scans /\ i \in batch[findings[i]].ids BY <2>1 DEF Inv, ListedInv
    <3>2. findings[i] \in ScanIDs /\ findings[i] # scans + 1 BY <1>2, <3>1, ScansAreIDs
    <3>3. batch'[findings[i]] = batch[findings[i]] BY <1>1, <1>2, <3>2 DEF TypeOK
    <3>4. QED BY <1>1, <1>2, <3>1, <3>3 DEF ListedInv
  <2>2. CASE findings[i] = 0 BY <1>1, <2>2 DEF ListedInv
  <2>3. QED BY <2>1, <2>2
<1>9. QED BY <1>6, <1>7, <1>8 DEF Inv

LEMMA StepInv == Inv /\ [Next]_vars => Inv'
<1> SUFFICES ASSUME Inv, [Next]_vars PROVE Inv' OBVIOUS
<1>1. ASSUME NEW t \in Types, NEW ids \in SUBSET IDs, NEW status \in [IDs -> Statuses],
             DetectDrift(t, ids, status)
      PROVE  Inv'
  BY <1>1, DetectInv
<1>2. ASSUME NEW s \in ScanIDs, ReplaceFindings(s) \/ SaveFindings(s) PROVE Inv'
  <2>1. s \in 1 .. scans
    BY <1>2 DEF ReplaceFindings, SaveFindings, Write, ScanIDs, Inv, TypeOK
  <2>2. QED BY <1>2, <2>1, Writes, WriteInv DEF ReplaceFindings, SaveFindings
<1>3. CASE UNCHANGED vars
  BY <1>3 DEF vars, Inv, TypeOK, BatchInv, ListedInv
<1>4. QED BY <1>1, <1>2, <1>3 DEF Next, Done

LEMMA Invariance == Spec => []Inv
BY InitInv, StepInv, PTL DEF Spec

(***************************************************************************)
(* The refinement.                                                         *)
(***************************************************************************)
(* A write of a batch leaves the listings of the other types alone. *)
LEMMA OtherListings ==
    ASSUME Inv, Disjoint, NEW s \in 1 .. scans, NEW map, Write(s, map),
           \/ map = Upsert(findings, s)
           \/ map = Upsert(Evicted(batch[s].type), s),
           NEW t \in Types, t # batch[s].type
    PROVE  Listing(t)' = Listing(t)
<1>1. findings' = map /\ Stamp(s) /\ batch' = batch /\ now' \in Times
  BY FindingAssumption DEF FindingAssumption, Write, Inv, TypeOK, Times
<1>2. \A i \in Inventory[t] : i \notin batch[s].ids
  BY DEF Disjoint, Inv, BatchInv
<1>3. \A i \in ListFindings(t) : i \in Inventory[t] /\ findings[i] \in 1 .. scans
  BY DEF ListFindings, Inv, ListedInv, BatchInv
<1>4. \A i \in ListFindings(t) : map[i] = findings[i]
  BY <1>2, <1>3 DEF ListFindings, Upsert, Evicted
<1>5. \A i \in IDs : map[i] # 0 /\ batch[map[i]].type = t => map[i] = findings[i]
  BY DEF Upsert, Evicted
<1>6. ListFindings(t)' = ListFindings(t)
  BY <1>1, <1>4, <1>5 DEF ListFindings
<1>7. \A i \in ListFindings(t) : Stored(i)'.status = Stored(i).status
  <2> SUFFICES ASSUME NEW i \in ListFindings(t) PROVE Stored(i)'.status = Stored(i).status
    OBVIOUS
  <2>1. findings'[i] = findings[i] BY <1>1, <1>4
  <2>2. i \in batch[findings[i]].ids /\ findings[i] \in 1 .. scans
    BY DEF ListFindings, Inv, ListedInv
  <2>3. heap'[findings[i]][i].status = heap[findings[i]][i].status
    BY <1>1, <2>2, StampKeeps
  <2>4. QED BY <2>1, <2>3 DEF Stored
<1>8. QED BY <1>6, <1>7 DEF Listing

AllTyped == \A t \in Types : Listing(t) \in SUBSET Entries

LEMMA ListingTyped == Inv => AllTyped
<1> SUFFICES ASSUME Inv, NEW t \in Types, NEW i \in ListFindings(t)
             PROVE  <<i, Stored(i).status>> \in Entries
  BY DEF AllTyped, Listing
<1>1. i \in IDs /\ findings[i] \in 1 .. scans /\ i \in batch[findings[i]].ids
  BY DEF ListFindings, Inv, ListedInv
<1>2. Stored(i) \in Finding BY <1>1 DEF Stored, Inv, BatchInv
<1>3. QED BY <1>1, <1>2 DEF Entries, Finding

LEMMA StepImplements ==
    ASSUME Inv, Inv', Disjoint, [Next]_vars
    PROVE  \/ \E t \in Types, entries \in SUBSET Entries :
                 MapListing' = [MapListing EXCEPT ![t] = entries]
           \/ MapListing' = MapListing
<1>0. AllTyped' BY ListingTyped, PTL
<1>1. ASSUME NEW t \in Types, NEW ids \in SUBSET IDs, NEW status \in [IDs -> Statuses],
             DetectDrift(t, ids, status)
      PROVE  MapListing' = MapListing
  <2>1. ASSUME NEW i \in IDs, findings[i] # 0
        PROVE  heap'[findings[i]] = heap[findings[i]] /\ batch'[findings[i]] = batch[findings[i]]
    <3>1. findings[i] \in 1 .. scans BY <2>1 DEF Inv, ListedInv
    <3>2. findings[i] \in ScanIDs /\ findings[i] # scans + 1
      BY <3>1, ScansAreIDs DEF Inv
    <3>3. QED BY <1>1, <3>2 DEF DetectDrift, Inv, TypeOK
  <2>2. findings' = findings BY <1>1 DEF DetectDrift
  <2>3. ASSUME NEW u \in Types PROVE Listing(u)' = Listing(u)
    <3>1. ListFindings(u)' = ListFindings(u) BY <2>1, <2>2 DEF ListFindings
    <3>2. \A i \in ListFindings(u) : Stored(i)' = Stored(i) BY <2>1, <2>2 DEF ListFindings, Stored
    <3>3. QED BY <3>1, <3>2 DEF Listing
  <2>4. QED BY <2>3 DEF MapListing
<1>2. ASSUME NEW s \in ScanIDs, ReplaceFindings(s) \/ SaveFindings(s)
      PROVE  \E t \in Types, entries \in SUBSET Entries :
                MapListing' = [MapListing EXCEPT ![t] = entries]
  <2>1. s \in 1 .. scans
    BY <1>2 DEF ReplaceFindings, SaveFindings, Write, ScanIDs, Inv, TypeOK
  <2>2. PICK t \in Types : t = batch[s].type BY <2>1 DEF Inv, BatchInv
  <2>3. PICK entries \in SUBSET Entries : entries = Listing(t)' BY <1>0 DEF AllTyped
  <2>4. \A u \in Types : u # t => Listing(u)' = Listing(u)
    BY <1>2, <2>1, <2>2, OtherListings DEF ReplaceFindings, SaveFindings
  <2>5. MapListing' = [MapListing EXCEPT ![t] = entries]
    BY <2>3, <2>4 DEF MapListing
  <2>6. QED BY <2>5
<1>3. CASE UNCHANGED vars
  BY <1>3 DEF vars, MapListing, Listing, ListFindings, Stored
<1>4. QED BY <1>1, <1>2, <1>3 DEF Next, Done

(* FindingStore implements TypeListings: each operation replaces the       *)
(* listing of at most one type, whatever batches are stored again or late. *)
THEOREM StoreImplementsListings ==
    ASSUME Disjoint PROVE Spec => ImplementsListings
<1>1. Init => Listings!Init
  BY DEF Init, Listings!Init, MapListing, Listing, ListFindings
<1>2. Inv /\ Inv' /\ [Next]_vars => Listings!Next \/ UNCHANGED MapListing
  <2> SUFFICES ASSUME Inv, Inv', [Next]_vars
               PROVE  Listings!Next \/ UNCHANGED MapListing
    OBVIOUS
  <2>1. Disjoint OBVIOUS
  <2>2. \/ \E t \in Types, entries \in SUBSET Entries :
             MapListing' = [MapListing EXCEPT ![t] = entries]
        \/ MapListing' = MapListing
    BY <2>1, StepImplements
  <2>3. QED BY <2>2 DEF Listings!Next, Listings!Replace
<1>3. QED BY <1>1, <1>2, Invariance, PTL DEF Spec, ImplementsListings, Listings!Spec

(* Every variable keeps its type. *)
THEOREM TypeCorrect == Spec => []TypeOK
<1>1. Inv => TypeOK BY DEF Inv
<1>2. QED BY <1>1, Invariance, PTL

(***************************************************************************)
(* The timestamps.                                                         *)
(***************************************************************************)
(* No time of a finding is ahead of the clock or out of order, and what is *)
(* stored has been stamped.                                                *)
Ordered(f) == f.detected <= f.updated /\ f.updated <= now
StampedInv ==
    /\ \A s \in 1 .. scans : \A i \in batch[s].ids : Ordered(heap[s][i])
    /\ \A i \in IDs : findings[i] # 0 => Stored(i).detected # 0

LEMMA StampIs ==
    ASSUME Inv, NEW s \in 1 .. scans, Stamp(s), NEW r \in 1 .. scans, NEW i \in batch[r].ids
    PROVE  /\ heap[r][i] \in Finding
           /\ r = s => /\ heap'[r][i].updated = now'
                       /\ heap'[r][i].detected = IF heap[r][i].detected = 0 THEN now'
                                                 ELSE heap[r][i].detected
           /\ r # s => heap'[r][i] = heap[r][i]
<1>1. TypeOK /\ s \in ScanIDs /\ r \in ScanIDs /\ heap[r][i] \in Finding
  BY ScansAreIDs DEF Inv, BatchInv
<1>2. i \in IDs BY <1>1 DEF TypeOK
<1>3. CASE r = s
  <2>1. heap'[s][i] = [heap[s][i] EXCEPT !.updated = now',
                                         !.detected = IF @ = 0 THEN now' ELSE @]
    BY <1>1, <1>2, <1>3 DEF Stamp, TypeOK
  <2>2. QED BY <1>1, <1>3, <2>1 DEF Finding
<1>4. CASE r # s BY <1>1, <1>2, <1>4 DEF Stamp, TypeOK
<1>5. QED BY <1>1, <1>3, <1>4

LEMMA WriteStamps ==
    ASSUME Inv, StampedInv, NEW s \in 1 .. scans, NEW map, Narrowed(map, s), Write(s, map)
    PROVE  StampedInv'
<1>1. /\ findings' = map /\ now' = now + 1 /\ Stamp(s) /\ UNCHANGED <<scans, batch>> /\ now \in Nat
  BY FindingAssumption DEF FindingAssumption, Write, Inv, TypeOK, Times
<1>2. ASSUME NEW r \in 1 .. scans, NEW i \in batch[r].ids PROVE Ordered(heap[r][i])'
  <2>1. /\ heap[r][i].detected \in Nat /\ heap[r][i].updated \in Nat
        /\ heap[r][i].detected <= heap[r][i].updated /\ heap[r][i].updated <= now
    BY FindingAssumption DEF FindingAssumption, StampedInv, Ordered, Inv, BatchInv, Finding, Times
  <2>2. CASE r = s BY <1>1, <2>1, <2>2, StampIs DEF Ordered
  <2>3. CASE r # s BY <1>1, <2>1, <2>3, StampIs DEF Ordered
  <2>4. QED BY <2>2, <2>3
<1>3. ASSUME NEW i \in IDs, findings'[i] # 0 PROVE Stored(i)'.detected # 0
  <2>1. CASE i \in batch[s].ids /\ map[i] = s
    <3>1. heap'[s][i].detected # 0 BY <1>1, <2>1, StampIs
    <3>2. QED BY <1>1, <2>1, <3>1 DEF Stored
  <2>2. CASE map[i] = findings[i]
    <3>1. findings[i] \in 1 .. scans /\ i \in batch[findings[i]].ids /\ heap[findings[i]][i].detected # 0
      BY <1>1, <1>3, <2>2 DEF Inv, ListedInv, StampedInv, Stored
    <3>2. heap'[findings[i]][i].detected # 0 BY <1>1, <3>1, StampIs
    <3>3. QED BY <1>1, <2>2, <3>2 DEF Stored
  <2>3. QED BY <1>1, <1>3, <2>1, <2>2 DEF Narrowed
<1>4. QED BY <1>1, <1>2, <1>3 DEF StampedInv

(* A new batch leaves the findings made before it alone. *)
LEMMA DetectKeeps ==
    ASSUME Inv, NEW t \in Types, NEW ids \in SUBSET IDs, NEW status \in [IDs -> Statuses],
           DetectDrift(t, ids, status)
    PROVE  /\ scans' = scans + 1 /\ scans \in Nat /\ UNCHANGED <<now, findings>>
           /\ \A s \in 1 .. scans : heap'[s] = heap[s] /\ batch'[s] = batch[s]
           /\ batch'[scans + 1].ids = ids
           /\ \A i \in ids : heap'[scans + 1][i] = [status |-> status[i], detected |-> 0, updated |-> 0]
<1>1. TypeOK /\ scans + 1 \in ScanIDs /\ scans \in Nat
  BY FindingAssumption DEF FindingAssumption, DetectDrift, Inv, TypeOK, ScanIDs
<1>2. \A s \in 1 .. scans : s \in ScanIDs /\ s # scans + 1 BY <1>1, ScansAreIDs
<1>3. QED BY <1>1, <1>2 DEF DetectDrift, TypeOK

LEMMA DetectStamps ==
    ASSUME Inv, StampedInv, NEW t \in Types, NEW ids \in SUBSET IDs,
           NEW status \in [IDs -> Statuses], DetectDrift(t, ids, status)
    PROVE  StampedInv'
<1>1. now \in Nat BY FindingAssumption DEF FindingAssumption, Inv, TypeOK, Times
<1>2. ASSUME NEW s \in 1 .. scans', NEW i \in batch'[s].ids PROVE Ordered(heap[s][i])'
  <2>1. CASE s \in 1 .. scans
    <3>1. heap'[s] = heap[s] /\ batch'[s] = batch[s] /\ now' = now BY <2>1, DetectKeeps
    <3>2. QED BY <1>2, <2>1, <3>1 DEF StampedInv, Ordered
  <2>2. CASE s = scans + 1
    <3>1. /\ now' = now /\ batch'[scans + 1].ids = ids
          /\ \A j \in ids : heap'[scans + 1][j] = [status |-> status[j], detected |-> 0, updated |-> 0]
      BY DetectKeeps
    <3>2. heap'[s][i] = [status |-> status[i], detected |-> 0, updated |-> 0]
      BY <1>2, <2>2, <3>1
    <3>3. QED BY <1>1, <3>1, <3>2 DEF Ordered
  <2>3. QED BY <2>1, <2>2, DetectKeeps
<1>3. ASSUME NEW i \in IDs, findings'[i] # 0 PROVE Stored(i)'.detected # 0
  <2>1. findings' = findings /\ findings[i] \in 1 .. scans
    BY <1>3, DetectKeeps DEF Inv, ListedInv
  <2>2. heap'[findings[i]] = heap[findings[i]] BY <2>1, DetectKeeps
  <2>3. QED BY <1>3, <2>1, <2>2 DEF StampedInv, Stored
<1>4. QED BY <1>2, <1>3 DEF StampedInv

(* A write is one of a scan that has been made, into the map it narrows. *)
LEMMA WriteIs ==
    ASSUME Inv, NEW s \in ScanIDs, ReplaceFindings(s) \/ SaveFindings(s)
    PROVE  s \in 1 .. scans /\ \E map : Narrowed(map, s) /\ Write(s, map)
<1>1. s \in 1 .. scans
  BY DEF ReplaceFindings, SaveFindings, Write, ScanIDs, Inv, TypeOK
<1>2. QED BY <1>1, Writes DEF ReplaceFindings, SaveFindings

LEMMA StepStamps == Inv /\ StampedInv /\ [Next]_vars => StampedInv'
<1> SUFFICES ASSUME Inv, StampedInv, [Next]_vars PROVE StampedInv' OBVIOUS
<1>1. ASSUME NEW t \in Types, NEW ids \in SUBSET IDs, NEW status \in [IDs -> Statuses],
             DetectDrift(t, ids, status)
      PROVE  StampedInv'
  BY <1>1, DetectStamps
<1>2. ASSUME NEW s \in ScanIDs, ReplaceFindings(s) \/ SaveFindings(s) PROVE StampedInv'
  BY <1>2, WriteIs, WriteStamps
<1>3. CASE UNCHANGED vars BY <1>3 DEF vars, StampedInv, Ordered, Stored
<1>4. QED BY <1>1, <1>2, <1>3 DEF Next, Done

LEMMA StampedInvariance == Spec => [](Inv /\ StampedInv)
<1>1. Init => StampedInv BY DEF Init, StampedInv
<1>2. QED BY <1>1, InitInv, StepInv, StepStamps, PTL DEF Spec

(* What the store lists was made by a scan of its type, was stamped when   *)
(* it was stored, and was not detected after it was updated, although      *)
(* retries and late attempts of StoreFindings stamp the same objects again *)
(* (SaveFindings, ReplaceFindings).                                        *)
THEOREM ListedStamped == Spec => []ListedAreStamped
<1>1. Inv /\ StampedInv => ListedAreStamped
  <2> SUFFICES ASSUME Inv, StampedInv, NEW i \in IDs, findings[i] # 0
               PROVE  /\ findings[i] <= scans
                      /\ i \in batch[findings[i]].ids
                      /\ Stored(i).detected \in 1 .. Stored(i).updated
    BY DEF ListedAreStamped
  <2>1. findings[i] \in 1 .. scans /\ i \in batch[findings[i]].ids BY DEF Inv, ListedInv
  <2>2. Stored(i) \in Finding /\ Ordered(Stored(i)) /\ Stored(i).detected # 0
    BY <2>1 DEF Inv, BatchInv, StampedInv, Stored
  <2>3. Stored(i).detected \in Nat /\ Stored(i).updated \in Nat
    BY <2>2, FindingAssumption DEF FindingAssumption, Finding, Times
  <2>4. scans \in Nat BY ScansAreIDs DEF Inv
  <2>5. QED BY <2>1, <2>2, <2>3, <2>4 DEF Ordered
<1>2. QED BY <1>1, StampedInvariance, PTL

(* However often a batch is stored again, and whoever stores it, the time  *)
(* its findings were detected stays the one the first write set.           *)
THEOREM DetectedStays == Spec => DetectedOnce
<1>1. Inv /\ [Next]_vars =>
        [\A s \in 1 .. scans : \A i \in batch[s].ids :
            heap[s][i].detected # 0 => heap'[s][i].detected = heap[s][i].detected]_vars
  <2> SUFFICES ASSUME Inv, [Next]_vars, NEW s \in 1 .. scans, NEW i \in batch[s].ids,
                      heap[s][i].detected # 0
               PROVE  heap'[s][i].detected = heap[s][i].detected
    OBVIOUS
  <2>1. ASSUME NEW t \in Types, NEW ids \in SUBSET IDs, NEW status \in [IDs -> Statuses],
               DetectDrift(t, ids, status)
        PROVE  heap'[s][i].detected = heap[s][i].detected
    BY <2>1, DetectKeeps
  <2>2. ASSUME NEW r \in ScanIDs, ReplaceFindings(r) \/ SaveFindings(r)
        PROVE  heap'[s][i].detected = heap[s][i].detected
    <3>1. r \in 1 .. scans /\ Stamp(r) BY <2>2, WriteIs DEF Write
    <3>2. QED BY <3>1, StampIs
  <2>3. CASE UNCHANGED vars BY <2>3 DEF vars
  <2>4. QED BY <2>1, <2>2, <2>3 DEF Next, Done
<1>2. QED BY <1>1, Invariance, PTL DEF Spec, DetectedOnce

(* Right after a type was replaced its listing is the batch: the resources *)
(* that left the inventory, or that another type's batch had taken over,   *)
(* are not listed any more.                                                *)
THEOREM GoneEvicted == Spec => EvictsGone
<1>1. Inv /\ [Next]_vars =>
        [\A s \in ScanIDs :
            s <= scans /\ ReplaceFindings(s) => ListFindings(batch[s].type)' = batch[s].ids]_vars
  <2> SUFFICES ASSUME Inv, NEW s \in ScanIDs, s <= scans, ReplaceFindings(s)
               PROVE  ListFindings(batch[s].type)' = batch[s].ids
    OBVIOUS
  <2>1. /\ findings' = Upsert(Evicted(batch[s].type), s) /\ batch' = batch
        /\ s # 0 /\ batch[s].ids \subseteq IDs
    BY DEF ReplaceFindings, Write, ScanIDs, Inv, TypeOK
  <2>2. \A i \in IDs : (findings'[i] # 0 /\ batch[findings'[i]].type = batch[s].type)
                          <=> i \in batch[s].ids
    BY <2>1 DEF Upsert, Evicted
  <2>3. QED BY <2>1, <2>2 DEF ListFindings
<1>2. QED BY <1>1, Invariance, PTL DEF Spec, EvictsGone
=============================================================================
