------------------------- MODULE SnapshotStoreProofs -------------------------
(***************************************************************************)
(* Proofs about SnapshotStore, for any number of snapshots, IDs and days:  *)
(* what an acknowledged save can rely on, what GetSnapshot finds, and what *)
(* a listing holds.                                                        *)
(***************************************************************************)
EXTENDS SnapshotStore, TLAPS, SequenceTheorems, FiniteSetTheorems, WellFoundedInduction

Call == [snapshot : Snapshot, step : {"begun", "latest"}]
Key(s) == generateKey(s.at, s.id)

LEMMA KeysAre ==
    /\ \A s \in Snapshot : Key(s) \in Keys /\ Key(s)[1] = Day(s.at) /\ Key(s)[2] = s.id
    /\ Keys \subseteq Nat \X Nat
<1>1. \A time \in 0 .. MaxNow : Day(time) \in Nat
  BY StoreAssumption DEF StoreAssumption, Day
<1>2. QED BY <1>1, StoreAssumption DEF StoreAssumption, Key, generateKey, Keys, Snapshot

LEMMA NoneIsNoSnapshot == None \notin Snapshot
BY StoreAssumption DEF StoreAssumption, Snapshot

-----------------------------------------------------------------------------
(* The invariant.                                                          *)

(* Snapshots are numbered as they are built. *)
NumberInv ==
    /\ \A s \in saving : s.snapshot.n <= built
    /\ \A s \in acked : s.n <= built
    /\ \A k \in Keys : objects[k] # None => objects[k].n <= built
    /\ latest # None => latest.n <= built

(* An object is under the key of its own ID and day. *)
PlaceInv ==
    /\ \A k \in Keys : objects[k] # None => objects[k].id = k[2] /\ Day(objects[k].at) = k[1]
    /\ \A i \in IDs : stored[i] # None => stored[i].id = i
    /\ \A j \in 1 .. Len(order) : stored[order[j]] # None

(* Without overlap the one save in progress is of the last snapshot built. *)
AloneInv ==
    ~overlapped => \A s \in saving : s.snapshot.n = built /\ \A t \in saving : s = t

(* A dated object was put before latest.json, and nothing older replaces   *)
(* it; only S3 has that second step.                                       *)
DatedInv ==
    \A s \in saving : s.step = "latest" =>
        /\ backend = "s3"
        /\ objects[Key(s.snapshot)] # None
        /\ ~overlapped => objects[Key(s.snapshot)].n >= s.snapshot.n

AckedInv ==
    \A s \in acked :
        /\ backend = "s3" =>
              /\ objects[Key(s)] # None
              /\ ~overlapped => /\ objects[Key(s)].n >= s.n
                                /\ latest # None /\ latest.n >= s.n
        /\ backend = "memory" => stored[s.id] # None

IInv == TypeOK /\ NumberInv /\ PlaceInv /\ AloneInv /\ DatedInv /\ AckedInv

LEMMA InitInv == Init => IInv
<1> SUFFICES ASSUME Init PROVE IInv OBVIOUS
<1>1. TypeOK
  <2>1. order \in Seq(IDs) /\ IsInjective(order) /\ Len(order) = 0 BY DEF Init, IsInjective
  <2>2. now \in 0 .. MaxNow /\ built \in 0 .. MaxBuilt
    BY StoreAssumption DEF StoreAssumption, Init
  <2>3. overlapped \in BOOLEAN BY DEF Init
  <2>4. QED BY <2>1, <2>2, <2>3 DEF Init, TypeOK
<1>2. NumberInv /\ AloneInv /\ DatedInv /\ AckedInv BY DEF Init, NumberInv, AloneInv, DatedInv, AckedInv
<1>3. PlaceInv BY DEF Init, PlaceInv
<1>4. QED BY <1>1, <1>2, <1>3 DEF IInv

LEMMA StepBegin == ASSUME IInv, NEW id \in IDs, Begin(id) PROVE IInv'
<1> USE StoreAssumption DEF StoreAssumption
<1>1. /\ TypeOK /\ NumberInv /\ PlaceInv /\ AloneInv /\ DatedInv /\ AckedInv
      /\ built \in Nat /\ now \in 0 .. MaxNow /\ built < MaxBuilt
  BY DEF IInv, TypeOK, Begin
<1>2. PICK new : new = [snapshot |-> [n |-> built + 1, id |-> id, at |-> now], step |-> "begun"]
  OBVIOUS
<1>3. new \in Call /\ new.snapshot.n = built + 1 /\ new.step = "begun" BY <1>1, <1>2 DEF Call, Snapshot
<1>4. /\ built' = built + 1 /\ saving' = saving \cup {new}
      /\ overlapped' = (overlapped \/ saving # {})
      /\ UNCHANGED <<now, backend, objects, latest, stored, order, acked>>
  BY <1>2 DEF Begin, bucket, memory
<1>5. ~overlapped' => ~overlapped /\ saving = {} BY <1>4
<1>6. \A s \in Snapshot : s.n \in Nat BY DEF Snapshot
<1>7. \A s \in saving : s.snapshot \in Snapshot /\ s.snapshot.n <= built BY <1>1 DEF TypeOK, NumberInv
<1>8. TypeOK'
  <2>1. saving' \subseteq Call BY <1>1, <1>3, <1>4 DEF TypeOK, Call
  <2>2. ASSUME NEW s \in saving', NEW t \in saving', s.snapshot.n = t.snapshot.n PROVE s = t
    BY <1>1, <1>3, <1>4, <1>6, <1>7, <2>2 DEF TypeOK
  <2>3. overlapped' \in BOOLEAN BY <1>4
  <2>4. built' \in 0 .. MaxBuilt BY <1>1, <1>4
  <2>5. QED BY <1>1, <1>4, <2>1, <2>2, <2>3, <2>4 DEF TypeOK, Call
<1>9. NumberInv'
  <2>1. \A s \in acked : s.n \in Nat /\ s.n <= built BY <1>1, <1>6 DEF TypeOK, NumberInv
  <2>2. \A k \in Keys : objects[k] # None => objects[k].n \in Nat /\ objects[k].n <= built
    BY <1>1, <1>6 DEF TypeOK, NumberInv
  <2>3. latest # None => latest.n \in Nat /\ latest.n <= built BY <1>1, <1>6 DEF TypeOK, NumberInv
  <2>4. \A s \in saving' : s.snapshot.n <= built' BY <1>1, <1>3, <1>4, <1>6, <1>7
  <2>5. QED BY <1>1, <1>4, <2>1, <2>2, <2>3, <2>4 DEF NumberInv
<1>10. PlaceInv' BY <1>1, <1>4 DEF PlaceInv
<1>11. AloneInv' BY <1>3, <1>4, <1>5 DEF AloneInv
<1>12. DatedInv' BY <1>1, <1>3, <1>4, <1>5 DEF DatedInv
<1>13. AckedInv' BY <1>1, <1>4, <1>5 DEF AckedInv
<1>14. QED BY <1>8, <1>9, <1>10, <1>11, <1>12, <1>13 DEF IInv

(* A call in progress that goes on or ends, perhaps acknowledged, while    *)
(* one of the dated objects is put or not, and latest.json is put or not.  *)
PutOrNot(s) ==
    objects' = objects \/ objects' = [objects EXCEPT ![Key(s.snapshot)] = s.snapshot]

LEMMA ObjectsPut ==
    ASSUME IInv, NEW s \in saving, PutOrNot(s), UNCHANGED <<stored, order>>
    PROVE  /\ objects' \in [Keys -> Snapshot \cup {None}]
           /\ PlaceInv'
           /\ \A k \in Keys : objects'[k] # None => objects'[k].n <= built
           /\ \A k \in Keys : objects[k] # None => objects'[k] # None
           /\ ~overlapped => \A k \in Keys : objects[k] # None => objects'[k].n >= objects[k].n
<1>1. /\ objects \in [Keys -> Snapshot \cup {None}] /\ s.snapshot \in Snapshot
      /\ s.snapshot.n \in Nat /\ s.snapshot.n <= built /\ built \in Nat
      /\ \A k \in Keys : objects[k] # None => objects[k].n \in Nat /\ objects[k].n <= built
  BY StoreAssumption DEF IInv, TypeOK, NumberInv, Snapshot, StoreAssumption
<1>2. s.snapshot # None BY <1>1, NoneIsNoSnapshot
<1>3. PICK key \in Keys : key = Key(s.snapshot) /\ key[1] = Day(s.snapshot.at) /\ key[2] = s.snapshot.id
  BY <1>1, KeysAre
<1>4. ~overlapped => s.snapshot.n = built BY DEF IInv, AloneInv
<1>5. \A k \in Keys : objects'[k] = objects[k] \/ (k = key /\ objects'[k] = s.snapshot)
  BY <1>1, <1>3 DEF PutOrNot
<1>6. objects' \in [Keys -> Snapshot \cup {None}] BY <1>1, <1>3 DEF PutOrNot
<1>7. PlaceInv'
  BY <1>3, <1>5 DEF IInv, PlaceInv
<1>8. QED BY <1>1, <1>2, <1>4, <1>5, <1>6, <1>7

(* What every call in progress, ending or going on, leaves of the rest. *)
LEMMA RestKept ==
    ASSUME IInv, NEW s \in saving, PutOrNot(s), UNCHANGED <<now, backend, stored, order, acked, built, overlapped>>,
           latest' = latest \/ latest' = s.snapshot,
           saving' = saving \ {s} \/ (/\ objects' = [objects EXCEPT ![Key(s.snapshot)] = s.snapshot]
                                      /\ backend = "s3"
                                      /\ saving' = (saving \ {s}) \cup {[s EXCEPT !.step = "latest"]})
    PROVE  IInv'
<1>1. /\ TypeOK /\ NumberInv /\ AloneInv /\ DatedInv /\ AckedInv
      /\ saving \subseteq Call /\ s \in Call /\ s.snapshot \in Snapshot /\ s.snapshot # None
      /\ s.snapshot.n \in Nat /\ s.snapshot.n <= built
      /\ ~overlapped => s.snapshot.n = built
  BY NoneIsNoSnapshot DEF IInv, TypeOK, NumberInv, AloneInv, Call, Snapshot
<1>2. /\ objects' \in [Keys -> Snapshot \cup {None}] /\ PlaceInv'
      /\ \A k \in Keys : objects'[k] # None => objects'[k].n <= built
      /\ \A k \in Keys : objects[k] # None => objects'[k] # None
      /\ ~overlapped => \A k \in Keys : objects[k] # None => objects'[k].n >= objects[k].n
  BY ObjectsPut
<1>3. /\ objects \in [Keys -> Snapshot \cup {None}] /\ \A o \in Snapshot : o.n \in Nat
      /\ \A o \in Snapshot : Key(o) \in Keys
  BY <1>1, KeysAre DEF TypeOK, Snapshot
<1>4. PICK t : t = [s EXCEPT !.step = "latest"] OBVIOUS
<1>5. t \in Call /\ t.snapshot = s.snapshot /\ t.step = "latest" BY <1>1, <1>4 DEF Call
<1>6. \A u \in saving' : u \in saving \ {s} \/ (u = t /\ backend = "s3" /\ objects' = [objects EXCEPT ![Key(s.snapshot)] = s.snapshot])
  BY <1>4
<1>7. TypeOK'
  <2>1. saving' \subseteq Call BY <1>1, <1>5, <1>6
  <2>2. ASSUME NEW u \in saving', NEW v \in saving', u.snapshot.n = v.snapshot.n PROVE u = v
    BY <1>1, <1>5, <1>6, <2>2 DEF TypeOK
  <2>3. latest' \in Snapshot \cup {None} BY <1>1 DEF TypeOK
  <2>4. QED BY <1>1, <1>2, <2>1, <2>2, <2>3 DEF TypeOK, Call
<1>8. NumberInv'
  <2>1. \A u \in saving' : u.snapshot.n <= built BY <1>1, <1>5, <1>6 DEF NumberInv
  <2>2. latest' # None => latest'.n <= built BY <1>1 DEF NumberInv
  <2>3. QED BY <1>1, <1>2, <2>1, <2>2 DEF NumberInv
<1>9. AloneInv' BY <1>1, <1>5, <1>6 DEF AloneInv
<1>10. DatedInv'
  <2> SUFFICES ASSUME NEW u \in saving', u.step = "latest"
               PROVE  /\ backend = "s3"
                      /\ objects'[Key(u.snapshot)] # None
                      /\ ~overlapped => objects'[Key(u.snapshot)].n >= u.snapshot.n
    BY DEF DatedInv, Key, generateKey, Day
  <2>1. CASE u \in saving \ {s}
    <3>1. Key(u.snapshot) \in Keys /\ u.snapshot.n \in Nat BY <1>1, <1>3, <2>1 DEF Call
    <3>2. overlapped BY <1>1, <2>1 DEF AloneInv
    <3>3. QED BY <1>1, <1>2, <2>1, <3>1, <3>2 DEF DatedInv
  <2>2. CASE u = t /\ backend = "s3" /\ objects' = [objects EXCEPT ![Key(s.snapshot)] = s.snapshot]
    <3>1. objects'[Key(u.snapshot)] = s.snapshot BY <1>1, <1>3, <1>5, <2>2
    <3>2. QED BY <1>1, <1>5, <2>2, <3>1
  <2>3. QED BY <1>6, <2>1, <2>2
<1>11. AckedInv'
  <2> SUFFICES ASSUME NEW a \in acked
               PROVE  /\ backend = "s3" =>
                            /\ objects'[Key(a)] # None
                            /\ ~overlapped => /\ objects'[Key(a)].n >= a.n
                                              /\ latest' # None /\ latest'.n >= a.n
                      /\ backend = "memory" => stored[a.id] # None
    BY DEF AckedInv, Key, generateKey, Day
  <2>1. a \in Snapshot /\ a.n \in Nat /\ a.n <= built /\ Key(a) \in Keys
    BY <1>1, <1>3 DEF TypeOK, NumberInv
  <2>2. backend = "memory" => stored[a.id] # None BY <1>1 DEF AckedInv
  <2>3. ASSUME backend = "s3" PROVE objects'[Key(a)] # None BY <1>1, <1>2, <2>1, <2>3 DEF AckedInv
  <2>4. ASSUME backend = "s3", ~overlapped
        PROVE  objects'[Key(a)].n >= a.n /\ latest' # None /\ latest'.n >= a.n
    <3>1. /\ objects[Key(a)] # None /\ objects[Key(a)].n >= a.n
          /\ latest # None /\ latest.n >= a.n
      BY <1>1, <2>4 DEF AckedInv
    <3>2. objects[Key(a)].n \in Nat /\ objects'[Key(a)].n \in Nat /\ objects'[Key(a)].n >= objects[Key(a)].n
      BY <1>2, <1>3, <2>1, <2>4, <3>1
    <3>3. latest' # None /\ latest'.n >= a.n BY <1>1, <2>1, <2>4, <3>1
    <3>4. QED BY <2>1, <3>1, <3>2, <3>3
  <2>5. QED BY <2>2, <2>3, <2>4
<1>12. QED BY <1>2, <1>7, <1>8, <1>9, <1>10, <1>11 DEF IInv

LEMMA StepPutDated == ASSUME IInv, NEW s \in saving, PutDated(s) PROVE IInv'
BY RestKept DEF PutDated, PutOrNot, Key, memory

LEMMA StepFails == ASSUME IInv, NEW s \in saving, SaveFails(s) PROVE IInv'
BY RestKept DEF SaveFails, PutOrNot, Key, memory, bucket

(* An acknowledged save is one that has been put under both keys. *)
LEMMA StepPutLatest == ASSUME IInv, NEW s \in saving, PutLatest(s) PROVE IInv'
<1>1. /\ TypeOK /\ NumberInv /\ PlaceInv /\ AloneInv /\ DatedInv /\ AckedInv
      /\ s \in Call /\ s.snapshot \in Snapshot /\ s.snapshot # None
      /\ s.snapshot.n \in Nat /\ s.snapshot.n <= built
      /\ ~overlapped => s.snapshot.n = built
  BY NoneIsNoSnapshot DEF IInv, TypeOK, NumberInv, AloneInv, Call, Snapshot
<1>2. /\ s.step = "latest" /\ latest' = s.snapshot
      /\ saving' = saving \ {s} /\ acked' = acked \cup {s.snapshot}
      /\ UNCHANGED <<now, backend, objects, stored, order, built, overlapped>>
  BY DEF PutLatest, Return, memory
<1>3. TypeOK' BY <1>1, <1>2 DEF TypeOK
<1>4. NumberInv' BY <1>1, <1>2 DEF NumberInv
<1>5. PlaceInv' BY <1>1, <1>2 DEF PlaceInv
<1>6. AloneInv' BY <1>1, <1>2 DEF AloneInv
<1>7. DatedInv' BY <1>1, <1>2 DEF DatedInv
<1>8. AckedInv'
  <2>1. \A a \in acked : a.n \in Nat /\ a.n <= built BY <1>1 DEF TypeOK, NumberInv, Snapshot
  <2>2. \A a \in acked' : ~overlapped => latest'.n >= a.n BY <1>1, <1>2, <2>1
  <2>3. backend = "s3" /\ objects[Key(s.snapshot)] # None
        /\ (~overlapped => objects[Key(s.snapshot)].n >= s.snapshot.n)
    BY <1>1, <1>2 DEF DatedInv
  <2>4. QED BY <1>1, <1>2, <2>2, <2>3 DEF AckedInv
<1>9. QED BY <1>3, <1>4, <1>5, <1>6, <1>7, <1>8 DEF IInv

(* The memory store keeps one snapshot and one place for each ID. *)
LEMMA StepInMemory == ASSUME IInv, NEW s \in saving, SaveInMemory(s) PROVE IInv'
<1>1. /\ TypeOK /\ NumberInv /\ PlaceInv /\ AloneInv /\ DatedInv /\ AckedInv
      /\ s \in Call /\ s.snapshot \in Snapshot /\ s.snapshot # None
      /\ s.snapshot.n \in Nat /\ s.snapshot.n <= built /\ s.snapshot.id \in IDs
  BY NoneIsNoSnapshot DEF IInv, TypeOK, NumberInv, AloneInv, Call, Snapshot
<1>2. PICK id \in IDs : id = s.snapshot.id BY <1>1
<1>3. /\ backend = "memory"
      /\ order' = (IF stored[id] = None THEN Append(order, id) ELSE order)
      /\ stored' = [stored EXCEPT ![id] = s.snapshot]
      /\ saving' = saving \ {s} /\ acked' = acked \cup {s.snapshot}
      /\ UNCHANGED <<now, backend, objects, latest, built, overlapped>>
  BY <1>2 DEF SaveInMemory, Return, bucket
<1>4. /\ stored \in [IDs -> Snapshot \cup {None}] /\ order \in Seq(IDs) /\ IsInjective(order)
      /\ \A j \in 1 .. Len(order) : stored[order[j]] # None
  BY <1>1 DEF TypeOK, PlaceInv
<1>5. \A i \in IDs : stored'[i] = (IF i = id THEN s.snapshot ELSE stored[i]) BY <1>3, <1>4
<1>6. order' \in Seq(IDs) /\ IsInjective(order') /\ \A j \in 1 .. Len(order') : stored'[order'[j]] # None
  <2>1. CASE stored[id] # None BY <1>1, <1>3, <1>4, <1>5, <2>1
  <2>2. CASE stored[id] = None
    <3>1. /\ order' \in Seq(IDs) /\ DOMAIN order = 1 .. Len(order) /\ Len(order) \in Nat
          /\ Len(order') = Len(order) + 1 /\ DOMAIN order' = 1 .. Len(order) + 1
          /\ \A j \in 1 .. Len(order) : order'[j] = order[j] /\ order[j] \in IDs
          /\ order'[Len(order) + 1] = id
      BY <1>3, <1>4, <2>2, AppendProperties, LenProperties, ElementOfSeq
    <3>2. \A j \in 1 .. Len(order) : order[j] # id BY <1>4, <2>2
    <3>3. IsInjective(order')
      <4> SUFFICES ASSUME NEW a \in DOMAIN order', NEW b \in DOMAIN order', order'[a] = order'[b]
                   PROVE  a = b
        BY DEF IsInjective
      <4>1. CASE a \in 1 .. Len(order) /\ b \in 1 .. Len(order) BY <1>4, <3>1, <4>1 DEF IsInjective
      <4>2. CASE a = Len(order) + 1 \/ b = Len(order) + 1 BY <3>1, <3>2, <4>2
      <4>3. QED BY <3>1, <4>1, <4>2
    <3>4. \A j \in 1 .. Len(order') : stored'[order'[j]] # None BY <1>1, <1>4, <1>5, <3>1
    <3>5. QED BY <3>1, <3>3, <3>4
  <2>3. QED BY <2>1, <2>2
<1>7. TypeOK' BY <1>1, <1>3, <1>4, <1>6 DEF TypeOK
<1>8. NumberInv' BY <1>1, <1>3 DEF NumberInv
<1>9. PlaceInv' BY <1>1, <1>2, <1>3, <1>5, <1>6 DEF PlaceInv
<1>10. AloneInv' BY <1>1, <1>3 DEF AloneInv
<1>11. DatedInv' BY <1>1, <1>3 DEF DatedInv
<1>12. AckedInv'
  <2> SUFFICES ASSUME NEW a \in acked' PROVE stored'[a.id] # None BY <1>3 DEF AckedInv
  <2>1. CASE a \in acked
    <3>1. a.id \in IDs /\ stored[a.id] # None BY <1>1, <1>3, <2>1 DEF TypeOK, AckedInv, Snapshot
    <3>2. QED BY <1>1, <1>5, <3>1
  <2>2. CASE a = s.snapshot BY <1>1, <1>2, <1>5, <2>2
  <2>3. QED BY <1>3, <2>1, <2>2
<1>13. QED BY <1>7, <1>8, <1>9, <1>10, <1>11, <1>12 DEF IInv

LEMMA StepInv == IInv /\ [Next]_vars => IInv'
<1> SUFFICES ASSUME IInv, [Next]_vars PROVE IInv' OBVIOUS
<1>1. CASE UNCHANGED vars
  BY <1>1 DEF vars, bucket, memory, calls, IInv, TypeOK, NumberInv, PlaceInv, AloneInv, DatedInv, AckedInv
<1>2. CASE Tick
  <2>1. now' \in 0 .. MaxNow BY <1>2, StoreAssumption DEF Tick, IInv, TypeOK, StoreAssumption
  <2>2. QED
    BY <1>2, <2>1 DEF Tick, bucket, memory, calls, IInv, TypeOK, NumberInv, PlaceInv, AloneInv,
       DatedInv, AckedInv
<1>3. QED
  BY <1>1, <1>2, StepBegin, StepPutDated, StepPutLatest, StepFails, StepInMemory DEF Next, Done

LEMMA Invariance == Spec => []IInv
BY InitInv, StepInv, PTL DEF Spec

(* Every variable keeps its type, no two calls save the same snapshot, and *)
(* the memory store lists no ID twice.                                     *)
THEOREM TypeCorrect == Spec => []TypeOK
<1>1. IInv => TypeOK BY DEF IInv
<1>2. QED BY <1>1, Invariance, PTL

(* No later save, retry or failure takes an acknowledged snapshot's place  *)
(* under its dated key, except a save of the same ID made that same day,   *)
(* and only a newer one unless saves have overlapped.                      *)
THEOREM AckedIsKept == Spec => []AckedStays
<1>1. ASSUME IInv PROVE AckedStays
  <2> SUFFICES ASSUME backend = "s3", NEW s \in acked
               PROVE  /\ objects[Key(s)] # None
                      /\ objects[Key(s)].id = s.id /\ Day(objects[Key(s)].at) = Day(s.at)
                      /\ ~overlapped => objects[Key(s)].n >= s.n
    BY DEF AckedStays, Key
  <2>1. s \in Snapshot BY <1>1 DEF IInv, TypeOK
  <2>2. PICK k \in Keys : k = Key(s) /\ k[1] = Day(s.at) /\ k[2] = s.id BY <2>1, KeysAre
  <2>3. objects[k] # None /\ (~overlapped => objects[k].n >= s.n)
    BY <1>1, <2>2 DEF IInv, AckedInv
  <2>4. objects[k].id = k[2] /\ Day(objects[k].at) = k[1] BY <1>1, <2>3 DEF IInv, PlaceInv
  <2>5. QED BY <2>2, <2>3, <2>4
<1>2. QED BY <1>1, Invariance, PTL

(* latest.json never falls behind an acknowledged snapshot, whatever put   *)
(* failed in between, as long as saves do not overlap.                     *)
THEOREM LatestIsLatest == Spec => []LatestKeepsUp
<1>1. IInv => LatestKeepsUp BY DEF IInv, AckedInv, LatestKeepsUp
<1>2. QED BY <1>1, Invariance, PTL

-----------------------------------------------------------------------------
(* GetSnapshot.                                                            *)

LEMMA LeastNumber ==
    ASSUME NEW S \in SUBSET Nat, S # {}
    PROVE  \E n \in S : \A m \in S : n <= m
<1>1. \E n \in S : \A m \in S : ~ (<<m, n>> \in OpToRel(<, Nat))
  BY NatLessThanWellFounded, WFMin
<1>2. PICK n \in S : \A m \in S : ~ (<<m, n>> \in OpToRel(<, Nat)) BY <1>1
<1>3. ASSUME NEW m \in S PROVE n <= m
  <2>1. ~ (m < n) BY <1>2 DEF OpToRel
  <2>2. QED BY <2>1
<1>4. QED BY <1>3

(* Some key of a listing is the first one. *)
LEMMA FirstIs == ASSUME NEW keys \in SUBSET Keys, keys # {} PROVE First(keys) \in keys
<1>1. keys \subseteq Nat \X Nat BY KeysAre
<1>2. PICK days : days = {k[1] : k \in keys} OBVIOUS
<1>3. days \in SUBSET Nat /\ days # {} BY <1>1, <1>2
<1>4. PICK day \in days : \A d \in days : day <= d BY <1>3, LeastNumber
<1>5. PICK ids : ids = {k[2] : k \in {l \in keys : l[1] = day}} OBVIOUS
<1>6. ids \in SUBSET Nat /\ ids # {} BY <1>1, <1>2, <1>4, <1>5
<1>7. PICK id \in ids : \A i \in ids : id <= i BY <1>6, LeastNumber
<1>8. PICK k \in keys : k[1] = day /\ k[2] = id BY <1>5, <1>7
<1>9. ASSUME NEW l \in keys \ {k} PROVE Before(k, l)
  <2>1. /\ l[1] \in Nat /\ l[2] \in Nat /\ k[1] \in Nat /\ k[2] \in Nat
        /\ l = <<l[1], l[2]>> /\ k = <<k[1], k[2]>>
    BY <1>1
  <2>2. k[1] <= l[1] BY <1>2, <1>4, <1>8
  <2>3. l[1] = k[1] => k[2] <= l[2] BY <1>5, <1>7, <1>8
  <2>4. l[1] # k[1] \/ l[2] # k[2] BY <2>1
  <2>5. QED BY <2>1, <2>2, <2>3, <2>4 DEF Before
<1>10. QED BY <1>9 DEF First

(* Every acknowledged snapshot is found again under its ID, however many   *)
(* snapshots and days there are, and what is found has that ID, unless the *)
(* store is S3 and holds an ID that ends with this one.                    *)
THEOREM AckedIsFound == Spec => []FoundByID
<1>1. ASSUME IInv PROVE FoundByID
  <2> SUFFICES ASSUME NEW s \in acked
               PROVE  /\ GetSnapshot(s.id) # None
                      /\ GetSnapshot(s.id).id # s.id =>
                            backend = "s3" /\ <<s.id, GetSnapshot(s.id).id>> \in EndsWith
    BY DEF FoundByID
  <2>1. s \in Snapshot /\ s.id \in IDs BY <1>1 DEF IInv, TypeOK, Snapshot
  <2>2. CASE backend = "memory"
    <3>1. GetSnapshot(s.id) = stored[s.id] BY <2>2 DEF GetSnapshot
    <3>2. stored[s.id] # None /\ stored[s.id].id = s.id
      BY <1>1, <2>1, <2>2 DEF IInv, AckedInv, PlaceInv
    <3>3. QED BY <3>1, <3>2
  <2>3. CASE backend = "s3"
    <3>1. PICK matches : matches = {k \in Listed : containsSnapshotID(k, s.id)} OBVIOUS
    <3>2. PICK k \in Keys : k = Key(s) /\ k[2] = s.id BY <2>1, KeysAre
    <3>3. objects[k] # None BY <1>1, <2>3, <3>2 DEF IInv, AckedInv
    <3>4. k \in matches
      BY <2>1, <3>1, <3>2, <3>3, StoreAssumption DEF Listed, containsSnapshotID, StoreAssumption
    <3>5. PICK l : l = First(matches) OBVIOUS
    <3>6. l \in matches BY <3>1, <3>4, <3>5, FirstIs DEF Listed
    <3>7. GetSnapshot(s.id) = objects[l] BY <2>3, <3>1, <3>4, <3>5 DEF GetSnapshot
    <3>8. l \in Keys /\ objects[l] # None /\ <<s.id, l[2]>> \in EndsWith
      BY <3>1, <3>6 DEF Listed, containsSnapshotID
    <3>9. objects[l].id = l[2] BY <1>1, <3>8 DEF IInv, PlaceInv
    <3>10. QED BY <2>3, <3>7, <3>8, <3>9
  <2>4. QED BY <1>1, <2>2, <2>3 DEF IInv, TypeOK
<1>2. QED BY <1>1, Invariance, PTL

-----------------------------------------------------------------------------
(* ListSnapshots.  First what readers see that go through a finite set in  *)
(* a strict order.                                                         *)

StrictOrder(S, R) ==
    /\ \A x \in S : <<x, x>> \notin R
    /\ \A x, y, z \in S : <<x, y>> \in R /\ <<y, z>> \in R => <<x, z>> \in R
    /\ \A x, y \in S : x = y \/ <<x, y>> \in R \/ <<y, x>> \in R
Earlier(S, R, x) == {y \in S : <<y, x>> \in R}

LEMMA EarlierIs ==
    ASSUME NEW S, IsFiniteSet(S), NEW R, StrictOrder(S, R), NEW x \in S
    PROVE  /\ Cardinality(Earlier(S, R, x)) \in 0 .. Cardinality(S) - 1
           /\ \A y \in S : <<x, y>> \in R => Cardinality(Earlier(S, R, x)) < Cardinality(Earlier(S, R, y))
<1>1. ASSUME NEW y \in S PROVE IsFiniteSet(Earlier(S, R, y)) /\ Cardinality(Earlier(S, R, y)) \in Nat
  <2>1. Earlier(S, R, y) \in SUBSET S BY DEF Earlier
  <2>2. QED BY <2>1, FS_Subset, FS_CardinalityType
<1>2. Cardinality(Earlier(S, R, x)) < Cardinality(S)
  <2>1. Earlier(S, R, x) \in SUBSET S /\ Earlier(S, R, x) # S BY DEF Earlier, StrictOrder
  <2>2. Cardinality(Earlier(S, R, x)) <= Cardinality(S) /\ Cardinality(S) # Cardinality(Earlier(S, R, x))
    BY <2>1, FS_Subset
  <2>3. Cardinality(S) \in Nat BY FS_CardinalityType
  <2>4. QED BY <1>1, <2>2, <2>3
<1>3. ASSUME NEW y \in S, <<x, y>> \in R
      PROVE  Cardinality(Earlier(S, R, x)) < Cardinality(Earlier(S, R, y))
  <2>1. Earlier(S, R, x) \in SUBSET Earlier(S, R, y) BY <1>3 DEF Earlier, StrictOrder
  <2>2. Earlier(S, R, y) # Earlier(S, R, x) BY <1>3 DEF Earlier, StrictOrder
  <2>3. /\ Cardinality(Earlier(S, R, x)) <= Cardinality(Earlier(S, R, y))
        /\ Cardinality(Earlier(S, R, y)) # Cardinality(Earlier(S, R, x))
    BY <1>1, <2>1, <2>2, FS_Subset
  <2>4. QED BY <1>1, <2>3
<1>4. Cardinality(S) \in Nat BY FS_CardinalityType
<1>5. QED BY <1>1, <1>2, <1>3, <1>4

(* Counting what is earlier numbers the elements. *)
LEMMA Ranks ==
    ASSUME NEW S, IsFiniteSet(S), NEW R, StrictOrder(S, R)
    PROVE  [x \in S |-> Cardinality(Earlier(S, R, x))] \in Bijection(S, 0 .. Cardinality(S) - 1)
<1>1. PICK rank : rank = [x \in S |-> Cardinality(Earlier(S, R, x))] OBVIOUS
<1>2. Cardinality(S) \in Nat BY FS_CardinalityType
<1>3. rank \in [S -> 0 .. Cardinality(S) - 1] BY <1>1, EarlierIs
<1>4. ASSUME NEW x \in S, NEW y \in S, x # y PROVE rank[x] # rank[y]
  <2>1. <<x, y>> \in R \/ <<y, x>> \in R BY <1>4 DEF StrictOrder
  <2>2. rank[x] < rank[y] \/ rank[y] < rank[x] BY <1>1, <2>1, EarlierIs
  <2>3. rank[x] \in Int /\ rank[y] \in Int BY <1>2, <1>3
  <2>4. QED BY <2>2, <2>3
<1>5. rank \in Injection(S, 0 .. Cardinality(S) - 1) BY <1>3, <1>4 DEF Injection, IsInjective
<1>6. IsFiniteSet(0 .. Cardinality(S) - 1) /\ Cardinality(0 .. Cardinality(S) - 1) = Cardinality(S)
  BY <1>2, FS_Interval
<1>7. rank \in Surjection(S, 0 .. Cardinality(S) - 1) BY <1>5, <1>6, FS_Injection
<1>8. QED BY <1>1, <1>5, <1>7 DEF Bijection

(* The first n of a set: as many as there are, and none that is left out   *)
(* comes before one of them.                                               *)
LEMMA FirstsAre ==
    ASSUME NEW S, IsFiniteSet(S), NEW R, StrictOrder(S, R), NEW n \in Nat
    PROVE  /\ Firsts(S, R, n) \subseteq S /\ IsFiniteSet(Firsts(S, R, n))
           /\ Cardinality(Firsts(S, R, n)) = IF n <= Cardinality(S) THEN n ELSE Cardinality(S)
           /\ \A x \in Firsts(S, R, n), y \in S \ Firsts(S, R, n) : <<x, y>> \in R
<1>1. PICK F : F = Firsts(S, R, n) OBVIOUS
<1>2. F = {x \in S : Cardinality(Earlier(S, R, x)) < n} BY <1>1 DEF Firsts, Earlier
<1>3. F \subseteq S /\ IsFiniteSet(F) BY <1>2, FS_Subset
<1>4. Cardinality(S) \in Nat BY FS_CardinalityType
<1>5. PICK m \in Nat : m = IF n <= Cardinality(S) THEN n ELSE Cardinality(S) BY <1>4
<1>6. Cardinality(F) = m
  <2>1. PICK rank : rank = [x \in S |-> Cardinality(Earlier(S, R, x))] OBVIOUS
  <2>2. rank \in Bijection(S, 0 .. Cardinality(S) - 1) BY <2>1, Ranks
  <2>3. PICK f : f = [x \in F |-> rank[x]] OBVIOUS
  <2>4. /\ rank \in [S -> 0 .. Cardinality(S) - 1]
        /\ \A x, y \in S : rank[x] = rank[y] => x = y
        /\ \A k \in 0 .. Cardinality(S) - 1 : \E x \in S : rank[x] = k
    BY <2>2 DEF Bijection, Injection, Surjection, IsInjective
  <2>5. \A x \in S : x \in F <=> rank[x] < n BY <1>2, <2>1
  <2>6. f \in [F -> 0 .. m - 1] BY <1>3, <1>4, <1>5, <2>3, <2>4, <2>5
  <2>7. \A k \in 0 .. m - 1 : \E x \in F : f[x] = k BY <1>4, <1>5, <2>3, <2>4, <2>5
  <2>8. f \in Injection(F, 0 .. m - 1) BY <1>3, <2>3, <2>4, <2>6 DEF Injection, IsInjective
  <2>9. f \in Surjection(F, 0 .. m - 1) BY <2>6, <2>7 DEF Surjection
  <2>10. ExistsBijection(F, 0 .. m - 1) BY <2>8, <2>9 DEF ExistsBijection, Bijection
  <2>11. Cardinality(0 .. m - 1) = m BY FS_Interval
  <2>12. QED BY <1>3, <2>10, <2>11, FS_Bijection
<1>7. ASSUME NEW x \in F, NEW y \in S \ F PROVE <<x, y>> \in R
  <2>1. x # y /\ x \in S BY <1>3
  <2>2. ASSUME <<y, x>> \in R PROVE FALSE
    <3>1. Cardinality(Earlier(S, R, y)) < Cardinality(Earlier(S, R, x)) BY <1>3, <2>2, EarlierIs
    <3>2. Cardinality(Earlier(S, R, x)) < n BY <1>2
    <3>3. Cardinality(Earlier(S, R, x)) \in Int /\ Cardinality(Earlier(S, R, y)) \in Int
      BY <2>1, <1>4, EarlierIs
    <3>4. y \in F BY <1>2, <3>1, <3>2, <3>3
    <3>5. QED BY <3>4
  <2>3. QED BY <2>1, <2>2 DEF StrictOrder
<1>8. QED BY <1>1, <1>3, <1>5, <1>6, <1>7

(* The bucket.                                                             *)

LEMMA KeysOrdered ==
    ASSUME NEW S \in SUBSET (Keys \cup {LatestKey}) PROVE StrictOrder(S, KeyOrder)
<1>1. LatestKey \in Nat \X Nat
  <2>1. Day(MaxNow) \in Nat BY StoreAssumption DEF StoreAssumption, Day
  <2>2. QED BY <2>1 DEF LatestKey
<1>2. S \subseteq Nat \X Nat BY <1>1, KeysAre
<1>3. \A k, l \in S : <<k, l>> \in KeyOrder <=> Before(k, l) BY DEF KeyOrder
<1>4. \A k, l \in S : k = l \/ Before(k, l) \/ Before(l, k)
  <2> SUFFICES ASSUME NEW k \in S, NEW l \in S PROVE k = l \/ Before(k, l) \/ Before(l, k) OBVIOUS
  <2>1. /\ k[1] \in Nat /\ k[2] \in Nat /\ k = <<k[1], k[2]>>
        /\ l[1] \in Nat /\ l[2] \in Nat /\ l = <<l[1], l[2]>>
    BY <1>2
  <2>2. QED BY <2>1 DEF Before
<1>5. \A k \in S : ~Before(k, k) BY <1>2 DEF Before
<1>6. \A k, l, m \in S : Before(k, l) /\ Before(l, m) => Before(k, m) BY <1>2 DEF Before
<1>7. QED BY <1>3, <1>4, <1>5, <1>6 DEF StrictOrder

(* Reading a page and going on behind it sees what reading on would see.   *)
Behind(S, R, W, page, limit) == Firsts((S \ page) \cap W, R, limit - Cardinality(page \cap W))
LEMMA PageFits ==
    ASSUME NEW S, IsFiniteSet(S), NEW limit \in Nat, NEW page \in SUBSET S, Cardinality(page) <= limit, NEW W
    PROVE  IsFiniteSet(page \cap W) /\ Cardinality(page \cap W) \in 0 .. limit
<1>1. IsFiniteSet(page) /\ Cardinality(page) \in Nat BY FS_Subset, FS_CardinalityType
<1>2. page \cap W \in SUBSET page OBVIOUS
<1>3. IsFiniteSet(page \cap W) /\ Cardinality(page \cap W) <= Cardinality(page) BY <1>1, <1>2, FS_Subset
<1>4. Cardinality(page \cap W) \in Nat BY <1>3, FS_CardinalityType
<1>5. QED BY <1>1, <1>3, <1>4

LEMMA Paging ==
    ASSUME NEW S, IsFiniteSet(S), NEW R, StrictOrder(S, R), NEW W, NEW limit \in Nat,
           NEW page \in SUBSET S, Cardinality(page) <= limit,
           \A x \in page, y \in S \ page : <<x, y>> \in R
    PROVE  Firsts(S \cap W, R, limit) = (page \cap W) \cup Behind(S, R, W, page, limit)
<1>2. PICK read : read = page \cap W OBVIOUS
<1>3. page \subseteq S /\ \A x \in page, y \in S \ page : <<x, y>> \in R OBVIOUS
<1>4. IsFiniteSet(read) /\ Cardinality(read) \in Nat /\ Cardinality(read) <= limit BY <1>2, PageFits
<1>5. PICK behind : behind = (S \ page) \cap W OBVIOUS
<1>6. ASSUME NEW x \in read PROVE x \in Firsts(S \cap W, R, limit)
  <2>1. PICK E : E = {y \in S \cap W : <<y, x>> \in R} OBVIOUS
  <2>2. E \in SUBSET (read \ {x})
    <3>1. ASSUME NEW y \in E PROVE y \in read /\ y # x
      <4>1. y \in S /\ x \in S /\ y \in W /\ <<y, x>> \in R BY <1>2, <1>3, <2>1
      <4>2. ~ <<x, y>> \in R /\ y # x BY <4>1 DEF StrictOrder
      <4>3. QED BY <1>2, <1>3, <4>1, <4>2
    <3>2. QED BY <3>1
  <2>3. Cardinality(read \ {x}) = Cardinality(read) - 1 /\ IsFiniteSet(read \ {x})
    BY <1>4, FS_RemoveElement
  <2>4. IsFiniteSet(E) /\ Cardinality(E) <= Cardinality(read) - 1 /\ Cardinality(E) \in Nat
    BY <2>2, <2>3, FS_Subset, FS_CardinalityType
  <2>5. Cardinality(E) < limit BY <1>4, <2>4
  <2>6. QED BY <1>2, <1>3, <2>1, <2>5 DEF Firsts
<1>7. ASSUME NEW x \in behind
      PROVE  x \in Firsts(S \cap W, R, limit) <=> x \in Firsts(behind, R, limit - Cardinality(read))
  <2>1. PICK E : E = {y \in S \cap W : <<y, x>> \in R} OBVIOUS
  <2>2. PICK B : B = {y \in behind : <<y, x>> \in R} OBVIOUS
  <2>3. E = read \cup B /\ read \cap B = {} BY <1>2, <1>3, <1>5, <2>1, <2>2
  <2>4. IsFiniteSet(B) /\ Cardinality(B) \in Nat
    <3>1. B \in SUBSET S BY <1>5, <2>2
    <3>2. QED BY <3>1, FS_Subset, FS_CardinalityType
  <2>5. Cardinality(E) = Cardinality(read) + Cardinality(B)
    <3>1. Cardinality(read \cap B) = 0 BY <2>3, FS_EmptySet
    <3>2. Cardinality(read \cup B) = Cardinality(read) + Cardinality(B) - Cardinality(read \cap B)
      BY <1>4, <2>4, FS_Union
    <3>3. QED BY <1>4, <2>3, <2>4, <3>1, <3>2
  <2>6. Cardinality(E) < limit <=> Cardinality(B) < limit - Cardinality(read)
    BY <1>4, <2>4, <2>5
  <2>7. x \in S \cap W BY <1>5
  <2>8. QED BY <2>1, <2>2, <2>6, <2>7 DEF Firsts
<1>8. Firsts(S \cap W, R, limit) \subseteq read \cup behind BY <1>2, <1>5 DEF Firsts
<1>9. Firsts(behind, R, limit - Cardinality(read)) \subseteq behind BY DEF Firsts
<1>10. Firsts(S \cap W, R, limit) = read \cup Firsts(behind, R, limit - Cardinality(read))
  BY <1>6, <1>7, <1>8, <1>9
<1>11. QED BY <1>2, <1>5, <1>10 DEF Behind

(* One turn of the loop, which goes on as g says. *)
Turn(unreadable, rest, remaining, g) ==
    LET page == Firsts(rest, KeyOrder, Min({remaining, PageLimit}))
        read == page \cap (Listed \ unreadable)
    IN IF page = rest \/ Cardinality(read) >= remaining THEN read
       ELSE read \cup g[rest \ page][remaining - Cardinality(read)]

(* What is still to be read, of the keys that are left. *)
Remaining(unreadable, rest, remaining) ==
    Firsts(rest \cap (Listed \ unreadable), KeyOrder, remaining)

LEMMA MinIs == ASSUME NEW a \in Nat, NEW b \in Nat PROVE Min({a, b}) = IF a <= b THEN a ELSE b
BY DEF Min

LEMMA TurnIs ==
    ASSUME NEW unreadable, NEW limit \in Nat, NEW rest \in SUBSET InBucket, IsFiniteSet(rest),
           InBucket \subseteq Keys \cup {LatestKey}, NEW remaining \in 0 .. limit, NEW g,
           \A behind \in SUBSET rest, left \in 0 .. limit :
               Cardinality(behind) < Cardinality(rest) => g[behind][left] = Remaining(unreadable, behind, left)
    PROVE  Turn(unreadable, rest, remaining, g) = Remaining(unreadable, rest, remaining)
<1>1. PICK W : W = Listed \ unreadable OBVIOUS
<1>2. PICK size \in Nat : size = Min({remaining, PageLimit}) /\ size <= remaining
                          /\ (remaining > 0 => size > 0)
  BY MinIs, StoreAssumption DEF StoreAssumption
<1>3. PICK page : page = Firsts(rest, KeyOrder, size) OBVIOUS
<1>4. PICK read : read = page \cap W OBVIOUS
<1>5. StrictOrder(rest, KeyOrder) BY KeysOrdered
<1>6. /\ Cardinality(read) \in 0 .. remaining
      /\ Remaining(unreadable, rest, remaining)
         = read \cup Remaining(unreadable, rest \ page, remaining - Cardinality(read))
  <2>1. /\ page \in SUBSET rest /\ Cardinality(page) <= remaining
        /\ \A x \in page, y \in rest \ page : <<x, y>> \in KeyOrder
    <3>1. Cardinality(rest) \in Nat BY FS_CardinalityType
    <3>2. /\ page \subseteq rest
          /\ Cardinality(page) = IF size <= Cardinality(rest) THEN size ELSE Cardinality(rest)
          /\ \A x \in page, y \in rest \ page : <<x, y>> \in KeyOrder
      BY <1>3, <1>5, FirstsAre
    <3>3. QED BY <1>2, <3>1, <3>2
  <2>2. remaining \in Nat /\ IsFiniteSet(rest) OBVIOUS
  <2>3. Cardinality(page \cap W) \in 0 .. remaining BY <2>1, <2>2, PageFits
  <2>4. Firsts(rest \cap W, KeyOrder, remaining)
        = (page \cap W) \cup Behind(rest, KeyOrder, W, page, remaining)
    <3>1. PICK R : R = KeyOrder OBVIOUS
    <3>2. StrictOrder(rest, R) /\ \A x \in page, y \in rest \ page : <<x, y>> \in R BY <1>5, <2>1, <3>1
    <3>3. Firsts(rest \cap W, R, remaining) = (page \cap W) \cup Behind(rest, R, W, page, remaining)
      BY ONLY <2>1, <2>2, <3>2, Paging
    <3>4. QED BY <3>1, <3>3
  <2>5. Behind(rest, KeyOrder, W, page, remaining)
        = Remaining(unreadable, rest \ page, remaining - Cardinality(read))
    BY <1>1, <1>4 DEF Behind, Remaining
  <2>6. QED BY <1>1, <1>4, <2>3, <2>4, <2>5 DEF Remaining
<1>7. Turn(unreadable, rest, remaining, g)
      = IF page = rest \/ Cardinality(read) >= remaining THEN read
        ELSE read \cup g[rest \ page][remaining - Cardinality(read)]
  BY <1>1, <1>2, <1>3, <1>4 DEF Turn
<1>8. CASE page = rest
  <2>1. Remaining(unreadable, rest \ page, remaining - Cardinality(read)) = {} BY <1>8 DEF Remaining, Firsts
  <2>2. QED BY <1>6, <1>7, <1>8, <2>1
<1>9. CASE page # rest /\ Cardinality(read) >= remaining
  <2>1. remaining - Cardinality(read) = 0 BY <1>6, <1>9
  <2>2. Remaining(unreadable, rest \ page, 0) = {}
    <3>1. ASSUME NEW S \in SUBSET rest PROVE Cardinality(S) \in Nat BY <3>1, FS_Subset, FS_CardinalityType
    <3>2. ASSUME NEW x \in Remaining(unreadable, rest \ page, 0) PROVE FALSE
      <4>1. PICK E : E = {y \in (rest \ page) \cap (Listed \ unreadable) : <<y, x>> \in KeyOrder} OBVIOUS
      <4>2. Cardinality(E) < 0 BY <3>2, <4>1 DEF Remaining, Firsts
      <4>3. Cardinality(E) \in Nat BY <3>1, <4>1
      <4>4. QED BY <4>2, <4>3
    <3>3. QED BY <3>2
  <2>3. QED BY <1>6, <1>7, <1>9, <2>1, <2>2
<1>10. CASE page # rest /\ ~(Cardinality(read) >= remaining)
  <2>1. page \subseteq rest /\ IsFiniteSet(page)
        /\ Cardinality(page) = IF size <= Cardinality(rest) THEN size ELSE Cardinality(rest)
    BY <1>3, <1>5, FirstsAre
  <2>2. Cardinality(rest) \in Nat /\ Cardinality(rest) # 0
    BY <1>10, <2>1, FS_CardinalityType, FS_EmptySet
  <2>3. size > 0 BY <1>2, <1>6, <1>10
  <2>4. page # {} BY <2>1, <2>2, <2>3, FS_EmptySet
  <2>5. rest \ page \in SUBSET rest /\ rest \ page # rest BY <2>1, <2>4
  <2>6. Cardinality(rest \ page) < Cardinality(rest)
    <3>1. Cardinality(rest \ page) <= Cardinality(rest) /\ Cardinality(rest) # Cardinality(rest \ page)
      BY <2>5, FS_Subset
    <3>2. Cardinality(rest \ page) \in Nat BY <2>5, FS_Subset, FS_CardinalityType
    <3>3. QED BY <2>2, <3>1, <3>2
  <2>7. remaining - Cardinality(read) \in 0 .. limit BY <1>6
  <2>8. g[rest \ page][remaining - Cardinality(read)]
        = Remaining(unreadable, rest \ page, remaining - Cardinality(read))
    BY <2>5, <2>6, <2>7
  <2>9. QED BY <1>6, <1>7, <1>10, <2>8
<1>11. QED BY <1>8, <1>9, <1>10

(* The loop of ListSnapshots, with g for the turns behind the page. *)
Loop(unreadable, limit, g) ==
    [rest \in SUBSET InBucket |-> [remaining \in 0 .. limit |-> Turn(unreadable, rest, remaining, g)]]

(* Whatever page size: a listing has the first limit of the readable keys. *)
LEMMA ListingIs ==
    ASSUME NEW unreadable, NEW limit \in Nat, IsFiniteSet(InBucket), InBucket \subseteq Keys \cup {LatestKey}
    PROVE  ListSnapshots(limit, unreadable) = Remaining(unreadable, InBucket, limit)
<1>1. \A rest \in SUBSET InBucket : IsFiniteSet(rest) /\ Cardinality(rest) \in Nat
  BY FS_Subset, FS_CardinalityType
<1>2. \E g : g = Loop(unreadable, limit, g)
  <2>1. PICK g : g = [rest \in SUBSET InBucket |-> [left \in 0 .. limit |-> Remaining(unreadable, rest, left)]]
    OBVIOUS
  <2>2. ASSUME NEW rest \in SUBSET InBucket, NEW left \in 0 .. limit
        PROVE  Turn(unreadable, rest, left, g) = Remaining(unreadable, rest, left)
    BY <1>1, <2>1, TurnIs
  <2>3. g = Loop(unreadable, limit, g) BY <2>1, <2>2 DEF Loop
  <2>4. QED BY <2>3
<1>3. ASSUME NEW g, g = Loop(unreadable, limit, g)
      PROVE  g[InBucket][limit] = Remaining(unreadable, InBucket, limit)
  <2>1. \A rest \in SUBSET InBucket, left \in 0 .. limit : g[rest][left] = Turn(unreadable, rest, left, g)
    BY <1>3 DEF Loop
  <2>2. PICK Wrong : Wrong = {rest \in SUBSET InBucket :
                                  \E left \in 0 .. limit : g[rest][left] # Remaining(unreadable, rest, left)}
    OBVIOUS
  <2>3. PICK sizes : sizes = {Cardinality(rest) : rest \in Wrong} OBVIOUS
  <2>4. sizes \subseteq Nat BY <1>1, <2>2, <2>3
  <2>5. CASE sizes = {}
    <3>1. Wrong = {} BY <2>3, <2>5
    <3>2. QED BY <2>2, <3>1
  <2>6. CASE sizes # {}
    <3>1. PICK n \in sizes : \A m \in sizes : n <= m BY <2>4, <2>6, LeastNumber
    <3>2. PICK rest \in Wrong : n = Cardinality(rest) BY <2>3, <3>1
    <3>3. rest \in SUBSET InBucket BY <2>2
    <3>4. PICK left \in 0 .. limit : g[rest][left] # Remaining(unreadable, rest, left) BY <2>2
    <3>5. ASSUME NEW behind \in SUBSET rest, NEW l \in 0 .. limit, Cardinality(behind) < Cardinality(rest)
          PROVE  g[behind][l] = Remaining(unreadable, behind, l)
      <4>1. behind \in SUBSET InBucket /\ Cardinality(behind) \in Nat /\ Cardinality(rest) \in Nat BY <1>1, <3>3
      <4>2. behind \notin Wrong BY <2>3, <3>1, <3>2, <3>5, <4>1
      <4>3. QED BY <2>2, <4>1, <4>2
    <3>6. Turn(unreadable, rest, left, g) = Remaining(unreadable, rest, left)
      BY <1>1, <3>3, <3>5, TurnIs
    <3>7. QED BY <2>1, <3>3, <3>4, <3>6
  <2>7. QED BY <2>5, <2>6
<1>4. PICK g : g = CHOOSE h : h = Loop(unreadable, limit, h) OBVIOUS
<1>5. g = Loop(unreadable, limit, g) BY <1>2, <1>4
<1>6. ListSnapshots(limit, unreadable) = g[InBucket][limit]
  BY <1>4 DEF ListSnapshots, Loop, Turn
<1>7. QED BY <1>3, <1>5, <1>6

(* What a listing needs: a bucket holds finitely many objects, and the     *)
(* memory store has a place for every ID it holds.                         *)
ListedInv ==
    /\ IsFiniteSet(Listed)
    /\ \A i \in IDs : stored[i] # None => \E p \in 1 .. Len(order) : order[p] = i

LEMMA ListedInit == Init => ListedInv
<1> SUFFICES ASSUME Init PROVE ListedInv OBVIOUS
<1>1. Listed = {} BY DEF Init, Listed
<1>2. QED BY <1>1, FS_EmptySet DEF Init, ListedInv

LEMMA ListedPut ==
    ASSUME ListedInv, objects \in [Keys -> Snapshot \cup {None}], NEW key, NEW s,
           objects' = [objects EXCEPT ![key] = s]
    PROVE  IsFiniteSet(Listed')
<1>1. IsFiniteSet(Listed \cup {key}) BY FS_AddElement DEF ListedInv
<1>2. Listed' \in SUBSET (Listed \cup {key}) BY DEF Listed
<1>3. QED BY <1>1, <1>2, FS_Subset

LEMMA ListedStep == ASSUME IInv, ListedInv, [Next]_vars PROVE ListedInv'
<1>1. objects \in [Keys -> Snapshot \cup {None}] BY DEF IInv, TypeOK
<1>2. CASE UNCHANGED <<objects, memory>> BY <1>2 DEF ListedInv, Listed, memory
<1>3. ASSUME NEW s \in saving, PutDated(s) PROVE ListedInv'
  <2>1. IsFiniteSet(Listed') BY <1>1, <1>3, ListedPut DEF PutDated
  <2>2. QED BY <1>3, <2>1 DEF PutDated, ListedInv, memory
<1>4. ASSUME NEW s \in saving, SaveFails(s) PROVE ListedInv'
  <2>1. CASE UNCHANGED objects BY <1>4, <2>1 DEF SaveFails, ListedInv, Listed, memory
  <2>2. CASE objects' = [objects EXCEPT ![generateKey(s.snapshot.at, s.snapshot.id)] = s.snapshot]
    <3>1. IsFiniteSet(Listed') BY <1>1, <2>2, ListedPut
    <3>2. QED BY <1>4, <3>1 DEF SaveFails, ListedInv, memory
  <2>3. QED BY <1>4, <2>1, <2>2 DEF SaveFails, bucket
<1>5. ASSUME NEW s \in saving, SaveInMemory(s) PROVE ListedInv'
  <2>1. Listed' = Listed BY <1>5 DEF SaveInMemory, Listed, bucket
  <2>2. PICK id : id = s.snapshot.id OBVIOUS
  <2>3. /\ order' = IF stored[id] = None THEN Append(order, id) ELSE order
        /\ stored' = [stored EXCEPT ![id] = s.snapshot]
    BY <1>5, <2>2 DEF SaveInMemory
  <2>4. stored \in [IDs -> Snapshot \cup {None}] /\ order \in Seq(IDs) /\ id \in IDs /\ s.snapshot \in Snapshot
    BY <2>2 DEF IInv, TypeOK, Snapshot
  <2>5. ASSUME NEW i \in IDs, stored'[i] # None PROVE \E p \in 1 .. Len(order') : order'[p] = i
    <3>1. CASE stored[i] = None
      <4>1. i = id BY <2>3, <2>4, <2>5, <3>1
      <4>2. order' = Append(order, i) BY <2>3, <3>1, <4>1
      <4>3. Len(order') = Len(order) + 1 /\ order'[Len(order) + 1] = i /\ Len(order) \in Nat BY <2>4, <4>2
      <4>4. QED BY <4>3
    <3>2. CASE stored[i] # None
      <4>1. PICK p \in 1 .. Len(order) : order[p] = i BY <3>2 DEF ListedInv
      <4>2. p \in 1 .. Len(order') /\ order'[p] = order[p] BY <2>3, <2>4
      <4>3. QED BY <4>1, <4>2
    <3>3. QED BY <3>1, <3>2
  <2>6. QED BY <2>1, <2>5 DEF ListedInv
<1>6. QED
  BY <1>2, <1>3, <1>4, <1>5
  DEF Next, Tick, Begin, PutLatest, Done, vars, bucket, memory, calls

LEMMA ListedInvariance == Spec => [](IInv /\ ListedInv)
<1>1. IInv /\ ListedInv /\ [Next]_vars => ListedInv' BY ListedStep
<1>2. QED BY <1>1, ListedInit, Invariance, PTL DEF Spec

LEMMA ListingOfBucket ==
    ASSUME IInv, ListedInv, NEW limit \in Nat, NEW unreadable \in SUBSET Listed
    PROVE  LET list == ListSnapshots(limit, unreadable)
               want == Listed \ unreadable
           IN /\ list \subseteq want /\ Cardinality(list) = Min({limit, Cardinality(want)})
              /\ list \subseteq ListSnapshots(limit + 1, unreadable)
<1>1. PICK want : want = Listed \ unreadable OBVIOUS
<1>2. PICK list : list = ListSnapshots(limit, unreadable) OBVIOUS
<1>3. IsFiniteSet(InBucket) /\ InBucket \subseteq Keys \cup {LatestKey}
  <2>1. IsFiniteSet(Listed) /\ IsFiniteSet(Listed \cup {LatestKey}) BY FS_AddElement DEF ListedInv
  <2>2. QED BY <2>1 DEF InBucket, Listed
<1>4. ASSUME NEW n \in Nat PROVE ListSnapshots(n, unreadable) = Firsts(want, KeyOrder, n)
  <2>1. InBucket \cap (Listed \ unreadable) = want BY <1>1 DEF InBucket
  <2>2. ListSnapshots(n, unreadable) = Remaining(unreadable, InBucket, n) BY <1>3, ListingIs
  <2>3. QED BY <2>1, <2>2 DEF Remaining
<1>5. IsFiniteSet(want) /\ want \in SUBSET (Keys \cup {LatestKey}) /\ Cardinality(want) \in Nat
  <2>1. want \in SUBSET Listed BY <1>1
  <2>2. QED BY <2>1, FS_Subset, FS_CardinalityType DEF ListedInv, Listed
<1>6. StrictOrder(want, KeyOrder) BY <1>5, KeysOrdered
<1>7. /\ list \subseteq want
      /\ Cardinality(list) = IF limit <= Cardinality(want) THEN limit ELSE Cardinality(want)
  BY <1>2, <1>4, <1>5, <1>6, FirstsAre
<1>8. Cardinality(list) = Min({limit, Cardinality(want)}) BY <1>5, <1>7, MinIs
<1>9. list \subseteq ListSnapshots(limit + 1, unreadable)
  <2>1. ASSUME NEW x \in want PROVE Cardinality({y \in want : <<y, x>> \in KeyOrder}) \in Nat
    BY <1>5, FS_Subset, FS_CardinalityType
  <2>2. Firsts(want, KeyOrder, limit) \subseteq Firsts(want, KeyOrder, limit + 1) BY <2>1 DEF Firsts
  <2>3. QED BY <1>2, <1>4, <2>2
<1>10. QED BY <1>1, <1>2, <1>7, <1>8, <1>9

(* The memory store's places, the most recent first. *)
LEMMA PlacesOrdered ==
    ASSUME IInv
    PROVE  /\ \A p \in 1 .. Len(order) : order[p] \in IDs /\ stored[order[p]] \in Snapshot
           /\ \A p, q \in 1 .. Len(order) : stored[order[p]] = stored[order[q]] => p = q
           /\ StrictOrder(1 .. Len(order), Recency)
<1>1. order \in Seq(IDs) /\ DOMAIN order = 1 .. Len(order) /\ Len(order) \in Nat BY DEF IInv, TypeOK
<1>2. ASSUME NEW p \in 1 .. Len(order)
      PROVE  order[p] \in IDs /\ stored[order[p]] \in Snapshot /\ stored[order[p]].id = order[p]
  BY <1>1 DEF IInv, TypeOK, PlaceInv
<1>3. \A p, q \in 1 .. Len(order) : stored[order[p]] = stored[order[q]] => p = q
  BY <1>1, <1>2 DEF IInv, TypeOK, IsInjective
<1>4. PICK at : at = [p \in 1 .. Len(order) |-> stored[order[p]].at] OBVIOUS
<1>5. at \in [1 .. Len(order) -> Nat] BY <1>2, <1>4, StoreAssumption DEF Snapshot, StoreAssumption
<1>6. \A p, q \in 1 .. Len(order) : <<p, q>> \in Recency <=> at[p] > at[q] \/ (at[p] = at[q] /\ p < q)
  BY <1>4 DEF Recency
<1>7. StrictOrder(1 .. Len(order), Recency) BY <1>1, <1>5, <1>6 DEF StrictOrder
<1>8. QED BY <1>2, <1>3, <1>7

LEMMA ListingOfMemory ==
    ASSUME IInv, ListedInv, NEW limit \in Nat \ {0}
    PROVE  LET list == ListInMemory(limit)
               held == {stored[i] : i \in {j \in IDs : stored[j] # None}}
           IN /\ list \subseteq held /\ Cardinality(list) = Min({limit, Cardinality(held)})
              /\ ListInMemory(0) = held
              /\ \A s \in list, t \in held \ list : t.at <= s.at
<1>1. PICK held : held = {stored[i] : i \in {j \in IDs : stored[j] # None}} OBVIOUS
<1>2. PICK list : list = ListInMemory(limit) OBVIOUS
<1>3. PICK places : places = 1 .. Len(order) OBVIOUS
<1>4. PICK f : f = [p \in places |-> stored[order[p]]] OBVIOUS
<1>5. /\ \A p \in places : order[p] \in IDs /\ stored[order[p]] \in Snapshot
      /\ \A p, q \in places : stored[order[p]] = stored[order[q]] => p = q
      /\ StrictOrder(places, Recency)
  BY <1>3, PlacesOrdered
<1>6. IsFiniteSet(places) /\ Cardinality(places) = Len(order) /\ Len(order) \in Nat
  <2>1. PICK n \in Nat : n = Len(order) BY DEF IInv, TypeOK
  <2>2. IsFiniteSet(1 .. n) /\ Cardinality(1 .. n) = n BY FS_Interval
  <2>3. QED BY <1>3, <2>1, <2>2
<1>7. {f[p] : p \in places} = held
  <2>1. ASSUME NEW p \in places PROVE f[p] \in held BY <1>1, <1>4, <1>5, NoneIsNoSnapshot
  <2>2. ASSUME NEW s \in held PROVE \E p \in places : f[p] = s
    <3>1. PICK i \in IDs : stored[i] # None /\ s = stored[i] BY <1>1
    <3>2. PICK p \in places : order[p] = i BY <1>3, <3>1 DEF ListedInv
    <3>3. QED BY <1>4, <3>1, <3>2
  <2>3. QED BY <2>1, <2>2
<1>8. ASSUME NEW P \in SUBSET places PROVE Cardinality({f[p] : p \in P}) = Cardinality(P)
  <2>1. PICK T : T = {f[p] : p \in P} OBVIOUS
  <2>2. PICK g : g = [p \in P |-> f[p]] OBVIOUS
  <2>3. g \in Injection(P, T) BY <1>4, <1>5, <2>1, <2>2 DEF Injection, IsInjective
  <2>4. g \in Surjection(P, T) BY <2>1, <2>2 DEF Surjection
  <2>5. ExistsBijection(P, T) BY <2>3, <2>4 DEF ExistsBijection, Bijection
  <2>6. IsFiniteSet(P) BY <1>6, FS_Subset
  <2>7. QED BY <2>1, <2>5, <2>6, FS_Bijection
<1>9. PICK P : P = Firsts(places, Recency, limit) OBVIOUS
<1>10. /\ P \subseteq places
       /\ Cardinality(P) = IF limit <= Cardinality(places) THEN limit ELSE Cardinality(places)
       /\ \A p \in P, q \in places \ P : <<p, q>> \in Recency
  BY <1>5, <1>6, <1>9, FirstsAre
<1>11. list = {f[p] : p \in P}
  <2>1. list = {stored[order[p]] : p \in P} BY <1>2, <1>3, <1>9 DEF ListInMemory
  <2>2. QED BY <1>4, <1>10, <2>1
<1>12. list \subseteq held BY <1>7, <1>10, <1>11
<1>13. Cardinality(list) = Min({limit, Cardinality(held)})
  <2>1. Cardinality(list) = Cardinality(P) /\ Cardinality(held) = Cardinality(places)
    BY <1>7, <1>8, <1>10, <1>11
  <2>2. QED BY <1>6, <1>10, <2>1, MinIs
<1>14. ListInMemory(0) = held
  <2>1. ListInMemory(0) = {stored[order[p]] : p \in places} BY <1>3 DEF ListInMemory
  <2>2. QED BY <1>4, <1>7, <2>1
<1>15. ASSUME NEW s \in list, NEW t \in held \ list PROVE t.at <= s.at
  <2>1. PICK p \in P : s = f[p] BY <1>11
  <2>2. PICK q \in places \ P : t = f[q] BY <1>7, <1>11
  <2>3. <<p, q>> \in Recency BY <1>10
  <2>4. stored[order[p]].at > stored[order[q]].at \/ stored[order[p]].at = stored[order[q]].at
    BY <2>3 DEF Recency
  <2>5. s = stored[order[p]] /\ t = stored[order[q]] BY <1>4, <1>10, <2>1, <2>2
  <2>6. s.at \in Nat /\ t.at \in Nat
    BY <1>5, <1>10, <2>5, StoreAssumption DEF Snapshot, StoreAssumption
  <2>7. QED BY <2>4, <2>5, <2>6
<1>16. QED BY <1>1, <1>2, <1>12, <1>13, <1>14, <1>15

(* For any number of snapshots, any page size and any failed HEADs: a      *)
(* listing has as many readable snapshots as its limit allows, and a larger*)
(* limit leaves none out that a smaller one lists.  What a limit leaves out*)
(* of the memory store is the least recent; of S3 nothing is claimed.      *)
THEOREM ListingsAreComplete == Spec => []ListIsComplete
<1>1. ASSUME IInv, ListedInv PROVE ListIsComplete
  <2>1. \A limit \in 1 .. MaxBuilt + 1 : limit \in Nat \ {0} BY StoreAssumption DEF StoreAssumption
  <2>2. QED BY <1>1, <2>1, ListingOfBucket, ListingOfMemory DEF ListIsComplete
<1>2. QED BY <1>1, ListedInvariance, PTL
=============================================================================
