--------------------------- MODULE SnapshotStore ---------------------------
(***************************************************************************)
(* The two implementations of snapshot.Store, of which a process uses one: *)
(* the S3 store (pkg/snapshot/store.go) puts one object under a dated key  *)
(* and a copy under latest.json, and its readers find snapshots again by   *)
(* listing the bucket; the memory store (pkg/snapshot/memory_store.go)     *)
(* keeps a map and the order of the first saves, behind a mutex.           *)
(*                                                                         *)
(*   now         the clock; Day(now) is the date that goes into a key      *)
(*   backend     the implementation in use                                 *)
(*   objects     the dated objects of the bucket, by key                   *)
(*   latest      the object under latest.json                              *)
(*   stored      the memory store's snapshot for each ID                   *)
(*   order       its IDs in the order of their first save                  *)
(*   saving      the SaveSnapshot calls in progress                        *)
(*   acked       the snapshots whose SaveSnapshot returned without an error*)
(*   built       how many snapshots have been built so far                 *)
(*   overlapped  has a save begun while another was in progress?           *)
(*                                                                         *)
(* A snapshot's ID is the ScanID, which a caller may choose and which the  *)
(* retries of CreateSnapshot share; each attempt builds a snapshot of its  *)
(* own, told apart by its number n.  A late attempt still saves while a    *)
(* later one begins.  IDs are numbered in the order of the strings they    *)
(* stand for, so <<day, id>> sorts like the key does.                      *)
(***************************************************************************)
EXTENDS Naturals, Sequences, FiniteSetsExt, Functions

CONSTANTS
    IDs,         \* the snapshot IDs in use, as numbers in string order
    EndsWith,    \* pairs <<a, b>>: the string of b ends with that of a
    DayLength,   \* clock ticks per day
    MaxNow,      \* bound: the last tick of the clock
    MaxBuilt,    \* bound: how many snapshots are built
    PageLimit,   \* keys per page of a listing (1000 in the code)
    None         \* no snapshot

ASSUME StoreAssumption ==
    /\ IDs \subseteq Nat /\ EndsWith \subseteq IDs \X IDs
    /\ \A i \in IDs : <<i, i>> \in EndsWith
    /\ DayLength \in Nat \ {0} /\ MaxNow \in Nat /\ MaxBuilt \in Nat
    /\ PageLimit \in Nat \ {0}
    /\ None \notin [n : 1 .. MaxBuilt, id : IDs, at : 0 .. MaxNow]

VARIABLES now, backend, objects, latest, stored, order, saving, acked, built, overlapped
bucket == <<objects, latest>>
memory == <<stored, order>>
calls == <<saving, acked, built, overlapped>>
vars == <<now, backend, bucket, memory, calls>>

Day(time) == time \div DayLength
Snapshot == [n : 1 .. MaxBuilt, id : IDs, at : 0 .. MaxNow]

(* generateKey: the date of GeneratedAt, then the ID. *)
generateKeyByID(at, id) == <<0, id>>  \* mutant: no date in the key
generateKey(at, id) == <<Day(at), id>>
Keys == {Day(time) : time \in 0 .. MaxNow} \X IDs
Before(k, l) == k[1] < l[1] \/ (k[1] = l[1] /\ k[2] < l[2])

Init ==
    /\ now = 0
    /\ backend \in {"s3", "memory"}
    /\ objects = [k \in Keys |-> None]
    /\ latest = None
    /\ stored = [i \in IDs |-> None]
    /\ order = <<>>
    /\ saving = {}
    /\ acked = {}
    /\ built = 0
    /\ overlapped = FALSE

Tick ==
    /\ now < MaxNow
    /\ now' = now + 1
    /\ UNCHANGED <<backend, bucket, memory, calls>>

-----------------------------------------------------------------------------
(* SaveSnapshot. *)

(* Builder: GeneratedAt is the time of the build. *)
Begin(id) ==
    /\ built < MaxBuilt
    /\ built' = built + 1
    /\ saving' = saving \cup {[snapshot |-> [n |-> built + 1, id |-> id, at |-> now],
                               step |-> "begun"]}
    /\ overlapped' = (overlapped \/ saving # {})
    /\ UNCHANGED <<now, backend, bucket, memory, acked>>

(* mutant: the call goes on, but its earlier step is not over *)
PutDatedTwice(s) ==
    /\ backend = "s3" /\ s.step = "begun"
    /\ objects' = [objects EXCEPT ![generateKey(s.snapshot.at, s.snapshot.id)] = s.snapshot]
    /\ saving' = saving \cup {[s EXCEPT !.step = "latest"]}
    /\ UNCHANGED <<now, backend, latest, memory, acked, built, overlapped>>

PutDated(s) ==
    /\ backend = "s3" /\ s.step = "begun"
    /\ objects' = [objects EXCEPT ![generateKey(s.snapshot.at, s.snapshot.id)] = s.snapshot]
    /\ saving' = (saving \ {s}) \cup {[s EXCEPT !.step = "latest"]}
    /\ UNCHANGED <<now, backend, latest, memory, acked, built, overlapped>>

Return(s) ==
    /\ saving' = saving \ {s}
    /\ acked' = acked \cup {s.snapshot}

(* mutant: the first snapshot stays the latest *)
PutLatestOnce(s) ==
    /\ s.step = "latest"
    /\ latest' = IF latest = None THEN s.snapshot ELSE latest
    /\ Return(s)
    /\ UNCHANGED <<now, backend, objects, memory, built, overlapped>>

PutLatest(s) ==
    /\ s.step = "latest"
    /\ latest' = s.snapshot
    /\ Return(s)
    /\ UNCHANGED <<now, backend, objects, memory, built, overlapped>>

(* A put fails, or the worker dies.  What earlier puts wrote stays, and    *)
(* the failing put may have taken effect all the same.                     *)
SaveFails(s) ==
    /\ backend = "s3"
    /\ saving' = saving \ {s}
    /\ \/ UNCHANGED bucket
       \/ /\ s.step = "begun"
          /\ objects' = [objects EXCEPT ![generateKey(s.snapshot.at, s.snapshot.id)] = s.snapshot]
          /\ UNCHANGED latest
       \/ s.step = "latest" /\ latest' = s.snapshot /\ UNCHANGED objects
    /\ UNCHANGED <<now, backend, memory, acked, built, overlapped>>

(* The memory store: an ID that is saved again keeps its place. *)
SaveInMemory(s) ==
    LET id == s.snapshot.id IN
    /\ backend = "memory"
    /\ order' = IF stored[id] = None THEN Append(order, id) ELSE order
    /\ stored' = [stored EXCEPT ![id] = s.snapshot]
    /\ Return(s)
    /\ UNCHANGED <<now, backend, bucket, built, overlapped>>

(* The bounds are used up. *)
Done ==
    /\ now = MaxNow /\ built = MaxBuilt /\ saving = {}
    /\ UNCHANGED vars

Next ==
    \/ Tick
    \/ \E id \in IDs : Begin(id)
    \/ \E s \in saving : PutDated(s) \/ PutLatest(s) \/ SaveFails(s) \/ SaveInMemory(s)
    \/ Done

Spec == Init /\ [][Next]_vars

-----------------------------------------------------------------------------
(* The readers. *)

Listed == {k \in Keys : objects[k] # None}
(* Every other key of the bucket begins with a digit. *)
LatestKey == <<Day(MaxNow) + 1, 0>>
InBucket == Listed \cup (IF latest = None THEN {} ELSE {LatestKey})
KeyOrder == {kl \in (Keys \cup {LatestKey}) \X (Keys \cup {LatestKey}) : Before(kl[1], kl[2])}
(* What a reader that goes through s in this order has seen after n steps. *)
Firsts(s, ordering, n) == {x \in s : Cardinality({y \in s : <<y, x>> \in ordering}) < n}
First(keys) == CHOOSE k \in keys : \A l \in keys \ {k} : Before(k, l)

(* containsSnapshotID compares the end of the key with the ID. *)
containsSnapshotID(key, id) == <<id, key[2]>> \in EndsWith

(* mutant: looks at the first page of the listing only *)
GetSnapshotOnePage(id) ==
    LET matches == {k \in Firsts(Listed, KeyOrder, PageLimit) : containsSnapshotID(k, id)}
    IN IF backend = "memory" THEN stored[id]
       ELSE IF matches = {} THEN None ELSE objects[First(matches)]

(* S3: the first match of the listing.  None when there is none.  An ID    *)
(* that latest.json ends with is found there only if no dated key ends with*)
(* it, since latest.json comes last: this is left out.                     *)
GetSnapshot(id) ==
    LET matches == {k \in Listed : containsSnapshotID(k, id)}
    IN IF backend = "memory" THEN stored[id]
       ELSE IF matches = {} THEN None ELSE objects[First(matches)]

(* mutant: stops at the first page *)
ListSnapshotsOnePage(limit, unreadable) ==
    Firsts(InBucket, KeyOrder, Min({limit, PageLimit})) \cap (Listed \ unreadable)

(* Pages of at most PageLimit keys until limit entries were read.  An      *)
(* object whose HEAD fails is skipped, and so is latest.json.  The entries *)
(* come in the order of their keys, so a listing is given by its set.      *)
ListSnapshots(limit, unreadable) ==
    LET (* rest: what is behind the continuation token *)
        From[rest \in SUBSET InBucket] ==
            [remaining \in 0 .. limit |->
                LET page == Firsts(rest, KeyOrder, Min({remaining, PageLimit}))
                    read == page \cap (Listed \ unreadable)
                IN IF page = rest \/ Cardinality(read) >= remaining THEN read
                   ELSE read \cup From[rest \ page][remaining - Cardinality(read)]]
    IN From[InBucket][limit]

(* The memory store: most recent first, in the order of their first saves  *)
(* among those of the same time.  Limit 0 means all.                       *)
Recency ==
    {pq \in (1 .. Len(order)) \X (1 .. Len(order)) :
        LET s == stored[order[pq[1]]]
            t == stored[order[pq[2]]]
        IN s.at > t.at \/ (s.at = t.at /\ pq[1] < pq[2])}
ListInMemory(limit) ==
    LET listed == IF limit > 0 THEN Firsts(1 .. Len(order), Recency, limit) ELSE 1 .. Len(order)
    IN {stored[order[p]] : p \in listed}

-----------------------------------------------------------------------------
(* Properties. *)

(* Every variable has its type, and no two calls save the same snapshot. *)
TypeOK ==
    /\ now \in 0 .. MaxNow /\ backend \in {"s3", "memory"}
    /\ objects \in [Keys -> Snapshot \cup {None}]
    /\ latest \in Snapshot \cup {None}
    /\ stored \in [IDs -> Snapshot \cup {None}]
    /\ order \in Seq(IDs) /\ IsInjective(order)
    /\ saving \subseteq [snapshot : Snapshot, step : {"begun", "latest"}]
    /\ \A s, t \in saving : s.snapshot.n = t.snapshot.n => s = t
    /\ acked \subseteq Snapshot /\ built \in 0 .. MaxBuilt /\ overlapped \in BOOLEAN

(* No later save, retry or failure takes an acknowledged snapshot's place  *)
(* under its dated key, except a save of the same ID made that same day,   *)
(* and only a newer one unless saves have overlapped.                      *)
AckedStays ==
    backend = "s3" => \A s \in acked :
        LET o == objects[generateKey(s.at, s.id)]
        IN /\ o # None
           /\ o.id = s.id /\ Day(o.at) = Day(s.at)
           /\ ~overlapped => o.n >= s.n

(* Every acknowledged snapshot is found again under its ID, and what is    *)
(* found has that ID, unless the store is S3 and holds an ID that ends     *)
(* with this one (GetSnapshot compares the end of the key).                *)
FoundByID ==
    \A s \in acked :
        LET found == GetSnapshot(s.id)
        IN /\ found # None
           /\ found.id # s.id => backend = "s3" /\ <<s.id, found.id>> \in EndsWith

(* latest.json never falls behind an acknowledged snapshot, whatever put   *)
(* failed in between, as long as saves do not overlap.                     *)
LatestKeepsUp ==
    backend = "s3" /\ ~overlapped => \A s \in acked : latest # None /\ latest.n >= s.n

(* A listing has as many readable snapshots as its limit allows, whatever  *)
(* the page size and the failed HEADs, and a larger limit leaves none out  *)
(* that a smaller one lists, so no page boundary loses one.  Which ones a  *)
(* limit leaves out is claimed of the memory store only: the least recent. *)
ListIsComplete ==
    \A limit \in 1 .. MaxBuilt + 1 :
        IF backend = "s3"
        THEN \A unreadable \in SUBSET Listed :
                 LET list == ListSnapshots(limit, unreadable)
                     want == Listed \ unreadable
                 IN /\ list \subseteq want /\ Cardinality(list) = Min({limit, Cardinality(want)})
                    /\ list \subseteq ListSnapshots(limit + 1, unreadable)
        ELSE LET list == ListInMemory(limit)
                 held == {stored[i] : i \in {j \in IDs : stored[j] # None}}
             IN /\ list \subseteq held /\ Cardinality(list) = Min({limit, Cardinality(held)})
                /\ ListInMemory(0) = held
                /\ \A s \in list, t \in held \ list : t.at <= s.at
=============================================================================
