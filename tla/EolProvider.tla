----------------------------- MODULE EolProvider -----------------------------
(***************************************************************************)
(* The EOL provider of one resource type (pkg/eol/endoflife/provider.go):  *)
(* loadVersions looks its product's listing up in a cache, and on a miss   *)
(* joins or leads the one flight that fetches it.  Unlike the cache of     *)
(* Wiz reports it does not look into the cache again inside the flight.    *)
(* Its callers are attempts of FetchEOLData for that type: a retry, and an *)
(* attempt that Temporal gave up on.  A caller asks for one version after  *)
(* another; what it is told follows from the listing (VersionMatching).    *)
(*                                                                         *)
(*   now      the clock                                                    *)
(*   listing  what endoflife.date serves for the product                   *)
(*   changes  how often that has changed                                   *)
(*   cache    the cached entry, or None                                    *)
(*   flight   the fetch in progress, or None: when it began, and the       *)
(*            listing it was answered with                                 *)
(*   calls    each caller's loadVersions: how far it got, what it was      *)
(*            answered with and when, and the age floor it began with      *)
(*   newest   when the newest listing anyone was answered with was fetched *)
(***************************************************************************)
EXTENDS VersionMatching

CONSTANTS
    Callers,     \* the attempts of FetchEOLData that share the provider
    Listings,    \* what endoflife.date may serve
    Resources,   \* the versions resources may have
    CacheTTL,    \* 24 hours in the code
    FlightTime,  \* bound: the ticks a fetch may take
    MaxNow,      \* bound: the last tick of the clock
    MaxChanges,  \* bound: how often the listing changes
    None         \* no entry, no flight, no response

Times == 0 .. MaxNow
Entry == [cycles : Listings, fetchedAt : Times, cachedAt : Times]
Flight == [fetchedAt : Times, response : Listings \cup {None}]
Call == [state : {"idle", "missed", "waiting", "ok", "failed"}, at : Times,
         entry : Entry \cup {None}, floor : Times]

ASSUME ProviderAssumption ==
    /\ CacheTTL \in Nat \ {0} /\ FlightTime \in Nat /\ MaxNow \in Nat /\ MaxChanges \in Nat
    /\ None \notin Listings \cup Entry \cup Flight
    /\ \A l \in Listings : IsListing(l)
    /\ \A v \in Resources : v \in Strings

VARIABLES now, listing, changes, cache, flight, calls, newest
vars == <<now, listing, changes, cache, flight, calls, newest>>

Init ==
    /\ now = 0
    /\ listing \in Listings
    /\ changes = 0
    /\ cache = None
    /\ flight = None
    /\ calls = [c \in Callers |-> [state |-> "idle", at |-> 0, entry |-> None, floor |-> 0]]
    /\ newest = 0

-----------------------------------------------------------------------------
(* The environment. *)

Tick ==
    /\ now < MaxNow
    /\ flight # None => now < flight.fetchedAt + FlightTime
    /\ now' = now + 1
    /\ UNCHANGED <<listing, changes, cache, flight, calls, newest>>

ListingChanges ==
    /\ changes < MaxChanges
    /\ changes' = changes + 1
    /\ listing' \in Listings \ {listing}
    /\ UNCHANGED <<now, cache, flight, calls, newest>>

-----------------------------------------------------------------------------
(* loadVersions. *)

(* mutant: an entry is never fetched again *)
HitForever(entry) == entry # None
Hit(entry) == entry # None /\ now - entry.cachedAt < CacheTTL

Newer(a, b) == IF a > b THEN a ELSE b

(* The read-locked lookup, at the start of a call. *)
Lookup(c) ==
    /\ calls[c].state \in {"idle", "ok", "failed"}
    /\ calls' = [calls EXCEPT ![c] =
                   [state |-> IF Hit(cache) THEN "ok" ELSE "missed", at |-> now,
                    entry |-> IF Hit(cache) THEN cache ELSE None, floor |-> newest]]
    /\ newest' = IF Hit(cache) THEN Newer(newest, cache.fetchedAt) ELSE newest
    /\ UNCHANGED <<now, listing, changes, cache, flight>>

(* group.Do: lead a flight, or wait for the one in progress. *)
Do(c) ==
    /\ calls[c].state = "missed"
    /\ calls' = [calls EXCEPT ![c].state = "waiting"]
    /\ flight' = IF flight # None THEN flight ELSE [fetchedAt |-> now, response |-> None]
    /\ UNCHANGED <<now, listing, changes, cache, newest>>

(* endoflife.date answers GetProductCycles, with 200 or with 404. *)
Respond ==
    /\ flight # None /\ flight.response = None
    /\ flight' = [flight EXCEPT !.response = listing]
    /\ UNCHANGED <<now, listing, changes, cache, calls, newest>>

Fetched == [cycles |-> flight.response, fetchedAt |-> flight.fetchedAt, cachedAt |-> now]

(* mutants: a 404 keeps the entry alive; waiters are not answered *)
StoredUnless404 ==
    IF flight.response = NotFound /\ cache # None THEN [cache EXCEPT !.cachedAt = now] ELSE Fetched
Stored == Fetched

(* The entry replaces the cached one, whether it has cycles or not, and    *)
(* everyone who waits for the flight gets it.                              *)
Land ==
    /\ flight # None /\ flight.response # None
    /\ cache' = Stored
    /\ calls' = [c \in Callers |->
                   IF calls[c].state = "waiting"
                   THEN [calls[c] EXCEPT !.state = "ok", !.at = now, !.entry = Fetched]
                   ELSE calls[c]]
    /\ newest' = Newer(newest, flight.fetchedAt)
    /\ flight' = None
    /\ UNCHANGED <<now, listing, changes>>

(* mutant: only one of the callers is told *)
FailedOne == LET one == CHOOSE c \in Callers : calls[c].state = "waiting"
             IN [calls EXCEPT ![one] = [@ EXCEPT !.state = "failed", !.at = now]]
Failed == [c \in Callers |-> IF calls[c].state = "waiting"
                             THEN [calls[c] EXCEPT !.state = "failed", !.at = now]
                             ELSE calls[c]]

(* The request fails, its body is not a listing, or the leader's context   *)
(* is cancelled: an entry with fetchErr for all waiters, and none cached.  *)
FetchFails ==
    /\ flight # None
    /\ calls' = Failed
    /\ flight' = None
    /\ UNCHANGED <<now, listing, changes, cache, newest>>

FlightStep == Respond \/ Land \/ FetchFails

Next ==
    \/ Tick \/ ListingChanges
    \/ \E c \in Callers : Lookup(c) \/ Do(c)
    \/ FlightStep

Spec == Init /\ [][Next]_vars

(* Every goroutine runs, and the HTTP client ends every request. *)
FairSpec ==
    /\ Spec
    /\ \A c \in Callers : WF_vars(Do(c))
    /\ WF_vars(FlightStep)

-----------------------------------------------------------------------------
(* What the scan makes of an answer for a resource's version. *)

Answered(c) == calls[c].state \in {"ok", "failed"}

LifecycleOf(c, v) ==
    CASE IsBlank(v) -> EmptyInventoryVersion
      [] ~IsBlank(v) /\ calls[c].state = "failed" -> SourceError(v)
      [] OTHER -> GetVersionLifecycle(calls[c].entry.cycles, v)

-----------------------------------------------------------------------------
(* Properties. *)

(* Every variable has its type, and callers wait only while a flight is    *)
(* under way.                                                              *)
TypeOK ==
    /\ now \in Times /\ listing \in Listings /\ changes \in 0 .. MaxChanges
    /\ cache \in Entry \cup {None}
    /\ flight \in Flight \cup {None}
    /\ calls \in [Callers -> Call]
    /\ \A c \in Callers : calls[c].state = "waiting" => flight # None
    /\ newest \in Times

(* No version is judged by a listing that was fetched longer ago than the  *)
(* TTL and the time of a fetch, whoever fetched it, and however often the  *)
(* product was asked for, not found or failing in between.                 *)
FreshListing ==
    \A c \in Callers : calls[c].state = "ok" =>
        calls[c].at - calls[c].entry.fetchedAt < CacheTTL + FlightTime

(* Late callers fetch a second time and replace an entry that is still     *)
(* good (loadVersions has no second look), and a listing may turn into a   *)
(* 404 and back: all the same nobody is answered from an older listing     *)
(* than someone had already been answered from when the call began.        *)
NeverBackwards ==
    \A c \in Callers : calls[c].state = "ok" => calls[c].entry.fetchedAt >= calls[c].floor

(* Every call is answered, whoever leads the flight it waits for and       *)
(* whatever becomes of it.                                                 *)
CallsReturn == \A c \in Callers : (calls[c].state = "missed") ~> Answered(c)

Clean(s) == ~s.padded /\ ~s.k8s
CleanListing(l) == l # NotFound /\ \A c \in l : Clean(c.name)
Contains(cycle, v) ==
    /\ cycle.name.parts # <<>> /\ Len(cycle.name.parts) <= Len(v.parts)
    /\ SubSeq(v.parts, 1, Len(cycle.name.parts)) = cycle.name.parts

(* A version that is written plainly is judged exactly if the listing has  *)
(* a well-formed cycle that contains it, and by the closest of these:      *)
(* what the provider finds, the policy never rejects.                      *)
JudgedByOwnCycle ==
    \A c \in Callers, v \in Resources :
        calls[c].state = "ok" /\ Clean(v) /\ ~IsBlank(v) /\ CleanListing(calls[c].entry.cycles) =>
            LET l == LifecycleOf(c, v)
                own == {d \in calls[c].entry.cycles : d.wellFormed /\ Contains(d, v)}
            IN /\ Judged(l, v) <=> own # {}
               /\ own # {} => /\ \E d \in own : d.name = l.version
                              /\ \A d \in own : Len(d.name.parts) <= Len(l.version.parts)

(* An UNKNOWN finding names the true reason: provider, FetchEOLData and    *)
(* policy contribute to the cause, each from its own reading of the        *)
(* version, and a fetch that failed never passes for a product without     *)
(* cycles, also not from the cache.                                        *)
TrueCause(c, v) ==
    LET cycles == calls[c].entry.cycles
        containing == {d \in cycles : d.name.k8s = v.k8s /\ Contains(d, v)}
    IN CASE v.parts = <<>> -> "empty_inventory_version"
         [] v.parts # <<>> /\ calls[c].state = "failed" -> "source_error"
         [] v.parts # <<>> /\ calls[c].state = "ok" /\ cycles = NotFound -> "product_not_found"
         [] v.parts # <<>> /\ calls[c].state = "ok" /\ cycles # NotFound ->
              IF \E d \in containing : d.wellFormed THEN "lifecycle_mismatch"
              ELSE IF containing # {} THEN "malformed_cycle" ELSE "cycle_not_found"

CauseIsTrue ==
    \A c \in Callers, v \in Resources :
        Answered(c) /\ ~Judged(LifecycleOf(c, v), v) =>
            UnknownCause(LifecycleOf(c, v), v) = TrueCause(c, v)
=============================================================================
