-------------------------- MODULE EolProviderProofs --------------------------
(***************************************************************************)
(* The cache of the EOL provider never answers with a listing that is too  *)
(* old, and never goes back to an older one, and what a scan makes of an   *)
(* answer is the closest cycle or the true cause, for any number of        *)
(* callers, any listings and versions, TTL and duration of a fetch.        *)
(***************************************************************************)
EXTENDS EolProvider, SequenceTheorems, WellFoundedInduction, TLAPS

(* The times of the cached entry, of the fetch under way and of what was   *)
(* answered are in order: a fetch is newer than everything before it.      *)
Ordered ==
    /\ cache # None => /\ cache.fetchedAt <= cache.cachedAt /\ cache.cachedAt <= now
                       /\ cache.cachedAt <= cache.fetchedAt + FlightTime
                       /\ newest <= cache.fetchedAt
    /\ cache = None => newest = 0
    /\ flight # None => /\ flight.fetchedAt <= now /\ now <= flight.fetchedAt + FlightTime
                        /\ newest <= flight.fetchedAt
                        /\ cache # None => cache.fetchedAt <= flight.fetchedAt
    /\ newest <= now
    /\ \A c \in Callers : calls[c].floor <= newest

IInv == TypeOK /\ Ordered /\ FreshListing /\ NeverBackwards

USE ProviderAssumption DEF ProviderAssumption, Times

LEMMA Initially == Init => IInv
BY DEF Init, IInv, TypeOK, Ordered, FreshListing, NeverBackwards, Call

LEMMA TickKeeps == ASSUME IInv, Tick PROVE IInv'
<1>1. now' = now + 1 /\ now' \in Times BY DEF Tick, IInv, TypeOK
<1>2. UNCHANGED <<listing, changes, cache, flight, calls, newest>> BY DEF Tick
<1>3. TypeOK' BY <1>1, <1>2 DEF IInv, TypeOK
<1>4. Ordered'
  <2>1. flight # None => flight.fetchedAt \in Nat /\ now < flight.fetchedAt + FlightTime
    BY DEF Tick, IInv, TypeOK, Flight
  <2>2. cache # None => cache.cachedAt \in Nat BY DEF IInv, TypeOK, Entry
  <2>3. now \in Nat /\ newest \in Nat BY DEF IInv, TypeOK
  <2>4. QED BY <1>1, <1>2, <2>1, <2>2, <2>3 DEF IInv, Ordered, Flight
<1>5. FreshListing' /\ NeverBackwards' BY <1>2 DEF IInv, FreshListing, NeverBackwards
<1>6. QED BY <1>3, <1>4, <1>5 DEF IInv

LEMMA ListingChangesKeeps == ASSUME IInv, ListingChanges PROVE IInv'
BY DEF ListingChanges, IInv, TypeOK, Ordered, FreshListing, NeverBackwards

LEMMA LookupKeeps == ASSUME IInv, NEW c \in Callers, Lookup(c) PROVE IInv'
<1> DEFINE call == [state |-> IF Hit(cache) THEN "ok" ELSE "missed", at |-> now,
                    entry |-> IF Hit(cache) THEN cache ELSE None, floor |-> newest]
<1>1. /\ calls' = [calls EXCEPT ![c] = call]
      /\ newest' = IF Hit(cache) THEN Newer(newest, cache.fetchedAt) ELSE newest
      /\ UNCHANGED <<now, listing, changes, cache, flight>>
  BY DEF Lookup
<1>2. now \in Times /\ newest \in Times /\ newest <= now /\ calls \in [Callers -> Call]
  BY DEF IInv, TypeOK, Ordered
<1>3. Hit(cache) => /\ cache \in Entry /\ cache.fetchedAt \in Times /\ cache.cachedAt \in Times
                    /\ newest <= cache.fetchedAt /\ cache.fetchedAt <= now
                    /\ now - cache.fetchedAt < CacheTTL + FlightTime
                    /\ newest' = cache.fetchedAt
  <2>1. ASSUME Hit(cache)
        PROVE  /\ cache \in Entry /\ cache.fetchedAt \in Times /\ cache.cachedAt \in Times
               /\ newest <= cache.fetchedAt /\ cache.fetchedAt <= cache.cachedAt
               /\ cache.cachedAt <= now
               /\ cache.cachedAt <= cache.fetchedAt + FlightTime
               /\ now - cache.cachedAt < CacheTTL
    BY <2>1 DEF Hit, IInv, TypeOK, Ordered, Entry
  <2>2. QED BY <1>1, <1>2, <2>1 DEF Newer
<1>4. newest' \in Times /\ newest <= newest' /\ newest' <= now BY <1>1, <1>2, <1>3
<1>5. call \in Call BY <1>2, <1>3 DEF Call
<1>6. TypeOK'
  <2>1. \A d \in Callers : calls'[d].state = "waiting" => calls[d].state = "waiting"
    BY <1>1, <1>2
  <2>2. calls' \in [Callers -> Call] BY <1>1, <1>2, <1>5
  <2>3. QED BY <1>1, <1>4, <2>1, <2>2 DEF IInv, TypeOK
<1>7. \A d \in Callers : calls'[d] = IF d = c THEN call ELSE calls[d] BY <1>1, <1>2
<1>8. Ordered'
  <2>1. \A d \in Callers : calls'[d].floor <= newest'
    <3>1. \A d \in Callers : calls[d].floor \in Times /\ calls[d].floor <= newest
      BY <1>2 DEF IInv, Ordered, Call
    <3>2. QED BY <1>2, <1>4, <1>7, <3>1
  <2>2. flight # None => newest' <= flight.fetchedAt
    BY <1>1, <1>3 DEF IInv, Ordered, Hit
  <2>3. cache # None => newest' <= cache.fetchedAt BY <1>1, <1>3 DEF IInv, Ordered
  <2>4. cache = None => newest' = 0 BY <1>1 DEF IInv, Ordered, Hit
  <2>5. QED BY <1>1, <1>4, <2>1, <2>2, <2>3, <2>4 DEF IInv, Ordered
<1>9. FreshListing' BY <1>3, <1>7 DEF IInv, FreshListing
<1>10. NeverBackwards' BY <1>3, <1>7 DEF IInv, NeverBackwards
<1>11. QED BY <1>6, <1>8, <1>9, <1>10 DEF IInv

LEMMA DoKeeps == ASSUME IInv, NEW c \in Callers, Do(c) PROVE IInv'
<1>1. /\ calls' = [calls EXCEPT ![c].state = "waiting"]
      /\ flight' = IF flight # None THEN flight ELSE [fetchedAt |-> now, response |-> None]
      /\ UNCHANGED <<now, listing, changes, cache, newest>>
  BY DEF Do
<1>2. now \in Times /\ newest \in Times /\ calls \in [Callers -> Call] BY DEF IInv, TypeOK
<1>3. flight' \in Flight /\ flight' # None
  <2>1. [fetchedAt |-> now, response |-> None] \in Flight BY <1>2 DEF Flight
  <2>2. flight # None => flight \in Flight BY DEF IInv, TypeOK
  <2>3. QED BY <1>1, <2>1, <2>2
<1>4. calls' \in [Callers -> Call]
  <2>1. [calls[c] EXCEPT !.state = "waiting"] \in Call BY <1>2 DEF Call
  <2>2. QED BY <1>1, <1>2, <2>1
<1>5. \A d \in Callers : /\ calls'[d].at = calls[d].at /\ calls'[d].entry = calls[d].entry
                         /\ calls'[d].floor = calls[d].floor
                         /\ calls'[d].state = "ok" => calls[d].state = "ok"
  BY <1>1, <1>2 DEF Call
<1>6. TypeOK' BY <1>1, <1>3, <1>4 DEF IInv, TypeOK
<1>7. Ordered'
  <2>1. flight = None => flight'.fetchedAt = now BY <1>1
  <2>2. cache # None => cache.fetchedAt \in Times /\ cache.cachedAt \in Times
    BY DEF IInv, TypeOK, Entry
  <2>3. \A d \in Callers : calls'[d].floor <= newest' BY <1>1, <1>5 DEF IInv, Ordered
  <2>4. CASE flight # None BY <1>1, <2>3, <2>4 DEF IInv, Ordered
  <2>5. CASE flight = None
    <3>1. now <= now + FlightTime /\ newest <= now /\ (cache # None => cache.fetchedAt <= now)
      BY <1>2, <2>2 DEF IInv, Ordered
    <3>2. /\ cache' = cache /\ newest' = newest /\ now' = now
          /\ flight' # None /\ flight'.fetchedAt = now
      BY <1>1, <1>3, <2>1, <2>5
    <3>3. QED BY <1>2, <2>3, <3>1, <3>2 DEF IInv, Ordered
  <2>6. QED BY <2>4, <2>5
<1>8. FreshListing' /\ NeverBackwards' BY <1>1, <1>5 DEF IInv, FreshListing, NeverBackwards
<1>9. QED BY <1>6, <1>7, <1>8 DEF IInv

LEMMA RespondKeeps == ASSUME IInv, Respond PROVE IInv'
<1>1. /\ flight # None /\ flight' = [flight EXCEPT !.response = listing]
      /\ UNCHANGED <<now, listing, changes, cache, calls, newest>>
  BY DEF Respond
<1>2. flight \in Flight /\ listing \in Listings BY <1>1 DEF IInv, TypeOK
<1>3. flight' \in Flight /\ flight'.fetchedAt = flight.fetchedAt BY <1>1, <1>2 DEF Flight
<1>4. flight' # None BY <1>3
<1>5. TypeOK' BY <1>1, <1>3, <1>4 DEF IInv, TypeOK
<1>6. Ordered' BY <1>1, <1>3, <1>4 DEF IInv, Ordered
<1>7. FreshListing' /\ NeverBackwards' BY <1>1 DEF IInv, FreshListing, NeverBackwards
<1>8. QED BY <1>5, <1>6, <1>7 DEF IInv

(* What a flight brings is at most FlightTime old, and newer than anything *)
(* that was answered before.                                               *)
LEMMA LandKeeps == ASSUME IInv, Land PROVE IInv'
<1>1. /\ flight # None /\ flight.response # None /\ cache' = Fetched /\ flight' = None
      /\ calls' = [c \in Callers |->
                     IF calls[c].state = "waiting"
                     THEN [calls[c] EXCEPT !.state = "ok", !.at = now, !.entry = Fetched]
                     ELSE calls[c]]
      /\ newest' = Newer(newest, flight.fetchedAt)
      /\ UNCHANGED <<now, listing, changes>>
  BY DEF Land, Stored
<1>2. /\ now \in Times /\ newest \in Times /\ calls \in [Callers -> Call] /\ flight \in Flight
      /\ flight.fetchedAt \in Times /\ flight.response \in Listings
  BY <1>1 DEF IInv, TypeOK, Flight
<1>3. /\ flight.fetchedAt <= now /\ now <= flight.fetchedAt + FlightTime
      /\ newest <= flight.fetchedAt
  BY <1>1 DEF IInv, Ordered
<1>4. /\ Fetched \in Entry /\ Fetched # None
      /\ Fetched.fetchedAt = flight.fetchedAt /\ Fetched.cachedAt = now
  BY <1>2 DEF Fetched, Entry
<1>5. newest' = flight.fetchedAt
  <2>1. newest' = Newer(newest, flight.fetchedAt) BY <1>1
  <2>2. newest \in Int /\ flight.fetchedAt \in Int /\ newest <= flight.fetchedAt BY <1>2, <1>3
  <2>3. QED BY <2>1, <2>2 DEF Newer
<1>6. \A c \in Callers :
        /\ calls'[c].floor = calls[c].floor /\ calls'[c].state # "waiting" /\ calls'[c] \in Call
        /\ \/ calls'[c] = calls[c]
           \/ calls'[c].at = now /\ calls'[c].entry = Fetched
  BY <1>1, <1>2, <1>4 DEF Call
<1>7. TypeOK'
  <2>1. calls' \in [Callers -> Call] BY <1>1, <1>6
  <2>2. QED BY <1>1, <1>2, <1>4, <1>5, <1>6, <2>1 DEF IInv, TypeOK
<1>8. \A c \in Callers : calls[c].floor \in Times /\ calls[c].floor <= newest
  BY <1>2 DEF IInv, Ordered, Call
<1>9. \A c \in Callers : calls'[c].floor <= flight.fetchedAt BY <1>2, <1>3, <1>6, <1>8
<1>10. Ordered'
  <2>1. /\ cache' # None /\ cache'.fetchedAt = flight.fetchedAt /\ cache'.cachedAt = now
        /\ flight' = None /\ now' = now
    BY <1>1, <1>4
  <2>2. QED BY <1>2, <1>3, <1>5, <1>9, <2>1 DEF Ordered
<1>11. FreshListing'
  <2>1. now - flight.fetchedAt < CacheTTL + FlightTime BY <1>2, <1>3
  <2>2. QED BY <1>4, <1>6, <2>1 DEF IInv, FreshListing
<1>12. NeverBackwards'
  BY <1>2, <1>4, <1>6, <1>9 DEF IInv, NeverBackwards
<1>13. QED BY <1>7, <1>10, <1>11, <1>12 DEF IInv

LEMMA FetchFailsKeeps == ASSUME IInv, FetchFails PROVE IInv'
<1>1. /\ flight' = None
      /\ calls' = [c \in Callers |-> IF calls[c].state = "waiting"
                                     THEN [calls[c] EXCEPT !.state = "failed", !.at = now]
                                     ELSE calls[c]]
      /\ UNCHANGED <<now, listing, changes, cache, newest>>
  BY DEF FetchFails, Failed
<1>2. now \in Times /\ calls \in [Callers -> Call] BY DEF IInv, TypeOK
<1>3. \A c \in Callers :
        /\ calls'[c].floor = calls[c].floor /\ calls'[c].state # "waiting" /\ calls'[c] \in Call
        /\ calls'[c].state = "ok" => calls'[c] = calls[c]
  BY <1>1, <1>2 DEF Call
<1>4. calls' \in [Callers -> Call] BY <1>1, <1>3
<1>5. TypeOK' BY <1>1, <1>3, <1>4 DEF IInv, TypeOK
<1>6. Ordered' BY <1>1, <1>3 DEF IInv, Ordered
<1>7. FreshListing' /\ NeverBackwards' BY <1>1, <1>3 DEF IInv, FreshListing, NeverBackwards
<1>8. QED BY <1>5, <1>6, <1>7 DEF IInv

LEMMA NextKeeps == ASSUME IInv, [Next]_vars PROVE IInv'
<1>1. CASE Tick BY <1>1, TickKeeps
<1>2. CASE ListingChanges BY <1>2, ListingChangesKeeps
<1>3. ASSUME NEW c \in Callers, Lookup(c) PROVE IInv' BY <1>3, LookupKeeps
<1>4. ASSUME NEW c \in Callers, Do(c) PROVE IInv' BY <1>4, DoKeeps
<1>5. CASE Respond BY <1>5, RespondKeeps
<1>6. CASE Land BY <1>6, LandKeeps
<1>7. CASE FetchFails BY <1>7, FetchFailsKeeps
<1>8. CASE UNCHANGED vars
  BY <1>8 DEF vars, IInv, TypeOK, Ordered, FreshListing, NeverBackwards
<1>9. QED BY <1>1, <1>2, <1>3, <1>4, <1>5, <1>6, <1>7, <1>8 DEF Next, FlightStep

(* The inductive invariant holds in every behaviour of the provider.       *)
THEOREM InvariantHolds == Spec => []IInv
BY Initially, NextKeeps, PTL DEF Spec

(* Every variable of the provider keeps its type, and nobody waits for a   *)
(* flight that has ended.                                                  *)
THEOREM TypesHold == Spec => []TypeOK
<1>1. IInv => TypeOK BY DEF IInv
<1>2. QED BY <1>1, InvariantHolds, PTL

(* No caller is answered with a listing fetched longer ago than the TTL    *)
(* and the time of a fetch: an entry is served only while it is younger    *)
(* than the TTL, and it is at most a fetch older than that.                *)
THEOREM ListingsAreFresh == Spec => []FreshListing
<1>1. IInv => FreshListing BY DEF IInv
<1>2. QED BY <1>1, InvariantHolds, PTL

(* No caller is answered from an older listing than someone had been       *)
(* answered from when its call began, although late callers replace good   *)
(* entries: the flights of a product are serial.                           *)
THEOREM ListingsNeverGoBack == Spec => []NeverBackwards
<1>1. IInv => NeverBackwards BY DEF IInv
<1>2. QED BY <1>1, InvariantHolds, PTL

-----------------------------------------------------------------------------
(* What a scan makes of an answer.  First the cache: an answered call has  *)
(* an entry, and its listing is one that endoflife.date served.            *)

HasEntry == \A c \in Callers : calls[c].state = "ok" => calls[c].entry # None

LEMMA StepHasEntry == ASSUME IInv, HasEntry, [Next]_vars PROVE HasEntry'
<1>0. calls \in [Callers -> Call] BY DEF IInv, TypeOK
<1>1. ASSUME NEW c \in Callers, Lookup(c) PROVE HasEntry'
  BY <1>0, <1>1 DEF Lookup, HasEntry, Hit
<1>2. ASSUME NEW c \in Callers, Do(c) PROVE HasEntry'
  BY <1>0, <1>2 DEF Do, HasEntry, Call
<1>3. CASE Land
  <2>1. flight \in Flight /\ flight.response \in Listings BY <1>3 DEF Land, IInv, TypeOK, Flight
  <2>2. now \in Times BY DEF IInv, TypeOK
  <2>3. Fetched \in Entry BY <2>1, <2>2 DEF Fetched, Entry, Flight
  <2>4. QED BY <1>0, <1>3, <2>3 DEF Land, HasEntry, Call
<1>4. CASE FetchFails BY <1>0, <1>4 DEF FetchFails, Failed, HasEntry, Call
<1>5. CASE UNCHANGED calls BY <1>5 DEF HasEntry
<1>6. QED
  BY <1>1, <1>2, <1>3, <1>4, <1>5 DEF Next, FlightStep, Tick, ListingChanges, Respond, vars

LEMMA AnsweredFromListing ==
    ASSUME IInv, HasEntry, NEW c \in Callers, calls[c].state = "ok"
    PROVE  IsListing(calls[c].entry.cycles)
<1>1. calls[c].entry \in Entry BY DEF IInv, TypeOK, Call, HasEntry
<1>2. QED BY <1>1 DEF Entry

-----------------------------------------------------------------------------
(* The three readings of a version.                                        *)

LEMMA Trimmed ==
    ASSUME NEW v \in Strings
    PROVE  /\ TrimSpace(v) \in Strings
           /\ ~TrimSpace(v).padded
           /\ TrimSpace(v).k8s = v.k8s /\ TrimSpace(v).parts = v.parts
BY DEF TrimSpace, Strings

LEMMA SameString ==
    ASSUME NEW s \in Strings, NEW t \in Strings,
           s.padded = t.padded, s.k8s = t.k8s, s.parts = t.parts
    PROVE  s = t
BY DEF Strings

LEMMA BlankIs ==
    ASSUME NEW v \in Strings PROVE IsBlank(v) <=> v.parts = <<>>
<1>1. Blank \in Strings /\ ~Blank.padded /\ ~Blank.k8s /\ Blank.parts = <<>>
  BY DEF Blank, String, Strings
<1>2. v.parts = <<>> => ~v.k8s BY DEF Strings
<1>3. ASSUME v.parts = <<>> PROVE TrimSpace(v) = Blank
  <2>1. /\ TrimSpace(v) \in Strings /\ TrimSpace(v).padded = Blank.padded
        /\ TrimSpace(v).k8s = Blank.k8s /\ TrimSpace(v).parts = Blank.parts
    BY <1>1, <1>2, <1>3, Trimmed DEF Strings
  <2>2. QED BY <1>1, <2>1, SameString
<1>4. TrimSpace(v) = Blank => v.parts = <<>> BY <1>1, Trimmed
<1>5. QED BY <1>3, <1>4 DEF IsBlank

(* A cycle with a name matches a version exactly if it contains it: an     *)
(* exact match and the match of a prefix are one relation.                 *)
LEMMA MatchesIs ==
    ASSUME NEW c, c.name \in Strings, c.name.parts # <<>>, NEW v \in Strings
    PROVE  Matches(c, TrimSpace(v)) <=> c.name.k8s = v.k8s /\ Contains(c, v)
<1> DEFINE n == c.name
           tn == TrimSpace(c.name)
           tv == TrimSpace(v)
<1>1. /\ tn \in Strings /\ ~tn.padded /\ tn.k8s = n.k8s /\ tn.parts = n.parts
      /\ tv \in Strings /\ ~tv.padded /\ tv.k8s = v.k8s /\ tv.parts = v.parts
  BY Trimmed
<1>2. n.parts \in Seq(Nat) /\ v.parts \in Seq(Nat) BY DEF Strings
<1>3. tn.padded = tv.padded BY <1>1 DEF Strings
<1>4. HasPrefixDot(tv, tn) <=>
        /\ n.k8s = v.k8s /\ Len(n.parts) < Len(v.parts)
        /\ SubSeq(v.parts, 1, Len(n.parts)) = n.parts
  BY <1>1, <1>3 DEF HasPrefixDot
<1>5. ASSUME tn = tv PROVE n.k8s = v.k8s /\ Contains(c, v)
  <2>1. n.parts = v.parts /\ n.k8s = v.k8s BY <1>1, <1>5
  <2>2. SubSeq(v.parts, 1, Len(v.parts)) = v.parts BY <1>2, SubSeqFull
  <2>3. QED BY <1>2, <2>1, <2>2 DEF Contains
<1>6. ASSUME n.k8s = v.k8s, Contains(c, v), ~(Len(n.parts) < Len(v.parts)) PROVE tn = tv
  <2>1. Len(n.parts) = Len(v.parts) BY <1>2, <1>6 DEF Contains
  <2>2. SubSeq(v.parts, 1, Len(v.parts)) = v.parts BY <1>2, SubSeqFull
  <2>3. n.parts = v.parts BY <1>6, <2>1, <2>2 DEF Contains
  <2>4. QED BY <1>1, <1>3, <1>6, <2>3, SameString
<1>7. Len(n.parts) < Len(v.parts) => Len(n.parts) <= Len(v.parts) BY <1>2
<1>8. QED BY <1>4, <1>5, <1>6, <1>7 DEF Matches, Contains

(* The cycles a listing is searched for: those with a usable name.         *)
Named(cycles) == \A c \in cycles : c.name \in Strings /\ c.name.parts # <<>>

LEMMA VersionsNamed ==
    ASSUME NEW l, IsListing(l)
    PROVE  Named(Versions(l)) /\ Named(MalformedCycles(l))
<1>1. CASE l = NotFound BY <1>1 DEF Versions, MalformedCycles, Named
<1>2. CASE l # NotFound
  <2>1. Named(Versions(l)) BY <1>2 DEF IsListing, Versions, Named
  <2>2. ASSUME NEW c \in MalformedCycles(l) PROVE c.name \in Strings /\ c.name.parts # <<>>
    <3>1. c.name \in Strings /\ TrimSpace(c.name) # Blank
      BY <1>2 DEF IsListing, MalformedCycles
    <3>2. QED BY <3>1, BlankIs DEF IsBlank
  <2>3. QED BY <2>1, <2>2 DEF Named
<1>3. QED BY <1>1, <1>2

LEMMA LeastNumber ==
    ASSUME NEW S \in SUBSET Nat, S # {}
    PROVE  \E n \in S : \A m \in S : n <= m
<1>1. \E n \in S : \A m \in S : ~ (<<m, n>> \in OpToRel(<, Nat))
  BY NatLessThanWellFounded, WFMin
<1>2. PICK n \in S : \A m \in S : ~ (<<m, n>> \in OpToRel(<, Nat)) BY <1>1
<1>3. ASSUME NEW m \in S PROVE n <= m
  <2>1. ~ (m < n) BY <1>2 DEF OpToRel
  <2>2. QED BY <2>1
<1>4. QED BY <1>3

(* No matching cycle has more parts than the version, so one of them has   *)
(* the most, and that is the one bestMatch finds.                          *)
LEMMA BestIs ==
    ASSUME NEW cycles, Named(cycles), NEW v \in Strings,
           matchingCycle(cycles, TrimSpace(v))
    PROVE  LET best == bestMatch(cycles, TrimSpace(v))
           IN /\ best \in cycles /\ Matches(best, TrimSpace(v))
              /\ \A d \in cycles : Matches(d, TrimSpace(v)) =>
                                     Len(d.name.parts) <= Len(best.name.parts)
<1>1. PICK version : version = TrimSpace(v) OBVIOUS
<1>2. PICK some \in cycles : Matches(some, version) BY <1>1 DEF matchingCycle
<1>3. v.parts \in Seq(Nat) /\ Len(v.parts) \in Nat BY DEF Strings
<1>4. \A d \in cycles : Len(d.name.parts) \in Nat BY DEF Named, Strings
<1>5. ASSUME NEW d \in cycles, Matches(d, version) PROVE Len(v.parts) - Len(d.name.parts) \in Nat
  <2>1. Contains(d, v) BY <1>1, <1>5, MatchesIs DEF Named
  <2>2. QED BY <1>3, <1>4, <2>1 DEF Contains
<1>6. PICK gaps : gaps = {Len(v.parts) - Len(d.name.parts) : d \in {e \in cycles : Matches(e, version)}}
  OBVIOUS
<1>7. gaps \in SUBSET Nat /\ gaps # {} BY <1>2, <1>5, <1>6
<1>8. PICK g \in gaps : \A m \in gaps : g <= m BY <1>7, LeastNumber
<1>9. PICK c \in cycles : Matches(c, version) /\ g = Len(v.parts) - Len(c.name.parts) BY <1>6
<1>10. ASSUME NEW d \in cycles, Matches(d, version) PROVE Len(d.name.parts) <= Len(c.name.parts)
  <2>1. Len(v.parts) - Len(d.name.parts) \in gaps BY <1>6, <1>10
  <2>2. Len(v.parts) - Len(c.name.parts) <= Len(v.parts) - Len(d.name.parts) BY <1>8, <1>9, <2>1
  <2>3. QED BY <1>3, <1>4, <2>2
<1>11. PICK best : best = bestMatch(cycles, version) OBVIOUS
<1>12. /\ best \in cycles /\ Matches(best, version)
       /\ \A d \in cycles : Matches(d, version) => Len(d.name.parts) <= Len(best.name.parts)
  BY <1>9, <1>10, <1>11 DEF bestMatch
<1>13. QED BY <1>1, <1>11, <1>12

(* A name and a version without whitespace and prefix: what the provider   *)
(* matches, the policy accepts.                                            *)
LEMMA PolicyAgrees ==
    ASSUME NEW c, c.name \in Strings, NEW v \in Strings, Clean(c.name), Clean(v),
           Matches(c, TrimSpace(v))
    PROVE  versionMatches(c.name, v)
<1>1. TrimSpace(c.name) = c.name /\ TrimSpace(v) = v
  <2>1. ASSUME NEW s \in Strings, Clean(s) PROVE TrimSpace(s) = s
    <3>1. TrimSpace(s).padded = s.padded BY <2>1, Trimmed DEF Clean, Strings
    <3>2. QED BY <3>1, Trimmed, SameString
  <2>2. QED BY <2>1
<1>2. TrimPrefixes(v) = v
  <2>1. PICK s : s = [v EXCEPT !.k8s = FALSE] OBVIOUS
  <2>2. s \in Strings /\ s.padded = v.padded /\ s.k8s = v.k8s /\ s.parts = v.parts
    BY <2>1 DEF Clean, Strings
  <2>3. QED BY <2>1, <2>2, SameString DEF TrimPrefixes, Clean
<1>3. QED BY <1>1, <1>2 DEF Matches, versionMatches

LEMMA KnownIs ==
    ASSUME NEW version, NEW l, l = VersionLifecycle(version, TRUE, "")
    PROVE  l.version = version /\ l.known /\ l.cause = ""
BY DEF VersionLifecycle

LEMMA Found ==
    ASSUME NEW l, NEW v, matchingCycle(Versions(l), TrimSpace(v))
    PROVE  /\ GetVersionLifecycle(l, v).version = bestMatch(Versions(l), TrimSpace(v)).name
           /\ GetVersionLifecycle(l, v).known
           /\ GetVersionLifecycle(l, v).cause = ""
<1>1. PICK g : g = GetVersionLifecycle(l, v) OBVIOUS
<1>2. PICK name : name = bestMatch(Versions(l), TrimSpace(v)).name OBVIOUS
<1>3. g = VersionLifecycle(name, TRUE, "") BY <1>1, <1>2 DEF GetVersionLifecycle
<1>4. g.version = name /\ g.known /\ g.cause = "" BY <1>3, KnownIs
<1>5. QED BY <1>1, <1>2, <1>4

LEMMA NotThere ==
    ASSUME NEW l, NEW v, ~matchingCycle(Versions(l), TrimSpace(v))
    PROVE  GetVersionLifecycle(l, v) = VersionLifecycle(Blank, FALSE, unknownCause(l, TrimSpace(v)))
BY DEF GetVersionLifecycle

LEMMA ClosestCycle ==
    ASSUME NEW served, IsListing(served), CleanListing(served),
           NEW v \in Strings, Clean(v),
           NEW l, l = GetVersionLifecycle(served, v),
           NEW own, own = {d \in served : d.wellFormed /\ Contains(d, v)}
    PROVE  /\ Judged(l, v) <=> own # {}
           /\ own # {} => /\ \E d \in own : d.name = l.version
                          /\ \A d \in own : Len(d.name.parts) <= Len(l.version.parts)
<1>1. served # NotFound /\ Versions(served) = {d \in served : d.wellFormed}
  BY DEF CleanListing, Versions
<1>2. Named(Versions(served)) BY VersionsNamed
<1>3. ASSUME NEW d \in Versions(served) PROVE Matches(d, TrimSpace(v)) <=> d \in own
  <2>1. d.name \in Strings /\ d.name.parts # <<>> /\ Clean(d.name)
    BY <1>1, <1>2 DEF Named, CleanListing
  <2>2. d.name.k8s = v.k8s BY <2>1 DEF Clean, Strings
  <2>3. QED BY <1>1, <2>1, <2>2, MatchesIs
<1>4. own \subseteq Versions(served) BY <1>1
<1>5. CASE own = {}
  <2>1. ~matchingCycle(Versions(served), TrimSpace(v)) BY <1>3, <1>5 DEF matchingCycle
  <2>2. l.version = Blank BY <2>1, NotThere DEF VersionLifecycle
  <2>3. QED BY <1>5, <2>2 DEF Judged
<1>6. CASE own # {}
  <2>1. matchingCycle(Versions(served), TrimSpace(v)) BY <1>3, <1>4, <1>6 DEF matchingCycle
  <2>2. PICK best : best = bestMatch(Versions(served), TrimSpace(v)) OBVIOUS
  <2>3. /\ best \in Versions(served) /\ Matches(best, TrimSpace(v))
        /\ \A d \in Versions(served) : Matches(d, TrimSpace(v)) =>
                                           Len(d.name.parts) <= Len(best.name.parts)
    BY <1>2, <2>1, <2>2, BestIs
  <2>4. l.version = best.name /\ l.known BY <2>1, <2>2, Found
  <2>5. best \in own /\ best.name \in Strings /\ best.name.parts # <<>> /\ Clean(best.name)
    BY <1>1, <1>2, <1>3, <2>3 DEF Named, CleanListing
  <2>6. best.name # Blank BY <2>5 DEF Blank, String
  <2>7. Judged(l, v) BY <2>3, <2>4, <2>5, <2>6, PolicyAgrees DEF Judged
  <2>8. QED BY <1>3, <1>4, <2>3, <2>4, <2>5, <2>7
<1>7. QED BY <1>5, <1>6

(* Every plainly written version is judged exactly if its listing has a    *)
(* well-formed cycle that contains it, and by the closest one.             *)
LEMMA OwnCycle == ASSUME IInv, HasEntry PROVE JudgedByOwnCycle
<1> SUFFICES ASSUME NEW c \in Callers, NEW v \in Resources,
                    calls[c].state = "ok", Clean(v), ~IsBlank(v), CleanListing(calls[c].entry.cycles)
             PROVE  LET l == LifecycleOf(c, v)
                        own == {d \in calls[c].entry.cycles : d.wellFormed /\ Contains(d, v)}
                    IN /\ Judged(l, v) <=> own # {}
                       /\ own # {} => /\ \E d \in own : d.name = l.version
                                      /\ \A d \in own : Len(d.name.parts) <= Len(l.version.parts)
  BY DEF JudgedByOwnCycle
<1>1. IsListing(calls[c].entry.cycles) /\ v \in Strings BY AnsweredFromListing
<1>2. LifecycleOf(c, v) = GetVersionLifecycle(calls[c].entry.cycles, v) BY DEF LifecycleOf
<1>3. PICK cycles : cycles = calls[c].entry.cycles OBVIOUS
<1>4. PICK l : l = LifecycleOf(c, v) OBVIOUS
<1>5. PICK own : own = {d \in cycles : d.wellFormed /\ Contains(d, v)} OBVIOUS
<1>6. /\ Judged(l, v) <=> own # {}
      /\ own # {} => /\ \E d \in own : d.name = l.version
                     /\ \A d \in own : Len(d.name.parts) <= Len(l.version.parts)
  BY <1>1, <1>2, <1>3, <1>4, <1>5, ClosestCycle
<1>7. QED BY <1>3, <1>4, <1>5, <1>6

LEMMA CauseOfAnswer ==
    ASSUME NEW cycles, IsListing(cycles), cycles # NotFound,
           NEW v \in Strings, v.parts # <<>>,
           NEW l, l = GetVersionLifecycle(cycles, v),
           NEW containing, containing = {d \in cycles : d.name.k8s = v.k8s /\ Contains(d, v)}
    PROVE  UnknownCause(l, v) =
             IF \E d \in containing : d.wellFormed THEN "lifecycle_mismatch"
             ELSE IF containing # {} THEN "malformed_cycle" ELSE "cycle_not_found"
<1>1. /\ Versions(cycles) = {d \in cycles : d.wellFormed}
      /\ MalformedCycles(cycles) = {d \in cycles : ~d.wellFormed /\ TrimSpace(d.name) # Blank}
  BY DEF Versions, MalformedCycles
<1>2. Named(Versions(cycles)) /\ Named(MalformedCycles(cycles)) BY VersionsNamed
<1>3. matchingCycle(Versions(cycles), TrimSpace(v)) <=> \E d \in containing : d.wellFormed
  <2>1. \A d \in Versions(cycles) : Matches(d, TrimSpace(v)) <=> d \in containing
    BY <1>1, <1>2, MatchesIs DEF Named
  <2>2. QED BY <1>1, <2>1 DEF matchingCycle
<1>4. matchingCycle(MalformedCycles(cycles), TrimSpace(v)) <=> \E d \in containing : ~d.wellFormed
  <2>1. \A d \in MalformedCycles(cycles) : Matches(d, TrimSpace(v)) <=> d \in containing
    BY <1>1, <1>2, MatchesIs DEF Named
  <2>2. ASSUME NEW d \in containing, ~d.wellFormed PROVE d \in MalformedCycles(cycles)
    <3>1. d.name \in Strings /\ d.name.parts # <<>> BY DEF IsListing, Contains
    <3>2. QED BY <1>1, <2>2, <3>1, BlankIs DEF IsBlank
  <2>3. QED BY <1>1, <2>1, <2>2 DEF matchingCycle
<1>5. ~IsBlank(v) BY BlankIs
<1>6. CASE \E d \in containing : d.wellFormed
  <2>1. PICK best : best = bestMatch(Versions(cycles), TrimSpace(v)) OBVIOUS
  <2>2. best \in Versions(cycles) BY <1>2, <1>3, <1>6, <2>1, BestIs
  <2>3. l.version = best.name /\ l.cause = "" BY <1>3, <1>6, <2>1, Found
  <2>4. TrimSpace(best.name) # Blank BY <1>2, <2>2, BlankIs DEF IsBlank, Named
  <2>5. QED BY <1>5, <1>6, <2>3, <2>4 DEF UnknownCause
<1>7. CASE ~\E d \in containing : d.wellFormed
  <2>1. l.cause = unknownCause(cycles, TrimSpace(v))
    BY <1>3, <1>7, NotThere DEF VersionLifecycle
  <2>2. unknownCause(cycles, TrimSpace(v)) =
          IF containing # {} THEN "malformed_cycle" ELSE "cycle_not_found"
    BY <1>4, <1>7 DEF unknownCause
  <2>3. QED BY <1>7, <2>1, <2>2 DEF UnknownCause
<1>8. QED BY <1>6, <1>7

LEMMA CauseHolds == ASSUME IInv, HasEntry PROVE CauseIsTrue
<1> SUFFICES ASSUME NEW c \in Callers, NEW v \in Resources, Answered(c)
             PROVE  UnknownCause(LifecycleOf(c, v), v) = TrueCause(c, v)
  BY DEF CauseIsTrue
<1>1. v \in Strings /\ (IsBlank(v) <=> v.parts = <<>>) BY BlankIs
<1>2. CASE IsBlank(v)
  BY <1>1, <1>2 DEF LifecycleOf, EmptyInventoryVersion, VersionLifecycle, UnknownCause, TrueCause
<1>3. CASE ~IsBlank(v) /\ calls[c].state = "failed"
  BY <1>1, <1>3 DEF LifecycleOf, SourceError, VersionLifecycle, UnknownCause, TrueCause
<1>4. CASE ~IsBlank(v) /\ calls[c].state = "ok"
  <2>1. PICK cycles : cycles = calls[c].entry.cycles OBVIOUS
  <2>2. IsListing(cycles) BY <1>4, <2>1, AnsweredFromListing
  <2>3. PICK l : l = LifecycleOf(c, v) OBVIOUS
  <2>4. l = GetVersionLifecycle(cycles, v) BY <1>4, <2>1, <2>3 DEF LifecycleOf
  <2>5. CASE cycles = NotFound
    <3>1. ~matchingCycle(Versions(cycles), TrimSpace(v)) BY <2>5 DEF Versions, matchingCycle
    <3>2. l.cause = "product_not_found"
      BY <2>4, <2>5, <3>1, NotThere DEF VersionLifecycle, unknownCause
    <3>3. TrueCause(c, v) = "product_not_found" BY <1>1, <1>4, <2>1, <2>5 DEF TrueCause
    <3>4. QED BY <2>3, <3>2, <3>3 DEF UnknownCause
  <2>6. CASE cycles # NotFound
    <3>1. PICK containing : containing = {d \in cycles : d.name.k8s = v.k8s /\ Contains(d, v)} OBVIOUS
    <3>2. UnknownCause(l, v) =
            IF \E d \in containing : d.wellFormed THEN "lifecycle_mismatch"
            ELSE IF containing # {} THEN "malformed_cycle" ELSE "cycle_not_found"
      BY <1>1, <1>4, <2>2, <2>4, <2>6, <3>1, CauseOfAnswer
    <3>3. TrueCause(c, v) =
            IF \E d \in containing : d.wellFormed THEN "lifecycle_mismatch"
            ELSE IF containing # {} THEN "malformed_cycle" ELSE "cycle_not_found"
      BY <1>1, <1>4, <2>1, <2>6, <3>1 DEF TrueCause
    <3>4. QED BY <2>3, <3>2, <3>3
  <2>7. QED BY <2>5, <2>6
<1>5. QED BY <1>2, <1>3, <1>4 DEF Answered

LEMMA EntriesHold == Spec => []HasEntry
<1>1. Init => HasEntry BY DEF Init, HasEntry
<1>2. IInv /\ HasEntry /\ [Next]_vars => HasEntry' BY StepHasEntry
<1>3. QED BY <1>1, <1>2, InvariantHolds, PTL DEF Spec

(* A plainly written version is judged exactly if the listing it was       *)
(* answered from has a well-formed cycle that contains it, and by the      *)
(* closest of these: the policy rejects nothing the provider found.        *)
THEOREM OwnCyclesJudge == Spec => []JudgedByOwnCycle
<1>1. IInv /\ HasEntry => JudgedByOwnCycle BY OwnCycle
<1>2. QED BY <1>1, InvariantHolds, EntriesHold, PTL

(* An UNKNOWN finding names its true cause, whichever of the three readers *)
(* of the version gave up, and whether the answer came from the cache.     *)
THEOREM CausesAreTrue == Spec => []CauseIsTrue
<1>1. IInv /\ HasEntry => CauseIsTrue BY CauseHolds
<1>2. QED BY <1>1, InvariantHolds, EntriesHold, PTL

-----------------------------------------------------------------------------
(* Nobody waits in vain, as far as safety can say it. *)

(* Whoever waits for the flight is answered by its end, or waits on while  *)
(* it stays what it is or gets its response.                               *)
FlightMoves ==
    flight # None =>
        \/ /\ flight' = None
           /\ \A c \in Callers : calls[c].state = "waiting" => calls'[c].state \in {"ok", "failed"}
        \/ /\ \A c \in Callers : calls[c].state = "waiting" => calls'[c] = calls[c]
           /\ \/ flight' = flight
              \/ /\ flight'.fetchedAt = flight.fetchedAt
                 /\ flight.response = None /\ flight'.response # None

LEMMA StepMoves == IInv /\ [Next]_vars => FlightMoves
<1> SUFFICES ASSUME IInv, [Next]_vars, flight # None PROVE FlightMoves BY DEF FlightMoves
<1>0. calls \in [Callers -> Call] /\ flight \in Flight /\ listing \in Listings
  BY DEF IInv, TypeOK
<1>1. CASE Tick \/ ListingChanges \/ UNCHANGED vars
  BY <1>1 DEF Tick, ListingChanges, vars, FlightMoves
<1>2. ASSUME NEW c \in Callers, Lookup(c) \/ Do(c) PROVE FlightMoves
  <2>1. calls[c].state # "waiting" /\ flight' = flight BY <1>2 DEF Lookup, Do
  <2>2. \A d \in Callers : d # c => calls'[d] = calls[d] BY <1>0, <1>2 DEF Lookup, Do
  <2>3. QED BY <2>1, <2>2 DEF FlightMoves
<1>3. CASE Respond
  <2>1. flight' = [flight EXCEPT !.response = listing] /\ calls' = calls /\ flight.response = None
    BY <1>3 DEF Respond
  <2>2. flight'.fetchedAt = flight.fetchedAt /\ flight'.response = listing /\ listing # None
    BY <1>0, <2>1 DEF Flight
  <2>3. QED BY <2>1, <2>2 DEF FlightMoves
<1>4. CASE Land \/ FetchFails
  <2>1. \A c \in Callers : calls[c].state = "waiting" => calls'[c].state \in {"ok", "failed"}
    <3>1. CASE Land BY <1>0, <3>1 DEF Land, Call
    <3>2. CASE FetchFails BY <1>0, <3>2 DEF FetchFails, Failed, Call
    <3>3. QED BY <1>4, <3>1, <3>2
  <2>2. QED BY <1>4, <2>1 DEF Land, FetchFails, FlightMoves
<1>5. QED BY <1>1, <1>2, <1>3, <1>4 DEF Next, FlightStep

(* A fetch is never left for another one, and its end answers everyone who *)
(* waits, also when the caller that led it was cancelled.                  *)
FlightsLand == [][FlightMoves]_vars

THEOREM EveryFlightLands == Spec => FlightsLand
BY InvariantHolds, StepMoves, PTL DEF Spec, FlightsLand
=============================================================================
