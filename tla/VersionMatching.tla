--------------------------- MODULE VersionMatching ---------------------------
(***************************************************************************)
(* Which cycle of an endoflife.date listing a resource's version belongs   *)
(* to.  Three places decide it in turn: FetchEOLData skips blank versions  *)
(* (pkg/workflow/detection/activities.go), the provider looks for a cycle  *)
(* (pkg/eol/endoflife/provider.go), and the policy compares that cycle     *)
(* with the version once more before it gives a colour                     *)
(* (pkg/policy/default.go).  Each normalises the strings in its own way.   *)
(*                                                                         *)
(* A version or the name of a cycle is a string like "k8s-1.33.2": its     *)
(* dotted parts, whether "k8s-" or "kubernetes-" stands before them, and   *)
(* whether whitespace stands before everything.  A cycle is its name and   *)
(* whether ValidateProductCycle and the adapter accept its fields; a       *)
(* listing is a set of cycles with different names, or NotFound (HTTP 404).*)
(***************************************************************************)
EXTENDS Integers, Sequences

CONSTANT NotFound    \* what endoflife.date answers for a product it lacks

String(padded, k8s, parts) == [padded |-> padded, k8s |-> k8s, parts |-> parts]
Blank == String(FALSE, FALSE, <<>>)

(* Strings in this form, a part standing for its number: a prefix has      *)
(* something behind it.                                                    *)
Strings == {s \in [padded : BOOLEAN, k8s : BOOLEAN, parts : Seq(Nat)] :
                s.parts = <<>> => ~s.k8s}

(* ValidateProductCycle accepts no cycle without a name. *)
IsListing(l) ==
    l # NotFound => \A c \in l : /\ c.name \in Strings /\ c.wellFormed \in BOOLEAN
                                 /\ c.wellFormed => c.name.parts # <<>>

TrimSpace(s) == [s EXCEPT !.padded = FALSE]

(* strings.HasPrefix(s, name + "."). *)
HasPrefixDot(s, name) ==
    /\ s.padded = name.padded /\ s.k8s = name.k8s
    /\ Len(name.parts) < Len(s.parts)
    /\ SubSeq(s.parts, 1, Len(name.parts)) = name.parts

-----------------------------------------------------------------------------
(* Provider.GetVersionLifecycle.  A lifecycle has the name of the cycle it *)
(* was made from, whether it has that cycle's dates and flags, and why it  *)
(* has none.                                                               *)

VersionLifecycle(version, known, cause) ==
    [version |-> version, known |-> known, cause |-> cause]

Versions(listing) ==
    IF listing = NotFound THEN {} ELSE {c \in listing : c.wellFormed}
MalformedCycles(listing) ==
    IF listing = NotFound THEN {}
    ELSE {c \in listing : ~c.wellFormed /\ TrimSpace(c.name) # Blank}

Matches(c, version) ==
    TrimSpace(c.name) = version \/ HasPrefixDot(version, TrimSpace(c.name))
matchingCycle(cycles, version) == \E c \in cycles : Matches(c, version)

(* mutant: the first cycle that matches *)
bestMatchAny(cycles, version) == CHOOSE c \in cycles : Matches(c, version)
(* An exact match is the longest there is. *)
bestMatch(cycles, version) ==
    CHOOSE c \in cycles :
        /\ Matches(c, version)
        /\ \A d \in cycles : Matches(d, version) => Len(d.name.parts) <= Len(c.name.parts)

SourceError(v) == VersionLifecycle(TrimSpace(v), FALSE, "source_error")

(* mutant: malformed cycles are not told apart *)
unknownCauseCoarse(listing, version) ==
    IF listing = NotFound THEN "product_not_found" ELSE "cycle_not_found"
unknownCause(listing, version) ==
    CASE listing = NotFound -> "product_not_found"
      [] listing # NotFound /\ matchingCycle(MalformedCycles(listing), version) -> "malformed_cycle"
      [] OTHER -> "cycle_not_found"

GetVersionLifecycle(listing, v) ==
    LET version == TrimSpace(v)
    IN IF matchingCycle(Versions(listing), version)
       THEN VersionLifecycle(bestMatch(Versions(listing), version).name, TRUE, "")
       ELSE VersionLifecycle(Blank, FALSE, unknownCause(listing, version))

(* FetchEOLData does not ask for a blank version. *)
EmptyInventoryVersion == VersionLifecycle(Blank, FALSE, "empty_inventory_version")
IsBlank(v) == TrimSpace(v) = Blank

-----------------------------------------------------------------------------
(* DefaultPolicy. *)

TrimPrefixes(s) == IF s.padded THEN s ELSE [s EXCEPT !.k8s = FALSE]

versionMatches(lifecycleVersion, v) ==
    \/ lifecycleVersion \in {v, TrimPrefixes(v)}
    \/ HasPrefixDot(TrimPrefixes(v), lifecycleVersion)

(* Is the version given a colour?  Lifecycle says which one. *)
Judged(l, v) == l.version # Blank /\ versionMatches(l.version, v) /\ l.known

(* policy.UnknownCause of a finding that is UNKNOWN. *)
UnknownCause(l, v) ==
    CASE l.cause # "" -> l.cause
      [] l.cause = "" /\ IsBlank(v) -> "empty_inventory_version"
      [] l.cause = "" /\ ~IsBlank(v) /\ TrimSpace(l.version) = Blank -> "cycle_not_found"
      [] OTHER -> "lifecycle_mismatch"
=============================================================================
