------------------------------ MODULE Lifecycle ------------------------------
(***************************************************************************)
(* How the colour of one version moves through time: an adapter turns the  *)
(* dates of an endoflife.date cycle into boundaries and flags when the     *)
(* cycle is fetched (pkg/eol/endoflife/adapters.go), the provider caches   *)
(* them (provider.go), and DefaultPolicy classifies the cached lifecycle   *)
(* at the time of each scan (pkg/policy/default.go).                       *)
(*                                                                         *)
(*   schema   how the cycle is read: the standard adapter, or the          *)
(*            declarative one with its configuration                       *)
(*   cycle    the dates the cycle gives                                    *)
(*   now      the clock, in ticks of half a day: dates are even, midnight  *)
(*   cached   the adapted lifecycle and when it was cached                 *)
(*   finding  the status of the latest scan and when it was made           *)
(*   first    when the first scan was made                                 *)
(*   warned   has any scan shown YELLOW?                                   *)
(*   daily    has every scan so far come within a day of the one before?   *)
(***************************************************************************)
EXTENDS Integers, FiniteSets

CONSTANTS
    Days,            \* bound: the days a date can fall on
    MaxNow,          \* bound: the last tick of the clock
    Schemas,         \* the schemas in use
    EOLWarningDays,  \* 90 in the code
    CacheTTL,        \* in ticks; 24 hours in the code
    ScanGap,         \* bound: the longest time between two scans, in ticks
    None,            \* no date: absent, empty, false, or not a date
    Always           \* the boolean true

DayLength == 2
Fields == {"eol", "support", "extendedSupport"}
LifecycleActions == {"extended_support", "deprecated_support", "unsupported", "eol", "supported"}

(* What a declarative schema may say; others are refused at startup. *)
validateLifecycleDateSource(source) ==
    /\ {source.field, source.fallback} \subseteq Fields \cup {""}
    /\ source.fallback # "" => source.field # ""
ValidateDeclarativeLifecycleConfig(s) ==
    LET sources == {s.deprecation, s.deprecatedSupportEnd, s.extendedSupportEnd, s.eolDate}
    IN /\ \A source \in sources : validateLifecycleDateSource(source)
       /\ {s.deprecatedWindow, s.pastExtendedSupport} \subseteq LifecycleActions \cup {""}
       /\ \E source \in sources : source.field # ""

ASSUME LifecycleAssumption ==
    /\ Days \subseteq Nat /\ MaxNow \in Nat /\ EOLWarningDays \in Nat \ {0}
    /\ CacheTTL \in Nat \ {0} /\ ScanGap \in Nat \ {0}
    /\ \A s \in Schemas :
          \/ s.kind = "standard"
          \/ s.kind = "declarative" /\ ValidateDeclarativeLifecycleConfig(s)
    /\ None \notin Nat /\ Always \notin Nat \cup {None}

VARIABLES schema, cycle, now, cached, finding, first, warned, daily
vars == <<schema, cycle, now, cached, finding, first, warned, daily>>

Times == 0 .. MaxNow
Dates == {DayLength * d : d \in Days}
Values == Dates \cup {None, Always}
Cycle == [Fields -> Values]

(* time.Time.After and Before, on a date that may be missing. *)
Past(t, date) == date # None /\ t > date
Ahead(t, date) == date # None /\ t < date
Between(d, low, high) == d # None /\ Past(d, low) /\ Ahead(d, high)
parseDate(value) == IF value \in Dates THEN value ELSE None

-----------------------------------------------------------------------------
(* StandardSchemaAdapter. *)

Boundaries(deprecation, deprecatedSupportEnd, extendedSupportEnd, eolDate) ==
    [deprecation |-> deprecation, deprecatedSupportEnd |-> deprecatedSupportEnd,
     extendedSupportEnd |-> extendedSupportEnd, eolDate |-> eolDate]

(* mutant: an eol before the end of extended support is the true one *)
deriveBoundariesEOLFirst(c) ==
    LET eol == parseDate(c.eol)
        support == parseDate(c.support)
        extended == parseDate(c.extendedSupport)
    IN Boundaries(support, None, extended, IF eol # None THEN eol ELSE extended)

deriveBoundaries(c) ==
    LET eol == parseDate(c.eol)
        support == parseDate(c.support)
        extended == parseDate(c.extendedSupport)
    IN CASE extended # None ->
              Boundaries(IF support # None THEN support ELSE eol,
                         IF Between(eol, support, extended)
                         THEN eol ELSE None,
                         extended, extended)
         [] extended = None /\ c.extendedSupport = Always /\ eol # None ->
              Boundaries(support, None, eol, eol)
         [] extended = None /\ ~(c.extendedSupport = Always /\ eol # None)
            /\ support # None /\ eol # None /\ eol > support ->
              Boundaries(support, eol, None, eol)
         [] OTHER -> Boundaries(support, None, None, eol)

Flags(eol, supported, deprecated, extended, deprecatedSupport) ==
    [IsEOL |-> eol, IsSupported |-> supported, IsDeprecated |-> deprecated,
     IsExtendedSupport |-> extended, IsDeprecatedSupport |-> deprecatedSupport]

(* The flags of an action of the declarative adapter.  The standard one    *)
(* sets the same for the same window.                                      *)
applyLifecycleAction(action) ==
    CASE action = "extended_support"   -> Flags(FALSE, TRUE, TRUE, TRUE, FALSE)
      [] action = "deprecated_support" -> Flags(FALSE, TRUE, TRUE, FALSE, TRUE)
      [] action = "unsupported"        -> Flags(FALSE, FALSE, TRUE, FALSE, FALSE)
      [] action = "eol"                -> Flags(TRUE, FALSE, TRUE, FALSE, FALSE)
      [] action = "supported"          -> Flags(FALSE, TRUE, FALSE, FALSE, FALSE)

StandardClassify(b, t) ==
    CASE Past(t, b.eolDate) -> "eol"
      [] ~Past(t, b.eolDate) /\ Past(t, b.deprecation) ->
           IF Ahead(t, b.extendedSupportEnd) THEN "extended_support"
           ELSE IF Ahead(t, b.deprecatedSupportEnd) THEN "deprecated_support"
           ELSE "unsupported"
      [] OTHER -> "supported"

-----------------------------------------------------------------------------
(* DeclarativeSchemaAdapter: the schema names the field of each date, the  *)
(* field to fall back on for the boolean true, and what the windows mean.  *)

parseDateSource(c, source) ==
    IF source.field = "" THEN None
    ELSE IF c[source.field] \in Dates THEN c[source.field]
    ELSE IF c[source.field] = Always /\ source.fallback # ""
    THEN parseDate(c[source.fallback])
    ELSE None

OrUnsupported(action) == IF action = "" THEN "unsupported" ELSE action

DeclarativeBoundaries(s, c) ==
    Boundaries(parseDateSource(c, s.deprecation), parseDateSource(c, s.deprecatedSupportEnd),
               parseDateSource(c, s.extendedSupportEnd), parseDateSource(c, s.eolDate))

DeclarativeClassify(s, b, t) ==
    IF Past(t, b.eolDate) THEN "eol"
    ELSE IF Past(t, b.deprecatedSupportEnd) THEN "unsupported"
    ELSE IF Past(t, b.extendedSupportEnd) THEN OrUnsupported(s.pastExtendedSupport)
    ELSE IF Past(t, b.deprecation)
    THEN IF Ahead(t, b.deprecatedSupportEnd) \/ Ahead(t, b.extendedSupportEnd)
         THEN OrUnsupported(s.deprecatedWindow)
         ELSE "unsupported"
    ELSE "supported"

-----------------------------------------------------------------------------
(* AdaptCycle: the flags are those of the moment it runs. *)
AdaptCycle(s, c, t) ==
    LET b == IF s.kind = "standard" THEN deriveBoundaries(c) ELSE DeclarativeBoundaries(s, c)
    IN [b |-> b,
        flags |-> applyLifecycleAction(IF s.kind = "standard" THEN StandardClassify(b, t)
                                       ELSE DeclarativeClassify(s, b, t))]

-----------------------------------------------------------------------------
(* DefaultPolicy, for a lifecycle that matches the version. *)

BoundaryDates(b) ==
    {b.deprecation, b.deprecatedSupportEnd, b.extendedSupportEnd, b.eolDate} \ {None}

(* mutant: the last boundary *)
lastFutureLifecycleDate(b, t) ==
    LET ahead == {d \in BoundaryDates(b) : d > t}
    IN IF ahead = {} THEN None ELSE CHOOSE d \in ahead : \A e \in ahead : e <= d

firstFutureLifecycleDate(b, t) ==
    LET ahead == {d \in BoundaryDates(b) : d > t}
    IN IF ahead = {} THEN None ELSE CHOOSE d \in ahead : \A e \in ahead : d <= e

(* mutant: the end of extended support is left to the flags *)
isRedStatusByFlags(l, t) ==
    \/ l.flags.IsEOL
    \/ l.flags.IsDeprecated /\ ~l.flags.IsExtendedSupport /\ ~l.flags.IsDeprecatedSupport

isRedStatus(l, t) ==
    \/ l.flags.IsEOL
    \/ l.flags.IsDeprecated /\ ~l.flags.IsExtendedSupport /\ ~l.flags.IsDeprecatedSupport
    \/ Past(t, l.b.extendedSupportEnd)

isYellowStatus(l, t) ==
    LET date == firstFutureLifecycleDate(l.b, t)
        daysUntilWarning == (date - t) \div DayLength
    IN \/ l.flags.IsDeprecatedSupport
       \/ l.flags.IsExtendedSupport
       \/ date # None /\ daysUntilWarning > 0 /\ daysUntilWarning <= EOLWarningDays

Classify(l, t) ==
    CASE isRedStatus(l, t) -> "RED"
      [] ~isRedStatus(l, t) /\ isYellowStatus(l, t) -> "YELLOW"
      [] ~isRedStatus(l, t) /\ ~isYellowStatus(l, t) /\ l.flags.IsSupported -> "GREEN"
      [] OTHER -> "UNKNOWN"

-----------------------------------------------------------------------------
NoFinding == [status |-> "none", at |-> 0, fresh |-> FALSE]
NotCached == [lifecycle |-> None, at |-> 0]

Init ==
    /\ schema \in Schemas
    /\ cycle \in Cycle
    /\ now = 0
    /\ cached = NotCached
    /\ finding = NoFinding
    /\ first = None
    /\ warned = FALSE
    /\ daily = TRUE

Tick ==
    /\ now < MaxNow
    /\ first # None => now - finding.at < ScanGap
    /\ now' = now + 1
    /\ UNCHANGED <<schema, cycle, cached, finding, first, warned, daily>>

(* mutant: an entry is never fetched again *)
HitForever(c, t) == c # NotCached
(* A cached entry is used for less than its TTL. *)
Hit(c, t) == c # NotCached /\ t - c.at < CacheTTL

(* mutant: a hit keeps the entry alive *)
loadVersionsSliding(c, t) ==
    IF Hit(c, t) THEN [c EXCEPT !.at = t]
    ELSE [lifecycle |-> AdaptCycle(schema, cycle, t), at |-> t]
loadVersions(c, t) ==
    IF Hit(c, t) THEN c ELSE [lifecycle |-> AdaptCycle(schema, cycle, t), at |-> t]

(* A scan finds the lifecycle of the version, perhaps in the cache, and    *)
(* the policy classifies it.                                               *)
Scan ==
    LET c == loadVersions(cached, now)
        status == Classify(c.lifecycle, now)
    IN /\ cached' = c
       /\ finding' = [status |-> status, at |-> now, fresh |-> c.at = now]
       /\ first' = IF first = None THEN now ELSE first
       /\ warned' = (warned \/ status = "YELLOW")
       /\ daily' = (daily /\ (first # None => now - finding.at <= DayLength))
       /\ UNCHANGED <<schema, cycle, now>>

Done == now = MaxNow /\ UNCHANGED vars

Next == Tick \/ Scan \/ Done

Spec == Init /\ [][Next]_vars

-----------------------------------------------------------------------------
(* Properties. *)

(* Every variable has its type. *)
TypeOK ==
    /\ schema \in Schemas /\ cycle \in Cycle /\ now \in Times
    /\ cached # NotCached => cached = [lifecycle |-> AdaptCycle(schema, cycle, cached.at),
                                       at |-> cached.at]
    /\ finding.status \in {"none", "RED", "YELLOW", "GREEN"}
    /\ finding.at <= now /\ first \in Times \cup {None} /\ warned \in BOOLEAN
    /\ daily \in BOOLEAN

(* When the standard schema says support of any kind is over: the date of  *)
(* extended support if there is one, else the end of life, else the end of *)
(* support.                                                                *)
SupportEnd(c) ==
    IF c.extendedSupport \in Dates THEN c.extendedSupport
    ELSE IF c.eol \in Dates THEN c.eol
    ELSE IF c.support \in Dates THEN c.support ELSE None

(* Whatever combination of dates and booleans a cycle has, the standard    *)
(* schema shows RED after all support is over, and never before, when the  *)
(* lifecycle was fetched for this scan.                                    *)
FreshIsRight ==
    finding.fresh /\ schema.kind = "standard" =>
        /\ Past(finding.at, SupportEnd(cycle)) => finding.status = "RED"
        /\ finding.status = "RED" => ~Ahead(finding.at, SupportEnd(cycle))
                                     /\ SupportEnd(cycle) # None

(* A version that was RED stays RED, whichever windows a schema declares,  *)
(* although the flags are as old as the cache and the policy adds dates of *)
(* its own (isRedStatus).                                                  *)
RedStays == [][finding.status = "RED" => finding'.status = "RED"]_vars

(* However stale the flags are when they are used, a version is RED from   *)
(* one TTL after its end of life on.                                       *)
RedWithinTTL ==
    LET b == AdaptCycle(schema, cycle, 0).b
    IN finding.status # "none" /\ b.eolDate # None /\ finding.at >= b.eolDate + CacheTTL
          => finding.status = "RED"

(* With a scan at least every day, no version turns RED without a scan     *)
(* having shown YELLOW, unless the first scan came less than a day before  *)
(* it turned: the warning window and the extended windows leave no gap     *)
(* that daily scans can fall through, also with flags from the cache.  A   *)
(* schema that declares a window between two boundaries plain "supported"  *)
(* opts out of the warning.                                                *)
TurnsRed(t) == Classify(AdaptCycle(schema, cycle, t), t) = "RED"
WindowIsSupported(s) == s.kind = "declarative" /\ s.deprecatedWindow = "supported"
NeverUnwarned ==
    finding.status = "RED" /\ daily /\ ~WindowIsSupported(schema) =>
        warned \/ \E t \in Times : TurnsRed(t) /\ t <= first + DayLength
=============================================================================
