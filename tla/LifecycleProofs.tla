--------------------------- MODULE LifecycleProofs ---------------------------
(***************************************************************************)
(* Proofs about Lifecycle, for any dates, any schemas the configuration    *)
(* admits, any clock and any warning window: what RED means, that it       *)
(* stays, and that it does not come unannounced.                           *)
(***************************************************************************)
EXTENDS Lifecycle, TLAPS

-----------------------------------------------------------------------------
(* The boundaries, whichever adapter made them. *)

Bounds(s, c) == IF s.kind = "standard" THEN deriveBoundaries(c) ELSE DeclarativeBoundaries(s, c)
Action(s, b, t) == IF s.kind = "standard" THEN StandardClassify(b, t) ELSE DeclarativeClassify(s, b, t)

MaybeDates == Dates \cup {None}
Boundary == [deprecation : MaybeDates, deprecatedSupportEnd : MaybeDates,
             extendedSupportEnd : MaybeDates, eolDate : MaybeDates]

LEMMA AdaptIs ==
    ASSUME NEW s, NEW c, NEW t
    PROVE  AdaptCycle(s, c, t) = [b |-> Bounds(s, c),
                                  flags |-> applyLifecycleAction(Action(s, Bounds(s, c), t))]
BY DEF AdaptCycle, Bounds, Action

(* Dates are midnights. *)
LEMMA DatesAre ==
    /\ None \notin Dates /\ Dates \subseteq Nat
    /\ \A d, e \in Dates : d < e => d + 2 <= e
    /\ \A d \in MaybeDates : d # None => d \in Dates
BY LifecycleAssumption DEF LifecycleAssumption, Dates, DayLength, MaybeDates

LEMMA BoundsTyped == ASSUME NEW s, NEW c PROVE Bounds(s, c) \in Boundary
<1>1. \A v : parseDate(v) \in MaybeDates BY DEF parseDate, MaybeDates
<1>2. None \in MaybeDates BY DEF MaybeDates
<1>3. \A source : parseDateSource(c, source) \in MaybeDates
  BY <1>1, <1>2 DEF parseDateSource, MaybeDates
<1>4. DeclarativeBoundaries(s, c) \in Boundary
  BY <1>3 DEF DeclarativeBoundaries, Boundaries, Boundary
<1>5. deriveBoundaries(c) \in Boundary
  BY <1>1, <1>2 DEF deriveBoundaries, Boundaries, Boundary
<1>6. QED BY <1>4, <1>5 DEF Bounds

(* The standard adapter ends extended support with the last date, and      *)
(* deprecated support there or after the deprecation.                      *)
LEMMA StandardShape ==
    ASSUME NEW c, NEW b, b = deriveBoundaries(c)
    PROVE  /\ b.extendedSupportEnd \in {b.eolDate, None}
           /\ b.deprecatedSupportEnd # None =>
                 \/ b.deprecatedSupportEnd = b.eolDate
                 \/ b.deprecation # None /\ b.deprecatedSupportEnd > b.deprecation
BY DEF deriveBoundaries, Boundaries, Between, Past, parseDate

LEMMA ActionsAre ==
    ASSUME NEW s \in Schemas, NEW b, NEW t
    PROVE  Action(s, b, t) \in LifecycleActions
<1>1. StandardClassify(b, t) \in LifecycleActions BY DEF StandardClassify, LifecycleActions
<1>2. ASSUME s.kind # "standard" PROVE DeclarativeClassify(s, b, t) \in LifecycleActions
  <2>1. {s.deprecatedWindow, s.pastExtendedSupport} \subseteq LifecycleActions \cup {""}
    BY <1>2, LifecycleAssumption DEF LifecycleAssumption, ValidateDeclarativeLifecycleConfig
  <2>2. QED BY <2>1 DEF DeclarativeClassify, OrUnsupported, LifecycleActions
<1>3. QED BY <1>1, <1>2 DEF Action

-----------------------------------------------------------------------------
(* What the policy makes of boundaries and flags. *)

(* A boundary is ahead that the policy warns of. *)
Soon(b, t) ==
    LET date == firstFutureLifecycleDate(b, t)
        days == (date - t) \div DayLength
    IN date # None /\ days > 0 /\ days <= EOLWarningDays

RedActions == {"eol", "unsupported"}
YellowActions == {"extended_support", "deprecated_support"}

LEMMA ClassifyIs ==
    ASSUME NEW b, NEW action \in LifecycleActions, NEW t, NEW l,
           l = [b |-> b, flags |-> applyLifecycleAction(action)]
    PROVE  /\ Classify(l, t) \in {"RED", "YELLOW", "GREEN"}
           /\ Classify(l, t) = "RED" <=> action \in RedActions \/ Past(t, b.extendedSupportEnd)
           /\ Classify(l, t) = "GREEN" => action = "supported"
           /\ Classify(l, t) # "RED" /\ Soon(b, t) => Classify(l, t) = "YELLOW"
<1>1. isRedStatus(l, t) <=> action \in RedActions \/ Past(t, b.extendedSupportEnd)
  BY DEF isRedStatus, applyLifecycleAction, Flags, LifecycleActions, RedActions
<1>2. isYellowStatus(l, t) <=> action \in YellowActions \/ Soon(b, t)
  BY DEF isYellowStatus, applyLifecycleAction, Flags, LifecycleActions, YellowActions, Soon
<1>3. l.flags.IsSupported <=> action \notin RedActions
  BY DEF applyLifecycleAction, Flags, LifecycleActions, RedActions
<1>4. QED BY <1>1, <1>2, <1>3 DEF Classify, LifecycleActions, RedActions, YellowActions

LEMMA AdaptedIs ==
    ASSUME NEW s \in Schemas, NEW c, NEW f, NEW t, NEW b, b = Bounds(s, c)
    PROVE  /\ Classify(AdaptCycle(s, c, f), t) \in {"RED", "YELLOW", "GREEN"}
           /\ Classify(AdaptCycle(s, c, f), t) = "RED" <=>
                 Action(s, b, f) \in RedActions \/ Past(t, b.extendedSupportEnd)
           /\ Classify(AdaptCycle(s, c, f), t) = "GREEN" => Action(s, b, f) = "supported"
           /\ Classify(AdaptCycle(s, c, f), t) # "RED" /\ Soon(b, t) =>
                 Classify(AdaptCycle(s, c, f), t) = "YELLOW"
<1>1. PICK l : l = AdaptCycle(s, c, f) OBVIOUS
<1>2. PICK action : action = Action(s, b, f) /\ action \in LifecycleActions BY ActionsAre
<1>3. l = [b |-> b, flags |-> applyLifecycleAction(action)] BY <1>1, <1>2, AdaptIs
<1>4. QED BY <1>1, <1>2, <1>3, ClassifyIs

LEMMA TimeGrows ==
    ASSUME NEW d \in MaybeDates, NEW f \in Int, NEW g \in Int, f <= g
    PROVE  (Past(f, d) => Past(g, d)) /\ (Ahead(g, d) => Ahead(f, d))
<1>1. CASE d = None BY <1>1 DEF Past, Ahead
<1>2. CASE d \in Nat BY <1>2 DEF Past, Ahead
<1>3. QED BY <1>1, <1>2, DatesAre

(* RED flags stay RED, or the end of extended support makes up for them.   *)
LEMMA RedGrows ==
    ASSUME NEW s \in Schemas, NEW c, NEW b, b = Bounds(s, c),
           NEW f \in Int, NEW g \in Int, NEW t \in Int, f <= g, g <= t,
           Action(s, b, f) \in RedActions
    PROVE  Action(s, b, g) \in RedActions \/ Past(t, b.extendedSupportEnd)
<1>1. b \in Boundary BY BoundsTyped
<1>2. \A d \in MaybeDates : Past(f, d) => Past(g, d) BY TimeGrows
<1>3. \A d \in MaybeDates : Ahead(g, d) => Ahead(f, d) BY TimeGrows
<1>4. Past(g, b.extendedSupportEnd) => Past(t, b.extendedSupportEnd)
  BY <1>1, TimeGrows DEF Boundary
<1>5. CASE s.kind = "standard"
  <2>1. Action(s, b, f) = StandardClassify(b, f) /\ Action(s, b, g) = StandardClassify(b, g)
    BY <1>5 DEF Action
  <2>2. QED BY <1>1, <1>2, <1>3, <2>1 DEF StandardClassify, RedActions, Boundary
<1>6. CASE s.kind # "standard"
  <2>1. Action(s, b, f) = DeclarativeClassify(s, b, f) /\ Action(s, b, g) = DeclarativeClassify(s, b, g)
    BY <1>6 DEF Action
  <2>2. QED BY <1>1, <1>2, <1>3, <1>4, <2>1 DEF DeclarativeClassify, OrUnsupported, RedActions, Boundary
<1>7. QED BY <1>5, <1>6

-----------------------------------------------------------------------------
(* The state: nothing scanned yet, or a finding made of the cached         *)
(* lifecycle, which was adapted at the time it was cached, no later than   *)
(* the finding and less than a TTL before it.                              *)

Unscanned == finding = NoFinding /\ cached = NotCached /\ first = None

Judged ==
    /\ cached = [lifecycle |-> AdaptCycle(schema, cycle, cached.at), at |-> cached.at]
    /\ finding.status = Classify(cached.lifecycle, finding.at)
    /\ finding.fresh => cached.at = finding.at
    /\ cached.at \in Nat /\ finding.at \in Nat /\ first \in Nat
    /\ first <= cached.at /\ cached.at <= finding.at /\ finding.at <= now
    /\ cached.at = finding.at \/ finding.at - cached.at < CacheTTL
    /\ finding.status = "YELLOW" => warned

BaseInv ==
    /\ schema \in Schemas /\ cycle \in Cycle /\ now \in Times
    /\ warned \in BOOLEAN /\ daily \in BOOLEAN
    /\ Unscanned \/ Judged

LEMMA InitBase == Init => BaseInv
<1> SUFFICES ASSUME Init PROVE BaseInv OBVIOUS
<1>1. Unscanned BY DEF Init, Unscanned
<1>2. now \in Times BY LifecycleAssumption DEF LifecycleAssumption, Init, Times
<1>3. warned \in BOOLEAN /\ daily \in BOOLEAN BY DEF Init
<1>4. QED BY <1>1, <1>2, <1>3 DEF Init, BaseInv

(* A finding is never the one there was at the beginning. *)
LEMMA JudgedIs ==
    ASSUME BaseInv, Judged
    PROVE  finding.status \in {"RED", "YELLOW", "GREEN"} /\ first # None
<1>1. PICK l : l = AdaptCycle(schema, cycle, cached.at) OBVIOUS
<1>2. cached.lifecycle = l BY <1>1 DEF Judged
<1>3. Classify(l, finding.at) \in {"RED", "YELLOW", "GREEN"} BY <1>1, AdaptedIs DEF BaseInv
<1>4. finding.status = Classify(l, finding.at) BY <1>2 DEF Judged
<1>5. QED BY <1>3, <1>4, LifecycleAssumption DEF Judged, LifecycleAssumption

(* What a scan does: it judges the lifecycle as it was at some time f.     *)
LEMMA ScanIs ==
    ASSUME BaseInv, Scan
    PROVE  \E f \in Nat :
              /\ cached' = [lifecycle |-> AdaptCycle(schema, cycle, f), at |-> f]
              /\ f = now \/ (Judged /\ f = cached.at /\ now - f < CacheTTL)
              /\ finding' = [status |-> Classify(AdaptCycle(schema, cycle, f), now),
                             at |-> now, fresh |-> (f = now)]
              /\ first' = (IF first = None THEN now ELSE first)
              /\ warned' = (warned \/ finding'.status = "YELLOW")
              /\ UNCHANGED <<schema, cycle, now>>
<1>1. PICK c : c = loadVersions(cached, now) OBVIOUS
<1>2. /\ cached' = c
      /\ finding' = [status |-> Classify(c.lifecycle, now), at |-> now, fresh |-> c.at = now]
      /\ first' = (IF first = None THEN now ELSE first)
      /\ warned' = (warned \/ Classify(c.lifecycle, now) = "YELLOW")
      /\ UNCHANGED <<schema, cycle, now>>
  BY <1>1 DEF Scan
<1>3. CASE Hit(cached, now)
  <2>1. c = cached BY <1>1, <1>3 DEF loadVersions
  <2>2. Judged /\ now - cached.at < CacheTTL
    BY <1>3 DEF Hit, BaseInv, Unscanned
  <2>3. cached = [lifecycle |-> AdaptCycle(schema, cycle, cached.at), at |-> cached.at]
        /\ cached.at \in Nat
    BY <2>2 DEF Judged
  <2>4. cached.lifecycle = AdaptCycle(schema, cycle, cached.at) BY <2>3
  <2>5. finding'.status = Classify(c.lifecycle, now) BY <1>2
  <2>6. QED BY <1>2, <2>1, <2>2, <2>3, <2>4, <2>5
<1>4. CASE ~Hit(cached, now)
  <2>1. c = [lifecycle |-> AdaptCycle(schema, cycle, now), at |-> now] BY <1>1, <1>4 DEF loadVersions
  <2>2. c.lifecycle = AdaptCycle(schema, cycle, now) /\ c.at = now BY <2>1
  <2>3. now \in Nat BY DEF BaseInv, Times
  <2>4. finding'.status = Classify(c.lifecycle, now) BY <1>2
  <2>5. QED BY <1>2, <2>1, <2>2, <2>3, <2>4
<1>5. QED BY <1>3, <1>4

LEMMA StepBase == BaseInv /\ [Next]_vars => BaseInv'
<1> SUFFICES ASSUME BaseInv, [Next]_vars PROVE BaseInv' OBVIOUS
<1>1. now \in Nat BY DEF BaseInv, Times
<1>2. CASE Tick
  <2>1. now' = now + 1 /\ now' \in Times /\ UNCHANGED <<schema, cycle, cached, finding, first, warned, daily>>
    BY <1>1, <1>2, LifecycleAssumption DEF Tick, Times, LifecycleAssumption
  <2>2. Unscanned => Unscanned' BY <2>1 DEF Unscanned
  <2>3. Judged => Judged' BY <1>1, <2>1 DEF Judged
  <2>4. QED BY <2>1, <2>2, <2>3 DEF BaseInv
<1>3. CASE Scan
  <2>1. PICK f \in Nat :
              /\ cached' = [lifecycle |-> AdaptCycle(schema, cycle, f), at |-> f]
              /\ f = now \/ (Judged /\ f = cached.at /\ now - f < CacheTTL)
              /\ finding' = [status |-> Classify(AdaptCycle(schema, cycle, f), now),
                             at |-> now, fresh |-> (f = now)]
              /\ first' = (IF first = None THEN now ELSE first)
              /\ warned' = (warned \/ finding'.status = "YELLOW")
              /\ UNCHANGED <<schema, cycle, now>>
    BY <1>3, ScanIs
  <2>2. f <= now BY <1>1, <2>1 DEF Judged
  <2>3. cached'.at = f /\ finding'.at = now /\ cached'.lifecycle = AdaptCycle(schema, cycle, f)
    BY <2>1
  <2>4. first' \in Nat /\ first' <= f
    <3>1. CASE Judged
      <4>1. first # None /\ first \in Nat /\ first <= cached.at /\ cached.at <= now /\ cached.at \in Nat
        BY <1>1, <3>1, JudgedIs DEF Judged
      <4>2. QED BY <1>1, <2>1, <4>1
    <3>2. CASE Unscanned
      <4>1. ~Judged
        BY <3>2, LifecycleAssumption DEF Judged, Unscanned, LifecycleAssumption
      <4>2. first' = now /\ f = now BY <2>1, <3>2, <4>1 DEF Unscanned
      <4>3. QED BY <1>1, <4>2
    <3>3. QED BY <3>1, <3>2 DEF BaseInv
  <2>5. Judged'
    <3>1. cached' = [lifecycle |-> AdaptCycle(schema', cycle', cached'.at), at |-> cached'.at]
      BY <2>1, <2>3
    <3>2. finding'.status = Classify(cached'.lifecycle, finding'.at) BY <2>1, <2>3
    <3>3. finding'.fresh => cached'.at = finding'.at
      <4>1. finding'.fresh = (f = now) BY <2>1
      <4>2. QED BY <2>3, <4>1
    <3>4. cached'.at = finding'.at \/ finding'.at - cached'.at < CacheTTL BY <2>1, <2>3
    <3>5. finding'.status = "YELLOW" => warned' BY <2>1
    <3>6. now' = now BY <2>1
    <3>7. QED BY <1>1, <2>2, <2>3, <2>4, <3>1, <3>2, <3>3, <3>4, <3>5, <3>6 DEF Judged
  <2>6. daily' \in BOOLEAN BY <1>3 DEF Scan, BaseInv
  <2>7. QED BY <2>1, <2>5, <2>6 DEF BaseInv
<1>4. CASE UNCHANGED vars BY <1>4 DEF vars, BaseInv, Unscanned, Judged
<1>5. QED BY <1>2, <1>3, <1>4 DEF Next, Done

LEMMA Base == Spec => []BaseInv
BY InitBase, StepBase, PTL DEF Spec

(* Every variable keeps its type, and no scan finds a version UNKNOWN once *)
(* a lifecycle matches it, whatever dates and schema.                      *)
THEOREM TypeCorrect == Spec => []TypeOK
<1>1. ASSUME BaseInv PROVE TypeOK
  <2>1. CASE Unscanned
    BY <1>1, <2>1, LifecycleAssumption DEF BaseInv, Unscanned, NoFinding, TypeOK, Times, LifecycleAssumption
  <2>2. CASE Judged
    <3>1. finding.at <= now /\ first \in Times
      BY <1>1, <2>2, LifecycleAssumption DEF BaseInv, Judged, Times, LifecycleAssumption
    <3>2. QED BY <1>1, <2>2, <3>1, JudgedIs DEF BaseInv, Judged, TypeOK
  <2>3. QED BY <1>1, <2>1, <2>2 DEF BaseInv
<1>2. QED BY <1>1, Base, PTL

-----------------------------------------------------------------------------
(* RED stays. *)

LEMMA ScanKeepsRed ==
    ASSUME BaseInv, Scan, finding.status = "RED"
    PROVE  finding'.status = "RED"
<1>1. Judged BY DEF BaseInv, Unscanned, NoFinding
<1>2. PICK b : b = Bounds(schema, cycle) OBVIOUS
<1>3. PICK g \in Nat : /\ g = now \/ g = cached.at
                       /\ finding' = [status |-> Classify(AdaptCycle(schema, cycle, g), now),
                                      at |-> now, fresh |-> (g = now)]
  BY ScanIs
<1>4. PICK f \in Nat : f = cached.at BY <1>1 DEF Judged
<1>5. PICK t \in Nat : t = finding.at BY <1>1 DEF Judged
<1>6. f <= t /\ t <= now /\ f <= g /\ g <= now /\ now \in Nat
  BY <1>1, <1>3, <1>4, <1>5 DEF Judged, BaseInv, Times
<1>7. Classify(AdaptCycle(schema, cycle, f), t) = "RED"
  <2>1. cached.lifecycle = AdaptCycle(schema, cycle, f) BY <1>1, <1>4 DEF Judged
  <2>2. finding.status = Classify(cached.lifecycle, t) BY <1>1, <1>5 DEF Judged
  <2>3. QED BY <2>1, <2>2
<1>8. Action(schema, b, f) \in RedActions \/ Past(t, b.extendedSupportEnd)
  BY <1>2, <1>7, AdaptedIs DEF BaseInv
<1>9. Action(schema, b, g) \in RedActions \/ Past(now, b.extendedSupportEnd)
  <2>1. CASE Past(t, b.extendedSupportEnd)
    <3>1. b.extendedSupportEnd \in MaybeDates BY <1>2, BoundsTyped DEF Boundary
    <3>2. QED BY <1>6, <2>1, <3>1, TimeGrows
  <2>2. CASE Action(schema, b, f) \in RedActions
    BY <1>2, <1>6, <2>2, RedGrows DEF BaseInv
  <2>3. QED BY <1>8, <2>1, <2>2
<1>10. Classify(AdaptCycle(schema, cycle, g), now) = "RED" BY <1>2, <1>9, AdaptedIs DEF BaseInv
<1>11. QED BY <1>3, <1>10

(* A version that was RED stays RED, whichever windows its schema declares *)
(* and however old the cached flags are.                                   *)
THEOREM RedIsFinal == Spec => RedStays
<1>1. BaseInv /\ [Next]_vars => [finding.status = "RED" => finding'.status = "RED"]_vars
  BY ScanKeepsRed DEF Next, Tick, Done, vars
<1>2. QED BY <1>1, Base, PTL DEF Spec, RedStays

(* However stale the flags: RED from one TTL after the end of life on.     *)
THEOREM RedInTime == Spec => []RedWithinTTL
<1>1. ASSUME BaseInv PROVE RedWithinTTL
  <2>1. PICK b : b = Bounds(schema, cycle) OBVIOUS
  <2>2. AdaptCycle(schema, cycle, 0).b = b BY <2>1, AdaptIs
  <2> SUFFICES ASSUME finding.status # "none", b.eolDate # None, finding.at >= b.eolDate + CacheTTL
               PROVE  finding.status = "RED"
    BY <2>2 DEF RedWithinTTL
  <2>3. Judged BY <1>1 DEF BaseInv, Unscanned, NoFinding
  <2>4. PICK f \in Nat : f = cached.at BY <2>3 DEF Judged
  <2>5. b.eolDate \in Nat BY <2>1, BoundsTyped, DatesAre DEF Boundary
  <2>6. Past(f, b.eolDate)
    <3>1. finding.at \in Nat /\ (f = finding.at \/ finding.at - f < CacheTTL) BY <2>3, <2>4 DEF Judged
    <3>2. QED BY <2>5, <3>1, LifecycleAssumption DEF Past, LifecycleAssumption
  <2>7. Action(schema, b, f) = "eol"
    BY <2>6 DEF Action, StandardClassify, DeclarativeClassify
  <2>8. Classify(AdaptCycle(schema, cycle, f), finding.at) = "RED"
    BY <1>1, <2>1, <2>7, AdaptedIs DEF BaseInv, RedActions
  <2>9. cached.lifecycle = AdaptCycle(schema, cycle, f) BY <2>3, <2>4 DEF Judged
  <2>10. finding.status = Classify(cached.lifecycle, finding.at) BY <2>3 DEF Judged
  <2>11. QED BY <2>8, <2>9, <2>10
<1>2. QED BY <1>1, Base, PTL

StandardRed(b, t) == StandardClassify(b, t) \in RedActions \/ Past(t, b.extendedSupportEnd)

(* When the standard schema's support is over, on boundaries. *)
LEMMA StandardEnds ==
    ASSUME NEW c, NEW b, b = deriveBoundaries(c), NEW t \in Nat,
           NEW end, end = SupportEnd(c)
    PROVE  /\ Past(t, end) => StandardRed(b, t)
           /\ StandardRed(b, t) => end # None /\ ~Ahead(t, end)
<1>1. PICK eol \in MaybeDates, support \in MaybeDates, extended \in MaybeDates :
         /\ eol = parseDate(c.eol) /\ support = parseDate(c.support)
         /\ extended = parseDate(c.extendedSupport)
  BY DEF parseDate, MaybeDates
<1>2. end = IF extended # None THEN extended ELSE IF eol # None THEN eol ELSE support
  BY <1>1, DatesAre DEF SupportEnd, parseDate
<1>3. \A d \in MaybeDates : d # None => d \in Nat BY DatesAre
<1>4. CASE extended # None
  <2>1. b.extendedSupportEnd = extended /\ b.eolDate = extended
    BY <1>1, <1>4 DEF deriveBoundaries, Boundaries
  <2>2. QED BY <1>2, <1>3, <1>4, <2>1 DEF StandardRed, StandardClassify, RedActions, Past, Ahead
<1>5. CASE extended = None /\ eol # None
  <2>1. /\ b.eolDate = eol
        /\ \/ b.extendedSupportEnd = eol
           \/ b.extendedSupportEnd = None /\ b.deprecatedSupportEnd = eol
           \/ b.extendedSupportEnd = None /\ b.deprecation = support /\ (support # None => ~(eol > support))
    BY <1>1, <1>5 DEF deriveBoundaries, Boundaries
  <2>2. QED BY <1>2, <1>3, <1>5, <2>1 DEF StandardRed, StandardClassify, RedActions, Past, Ahead
<1>6. CASE extended = None /\ eol = None
  <2>1. b = Boundaries(support, None, None, None)
    BY <1>1, <1>6 DEF deriveBoundaries
  <2>2. QED BY <1>2, <1>3, <1>6, <2>1 DEF StandardRed, Boundaries, StandardClassify, RedActions, Past, Ahead
<1>7. QED BY <1>4, <1>5, <1>6

(* The standard schema shows RED after all support is over, and never      *)
(* before, whatever combination of dates and booleans a cycle has, when    *)
(* the lifecycle was fetched for this scan.                                *)
THEOREM FreshJudgement == Spec => []FreshIsRight
<1>1. ASSUME BaseInv PROVE FreshIsRight
  <2> SUFFICES ASSUME finding.fresh, schema.kind = "standard"
               PROVE  /\ Past(finding.at, SupportEnd(cycle)) => finding.status = "RED"
                      /\ finding.status = "RED" => ~Ahead(finding.at, SupportEnd(cycle))
                                                   /\ SupportEnd(cycle) # None
    BY DEF FreshIsRight
  <2>1. Judged BY <1>1 DEF BaseInv, Unscanned, NoFinding
  <2>2. PICK t \in Nat : t = finding.at /\ t = cached.at BY <2>1 DEF Judged
  <2>3. PICK b : b = Bounds(schema, cycle) OBVIOUS
  <2>4. b = deriveBoundaries(cycle) /\ Action(schema, b, t) = StandardClassify(b, t)
    BY <2>3 DEF Bounds, Action
  <2>5. finding.status = Classify(AdaptCycle(schema, cycle, t), t)
    <3>1. cached.lifecycle = AdaptCycle(schema, cycle, t) BY <2>1, <2>2 DEF Judged
    <3>2. finding.status = Classify(cached.lifecycle, t) BY <2>1, <2>2 DEF Judged
    <3>3. QED BY <3>1, <3>2
  <2>6. finding.status = "RED" <=> StandardRed(b, t)
    <3>1. Classify(AdaptCycle(schema, cycle, t), t) = "RED" <=>
             Action(schema, b, t) \in RedActions \/ Past(t, b.extendedSupportEnd)
      BY <1>1, <2>3, AdaptedIs DEF BaseInv
    <3>2. QED BY <2>4, <2>5, <3>1 DEF StandardRed
  <2>7. QED BY <2>2, <2>4, <2>6, StandardEnds
<1>2. QED BY <1>1, Base, PTL

-----------------------------------------------------------------------------
(* RED does not come unannounced.                                          *)

LEMMA LeastOfFour ==
    ASSUME NEW d1, NEW d2, NEW d3, NEW d4,
           NEW S \in SUBSET Nat, S \subseteq {d1, d2, d3, d4}, S # {}
    PROVE  \E d \in S : \A e \in S : d <= e
<1>1. ASSUME NEW m \in S, NEW d PROVE \E n \in S : n <= m /\ (d \in S => n <= d)
  <2>1. CASE d \in S /\ d <= m BY <2>1
  <2>2. CASE ~(d \in S /\ d <= m)
    <3>1. m \in Nat /\ m <= m OBVIOUS
    <3>2. ASSUME d \in S PROVE m <= d
      <4>1. d \in Nat BY <3>2
      <4>2. ~(d <= m) BY <2>2, <3>2
      <4>3. QED BY <3>1, <4>1, <4>2
    <3>3. QED BY <3>1, <3>2
  <2>3. QED BY <2>1, <2>2
<1>2. PICK m \in S : TRUE OBVIOUS
<1>3. PICK m1 \in S : d1 \in S => m1 <= d1 BY <1>1, <1>2
<1>4. PICK m2 \in S : m2 <= m1 /\ (d2 \in S => m2 <= d2) BY <1>1
<1>5. PICK m3 \in S : m3 <= m2 /\ (d3 \in S => m3 <= d3) BY <1>1
<1>6. PICK m4 \in S : m4 <= m3 /\ (d4 \in S => m4 <= d4) BY <1>1
<1>7. ASSUME NEW e \in S PROVE m4 <= e
  <2>1. m1 \in Nat /\ m2 \in Nat /\ m3 \in Nat /\ m4 \in Nat /\ e \in Nat OBVIOUS
  <2>2. e = d1 \/ e = d2 \/ e = d3 \/ e = d4 OBVIOUS
  <2>3. m4 <= m3 /\ m4 <= m2 /\ m4 <= m1 BY <1>4, <1>5, <1>6, <2>1
  <2>4. QED BY <1>3, <1>4, <1>5, <1>6, <2>1, <2>2, <2>3
<1>8. QED BY <1>7

(* Any boundaries that are ahead have a first one. *)
LEMMA LeastDate ==
    ASSUME NEW b \in Boundary, NEW S \in SUBSET BoundaryDates(b), S # {}
    PROVE  \E d \in S : \A e \in S : d <= e
<1>1. S \subseteq {b.deprecation, b.deprecatedSupportEnd, b.extendedSupportEnd, b.eolDate}
  BY DEF BoundaryDates
<1>2. S \subseteq Nat BY DatesAre DEF BoundaryDates, Boundary
<1>3. QED BY <1>1, <1>2, LeastOfFour

LEMMA BoundaryDatesAre ==
    ASSUME NEW b \in Boundary PROVE BoundaryDates(b) \subseteq Dates
BY DatesAre DEF BoundaryDates, Boundary

LEMMA FirstFutureIs ==
    ASSUME NEW b \in Boundary, NEW t \in Nat, NEW d \in BoundaryDates(b), d > t
    PROVE  /\ firstFutureLifecycleDate(b, t) \in BoundaryDates(b)
           /\ firstFutureLifecycleDate(b, t) > t /\ firstFutureLifecycleDate(b, t) <= d
<1>1. PICK S : S = {e \in BoundaryDates(b) : e > t} OBVIOUS
<1>2. S \in SUBSET BoundaryDates(b) /\ S # {} BY <1>1
<1>3. \E e \in S : \A g \in S : e <= g BY <1>2, LeastDate
<1>4. firstFutureLifecycleDate(b, t) = CHOOSE e \in S : \A g \in S : e <= g
  BY <1>1, <1>2 DEF firstFutureLifecycleDate
<1>5. firstFutureLifecycleDate(b, t) \in S /\ \A g \in S : firstFutureLifecycleDate(b, t) <= g
  BY <1>3, <1>4
<1>6. d \in S BY <1>1
<1>7. QED BY <1>1, <1>5, <1>6

(* With the first boundary a day away, the policy warns; when it does not  *)
(* warn at midnight, no boundary is within the next day.                   *)
LEMMA DayAhead ==
    ASSUME NEW b \in Boundary, NEW t \in Nat, NEW d \in BoundaryDates(b),
           d = t + 2 \/ d = t + 3, \A e \in BoundaryDates(b) : e > t => d <= e
    PROVE  Soon(b, t)
<1>1. d \in Nat /\ d > t /\ d # None BY BoundaryDatesAre, DatesAre
<1>2. PICK first_ : first_ = firstFutureLifecycleDate(b, t) OBVIOUS
<1>3. first_ \in BoundaryDates(b) /\ first_ > t /\ first_ <= d BY <1>1, <1>2, FirstFutureIs
<1>4. first_ \in Nat BY <1>3, BoundaryDatesAre, DatesAre
<1>5. first_ = d BY <1>1, <1>3, <1>4
<1>6. (d - t) \div DayLength = 1 BY <1>1 DEF DayLength
<1>7. QED BY <1>1, <1>2, <1>5, <1>6, LifecycleAssumption DEF Soon, LifecycleAssumption

LEMMA NotPast ==
    ASSUME NEW f \in Nat, NEW d \in MaybeDates, ~Past(f, d), d # None PROVE d \in Nat /\ f <= d
<1>1. d \in Nat BY DatesAre
<1>2. QED BY <1>1 DEF Past

(* A lifecycle that is neither RED nor YELLOW when it is adapted has all   *)
(* its boundaries ahead, unless its schema calls a window "supported".     *)
LEMMA GreenAhead ==
    ASSUME NEW s \in Schemas, ~WindowIsSupported(s), NEW c, NEW b, b = Bounds(s, c), NEW f \in Nat,
           Action(s, b, f) = "supported", ~Past(f, b.extendedSupportEnd)
    PROVE  \A d \in BoundaryDates(b) : f <= d
<1>1. b \in Boundary BY BoundsTyped
<1>2. \A d \in MaybeDates : ~Past(f, d) /\ d # None => f <= d BY NotPast
<1>3. CASE s.kind = "standard"
  <2>1. StandardClassify(b, f) = "supported" /\ b = deriveBoundaries(c) BY <1>3 DEF Action, Bounds
  <2>2. ~Past(f, b.eolDate) /\ ~Past(f, b.deprecation) BY <2>1 DEF StandardClassify
  <2>3. b.deprecatedSupportEnd # None => ~Past(f, b.deprecatedSupportEnd)
    <3>1. ASSUME NEW d \in MaybeDates, NEW e \in MaybeDates, d # None, e # None, d > e, ~Past(f, e)
          PROVE  ~Past(f, d)
      <4>1. d \in Nat /\ e \in Nat /\ f <= e BY <3>1, NotPast, DatesAre
      <4>2. QED BY <3>1, <4>1 DEF Past
    <3>2. QED BY <1>1, <2>1, <2>2, <3>1, StandardShape DEF Boundary
  <2>4. QED BY <1>1, <1>2, <2>2, <2>3 DEF BoundaryDates, Boundary
<1>4. CASE s.kind # "standard"
  <2>1. s.kind = "declarative" BY <1>4, LifecycleAssumption DEF LifecycleAssumption
  <2>2. DeclarativeClassify(s, b, f) = "supported" BY <1>4 DEF Action
  <2>3. s.deprecatedWindow # "supported" BY <2>1 DEF WindowIsSupported
  <2>4. ~Past(f, b.eolDate) /\ ~Past(f, b.deprecatedSupportEnd) /\ ~Past(f, b.deprecation)
    BY <2>2, <2>3 DEF DeclarativeClassify, OrUnsupported
  <2>5. QED BY <1>1, <1>2, <2>4 DEF BoundaryDates, Boundary
<1>5. QED BY <1>3, <1>4

(* RED needs a boundary to be past. *)
LEMMA RedIsPast ==
    ASSUME NEW s \in Schemas, NEW c, NEW b, b = Bounds(s, c), NEW t \in Nat,
           Action(s, b, t) \in RedActions \/ Past(t, b.extendedSupportEnd)
    PROVE  \E d \in BoundaryDates(b) : d < t
<1>1. b \in Boundary BY BoundsTyped
<1>2. \A d \in MaybeDates : Past(t, d) => d # None /\ d < t BY DatesAre DEF Past
<1>3. \/ Past(t, b.eolDate) \/ Past(t, b.deprecation)
      \/ Past(t, b.extendedSupportEnd) \/ Past(t, b.deprecatedSupportEnd)
  BY DEF Action, StandardClassify, DeclarativeClassify, RedActions
<1>4. QED BY <1>1, <1>2, <1>3 DEF BoundaryDates, Boundary

(* Two times with the same boundaries past and ahead of them are judged    *)
(* the same.                                                               *)
LEMMA SameWindow ==
    ASSUME NEW s \in Schemas, NEW c, NEW b, b = Bounds(s, c), NEW t \in Nat, NEW u \in Nat,
           \A d \in BoundaryDates(b) : (d < t /\ d < u) \/ (d > t /\ d > u),
           Action(s, b, t) \in RedActions \/ Past(t, b.extendedSupportEnd)
    PROVE  Action(s, b, u) \in RedActions \/ Past(u, b.extendedSupportEnd)
<1>1. b \in Boundary BY BoundsTyped
<1>2. \A d \in BoundaryDates(b) \cup {None} :
         (Past(t, d) <=> Past(u, d)) /\ (Ahead(t, d) <=> Ahead(u, d))
  <2>1. ASSUME NEW d \in BoundaryDates(b)
        PROVE  (Past(t, d) <=> Past(u, d)) /\ (Ahead(t, d) <=> Ahead(u, d))
    <3>1. d \in Nat BY <1>1, BoundaryDatesAre, DatesAre
    <3>2. QED BY <3>1 DEF Past, Ahead
  <2>2. QED BY <2>1 DEF Past, Ahead
<1>3. {b.deprecation, b.deprecatedSupportEnd, b.extendedSupportEnd, b.eolDate}
         \subseteq BoundaryDates(b) \cup {None}
  BY DEF BoundaryDates
<1>4. CASE s.kind = "standard"
  <2>1. Action(s, b, t) = StandardClassify(b, t) /\ Action(s, b, u) = StandardClassify(b, u)
    BY <1>4 DEF Action
  <2>2. QED BY <1>2, <1>3, <2>1 DEF StandardClassify
<1>5. CASE s.kind # "standard"
  <2>1. Action(s, b, t) = DeclarativeClassify(s, b, t) /\ Action(s, b, u) = DeclarativeClassify(s, b, u)
    BY <1>5 DEF Action
  <2>2. QED BY <1>2, <1>3, <2>1 DEF DeclarativeClassify
<1>6. QED BY <1>4, <1>5

(* As long as nothing was shown but GREEN: the policy had nothing to warn  *)
(* of when the finding was made, nor when its lifecycle was adapted, all   *)
(* boundaries were ahead then, and if the first of them is at hand, the    *)
(* first scan came too late to see it a day before.                        *)
Quiet(b) ==
    /\ ~Soon(b, finding.at) /\ ~Soon(b, cached.at)
    /\ \A d \in BoundaryDates(b) : cached.at <= d
    /\ \A d \in BoundaryDates(b) :
          (\A e \in BoundaryDates(b) : d <= e) /\ d <= finding.at + 1 => d <= first + 1
GreenInv ==
    finding.status = "GREEN" /\ ~warned /\ daily /\ ~WindowIsSupported(schema) =>
        Quiet(Bounds(schema, cycle))

WarnInv == BaseInv /\ GreenInv /\ NeverUnwarned

LEMMA NotSoon ==
    ASSUME NEW s \in Schemas, NEW c, NEW b, b = Bounds(s, c), NEW f, NEW t,
           Classify(AdaptCycle(s, c, f), t) = "GREEN"
    PROVE  ~Soon(b, t) /\ Action(s, b, f) = "supported" /\ ~Past(t, b.extendedSupportEnd)
BY AdaptedIs

LEMMA ScanQuiet ==
    ASSUME WarnInv, Scan, finding'.status = "GREEN", ~warned', daily', ~WindowIsSupported(schema)
    PROVE  GreenInv'
<1>1. BaseInv /\ schema \in Schemas /\ now \in Nat BY DEF WarnInv, BaseInv, Times
<1>2. PICK b : b = Bounds(schema, cycle) OBVIOUS
<1>3. b \in Boundary BY <1>2, BoundsTyped
<1>4. PICK f \in Nat :
              /\ cached' = [lifecycle |-> AdaptCycle(schema, cycle, f), at |-> f]
              /\ f = now \/ (Judged /\ f = cached.at /\ now - f < CacheTTL)
              /\ finding' = [status |-> Classify(AdaptCycle(schema, cycle, f), now),
                             at |-> now, fresh |-> (f = now)]
              /\ first' = (IF first = None THEN now ELSE first)
              /\ warned' = (warned \/ finding'.status = "YELLOW")
              /\ UNCHANGED <<schema, cycle, now>>
  BY <1>1, ScanIs
<1>5. cached'.at = f /\ finding'.at = now BY <1>4
<1>6. ~Soon(b, now) /\ Action(schema, b, f) = "supported" /\ ~Past(now, b.extendedSupportEnd)
  BY <1>1, <1>2, <1>4, NotSoon
<1>7. BoundaryDates(b) \subseteq Dates BY <1>3, BoundaryDatesAre
<1>8. f = now => ~Soon(b, f) /\ \A d \in BoundaryDates(b) : f <= d
  BY <1>1, <1>2, <1>6, GreenAhead
<1>9. CASE Unscanned
  <2>1. ~Judged BY <1>9, LifecycleAssumption DEF Judged, Unscanned, LifecycleAssumption
  <2>2. f = now /\ first' = now BY <1>4, <1>9, <2>1 DEF Unscanned
  <2>3. Quiet(b)' BY <1>5, <1>6, <1>8, <2>2 DEF Quiet
  <2>4. QED BY <1>2, <1>4, <2>3 DEF GreenInv
<1>10. CASE Judged
  <2>1. first # None /\ finding.status = "GREEN"
    <3>1. finding.status \in {"RED", "YELLOW", "GREEN"} /\ first # None BY <1>1, <1>10, JudgedIs
    <3>2. finding.status # "RED" BY <1>1, ScanKeepsRed
    <3>3. finding.status # "YELLOW" BY <1>4, <1>10 DEF Judged
    <3>4. QED BY <3>1, <3>2, <3>3
  <2>2. ~warned /\ daily /\ now - finding.at <= DayLength
    <3>1. daily' = (daily /\ (first # None => now - finding.at <= DayLength)) BY DEF Scan
    <3>2. daily /\ (first # None => now - finding.at <= DayLength) BY <3>1
    <3>3. ~warned BY <1>4
    <3>4. QED BY <2>1, <3>2, <3>3
  <2>3. Quiet(b) BY <1>2, <2>1, <2>2 DEF WarnInv, GreenInv
  <2>4. ~Soon(b, f) /\ \A d \in BoundaryDates(b) : f <= d BY <1>4, <1>8, <2>3 DEF Quiet
  <2>5. first' = first /\ first \in Nat BY <1>4, <1>10, <2>1 DEF Judged
  <2>6. ASSUME NEW d \in BoundaryDates(b), \A e \in BoundaryDates(b) : d <= e, d <= now + 1
        PROVE  d <= first + 1
    <3>1. PICK p \in Nat : p = finding.at BY <1>10 DEF Judged
    <3>2. CASE d <= p + 1 BY <2>3, <2>6, <3>1, <3>2 DEF Quiet
    <3>3. CASE ~(d <= p + 1)
      <4>1. d \in Nat BY <1>7, DatesAre
      <4>2. now <= p + 2 BY <1>1, <2>2, <3>1 DEF DayLength
      <4>3. d = p + 2 \/ d = p + 3 BY <1>1, <2>6, <3>3, <4>1, <4>2
      <4>4. Soon(b, p) BY <1>3, <2>6, <4>3, DayAhead
      <4>5. QED BY <2>3, <3>1, <4>4 DEF Quiet
    <3>4. QED BY <3>2, <3>3
  <2>7. Quiet(b)' BY <1>5, <1>6, <2>4, <2>5, <2>6 DEF Quiet
  <2>8. QED BY <1>2, <1>4, <2>7 DEF GreenInv
<1>11. QED BY <1>1, <1>9, <1>10 DEF BaseInv

(* A scan that turns a version RED without warning came, or could have     *)
(* come, within a day of the first one.                                    *)
LEMMA ScanWarned ==
    ASSUME CacheTTL <= DayLength, WarnInv, Scan, finding'.status = "RED", ~warned', daily',
           ~WindowIsSupported(schema)
    PROVE  \E t \in Times : TurnsRed(t) /\ t <= first' + DayLength
<1>1. BaseInv /\ schema \in Schemas /\ now \in Times /\ now \in Nat BY DEF WarnInv, BaseInv, Times
<1>2. PICK b : b = Bounds(schema, cycle) OBVIOUS
<1>3. b \in Boundary /\ BoundaryDates(b) \subseteq Dates BY <1>2, BoundsTyped, BoundaryDatesAre
<1>4. PICK f \in Nat :
              /\ f = now \/ (Judged /\ f = cached.at /\ now - f < CacheTTL)
              /\ finding' = [status |-> Classify(AdaptCycle(schema, cycle, f), now),
                             at |-> now, fresh |-> (f = now)]
              /\ first' = (IF first = None THEN now ELSE first)
              /\ warned' = (warned \/ finding'.status = "YELLOW")
  BY <1>1, ScanIs
<1>5. \A t : TurnsRed(t) <=> Action(schema, b, t) \in RedActions \/ Past(t, b.extendedSupportEnd)
  BY <1>1, <1>2, AdaptedIs DEF TurnsRed
<1>6. TurnsRed(now)
  <2>1. f <= now BY <1>1, <1>4 DEF Judged
  <2>2. Action(schema, b, f) \in RedActions \/ Past(now, b.extendedSupportEnd)
    BY <1>1, <1>2, <1>4, AdaptedIs
  <2>3. Action(schema, b, now) \in RedActions \/ Past(now, b.extendedSupportEnd)
    BY <1>1, <1>2, <2>1, <2>2, RedGrows
  <2>4. QED BY <1>5, <2>3
<1>7. CASE Unscanned
  <2>1. first' = now BY <1>4, <1>7 DEF Unscanned
  <2>2. now <= first' + DayLength BY <1>1, <2>1 DEF DayLength
  <2>3. QED BY <1>1, <1>6, <2>2
<1>8. CASE Judged /\ finding.status = "RED"
  <2>1. first' = first BY <1>1, <1>4, <1>8, JudgedIs
  <2>2. ~warned /\ daily BY <1>4 DEF Scan
  <2>3. QED BY <1>8, <2>1, <2>2 DEF WarnInv, NeverUnwarned
<1>9. CASE Judged /\ finding.status = "GREEN"
  <2>1. first' = first /\ first \in Nat /\ first # None BY <1>1, <1>4, <1>9, JudgedIs DEF Judged
  <2>2. ~warned /\ daily /\ now - finding.at <= DayLength
    <3>1. daily' = (daily /\ (first # None => now - finding.at <= DayLength)) BY DEF Scan
    <3>2. daily /\ (first # None => now - finding.at <= DayLength) BY <3>1
    <3>3. ~warned BY <1>4
    <3>4. QED BY <2>1, <3>2, <3>3
  <2>3. Quiet(b) BY <1>2, <1>9, <2>2 DEF WarnInv, GreenInv
  <2>4. CASE now <= first + DayLength BY <1>1, <1>6, <2>1, <2>4
  <2>5. CASE ~(now <= first + DayLength)
    <3>1. PICK p \in Nat, g \in Nat : p = finding.at /\ g = cached.at BY <1>9 DEF Judged
    <3>2. g <= p /\ p - g < 2 /\ p <= now /\ now <= p + 2 /\ now > first + 2
      BY <1>1, <1>9, <2>1, <2>2, <2>5, <3>1, LifecycleAssumption DEF Judged, DayLength, LifecycleAssumption
    <3>3. PICK d \in BoundaryDates(b) : \A e \in BoundaryDates(b) : d <= e
      <4>1. \E e \in BoundaryDates(b) : e < now BY <1>1, <1>2, <1>5, <1>6, RedIsPast
      <4>2. QED BY <1>3, <4>1, LeastDate
    <3>4. d \in Dates /\ d \in Nat /\ d < now
      <4>1. PICK e \in BoundaryDates(b) : e < now BY <1>1, <1>2, <1>5, <1>6, RedIsPast
      <4>2. d \in Nat /\ e \in Nat /\ d <= e BY <1>3, <3>3, DatesAre
      <4>3. QED BY <1>1, <1>3, <4>1, <4>2
    <3>5. g <= d /\ d <= first + 1
      <4>1. d <= p + 1 BY <1>1, <3>2, <3>4
      <4>2. QED BY <2>3, <3>1, <3>3, <4>1 DEF Quiet
    <3>6. d = p \/ d = g BY <1>1, <2>1, <3>2, <3>4, <3>5
    <3>7. ~Soon(b, d) BY <2>3, <3>1, <3>6 DEF Quiet
    <3>8. ASSUME NEW e \in BoundaryDates(b) PROVE e = d \/ e > d + 3
      <4>1. e \in Dates /\ e \in Nat /\ d <= e BY <1>3, <3>3, DatesAre
      <4>2. CASE e > d /\ e <= d + 3
        <5>1. d + 2 <= e BY <3>4, <4>1, <4>2, DatesAre
        <5>2. \A h \in BoundaryDates(b) : h > d => e <= h
          <6> SUFFICES ASSUME NEW h \in BoundaryDates(b), h > d PROVE e <= h OBVIOUS
          <6>1. h \in Dates /\ h \in Nat BY <1>3, DatesAre
          <6>2. d + 2 <= h /\ (h < e => h + 2 <= e) BY <3>4, <4>1, <6>1, DatesAre
          <6>3. QED BY <3>4, <4>1, <4>2, <6>1, <6>2
        <5>3. Soon(b, d) BY <1>3, <3>4, <4>1, <4>2, <5>1, <5>2, DayAhead
        <5>4. QED BY <3>7, <5>3
      <4>3. QED BY <3>4, <4>1, <4>2
    <3>9. TurnsRed(d + 1)
      <4>1. \A e \in BoundaryDates(b) : (e < now /\ e < d + 1) \/ (e > now /\ e > d + 1)
        <5> SUFFICES ASSUME NEW e \in BoundaryDates(b)
                     PROVE  (e < now /\ e < d + 1) \/ (e > now /\ e > d + 1)
          OBVIOUS
        <5>1. e \in Nat /\ (e = d \/ e > d + 3) BY <1>3, <3>8, DatesAre
        <5>2. now <= d + 3 BY <1>1, <3>2, <3>4, <3>6
        <5>3. QED BY <1>1, <3>4, <5>1, <5>2
      <4>2. d + 1 \in Nat BY <3>4
      <4>3. Action(schema, b, now) \in RedActions \/ Past(now, b.extendedSupportEnd) BY <1>5, <1>6
      <4>4. Action(schema, b, d + 1) \in RedActions \/ Past(d + 1, b.extendedSupportEnd)
        BY <1>1, <1>2, <4>1, <4>2, <4>3, SameWindow
      <4>5. QED BY <1>5, <4>4
    <3>10. d + 1 \in Times /\ d + 1 <= first' + DayLength
      BY <1>1, <2>1, <3>4, <3>5, LifecycleAssumption DEF Times, DayLength, LifecycleAssumption
    <3>11. QED BY <3>9, <3>10
  <2>6. QED BY <2>4, <2>5
<1>10. CASE Judged /\ finding.status = "YELLOW" BY <1>4, <1>10 DEF Judged
<1>11. QED BY <1>1, <1>7, <1>8, <1>9, <1>10, JudgedIs DEF BaseInv

LEMMA StepWarned == CacheTTL <= DayLength /\ WarnInv /\ [Next]_vars => WarnInv'
<1> SUFFICES ASSUME CacheTTL <= DayLength, WarnInv, [Next]_vars PROVE WarnInv' OBVIOUS
<1>1. BaseInv' BY StepBase DEF WarnInv
<1>2. CASE UNCHANGED <<schema, cycle, cached, finding, first, warned, daily>>
  <2>1. GreenInv' BY <1>2 DEF WarnInv, GreenInv, Quiet
  <2>2. NeverUnwarned' BY <1>2 DEF WarnInv, NeverUnwarned, TurnsRed
  <2>3. QED BY <1>1, <2>1, <2>2 DEF WarnInv
<1>3. CASE Scan
  <2>1. UNCHANGED <<schema, cycle>> BY <1>3 DEF Scan
  <2>2. GreenInv'
    <3>1. CASE finding'.status = "GREEN" /\ ~warned' /\ daily' /\ ~WindowIsSupported(schema)
      BY <1>3, <3>1, ScanQuiet
    <3>2. CASE ~(finding'.status = "GREEN" /\ ~warned' /\ daily' /\ ~WindowIsSupported(schema))
      BY <2>1, <3>2 DEF GreenInv
    <3>3. QED BY <3>1, <3>2
  <2>3. NeverUnwarned'
    <3>1. CASE finding'.status = "RED" /\ ~warned' /\ daily' /\ ~WindowIsSupported(schema)
      <4>1. PICK t \in Times : TurnsRed(t) /\ t <= first' + DayLength BY <1>3, <3>1, ScanWarned
      <4>2. TurnsRed(t)' BY <2>1, <4>1 DEF TurnsRed
      <4>3. QED BY <4>1, <4>2 DEF NeverUnwarned
    <3>2. CASE ~(finding'.status = "RED" /\ ~warned' /\ daily' /\ ~WindowIsSupported(schema))
      BY <2>1, <3>2 DEF NeverUnwarned
    <3>3. QED BY <3>1, <3>2
  <2>4. QED BY <1>1, <2>2, <2>3 DEF WarnInv
<1>4. QED BY <1>2, <1>3 DEF Next, Tick, Done, vars

(* With a lifecycle cached for at most a day, as the server does, and a    *)
(* scan at least every day: no version turns RED without a scan having     *)
(* shown YELLOW, unless it turned within a day of the first scan.          *)
THEOREM Warned == ASSUME CacheTTL <= DayLength PROVE Spec => []NeverUnwarned
<1>1. Init => WarnInv
  <2> SUFFICES ASSUME Init PROVE WarnInv OBVIOUS
  <2>1. BaseInv BY InitBase
  <2>2. finding.status = "none" BY DEF Init, NoFinding
  <2>3. QED BY <2>1, <2>2 DEF WarnInv, GreenInv, NeverUnwarned
<1>2. WarnInv /\ [Next]_vars => WarnInv' BY StepWarned
<1>3. WarnInv => NeverUnwarned BY DEF WarnInv
<1>4. QED BY <1>1, <1>2, <1>3, PTL DEF Spec
=============================================================================
