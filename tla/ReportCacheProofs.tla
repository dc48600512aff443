-------------------------- MODULE ReportCacheProofs --------------------------
(***************************************************************************)
(* Proofs about ReportCache, for any number of callers, any contents of    *)
(* the report and any clock: how old an answer can be, that no usable      *)
(* entry is downloaded again, and that nobody is answered with a torn or   *)
(* unsuitable download.                                                    *)
(***************************************************************************)
EXTENDS ReportCache, TLAPS, WellFoundedInduction

-----------------------------------------------------------------------------
(* What the steps leave alone, and what lands. *)

LEMMA RowsCounted == \A run \in Report : Len(Objects(run)) \in Nat
<1> SUFFICES ASSUME NEW run \in Report PROVE Len(Objects(run)) \in Nat OBVIOUS
<1>1. PICK objects : objects = Contents[run.content].objects OBVIOUS
<1>2. objects \in Seq({objects[n] : n \in DOMAIN objects})
  BY <1>1, CacheAssumption DEF Report, CacheAssumption
<1>3. QED BY <1>1, <1>2 DEF Objects

(* A flight is past its second look at the cache. *)
Past == flight # None /\ flight.step # "recheck"

(* The request that is about to be sent is one of its MaxRetries tries;    *)
(* what is about to be downloaded is a run of the report.                  *)
StepInv ==
    flight # None =>
        /\ flight.step \in {"recheck", "token"} => flight.tries = 0
        /\ flight.step = "report" => flight.tries < MaxRetries
        /\ flight.step = "download" => flight.report # None

TypeInv == TypeOK /\ StepInv

LEMMA InitTyped == Init => TypeInv
<1> SUFFICES ASSUME Init PROVE TypeInv OBVIOUS
<1> USE CacheAssumption DEF CacheAssumption
<1>1. report \in Report BY DEF Init, Report
<1>2. now \in Times BY DEF Init, Times
<1>3. calls \in [Callers -> Call] BY DEF Init, Call, Times
<1>4. QED BY <1>1, <1>2, <1>3 DEF Init, TypeInv, TypeOK, StepInv

LEMMA AnswerTyped ==
    ASSUME TypeOK, NEW c \in Callers, NEW data \in Download
    PROVE  Answer(c, data) \in Call /\ Failed \in Call
           /\ Answer(c, data).state \in {"ok", "failed"} /\ Failed.state = "failed"
<1> USE CacheAssumption DEF CacheAssumption
<1>1. 0 \in Times /\ now \in Times BY DEF TypeOK, Times
<1>2. Failed \in Call /\ Failed.state = "failed" BY <1>1 DEF Failed, Call
<1>3. [state |-> "ok", at |-> now, data |-> data] \in Call BY <1>1 DEF Call
<1>4. QED BY <1>2, <1>3 DEF Answer

(* A flight that lands, with or without data, leaves nobody waiting. *)
LEMMA LandTyped ==
    ASSUME TypeOK, UNCHANGED <<now, report>>, cache' \in Entry \cup {None},
           LandFails \/ \E data \in Download : Land(data)
    PROVE  TypeInv'
<1>1. flight' = None BY DEF Land, LandFails
<1>2. calls' \in [Callers -> Call] /\ \A c \in Callers : calls'[c].state # "waiting"
  <2>1. CASE LandFails
    <3>1. Failed \in Call /\ Failed.state = "failed"
      BY CacheAssumption DEF CacheAssumption, Failed, Call, Times
    <3>2. QED BY <2>1, <3>1 DEF LandFails, TypeOK
  <2>2. ASSUME NEW data \in Download, Land(data)
        PROVE  calls' \in [Callers -> Call] /\ \A c \in Callers : calls'[c].state # "waiting"
    <3>1. \A c \in Callers : Answer(c, data) \in Call /\ Answer(c, data).state # "waiting"
      BY AnswerTyped
    <3>2. calls \in [Callers -> Call] BY DEF TypeOK
    <3>3. calls' = [c \in Callers |-> IF calls[c].state = "waiting" THEN Answer(c, data) ELSE calls[c]]
      BY <2>2 DEF Land
    <3>4. QED BY <3>1, <3>2, <3>3
  <2>3. QED BY <2>1, <2>2
<1>3. QED BY <1>1, <1>2 DEF TypeInv, TypeOK, StepInv

(* What a flight may do next, apart from landing. *)
LEMMA FlightTyped ==
    ASSUME TypeOK, flight # None,
           NEW step \in {"token", "report", "backoff", "download"}, NEW tries \in 0 .. MaxRetries,
           NEW run \in Report \cup {None},
           flight' = [flight EXCEPT !.step = step, !.tries = tries, !.report = run],
           step = "token" => tries = 0, step = "report" => tries < MaxRetries,
           step = "download" => run # None,
           UNCHANGED <<now, report, cache, calls>>
    PROVE  TypeInv'
<1>1. flight \in Flight BY DEF TypeOK
<1>2. flight' \in Flight /\ flight'.leader = flight.leader BY <1>1 DEF Flight
<1>3. flight'.step = step /\ flight'.tries = tries /\ flight'.report = run BY <1>1 DEF Flight
<1>4. flight' # None BY <1>2, CacheAssumption DEF CacheAssumption
<1>5. QED BY <1>2, <1>3, <1>4 DEF TypeInv, TypeOK, StepInv

(* The cached or fetched download of a flight. *)
LEMMA CachedData == ASSUME TypeOK, NEW t, Usable(cache, t) PROVE cache \in Entry /\ cache.data \in Download
BY DEF TypeOK, Usable, Entry

(* What a complete download is cached as. *)
EntryOf(data) ==
    [data |-> data, fetchedAt |-> now, freshnessDeadline |-> data.run.runAt + MaxAge]

LEMMA DownloadIs ==
    ASSUME TypeInv, DownloadReport
    PROVE  /\ flight.report \in Report /\ UNCHANGED <<now, report>>
           /\ \/ LandFails /\ UNCHANGED cache
              \/ \E data \in Download :
                    /\ data.run = flight.report /\ Complete(data.run, data.rows)
                    /\ Land(data)
                    /\ \/ UNCHANGED cache
                       \/ /\ cache' = EntryOf(data)
                          /\ validateRequiredColumns(Header(data.run),
                                                     getRequiredColumns(Sources[flight.leader]))
<1>1. flight \in Flight /\ flight.report \in Report
  BY DEF TypeInv, TypeOK, StepInv, DownloadReport, Flight
<1>2. PICK rows \in 0 .. Len(Objects(flight.report)) :
         LET data == [run |-> flight.report, rows |-> rows]
             fits == validateRequiredColumns(Header(data.run), getRequiredColumns(Sources[flight.leader]))
         IN IF Complete(flight.report, rows)
            THEN /\ cache' = IF fits THEN [data |-> data, fetchedAt |-> now,
                                           freshnessDeadline |-> flight.report.runAt + MaxAge]
                             ELSE cache
                 /\ Land(data)
            ELSE LandFails /\ UNCHANGED cache
  BY DEF DownloadReport
<1>3. rows \in Nat BY <1>1, RowsCounted
<1>4. PICK data : data = [run |-> flight.report, rows |-> rows] OBVIOUS
<1>5. data \in Download /\ data.run = flight.report /\ data.rows = rows BY <1>1, <1>3, <1>4 DEF Download
<1>6. CASE Complete(flight.report, rows)
  <2>1. Land(data) /\ (\/ UNCHANGED cache
                      \/ /\ cache' = EntryOf(data)
                         /\ validateRequiredColumns(Header(data.run),
                                                    getRequiredColumns(Sources[flight.leader])))
    BY <1>2, <1>4, <1>6 DEF EntryOf
  <2>2. QED BY <1>1, <1>5, <1>6, <2>1 DEF DownloadReport
<1>7. CASE ~Complete(flight.report, rows)
  BY <1>1, <1>2, <1>7 DEF DownloadReport
<1>8. QED BY <1>6, <1>7

LEMMA FlightStepTyped == ASSUME TypeInv, FlightStep PROVE TypeInv'
<1> USE CacheAssumption DEF CacheAssumption
<1>1. TypeOK /\ StepInv /\ flight # None /\ flight \in Flight
  BY DEF TypeInv, TypeOK, FlightStep, FetchFails, Recheck, GetAccessToken, GetReport, RateLimited,
         PauseEnds, DownloadReport
<1>2. /\ flight = [flight EXCEPT !.tries = flight.tries, !.report = flight.report]
      /\ flight.tries \in 0 .. MaxRetries /\ flight.report \in Report \cup {None}
      /\ flight.step \in {"recheck", "token"} => flight.tries = 0
      /\ flight.step = "report" => flight.tries < MaxRetries
  BY <1>1 DEF Flight, StepInv
<1>3. CASE FetchFails BY <1>1, <1>3, LandTyped DEF FetchFails, TypeOK
<1>4. CASE Recheck
  <2>1. CASE Usable(cache, now) /\ Land(cache.data)
    BY <1>1, <1>4, <2>1, CachedData, LandTyped DEF Recheck, TypeOK
  <2>2. CASE flight' = [flight EXCEPT !.step = "token"] /\ UNCHANGED calls
    <3>1. flight' = [flight EXCEPT !.step = "token", !.tries = flight.tries, !.report = flight.report]
      BY <1>1, <2>2 DEF Flight
    <3>2. flight.tries = 0 BY <1>2, <1>4 DEF Recheck
    <3>3. QED BY <1>1, <1>2, <1>4, <2>2, <3>1, <3>2, FlightTyped DEF Recheck
  <2>3. QED BY <1>4, <2>1, <2>2 DEF Recheck
<1>5. CASE GetAccessToken
  <2>1. flight' = [flight EXCEPT !.step = "report", !.tries = flight.tries, !.report = flight.report]
    BY <1>1, <1>5 DEF Flight, GetAccessToken
  <2>2. flight.tries < MaxRetries BY <1>2, <1>5 DEF GetAccessToken
  <2>3. QED BY <1>1, <1>2, <1>5, <2>1, <2>2, FlightTyped DEF GetAccessToken
<1>6. CASE GetReport
  <2>1. CASE LandFails BY <1>1, <1>6, <2>1, LandTyped DEF GetReport, TypeOK
  <2>2. CASE flight' = [flight EXCEPT !.step = "download", !.tries = 0, !.report = report]
             /\ UNCHANGED calls
    <3>1. report \in Report /\ report # None /\ 0 \in 0 .. MaxRetries BY <1>1 DEF TypeOK
    <3>2. QED BY <1>1, <1>6, <2>2, <3>1, FlightTyped DEF GetReport
  <2>3. QED BY <1>6, <2>1, <2>2 DEF GetReport
<1>7. CASE RateLimited
  <2>1. flight' = [flight EXCEPT !.step = "backoff", !.tries = flight.tries + 1, !.report = flight.report]
    BY <1>1, <1>7 DEF Flight, RateLimited, Tried
  <2>2. flight.tries + 1 \in 0 .. MaxRetries BY <1>2, <1>7 DEF RateLimited
  <2>3. QED BY <1>1, <1>2, <1>7, <2>1, <2>2, FlightTyped DEF RateLimited
<1>8. CASE PauseEnds
  <2>1. CASE LandFails BY <1>1, <1>8, <2>1, LandTyped DEF PauseEnds, TypeOK
  <2>2. CASE /\ flight.tries < MaxRetries
             /\ flight' = [flight EXCEPT !.step = "report"] /\ UNCHANGED calls
    <3>1. flight' = [flight EXCEPT !.step = "report", !.tries = flight.tries, !.report = flight.report]
      BY <1>1, <2>2 DEF Flight
    <3>2. QED BY <1>1, <1>2, <1>8, <2>2, <3>1, FlightTyped DEF PauseEnds
  <2>3. QED BY <1>8, <2>1, <2>2 DEF PauseEnds
<1>9. CASE DownloadReport
  <2>1. CASE LandFails /\ UNCHANGED <<now, report, cache>>
    BY <1>1, <2>1, LandTyped DEF TypeOK
  <2>2. ASSUME NEW data \in Download, Land(data), UNCHANGED <<now, report>>,
               cache' \in {cache, EntryOf(data)}
        PROVE  TypeInv'
    <3>1. now \in Times /\ data.run.runAt + MaxAge \in Nat
      BY <1>1 DEF TypeOK, Download, Report
    <3>2. cache' \in Entry \cup {None} BY <1>1, <2>2, <3>1 DEF TypeOK, Entry, EntryOf
    <3>3. QED BY <1>1, <2>2, <3>2, LandTyped
  <2>3. QED BY <1>9, <2>1, <2>2, DownloadIs
<1>10. QED BY <1>3, <1>4, <1>5, <1>6, <1>7, <1>8, <1>9 DEF FlightStep

LEMMA StepTyped == TypeInv /\ [Next]_vars => TypeInv'
<1> SUFFICES ASSUME TypeInv, [Next]_vars PROVE TypeInv' OBVIOUS
<1> USE CacheAssumption DEF CacheAssumption
<1>1. TypeOK /\ StepInv BY DEF TypeInv
<1>2. CASE Tick BY <1>1, <1>2 DEF Tick, TypeInv, TypeOK, StepInv, Times
<1>3. CASE ReportRuns
  <2>1. report' \in Report BY <1>1, <1>3 DEF ReportRuns, TypeOK, Times, Report
  <2>2. QED BY <1>1, <1>3, <2>1 DEF ReportRuns, TypeInv, TypeOK, StepInv
<1>4. ASSUME NEW c \in Callers, Lookup(c) PROVE TypeInv'
  <2>1. PICK call : calls' = [calls EXCEPT ![c] = call] /\ call \in Call /\ call.state # "waiting"
    <3>1. CASE Usable(cache, now)
      <4>1. cache.data \in Download BY <1>1, <3>1, CachedData
      <4>2. QED BY <1>1, <1>4, <3>1, <4>1, AnswerTyped DEF Lookup
    <3>2. CASE ~Usable(cache, now)
      <4>1. PICK call : call = [state |-> "missed", at |-> 0, data |-> None] OBVIOUS
      <4>2. call \in Call /\ call.state # "waiting" BY <4>1 DEF Call, Times
      <4>3. calls' = [calls EXCEPT ![c] = call] BY <1>4, <3>2, <4>1 DEF Lookup
      <4>4. QED BY <4>2, <4>3
    <3>3. QED BY <3>1, <3>2
  <2>2. calls \in [Callers -> Call] /\ calls[c].state # "waiting" BY <1>1, <1>4 DEF TypeOK, Lookup
  <2>3. calls' \in [Callers -> Call] BY <2>1, <2>2
  <2>4. \A d \in Callers : (calls'[d].state = "waiting") = (calls[d].state = "waiting")
    BY <2>1, <2>2
  <2>5. flight # None => flight.leader \in Callers BY <1>1 DEF TypeOK, Flight
  <2>6. UNCHANGED <<now, report, cache, flight>> BY <1>4 DEF Lookup
  <2>7. QED BY <1>1, <2>3, <2>4, <2>5, <2>6 DEF TypeInv, TypeOK, StepInv
<1>5. ASSUME NEW c \in Callers, Do(c) PROVE TypeInv'
  <2>1. calls \in [Callers -> Call] /\ calls[c] \in Call BY <1>1 DEF TypeOK
  <2>2. [calls[c] EXCEPT !.state = "waiting"] \in Call BY <2>1 DEF Call
  <2>3. calls' = [calls EXCEPT ![c] = [calls[c] EXCEPT !.state = "waiting"]]
    BY <1>5, <2>1 DEF Do
  <2>4. calls' \in [Callers -> Call] BY <2>1, <2>2, <2>3
  <2>5. calls'[c].state = "waiting" /\ \A d \in Callers : d # c => calls'[d] = calls[d]
    BY <2>1, <2>2, <2>3 DEF Call
  <2>6. UNCHANGED <<now, report, cache>> BY <1>5 DEF Do
  <2>7. CASE flight # None
    <3>1. flight' = flight /\ flight.leader \in Callers BY <1>1, <1>5, <2>7 DEF Do, TypeOK, Flight
    <3>2. QED BY <1>1, <2>4, <2>5, <2>6, <2>7, <3>1 DEF TypeInv, TypeOK, StepInv
  <2>8. CASE flight = None
    <3>1. flight' = [leader |-> c, step |-> "recheck", began |-> now, tries |-> 0, report |-> None]
      BY <1>5, <2>8 DEF Do
    <3>2. flight' \in Flight BY <1>1, <3>1 DEF Flight, TypeOK
    <3>3. flight' # None BY <3>2
    <3>4. QED BY <1>1, <2>4, <2>5, <2>6, <3>1, <3>2, <3>3 DEF TypeInv, TypeOK, StepInv
  <2>9. QED BY <2>7, <2>8
<1>6. CASE FlightStep BY <1>6, FlightStepTyped
<1>7. CASE UNCHANGED vars BY <1>1, <1>7 DEF vars, TypeInv, TypeOK, StepInv
<1>8. QED BY <1>2, <1>3, <1>4, <1>5, <1>6, <1>7 DEF Next

LEMMA TypeInvariant == Spec => []TypeInv
BY InitTyped, StepTyped, PTL DEF Spec

(* Every variable keeps its type, no GraphQL request is tried more than    *)
(* MaxRetries times, and whoever waits has a flight to wait for, whose     *)
(* leader is waiting too: a flight never outlives the calls it answers.    *)
THEOREM TypeCorrect == Spec => []TypeOK
<1>1. TypeInv => TypeOK BY DEF TypeInv
<1>2. QED BY <1>1, TypeInvariant, PTL

-----------------------------------------------------------------------------
(* How old an answer can be.                                               *)

(* The run a flight is about to download was fresh when it was looked up,  *)
(* and the flight did not take longer than it may since.                   *)
FlightFresh ==
    flight # None =>
        /\ flight.began <= now /\ now <= flight.began + FlightTime
        /\ flight.step = "download" =>
              /\ flight.report.runAt <= now + MaxSkew
              /\ flight.began - flight.report.runAt <= MaxAge

(* An entry is not used past the end of its run's interval and grace. *)
CacheFresh ==
    cache # None =>
        /\ cache.freshnessDeadline = cache.data.run.runAt + MaxAge
        /\ cache.data.run.runAt <= now + MaxSkew

FreshInv == FlightFresh /\ CacheFresh /\ FreshWhenAnswered

Fresh(data) == now - data.run.runAt <= MaxAge + FlightTime /\ data.run.runAt <= now + MaxSkew

LEMMA FreshAnswers ==
    ASSUME TypeOK, FreshWhenAnswered, NEW data \in Download, Fresh(data), now' = now,
           calls' \in [Callers -> Call],
           \A c \in Callers : calls'[c] \in {calls[c], Answer(c, data)} \/ calls'[c].state # "ok"
    PROVE  FreshWhenAnswered'
<1> SUFFICES ASSUME NEW c \in Callers, calls'[c].state = "ok"
             PROVE  LET age == calls'[c].at - calls'[c].data.run.runAt
                    IN age <= MaxAge + FlightTime /\ age >= -MaxSkew
  BY DEF FreshWhenAnswered
<1>1. CASE calls'[c] = calls[c] BY <1>1 DEF FreshWhenAnswered
<1>2. CASE calls'[c] = Answer(c, data)
  <2>1. calls'[c] = [state |-> "ok", at |-> now, data |-> data] BY <1>2 DEF Answer, Failed
  <2>2. now \in Nat /\ data.run.runAt \in Nat BY DEF TypeOK, Times, Download, Report
  <2>3. QED BY <2>1, <2>2, CacheAssumption DEF Fresh, CacheAssumption
<1>3. QED BY <1>1, <1>2

(* Usable entries are fresh. *)
LEMMA UsableFresh ==
    ASSUME TypeOK, CacheFresh, Usable(cache, now)
    PROVE  cache.data \in Download /\ Fresh(cache.data)
<1>1. cache \in Entry /\ cache.data \in Download BY CachedData
<1>2. cache.data.run.runAt \in Nat /\ now \in Nat BY <1>1 DEF Download, Report, TypeOK, Times
<1>3. cache # None /\ now < cache.freshnessDeadline BY DEF Usable
<1>4. QED BY <1>1, <1>2, <1>3, CacheAssumption DEF CacheFresh, Fresh, CacheAssumption

LEMMA FlightStepFresh == ASSUME TypeInv, FreshInv, FlightStep PROVE FreshInv'
<1> USE CacheAssumption DEF CacheAssumption
<1>1. /\ TypeOK /\ FlightFresh /\ CacheFresh /\ FreshWhenAnswered
      /\ flight # None /\ flight \in Flight /\ now \in Nat /\ now' = now
      /\ TypeOK' /\ calls' \in [Callers -> Call]
  BY FlightStepTyped DEF TypeInv, TypeOK, FreshInv, Times, FlightStep, FetchFails, Recheck,
         GetAccessToken, GetReport, RateLimited, PauseEnds, DownloadReport
<1>2. CASE LandFails /\ UNCHANGED cache
  <2>1. flight' = None /\ \A c \in Callers : calls'[c] = calls[c] \/ calls'[c].state # "ok"
    BY <1>2 DEF LandFails, Failed
  <2>2. FreshWhenAnswered' BY <1>1, <2>1 DEF FreshWhenAnswered
  <2>3. QED BY <1>1, <1>2, <2>1, <2>2 DEF FreshInv, FlightFresh, CacheFresh
<1>3. ASSUME NEW data \in Download, Fresh(data), Land(data), CacheFresh' PROVE FreshInv'
  <2>1. flight' = None /\ \A c \in Callers : calls'[c] \in {calls[c], Answer(c, data)}
    BY <1>3 DEF Land
  <2>2. FreshWhenAnswered' BY <1>1, <1>3, <2>1, FreshAnswers
  <2>3. QED BY <1>3, <2>1, <2>2 DEF FreshInv, FlightFresh
<1>4. ASSUME flight' # None, UNCHANGED <<cache, calls>>, flight'.began = flight.began,
             flight'.step = "download" =>
                /\ flight'.report.runAt <= now + MaxSkew
                /\ flight.began - flight'.report.runAt <= MaxAge
      PROVE  FreshInv'
  BY <1>1, <1>4 DEF FreshInv, FlightFresh, CacheFresh, FreshWhenAnswered
<1>5. CASE Recheck
  <2>1. CASE Usable(cache, now) /\ Land(cache.data)
    <3>1. CacheFresh' BY <1>1, <1>5 DEF Recheck, CacheFresh
    <3>2. QED BY <1>1, <1>3, <2>1, <3>1, UsableFresh
  <2>2. CASE flight' = [flight EXCEPT !.step = "token"] /\ UNCHANGED calls
    BY <1>1, <1>4, <1>5, <2>2 DEF Recheck, Flight
  <2>3. QED BY <1>5, <2>1, <2>2 DEF Recheck
<1>6. CASE GetReport
  <2>1. CASE validateReportMetadata(report)
    <3>1. flight' = [flight EXCEPT !.step = "download", !.tries = 0, !.report = report]
          /\ UNCHANGED <<cache, calls>>
      BY <1>6, <2>1 DEF GetReport
    <3>2. flight'.report = report /\ flight'.began = flight.began /\ flight' \in Flight
      BY <1>1, <3>1 DEF Flight, TypeOK
    <3>3. report.runAt \in Nat /\ flight.began \in Nat /\ flight.began <= now
      BY <1>1 DEF TypeOK, Report, Flight, Times, FlightFresh
    <3>4. report.runAt <= now + MaxSkew /\ flight.began - report.runAt <= MaxAge
      BY <1>1, <2>1, <3>3 DEF validateReportMetadata
    <3>5. QED BY <1>4, <3>1, <3>2, <3>4
  <2>2. QED BY <1>2, <1>6, <2>1 DEF GetReport
<1>7. CASE GetAccessToken
  BY <1>1, <1>4, <1>7 DEF GetAccessToken, Flight
<1>8. CASE RateLimited
  <2>1. flight.tries + 1 \in 0 .. MaxRetries
    BY <1>1, <1>8 DEF RateLimited, TypeInv, StepInv, Flight
  <2>2. flight' = [flight EXCEPT !.step = "backoff", !.tries = flight.tries + 1]
    BY <1>8 DEF RateLimited, Tried
  <2>3. flight' \in Flight /\ flight'.step = "backoff" /\ flight'.began = flight.began
    BY <1>1, <2>1, <2>2 DEF Flight
  <2>4. QED BY <1>4, <1>8, <2>3 DEF RateLimited
<1>9. CASE PauseEnds
  <2>1. CASE flight.tries < MaxRetries
    BY <1>1, <1>4, <1>9, <2>1 DEF PauseEnds, Flight
  <2>2. QED BY <1>2, <1>9, <2>1 DEF PauseEnds
<1>10. CASE DownloadReport
  <2>1. flight.report \in Report /\ flight.step = "download" BY <1>10, DownloadIs DEF DownloadReport
  <2>2. ASSUME NEW data \in Download, data.run = flight.report, Land(data),
               UNCHANGED cache \/ cache' = EntryOf(data)
        PROVE  FreshInv'
    <3>1. data.run.runAt \in Nat /\ flight.began \in Nat
      BY <1>1, <2>1, <2>2 DEF Report, Flight, Times
    <3>2. Fresh(data) BY <1>1, <2>1, <2>2, <3>1 DEF FlightFresh, Fresh
    <3>3. cache' = EntryOf(data) => CacheFresh'
      BY <1>1, <3>2 DEF CacheFresh, EntryOf, Fresh
    <3>4. UNCHANGED cache => CacheFresh' BY <1>1 DEF CacheFresh
    <3>5. QED BY <1>3, <2>2, <3>2, <3>3, <3>4
  <2>3. QED BY <1>2, <1>10, <2>2, DownloadIs
<1>11. CASE FetchFails BY <1>2, <1>11 DEF FetchFails
<1>12. QED BY <1>5, <1>6, <1>7, <1>8, <1>9, <1>10, <1>11 DEF FlightStep

LEMMA StepFresh == TypeInv /\ FreshInv /\ [Next]_vars => FreshInv'
<1> SUFFICES ASSUME TypeInv, FreshInv, [Next]_vars PROVE FreshInv' OBVIOUS
<1> USE CacheAssumption DEF CacheAssumption
<1>1. TypeOK /\ FlightFresh /\ CacheFresh /\ FreshWhenAnswered /\ now \in Nat
  BY DEF TypeInv, TypeOK, FreshInv, Times
<1>2. CASE Tick
  <2>1. now' = now + 1 /\ (flight # None => now < flight.began + FlightTime /\ flight \in Flight)
    BY <1>1, <1>2 DEF Tick, TypeOK
  <2>2. FlightFresh'
    <3>1. flight # None => /\ flight.began \in Nat
                           /\ flight.step = "download" => flight.report.runAt \in Nat
      BY <1>1, <2>1 DEF Flight, Times, Report, StepInv, TypeInv
    <3>2. UNCHANGED flight BY <1>2 DEF Tick
    <3>3. QED BY <1>1, <2>1, <3>1, <3>2 DEF FlightFresh
  <2>3. CacheFresh'
    <3>1. cache # None => cache.data.run.runAt \in Nat
      BY <1>1 DEF TypeOK, Entry, Download, Report
    <3>2. QED BY <1>1, <1>2, <2>1, <3>1 DEF Tick, CacheFresh
  <2>4. FreshWhenAnswered' BY <1>1, <1>2 DEF Tick, FreshWhenAnswered
  <2>5. QED BY <2>2, <2>3, <2>4 DEF FreshInv
<1>3. CASE UNCHANGED <<now, cache, flight, calls>>
  BY <1>1, <1>3 DEF FreshInv, FlightFresh, CacheFresh, FreshWhenAnswered
<1>4. ASSUME NEW c \in Callers, Lookup(c) PROVE FreshInv'
  <2>1. UNCHANGED <<now, cache, flight>> BY <1>4 DEF Lookup
  <2>2. calls \in [Callers -> Call] /\ TypeOK' BY <1>1, StepTyped DEF TypeInv, TypeOK
  <2>3. CASE Usable(cache, now)
    <3>1. calls' = [calls EXCEPT ![c] = Answer(c, cache.data)] BY <1>4, <2>3 DEF Lookup
    <3>2. \A d \in Callers : calls'[d] \in {calls[d], Answer(d, cache.data)} BY <2>2, <3>1
    <3>3. calls' \in [Callers -> Call] BY <2>2 DEF TypeOK
    <3>4. FreshWhenAnswered' BY <1>1, <2>1, <2>3, <3>2, <3>3, UsableFresh, FreshAnswers
    <3>5. QED BY <1>1, <2>1, <3>4 DEF FreshInv, FlightFresh, CacheFresh
  <2>4. CASE ~Usable(cache, now)
    <3>1. calls' = [calls EXCEPT ![c] = [state |-> "missed", at |-> 0, data |-> None]]
      BY <1>4, <2>4 DEF Lookup
    <3>2. \A d \in Callers : calls'[d].state = "ok" => calls'[d] = calls[d] BY <2>2, <3>1
    <3>3. FreshWhenAnswered' BY <1>1, <3>2 DEF FreshWhenAnswered
    <3>4. QED BY <1>1, <2>1, <3>3 DEF FreshInv, FlightFresh, CacheFresh
  <2>5. QED BY <2>3, <2>4
<1>5. ASSUME NEW c \in Callers, Do(c) PROVE FreshInv'
  <2>1. UNCHANGED <<now, cache>> /\ calls \in [Callers -> Call] BY <1>1, <1>5 DEF Do, TypeOK
  <2>2. \A d \in Callers : calls'[d].state = "ok" => calls'[d] = calls[d]
    <3>1. calls[c] \in Call /\ calls' = [calls EXCEPT ![c] = [calls[c] EXCEPT !.state = "waiting"]]
      BY <1>5, <2>1 DEF Do
    <3>2. calls'[c].state = "waiting" BY <2>1, <3>1 DEF Call
    <3>3. QED BY <2>1, <3>1, <3>2
  <2>3. FreshWhenAnswered' BY <1>1, <2>2 DEF FreshWhenAnswered
  <2>4. FlightFresh'
    <3>1. CASE flight # None BY <1>1, <1>5, <2>1, <3>1 DEF Do, FlightFresh
    <3>2. CASE flight = None
      <4>1. flight' = [leader |-> c, step |-> "recheck", began |-> now, tries |-> 0, report |-> None]
        BY <1>5, <3>2 DEF Do
      <4>2. QED BY <1>1, <2>1, <4>1 DEF FlightFresh
    <3>3. QED BY <3>1, <3>2
  <2>5. QED BY <1>1, <2>1, <2>3, <2>4 DEF FreshInv, CacheFresh
<1>6. CASE FlightStep BY <1>6, FlightStepFresh
<1>7. QED BY <1>2, <1>3, <1>4, <1>5, <1>6 DEF Next, vars, ReportRuns

(* However long a report stays cached, however long its fetch was under    *)
(* way, and whoever fetched it: no caller is answered with a run older     *)
(* than its interval and grace and the time of a fetch, nor with one       *)
(* further in the future than clocks differ.                               *)
THEOREM AnswersAreFresh == Spec => []FreshWhenAnswered
<1>1. Init => FreshInv BY DEF Init, FreshInv, FlightFresh, CacheFresh, FreshWhenAnswered
<1>2. FreshInv => FreshWhenAnswered BY DEF FreshInv
<1>3. QED BY <1>1, <1>2, StepFresh, TypeInvariant, PTL DEF Spec

-----------------------------------------------------------------------------
(* No report is downloaded while the cache holds one that can be used.     *)

(* The second look at the cache stays true for the rest of the flight:     *)
(* time only makes entries worse, and only the flight itself replaces one. *)
MissInv == Past => ~Usable(cache, now)

LEMMA StaleStays ==
    ASSUME TypeOK, ~Usable(cache, now) PROVE ~Usable(cache, now + 1)
<1>1. now \in Nat BY DEF TypeOK, Times
<1>2. cache # None => cache.fetchedAt \in Nat /\ cache.freshnessDeadline \in Nat
  BY DEF TypeOK, Entry, Times
<1>3. QED BY <1>1, <1>2, CacheAssumption DEF Usable, CacheAssumption

LEMMA StepMiss == TypeInv /\ MissInv /\ [Next]_vars => MissInv'
<1> SUFFICES ASSUME TypeInv, MissInv, [Next]_vars, Past' PROVE ~Usable(cache', now')
  BY DEF MissInv, Usable
<1>1. TypeOK BY DEF TypeInv
<1>2. CASE UNCHANGED <<now, cache>> /\ Past BY <1>2 DEF MissInv
<1>3. CASE Tick
  <2>1. Past /\ UNCHANGED cache /\ now' = now + 1 BY <1>3 DEF Tick, Past
  <2>2. QED BY <1>1, <2>1, StaleStays DEF MissInv
<1>4. ASSUME NEW c \in Callers, Do(c) PROVE ~Usable(cache', now')
  <2>1. flight # None
    <3> SUFFICES ASSUME flight = None PROVE FALSE OBVIOUS
    <3>1. flight' = [leader |-> c, step |-> "recheck", began |-> now, tries |-> 0, report |-> None]
      BY <1>4 DEF Do
    <3>2. QED BY <3>1 DEF Past
  <2>2. QED BY <1>2, <1>4, <2>1 DEF Do, Past
<1>5. CASE Recheck
  <2>1. CASE ~Usable(cache, now) BY <1>5, <2>1 DEF Recheck
  <2>2. QED BY <1>5, <2>1 DEF Recheck, Land, Past
<1>6. CASE DownloadReport BY <1>6 DEF DownloadReport, Land, LandFails, Past
<1>7. QED
  BY <1>2, <1>3, <1>4, <1>5, <1>6 DEF Next, vars, ReportRuns, Lookup, FlightStep, FetchFails,
     GetAccessToken, GetReport, RateLimited, PauseEnds, Land, LandFails, Past

(* Callers that missed together but come to group.Do one after the other   *)
(* do not download the report twice: an entry is replaced only when it     *)
(* cannot be used any more, in whatever order they lead their flights.     *)
THEOREM NotDownloadedTwice == Spec => NoSecondDownload
<1>1. Init => MissInv BY DEF Init, MissInv, Past
<1>2. MissInv /\ [Next]_vars => [cache # None /\ cache' # cache => ~Usable(cache, now)]_vars
  <2> SUFFICES ASSUME MissInv, Next, cache' # cache PROVE ~Usable(cache, now) BY DEF vars
  <2>1. DownloadReport
    BY DEF Next, Tick, ReportRuns, Lookup, Do, FlightStep, FetchFails, Recheck, GetAccessToken,
           GetReport, RateLimited, PauseEnds
  <2>2. QED BY <2>1 DEF DownloadReport, MissInv, Past
<1>3. QED BY <1>1, <1>2, StepMiss, TypeInvariant, PTL DEF Spec, NoSecondDownload

-----------------------------------------------------------------------------
(* Answers are whole downloads with the columns the caller requires.       *)

Whole(data) == data \in Download /\ Complete(data.run, data.rows)
Suits(c, data) == validateRequiredColumns(Header(data.run), getRequiredColumns(Sources[c]))

CacheWhole == cache # None => Whole(cache.data)
AnsweredWhole == \A c \in Callers : calls[c].state = "ok" => Whole(calls[c].data) /\ Suits(c, calls[c].data)

LEMMA WholeAnswers ==
    ASSUME AnsweredWhole, NEW data, Whole(data),
           \A c \in Callers : calls'[c] \in {calls[c], Answer(c, data)} \/ calls'[c].state # "ok"
    PROVE  AnsweredWhole'
<1> SUFFICES ASSUME NEW c \in Callers, calls'[c].state = "ok"
             PROVE  Whole(calls'[c].data) /\ Suits(c, calls'[c].data)
  BY DEF AnsweredWhole, Whole, Suits, Complete, Header, Objects
<1>1. CASE calls'[c] = calls[c] BY <1>1 DEF AnsweredWhole
<1>2. CASE calls'[c] = Answer(c, data)
  <2>1. Suits(c, data) /\ calls'[c] = [state |-> "ok", at |-> now, data |-> data]
    BY <1>2 DEF Answer, Failed, Suits
  <2>2. QED BY <2>1
<1>3. QED BY <1>1, <1>2

LEMMA StepWhole == TypeInv /\ CacheWhole /\ AnsweredWhole /\ [Next]_vars => CacheWhole' /\ AnsweredWhole'
<1> SUFFICES ASSUME TypeInv, CacheWhole, AnsweredWhole, [Next]_vars PROVE CacheWhole' /\ AnsweredWhole'
  OBVIOUS
<1>1. TypeOK /\ calls \in [Callers -> Call] BY DEF TypeInv, TypeOK
<1>2. ASSUME UNCHANGED cache,
             \A c \in Callers : calls'[c].state = "ok" => calls'[c] = calls[c]
      PROVE  CacheWhole' /\ AnsweredWhole'
  BY <1>2 DEF CacheWhole, AnsweredWhole, Whole, Suits, Complete, Header, Objects
<1>3. ASSUME NEW data, Whole(data), UNCHANGED cache,
             \A c \in Callers : calls'[c] \in {calls[c], Answer(c, data)} \/ calls'[c].state # "ok"
      PROVE  CacheWhole' /\ AnsweredWhole'
  BY <1>3, WholeAnswers DEF CacheWhole, Whole, Complete, Objects
<1>4. LandFails => \A c \in Callers : calls'[c].state = "ok" => calls'[c] = calls[c]
  BY DEF LandFails, Failed
<1>5. ASSUME NEW data, Land(data)
      PROVE  \A c \in Callers : calls'[c] \in {calls[c], Answer(c, data)} \/ calls'[c].state # "ok"
  BY <1>5 DEF Land
<1>6. ASSUME NEW c \in Callers, Lookup(c) PROVE CacheWhole' /\ AnsweredWhole'
  <2>1. CASE Usable(cache, now)
    <3>1. calls' = [calls EXCEPT ![c] = Answer(c, cache.data)] /\ UNCHANGED cache
      BY <1>6, <2>1 DEF Lookup
    <3>2. Whole(cache.data) BY <2>1 DEF Usable, CacheWhole
    <3>3. \A d \in Callers : calls'[d] \in {calls[d], Answer(d, cache.data)} BY <1>1, <3>1
    <3>4. QED BY <1>3, <3>1, <3>2, <3>3
  <2>2. CASE ~Usable(cache, now)
    <3>1. calls' = [calls EXCEPT ![c] = [state |-> "missed", at |-> 0, data |-> None]] /\ UNCHANGED cache
      BY <1>6, <2>2 DEF Lookup
    <3>2. \A d \in Callers : calls'[d].state = "ok" => calls'[d] = calls[d] BY <1>1, <3>1
    <3>3. QED BY <1>2, <3>1, <3>2
  <2>3. QED BY <2>1, <2>2
<1>7. ASSUME NEW c \in Callers, Do(c) PROVE CacheWhole' /\ AnsweredWhole'
  <2>1. calls' = [calls EXCEPT ![c] = [calls[c] EXCEPT !.state = "waiting"]] /\ UNCHANGED cache
    BY <1>1, <1>7 DEF Do
  <2>2. [calls[c] EXCEPT !.state = "waiting"].state = "waiting" BY <1>1 DEF Call
  <2>3. \A d \in Callers : calls'[d].state = "ok" => calls'[d] = calls[d] BY <1>1, <2>1, <2>2
  <2>4. QED BY <1>2, <2>1, <2>3
<1>8. CASE Recheck
  <2>1. CASE Usable(cache, now) /\ Land(cache.data)
    <3>1. Whole(cache.data) BY <2>1 DEF Usable, CacheWhole
    <3>2. QED BY <1>3, <1>5, <1>8, <2>1, <3>1 DEF Recheck
  <2>2. CASE UNCHANGED calls BY <1>2, <1>8, <2>2 DEF Recheck
  <2>3. QED BY <1>8, <2>1, <2>2 DEF Recheck
<1>9. CASE DownloadReport
  <2>1. ASSUME NEW data \in Download, Whole(data), Land(data), UNCHANGED cache \/ cache' = EntryOf(data)
        PROVE  CacheWhole' /\ AnsweredWhole'
    <3>1. AnsweredWhole' BY <1>5, <2>1, WholeAnswers
    <3>2. CacheWhole' BY <2>1 DEF CacheWhole, EntryOf, Whole, Complete, Objects
    <3>3. QED BY <3>1, <3>2
  <2>2. QED BY <1>2, <1>4, <1>9, <2>1, DownloadIs DEF Whole
<1>10. QED
  BY <1>2, <1>4, <1>6, <1>7, <1>8, <1>9 DEF Next, vars, Tick, ReportRuns, FlightStep, FetchFails,
     GetAccessToken, GetReport, RateLimited, PauseEnds

(* Whoever led the flight or filled the cache and wherever a download      *)
(* broke off: a caller is answered only with all rows of one run, under a  *)
(* header that has every column its own source requires.                   *)
THEOREM AnswersAreWhole == Spec => []AnsweredWhole
<1>1. Init => CacheWhole /\ AnsweredWhole BY DEF Init, CacheWhole, AnsweredWhole
<1>2. QED BY <1>1, StepWhole, TypeInvariant, PTL DEF Spec

-----------------------------------------------------------------------------
(* The reading of rows.                                                    *)

LEMMA LeastNumber ==
    ASSUME NEW S \in SUBSET Nat, S # {}
    PROVE  \E n \in S : \A m \in S : n <= m
<1>1. \E n \in S : \A m \in S : ~ (<<m, n>> \in OpToRel(<, Nat))
  BY NatLessThanWellFounded, WFMin
<1>2. PICK n \in S : \A m \in S : ~ (<<m, n>> \in OpToRel(<, Nat)) BY <1>1
<1>3. ASSUME NEW m \in S PROVE n <= m
  <2>1. ~ (m < n) BY <1>2 DEF OpToRel
  <2>2. QED BY <2>1
<1>4. QED BY <1>3

LEMMA FirstAndLast ==
    ASSUME NEW length \in Nat, NEW S \in SUBSET (1 .. length), S # {}
    PROVE  First(S) \in S /\ Last(S) \in S
<1>1. S \in SUBSET Nat OBVIOUS
<1>2. First(S) \in S BY <1>1, LeastNumber DEF First
<1>3. PICK back : back = {length - i : i \in S} OBVIOUS
<1>4. back \in SUBSET Nat /\ back # {}
  <2>1. \A i \in S : length - i \in Nat OBVIOUS
  <2>2. QED BY <1>3, <2>1
<1>5. PICK n \in back : \A m \in back : n <= m BY <1>4, LeastNumber
<1>6. PICK i \in S : n = length - i BY <1>3
<1>7. ASSUME NEW j \in S PROVE j <= i
  <2>1. n <= length - j BY <1>3, <1>5
  <2>2. QED BY <1>6, <2>1
<1>8. Last(S) \in S BY <1>7 DEF Last
<1>9. QED BY <1>2, <1>8

(* A column that is there is read from one of those that may be taken for  *)
(* it, whatever order the report has them in.                              *)
LEMMA ColumnRead ==
    ASSUME NEW names, NEW header \in Seq(names), NEW name, NEW row,
           hasColumn(buildColumnIndex(header), name)
    PROVE  \E i \in Columns(header, name) :
               i \in DOMAIN header /\ col(buildColumnIndex(header), row, name) = row[i]
<1>1. PICK index : index = buildColumnIndex(header) OBVIOUS
<1>2. DOMAIN index = Indexed(header)
      /\ \A n \in Indexed(header) :
            index[n] = IF Named(header, n) # {} THEN Last(Named(header, n)) ELSE First(Suffixed(header, n))
  BY <1>1 DEF buildColumnIndex
<1>3. Len(header) \in Nat /\ DOMAIN header = 1 .. Len(header) OBVIOUS
<1>4. \A n : n \in Indexed(header) <=> Candidates(header, n) # {}
  BY DEF Indexed, Candidates, Named, Suffixed
<1>5. ASSUME NEW n \in Indexed(header) PROVE index[n] \in Candidates(header, n) /\ index[n] \in DOMAIN header
  <2>1. Named(header, n) \in SUBSET (1 .. Len(header)) /\ Suffixed(header, n) \in SUBSET (1 .. Len(header))
    BY <1>3 DEF Named, Suffixed
  <2>2. CASE Named(header, n) # {}
    <3>1. Last(Named(header, n)) \in Named(header, n) BY <1>3, <2>1, <2>2, FirstAndLast
    <3>2. QED BY <1>2, <1>3, <2>1, <2>2, <3>1 DEF Candidates
  <2>3. CASE Named(header, n) = {}
    <3>1. Suffixed(header, n) # {} BY <1>4, <2>3 DEF Candidates
    <3>2. First(Suffixed(header, n)) \in Suffixed(header, n) BY <1>3, <2>1, <3>1, FirstAndLast
    <3>3. QED BY <1>2, <1>3, <2>1, <2>3, <3>2 DEF Candidates
  <2>4. QED BY <2>2, <2>3
<1>6. PICK n : n = OrAlias(index, name) OBVIOUS
<1>7. n \in Indexed(header) /\ col(index, row, name) = row[index[n]]
  BY <1>1, <1>2, <1>6 DEF hasColumn, col
<1>8. Columns(header, name) = Candidates(header, n)
  BY <1>2, <1>4, <1>6 DEF OrAlias, Columns
<1>9. QED BY <1>1, <1>5, <1>7, <1>8

(* What the source of c finds in the row of an object. *)
LEMMA CellsRead ==
    ASSUME ColumnsMeant, NEW c \in Callers, NEW run \in Report,
           validateRequiredColumns(Header(run), getRequiredColumns(Sources[c])),
           NEW n \in DOMAIN Objects(run)
    PROVE  LET source == Sources[c]
               index == buildColumnIndex(Header(run))
               object == Objects(run)[n]
               row == Row(run, n)
           IN /\ col(index, row, source.resourceID) = object.id
              /\ col(index, row, NativeType) = object.nativeType
              /\ applyVersionTransform(source, index, row) = Transformed(source, object)
<1>1. PICK k \in DOMAIN Contents : k = run.content BY DEF Report
<1>2. PICK header : header = Header(run) OBVIOUS
<1>3. header \in Seq({header[i] : i \in DOMAIN header})
  BY <1>1, <1>2, CacheAssumption DEF CacheAssumption, Header
<1>4. PICK source : source = Sources[c] OBVIOUS
<1>5. PICK row : row = Row(run, n) OBVIOUS
<1>6. \A i \in DOMAIN header : row[i] = Objects(run)[n][Contents[k].holds[i]]
  BY <1>1, <1>2, <1>5 DEF Row
<1>7. ASSUME NEW name, name \in getRequiredColumns(source), NEW field,
             \A i \in Columns(header, name) : Contents[k].holds[i] = field
      PROVE  col(buildColumnIndex(header), row, name) = Objects(run)[n][field]
  <2>1. hasColumn(buildColumnIndex(header), name)
    BY <1>2, <1>4, <1>7 DEF validateRequiredColumns
  <2>2. PICK i \in Columns(header, name) :
            i \in DOMAIN header /\ col(buildColumnIndex(header), row, name) = row[i]
    BY <1>3, <2>1, ColumnRead
  <2>3. QED BY <1>6, <1>7, <2>2
<1>8. /\ source.resourceID # <<>>
      /\ \A i \in Columns(header, source.resourceID) : Contents[k].holds[i] = "id"
      /\ \A i \in Columns(header, NativeType) : Contents[k].holds[i] = "nativeType"
      /\ source.jsonColumn # <<>> =>
            \A i \in Columns(header, source.jsonColumn) : Contents[k].holds[i] = "properties"
      /\ source.jsonColumn = <<>> =>
            source.version # <<>> /\ \A i \in Columns(header, source.version) : Contents[k].holds[i] = "version"
  BY <1>1, <1>2, <1>4 DEF ColumnsMeant, Header
<1>9. /\ source.resourceID \in getRequiredColumns(source) /\ NativeType \in getRequiredColumns(source)
      /\ source.jsonColumn # <<>> => source.jsonColumn \in getRequiredColumns(source)
      /\ source.jsonColumn = <<>> => source.version \in getRequiredColumns(source)
  BY <1>8 DEF getRequiredColumns, NativeType
<1>10. /\ col(buildColumnIndex(header), row, source.resourceID) = Objects(run)[n]["id"]
       /\ col(buildColumnIndex(header), row, NativeType) = Objects(run)[n]["nativeType"]
  BY <1>7, <1>8, <1>9
<1>11. applyVersionTransform(source, buildColumnIndex(header), row) = Transformed(source, Objects(run)[n])
  <2>1. CASE source.jsonColumn # <<>>
    <3>1. col(buildColumnIndex(header), row, source.jsonColumn) = Objects(run)[n]["properties"]
      BY <1>7, <1>8, <1>9, <2>1
    <3>2. QED BY <2>1, <3>1 DEF applyVersionTransform, Transformed
  <2>2. CASE source.jsonColumn = <<>>
    <3>1. col(buildColumnIndex(header), row, source.version) = Objects(run)[n]["version"]
      BY <1>7, <1>8, <1>9, <2>2
    <3>2. QED BY <2>2, <3>1 DEF applyVersionTransform, Transformed
  <2>3. QED BY <2>1, <2>2
<1>12. QED BY <1>2, <1>4, <1>5, <1>10, <1>11

(* From all rows of a run, under a header that has its columns, a source   *)
(* makes the listing of its type.                                          *)
LEMMA ReadsItsOwn ==
    ASSUME ColumnsMeant, TypesTold, NEW c \in Callers, NEW run \in Report, NEW data,
           data = [run |-> run, rows |-> Len(Objects(run))], Suits(c, data)
    PROVE  parseWizReport(Sources[c], Header(run), Rows(data))
           = {[id |-> Objects(run)[n].id, version |-> Objects(run)[n].runs] :
                n \in {m \in DOMAIN Objects(run) : Objects(run)[m].type = c}}
<1>1. PICK objects : objects = Objects(run) OBVIOUS
<1>2. DOMAIN objects = 1 .. Len(objects)
  <2>1. objects \in Seq({objects[n] : n \in DOMAIN objects})
    BY <1>1, CacheAssumption DEF CacheAssumption, Objects, Report
  <2>2. QED BY <2>1
<1>3. PICK source : source = Sources[c] OBVIOUS
<1>4. PICK index : index = buildColumnIndex(Header(run)) OBVIOUS
<1>5. Rows(data) = {Row(run, n) : n \in DOMAIN objects} BY <1>1, <1>2 DEF Rows
<1>6. validateRequiredColumns(Header(run), getRequiredColumns(Sources[c])) BY DEF Suits
<1>7. \A n \in DOMAIN objects :
         /\ col(index, Row(run, n), source.resourceID) = objects[n].id
         /\ col(index, Row(run, n), NativeType) = objects[n].nativeType
         /\ applyVersionTransform(source, index, Row(run, n)) = Transformed(source, objects[n])
  BY <1>1, <1>3, <1>4, <1>6, CellsRead
<1>8. \A n \in DOMAIN objects :
         /\ objects[n].type = c <=>
              /\ matchesNativeTypePattern(source, objects[n].nativeType) /\ objects[n].id # <<>>
              /\ ~(source.jsonColumn # <<>> /\ source.skipIfEmpty /\ Transformed(source, objects[n]) = <<>>)
         /\ objects[n].type = c => objects[n].runs = Transformed(source, objects[n])
  BY <1>1, <1>3 DEF TypesTold, Objects, Report
<1>9. PICK own : own = {m \in DOMAIN objects : objects[m].type = c} OBVIOUS
<1>10. PICK kept : kept = {row \in Rows(data) :
                             /\ matchesNativeTypePattern(source, col(index, row, NativeType))
                             /\ col(index, row, source.resourceID) # <<>>
                             /\ ~Skipped(source, index, row)}
  OBVIOUS
<1>11. \A n \in DOMAIN objects : Row(run, n) \in kept <=> n \in own
  BY <1>5, <1>7, <1>8, <1>9, <1>10 DEF Skipped
<1>12. kept = {Row(run, n) : n \in own} BY <1>5, <1>9, <1>10, <1>11
<1>13. \A n \in own : parseResourceRow(source, index, Row(run, n))
                      = [id |-> objects[n].id, version |-> objects[n].runs]
  BY <1>7, <1>8, <1>9 DEF parseResourceRow
<1>14. parseWizReport(source, Header(run), Rows(data)) = {parseResourceRow(source, index, row) : row \in kept}
  BY <1>4, <1>10 DEF parseWizReport
<1>15. {parseResourceRow(source, index, row) : row \in kept}
       = {parseResourceRow(source, index, Row(run, n)) : n \in own}
  BY <1>12
<1>16. {parseResourceRow(source, index, Row(run, n)) : n \in own}
       = {[id |-> objects[n].id, version |-> objects[n].runs] : n \in own}
  BY <1>13
<1>17. QED BY <1>1, <1>3, <1>9, <1>14, <1>15, <1>16

(* Sharing a report costs no source anything: if the columns it reads mean *)
(* what it takes them for, and types can be told apart by what they hold,  *)
(* it lists exactly its own resources, whoever led the flight or filled    *)
(* the cache for which columns, whatever the report found meanwhile, and   *)
(* wherever a download broke off.                                          *)
THEOREM SharingIsHarmless ==
    ASSUME ColumnsMeant, TypesTold
    PROVE  Spec => []ListsItsOwn
<1>1. AnsweredWhole => ListsItsOwn
  <2> SUFFICES ASSUME AnsweredWhole, NEW c \in Callers, calls[c].state = "ok"
               PROVE  LET run == calls[c].data.run
                          own == {n \in DOMAIN Objects(run) : Objects(run)[n].type = c}
                      IN parseWizReport(Sources[c], Header(run), Rows(calls[c].data))
                         = {[id |-> Objects(run)[n].id, version |-> Objects(run)[n].runs] : n \in own}
    BY DEF ListsItsOwn
  <2>1. PICK data : data = calls[c].data OBVIOUS
  <2>2. PICK run : run = data.run OBVIOUS
  <2>3. data \in Download /\ run \in Report /\ data.rows = Len(Objects(run)) /\ Suits(c, data)
    BY <2>1, <2>2 DEF AnsweredWhole, Whole, Complete, Download
  <2>4. data = [run |-> run, rows |-> Len(Objects(run))] BY <2>2, <2>3 DEF Download
  <2>5. parseWizReport(Sources[c], Header(run), Rows(data))
        = {[id |-> Objects(run)[n].id, version |-> Objects(run)[n].runs] :
             n \in {m \in DOMAIN Objects(run) : Objects(run)[m].type = c}}
    BY <2>3, <2>4, ReadsItsOwn
  <2>6. QED BY <2>1, <2>2, <2>5
<1>2. QED BY <1>1, AnswersAreWhole, PTL

-----------------------------------------------------------------------------
(* Nobody waits in vain, as far as safety can say it. *)

(* The places a flight passes.  A backoff comes after its try and before   *)
(* the next one.                                                           *)
PlaceOf(step, tries) ==
    IF step = "recheck" THEN 0
    ELSE IF step = "token" THEN 1
    ELSE IF step = "report" THEN 2 * tries + 2
    ELSE IF step = "backoff" THEN 2 * tries + 1
    ELSE 2 * MaxRetries + 2
Place(f) == PlaceOf(f.step, f.tries)
LastPlace == 2 * MaxRetries + 2

(* Whoever waits for the flight is answered by its end. *)
AllAnswered ==
    /\ flight' = None
    /\ \A c \in Callers : calls[c].state = "waiting" => calls'[c].state \in {"ok", "failed"}

(* Whoever waits for the flight goes on waiting for it. *)
AllWait == \A c \in Callers : calls[c].state = "waiting" => calls'[c] = calls[c]

(* The flight gets further. *)
Proceeds ==
    /\ flight'.leader = flight.leader /\ flight'.began = flight.began
    /\ Place(flight) < Place(flight') /\ Place(flight') \in 0 .. LastPlace

FlightMoves ==
    flight # None => AllAnswered \/ (AllWait /\ (flight' = flight \/ Proceeds))

LEMMA LandAnswers ==
    ASSUME TypeOK, LandFails \/ \E data : Land(data) PROVE AllAnswered
BY DEF LandFails, Land, Answer, Failed, AllAnswered

LEMMA FlightStepMoves == ASSUME TypeInv, FlightStep PROVE FlightMoves
<1>1. TypeOK /\ StepInv /\ flight # None /\ flight \in Flight
  BY DEF TypeInv, TypeOK, FlightStep, FetchFails, Recheck, GetAccessToken, GetReport, RateLimited,
         PauseEnds, DownloadReport
<1>2. flight.tries \in 0 .. MaxRetries /\ MaxRetries \in Nat
  BY <1>1, CacheAssumption DEF Flight, CacheAssumption
<1>3. ASSUME NEW step, NEW tries, NEW run, UNCHANGED calls,
             flight' = [flight EXCEPT !.step = step, !.tries = tries, !.report = run],
             Place(flight) < PlaceOf(step, tries),
             PlaceOf(step, tries) \in 0 .. LastPlace
      PROVE  FlightMoves
  <2>1. flight'.step = step /\ flight'.tries = tries
        /\ flight'.leader = flight.leader /\ flight'.began = flight.began
    BY <1>1, <1>3 DEF Flight
  <2>2. QED BY <1>3, <2>1 DEF Place, FlightMoves, Proceeds, AllWait
<1>4. CASE LandFails \/ \E data : Land(data)
  BY <1>1, <1>4, LandAnswers DEF FlightMoves
<1>5. CASE /\ flight.step = "recheck" /\ UNCHANGED calls
           /\ flight' = [flight EXCEPT !.step = "token"]
  <2>1. flight' = [flight EXCEPT !.step = "token", !.tries = flight.tries, !.report = flight.report]
    BY <1>1, <1>5 DEF Flight
  <2>2. Place(flight) < PlaceOf("token", flight.tries) /\ PlaceOf("token", flight.tries) \in 0 .. LastPlace
    BY <1>2, <1>5, <2>1 DEF Place, PlaceOf, LastPlace
  <2>3. QED BY <1>3, <1>5, <2>1, <2>2
<1>6. CASE GetAccessToken
  <2>1. flight' = [flight EXCEPT !.step = "report", !.tries = flight.tries, !.report = flight.report]
    BY <1>1, <1>6 DEF Flight, GetAccessToken
  <2>2. flight.step = "token" /\ flight.tries = 0 /\ UNCHANGED calls
    BY <1>1, <1>6 DEF GetAccessToken, StepInv
  <2>3. Place(flight) < PlaceOf("report", flight.tries) /\ PlaceOf("report", flight.tries) \in 0 .. LastPlace
    BY <1>2, <2>1, <2>2 DEF Place, PlaceOf, LastPlace
  <2>4. QED BY <1>3, <2>1, <2>2, <2>3
<1>7. CASE /\ flight.step = "report" /\ UNCHANGED calls
           /\ flight' = [flight EXCEPT !.step = "download", !.tries = 0, !.report = report]
  <2>1. flight.tries < MaxRetries BY <1>1, <1>7 DEF StepInv
  <2>2. Place(flight) < PlaceOf("download", 0) /\ PlaceOf("download", 0) \in 0 .. LastPlace
    BY <1>2, <1>7, <2>1 DEF Place, PlaceOf, LastPlace
  <2>3. QED BY <1>3, <1>7, <2>1, <2>2
<1>8. CASE RateLimited
  <2>1. flight' = [flight EXCEPT !.step = "backoff", !.tries = flight.tries + 1, !.report = flight.report]
    BY <1>1, <1>8 DEF Flight, RateLimited, Tried
  <2>2. flight.step = "report" /\ flight.tries < MaxRetries /\ UNCHANGED calls
    BY <1>1, <1>8 DEF RateLimited, StepInv
  <2>3. Place(flight) < PlaceOf("backoff", flight.tries + 1) /\ PlaceOf("backoff", flight.tries + 1) \in 0 .. LastPlace
    BY <1>2, <2>1, <2>2 DEF Place, PlaceOf, LastPlace
  <2>4. QED BY <1>3, <2>1, <2>2, <2>3
<1>9. CASE /\ flight.step = "backoff" /\ flight.tries < MaxRetries /\ UNCHANGED calls
           /\ flight' = [flight EXCEPT !.step = "report"]
  <2>1. flight' = [flight EXCEPT !.step = "report", !.tries = flight.tries, !.report = flight.report]
    BY <1>1, <1>9 DEF Flight
  <2>2. Place(flight) < PlaceOf("report", flight.tries) /\ PlaceOf("report", flight.tries) \in 0 .. LastPlace
    BY <1>2, <1>9, <2>1 DEF Place, PlaceOf, LastPlace
  <2>3. QED BY <1>3, <1>9, <2>1, <2>2
<1>10. QED
  BY <1>4, <1>5, <1>6, <1>7, <1>8, <1>9, DownloadIs
  DEF FlightStep, FetchFails, Recheck, GetReport, PauseEnds

LEMMA StepMoves == TypeInv /\ [Next]_vars => FlightMoves
<1> SUFFICES ASSUME TypeInv, [Next]_vars PROVE FlightMoves OBVIOUS
<1>1. CASE FlightStep BY <1>1, FlightStepMoves
<1>2. ASSUME NEW c \in Callers, Lookup(c) \/ Do(c) PROVE FlightMoves
  <2>1. calls \in [Callers -> Call] /\ calls[c].state # "waiting" /\ (flight # None => flight' = flight)
    BY <1>2 DEF TypeInv, TypeOK, Lookup, Do
  <2>2. \A d \in Callers : d # c => calls'[d] = calls[d]
    BY <1>2, <2>1 DEF Lookup, Do
  <2>3. QED BY <2>1, <2>2 DEF FlightMoves, AllWait
<1>3. CASE Tick \/ ReportRuns \/ UNCHANGED vars
  BY <1>3 DEF Tick, ReportRuns, vars, FlightMoves, AllWait
<1>4. QED BY <1>1, <1>2, <1>3 DEF Next

(* A flight is never left for another one: while it gets further, up to a  *)
(* bound, everyone who waits for it waits on, and its end, wherever it     *)
(* comes, answers them all.  A rate limit cannot hold it in a circle.      *)
FlightsLand == [][FlightMoves]_vars

THEOREM EveryFlightLands == Spec => FlightsLand
BY TypeInvariant, StepMoves, PTL DEF Spec, FlightsLand
=============================================================================
