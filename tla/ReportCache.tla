----------------------------- MODULE ReportCache -----------------------------
(***************************************************************************)
(* The cache of Wiz reports all inventory sources of a process share       *)
(* (pkg/inventory/wiz/client.go): GetReportData looks a report up, and on  *)
(* a miss joins or leads the one flight that fetches it through the HTTP   *)
(* client (http_client.go).  Each caller is the inventory source of one    *)
(* resource type, and makes its listing of the rows (WizInventory).        *)
(* Reports do not share anything, so one report is enough.                 *)
(*                                                                         *)
(*   now     the clock                                                     *)
(*   report  the last run of the saved report: when it ran by the clock of *)
(*           Wiz, and what it found                                        *)
(*   cache   the cached download, or None                                  *)
(*   flight  the fetch in progress, or None: who leads it, how far it got, *)
(*           how often its GraphQL request was tried, and the run whose    *)
(*           download URL it holds                                         *)
(*   calls   each caller's GetReportData: how far it got, and when it was  *)
(*           answered with which download                                  *)
(***************************************************************************)
EXTENDS WizInventory

CONSTANTS
    Callers,    \* the concurrent FetchInventory activities on the report
    Sources,    \* the configuration of each caller
    Contents,   \* what the runs may find: header, what each column holds, objects
    CacheTTL,   \* how long a download is used (1 hour by default)
    MaxAge,     \* the run interval of the report and the grace
    MaxSkew,    \* how far ahead a run may say it ran (5 minutes)
    MaxRetries, \* tries of a GraphQL request (5)
    Ahead,      \* bound: how far the clock of Wiz may be ahead when the report runs
    FlightTime, \* bound: the ticks a fetch may take
    MaxNow,     \* bound: the last tick of the clock
    None        \* no entry, no flight, no rows

VARIABLES now, report, cache, flight, calls
vars == <<now, report, cache, flight, calls>>

Times == 0 .. MaxNow
Report == [runAt : Nat, content : DOMAIN Contents]
Objects(run) == Contents[run.content].objects
Download == [run : Report, rows : Nat]
Entry == [data : Download, fetchedAt : Times, freshnessDeadline : Nat]
Flight == [leader : Callers, step : {"recheck", "token", "report", "backoff", "download"},
           began : Times, tries : 0 .. MaxRetries, report : Report \cup {None}]
Call == [state : {"idle", "missed", "waiting", "ok", "failed"}, at : Times,
         data : Download \cup {None}]

ASSUME CacheAssumption ==
    /\ CacheTTL \in Nat /\ MaxAge \in Nat /\ MaxSkew \in Nat /\ Ahead \in SUBSET Nat
    /\ MaxRetries \in Nat \ {0} /\ FlightTime \in Nat /\ MaxNow \in Nat
    /\ None \notin Callers \cup Report \cup Entry \cup Flight
    /\ \A k \in DOMAIN Contents :
         \A s \in {Contents[k].objects, Contents[k].header} : s \in Seq({s[n] : n \in DOMAIN s})

Init ==
    /\ now = 0
    /\ report \in [runAt : Ahead, content : DOMAIN Contents]
    /\ cache = None
    /\ flight = None
    /\ calls = [c \in Callers |-> [state |-> "idle", at |-> 0, data |-> None]]

(* The CSV of a run: what each of its columns holds of an object. *)
Header(run) == Contents[run.content].header
Row(run, n) == [i \in DOMAIN Header(run) |-> Objects(run)[n][Contents[run.content].holds[i]]]
Rows(data) == {Row(data.run, n) : n \in 1 .. data.rows}

-----------------------------------------------------------------------------
(* The environment: time passes, and the report runs again, perhaps with   *)
(* other columns and other objects.                                        *)

Tick ==
    /\ now < MaxNow
    /\ flight # None => now < flight.began + FlightTime
    /\ now' = now + 1
    /\ UNCHANGED <<report, cache, flight, calls>>

ReportRuns ==
    /\ report' \in [runAt : {now + a : a \in Ahead}, content : DOMAIN Contents]
    /\ report.runAt < report'.runAt
    /\ UNCHANGED <<now, cache, flight, calls>>

-----------------------------------------------------------------------------
(* GetReportData. *)

(* mutant: the age of the report's run is not looked at *)
UsableByTTL(entry, t) == entry # None /\ t - entry.fetchedAt < CacheTTL
(* lookup: younger than the TTL, and the run itself not too old. *)
Usable(entry, t) ==
    entry # None /\ t - entry.fetchedAt < CacheTTL /\ t < entry.freshnessDeadline

Failed == [state |-> "failed", at |-> 0, data |-> None]
(* Every caller checks the columns it requires itself, on cached and on    *)
(* fetched rows.                                                           *)
Answer(c, data) ==
    IF validateRequiredColumns(Header(data.run), getRequiredColumns(Sources[c]))
    THEN [state |-> "ok", at |-> now, data |-> data] ELSE Failed

Lookup(c) ==
    /\ calls[c].state \in {"idle", "ok", "failed"}
    /\ calls' = [calls EXCEPT ![c] = IF Usable(cache, now) THEN Answer(c, cache.data)
                                     ELSE [state |-> "missed", at |-> 0, data |-> None]]
    /\ UNCHANGED <<now, report, cache, flight>>

(* group.Do: lead a flight, or wait for the one in progress. *)
Do(c) ==
    /\ calls[c].state = "missed"
    /\ calls' = [calls EXCEPT ![c].state = "waiting"]
    /\ flight' = IF flight # None THEN flight
                 ELSE [leader |-> c, step |-> "recheck", began |-> now, tries |-> 0, report |-> None]
    /\ UNCHANGED <<now, report, cache>>

(* mutant: an error is the leader's only *)
LandFailsLeaderOnly ==
    /\ flight' = None
    /\ calls' = [calls EXCEPT ![flight.leader] = Failed]

(* The flight ends, and with it the calls of everyone who waits for it. *)
Land(data) ==
    /\ flight' = None
    /\ calls' = [c \in Callers |-> IF calls[c].state = "waiting" THEN Answer(c, data) ELSE calls[c]]
LandFails ==
    /\ flight' = None
    /\ calls' = [c \in Callers |-> IF calls[c].state = "waiting" THEN Failed ELSE calls[c]]

(* mutant: no second look *)
RecheckOmitted ==
    /\ flight # None /\ flight.step = "recheck"
    /\ flight' = [flight EXCEPT !.step = "token"]
    /\ UNCHANGED <<now, report, cache, calls>>

(* An earlier flight may have filled the cache since the caller missed. *)
Recheck ==
    /\ flight # None /\ flight.step = "recheck"
    /\ \/ Usable(cache, now) /\ Land(cache.data)
       \/ ~Usable(cache, now) /\ flight' = [flight EXCEPT !.step = "token"] /\ UNCHANGED calls
    /\ UNCHANGED <<now, report, cache>>

GetAccessToken ==
    /\ flight # None /\ flight.step = "token"
    /\ flight' = [flight EXCEPT !.step = "report"]
    /\ UNCHANGED <<now, report, cache, calls>>

(* The clock's part of it: a run of a report whose metadata is complete. *)
validateReportMetadata(run) == run.runAt <= now + MaxSkew /\ now - run.runAt <= MaxAge

(* doGraphQL gets the metadata. *)
GetReport ==
    /\ flight # None /\ flight.step = "report"
    /\ IF validateReportMetadata(report)
       THEN flight' = [flight EXCEPT !.step = "download", !.tries = 0, !.report = report] /\ UNCHANGED calls
       ELSE LandFails
    /\ UNCHANGED <<now, report, cache>>

(* mutant: the try is not counted *)
TriedUncounted == flight.tries
Tried == flight.tries + 1

(* doGraphQL is told to slow down, and pauses, after its last try too. *)
RateLimited ==
    /\ flight # None /\ flight.step = "report"
    /\ flight' = [flight EXCEPT !.step = "backoff", !.tries = Tried]
    /\ UNCHANGED <<now, report, cache, calls>>

PauseEnds ==
    /\ flight # None /\ flight.step = "backoff"
    /\ IF flight.tries < MaxRetries
       THEN flight' = [flight EXCEPT !.step = "report"] /\ UNCHANGED calls
       ELSE LandFails
    /\ UNCHANGED <<now, report, cache>>

(* Wiz says how many rows the run has. *)
Complete(run, rows) == rows = Len(Objects(run))

(* The download may break off between two rows.  It is cached only if it   *)
(* has what the leader requires.                                           *)
DownloadReport ==
    /\ flight # None /\ flight.step = "download"
    /\ \E rows \in 0 .. Len(Objects(flight.report)) :
         LET data == [run |-> flight.report, rows |-> rows]
             fits == validateRequiredColumns(Header(data.run), getRequiredColumns(Sources[flight.leader]))
         IN IF Complete(flight.report, rows)
            THEN /\ cache' = IF fits THEN [data |-> data, fetchedAt |-> now,
                                           freshnessDeadline |-> flight.report.runAt + MaxAge]
                             ELSE cache
                 /\ Land(data)
            ELSE LandFails /\ UNCHANGED cache
    /\ UNCHANGED <<now, report>>

(* A request fails, its answer or the metadata is incomplete, the CSV does *)
(* not parse, or the context of the leader is cancelled, also in a pause.  *)
FetchFails ==
    /\ flight # None /\ flight.step # "recheck"
    /\ LandFails
    /\ UNCHANGED <<now, report, cache>>

FlightStep ==
    FetchFails \/ Recheck \/ GetAccessToken \/ GetReport \/ RateLimited \/ PauseEnds \/ DownloadReport

Next ==
    \/ Tick \/ ReportRuns
    \/ \E c \in Callers : Lookup(c) \/ Do(c)
    \/ FlightStep

Spec == Init /\ [][Next]_vars

(* Every goroutine runs, and every request to Wiz ends: its context has    *)
(* the activity's deadline.                                                *)
FairSpec ==
    /\ Spec
    /\ \A c \in Callers : WF_vars(Do(c))
    /\ WF_vars(FlightStep)

-----------------------------------------------------------------------------
(* What the configuration supposes of a report: the theorem that every     *)
(* listing is right rests on it.                                           *)

(* The columns that may be taken for a configured name: those of that very *)
(* name, or else those whose name ends with it; its alias counts when      *)
(* there is neither.                                                       *)
Candidates(header, name) ==
    IF Named(header, name) # {} THEN Named(header, name) ELSE Suffixed(header, name)
Columns(header, name) ==
    IF Candidates(header, name) = {} /\ name \in DOMAIN columnAliases
    THEN Candidates(header, columnAliases[name]) ELSE Candidates(header, name)

(* What the version of a resource is made of. *)
Transformed(source, object) ==
    IF source.jsonColumn # <<>>
    THEN extractJSONStringField(object.properties, source.jsonField)
    ELSE stripFirstMatchingPrefix(object.version, source.stripPrefixes)

(* In a header that has what a source requires, every column it may take   *)
(* for one it reads holds what the source takes it for.                    *)
ColumnsMeant ==
    \A c \in Callers, k \in DOMAIN Contents :
        LET source == Sources[c]
            header == Contents[k].header
            holds(name, field) == \A i \in Columns(header, name) : Contents[k].holds[i] = field
        IN validateRequiredColumns(header, getRequiredColumns(source)) =>
             /\ source.resourceID # <<>> /\ holds(source.resourceID, "id")
             /\ holds(NativeType, "nativeType")
             /\ IF source.jsonColumn # <<>> THEN holds(source.jsonColumn, "properties")
                ELSE source.version # <<>> /\ holds(source.version, "version")

(* Native type, ID and version tell the objects of a source's type from    *)
(* all others, and their version is the transformed one.                   *)
TypesTold ==
    \A c \in Callers, k \in DOMAIN Contents : \A n \in DOMAIN Contents[k].objects :
        LET source == Sources[c]
            object == Contents[k].objects[n]
        IN /\ object.type = c <=>
                /\ matchesNativeTypePattern(source, object.nativeType) /\ object.id # <<>>
                /\ ~(source.jsonColumn # <<>> /\ source.skipIfEmpty /\ Transformed(source, object) = <<>>)
           /\ object.type = c => object.runs = Transformed(source, object)

-----------------------------------------------------------------------------
(* Properties. *)

(* Every variable has its type; callers wait only while a flight is under  *)
(* way, and its leader is one of them.                                     *)
TypeOK ==
    /\ now \in Times /\ report \in Report
    /\ cache \in Entry \cup {None}
    /\ flight \in Flight \cup {None}
    /\ flight # None => calls[flight.leader].state = "waiting"
    /\ calls \in [Callers -> Call]
    /\ \A c \in Callers : calls[c].state = "waiting" => flight # None

(* Whoever led the flight or filled the cache, whichever of its schemas    *)
(* and orders of columns Wiz used, and wherever a download broke off: a    *)
(* caller's listing is exactly the resources of its own type the run       *)
(* found, each with its own ID and the version it runs.                    *)
ListsItsOwn ==
    \A c \in Callers : calls[c].state = "ok" =>
        LET run == calls[c].data.run
            own == {n \in DOMAIN Objects(run) : Objects(run)[n].type = c}
        IN parseWizReport(Sources[c], Header(run), Rows(calls[c].data))
           = {[id |-> Objects(run)[n].id, version |-> Objects(run)[n].runs] : n \in own}

(* However long a report stays cached and whoever fetched it, no caller is *)
(* answered with a run older than its interval and grace, plus the time    *)
(* its fetch took, nor with one further in the future than clocks differ.  *)
FreshWhenAnswered ==
    \A c \in Callers : calls[c].state = "ok" =>
        LET age == calls[c].at - calls[c].data.run.runAt
        IN age <= MaxAge + FlightTime /\ age >= -MaxSkew

(* Callers that missed at the same time but come to group.Do one after the *)
(* other do not download the report again: no entry is replaced that could *)
(* still be used.                                                          *)
NoSecondDownload == [][cache # None /\ cache' # cache => ~Usable(cache, now)]_vars

(* Every call is answered, whoever leads the flight it waits for and       *)
(* whatever becomes of it.                                                 *)
CallsReturn == \A c \in Callers : (calls[c].state = "missed") ~> (calls[c].state \in {"ok", "failed"})
=============================================================================
