----------------------------- MODULE ScanTrigger -----------------------------
(***************************************************************************)
(* How scans get started: POST /scan and the command line client through   *)
(* scan.Trigger, the Temporal schedule through ScheduledScanWorkflow, and  *)
(* the singleton workflow ID they all contend on (pkg/scan, pkg/schedule,  *)
(* cmd/cli, the head of pkg/workflow/orchestrator/workflow.go).  Server    *)
(* replicas create or update the schedule when they start.                 *)
(*                                                                         *)
(*   replica    each server process: its configuration and how far its     *)
(*              EnsureSchedule got                                         *)
(*   schedule   the schedule Temporal holds, or NoSchedule                 *)
(*   launchers  each firing's ScheduledScanWorkflow: how far it got, and   *)
(*              the types the schedule's action gave it                    *)
(*   scans      the orchestrator runs that passed the ID check, in order   *)
(*   running    the numbers of those that are still open                   *)
(*   answers    what the callers of Trigger.Run asked for and were told    *)
(*   faults     how many calls the environment has made fail               *)
(***************************************************************************)
EXTENDS Naturals, Sequences, FiniteSets

CONSTANTS
    Types,        \* the resource types
    Replicas,     \* the server processes
    Configs,      \* the configurations deployed: [cron, types]
    Requests,     \* what callers ask for: [scanID, types, body]
    MaxRestarts,  \* bound: how many restarts and redeployments
    MaxFires,     \* bound: how often the schedule fires
    MaxPosts,     \* bound: how many requests are sent
    MaxFaults,    \* bound: how many calls to Temporal fail
    MaxEvents,    \* bound: how many of these four happen altogether
    None          \* no ScanID given, no cron expression

Bodies == {"none", "sized", "unsized", "malformed", "flags"}

ASSUME TriggerAssumption ==
    /\ \A c \in Configs : c.types \subseteq Types
    /\ \A q \in Requests : /\ q = [scanID |-> q.scanID, types |-> q.types, body |-> q.body]
                           /\ q.types \subseteq Types /\ q.body \in Bodies
    /\ Replicas # {}
    /\ MaxRestarts \in Nat /\ MaxFires \in Nat /\ MaxPosts \in Nat /\ MaxFaults \in Nat
    /\ MaxEvents \in Nat

VARIABLES replica, restarts, schedule, launchers, scans, running, answers, faults
vars == <<replica, restarts, schedule, launchers, scans, running, answers, faults>>

ActiveScanWorkflowID == <<"active", 0>>
(* Temporal appends the fire time to the ID of a scheduled workflow. *)
FiredWorkflowID(n) == <<"fired", n>>

Schedule == [cron : {c.cron : c \in Configs}, types : SUBSET Types,
             overlap : {"skip", "allow"}, workflow : {"launcher", "orchestrator"}]
NoSchedule == [cron |-> None, types |-> {}, overlap |-> "allow", workflow |-> "none"]

(* What earlier versions may have left: another configuration, another     *)
(* overlap policy, the orchestrator itself as the scheduled workflow.      *)
Init ==
    /\ replica \in [Replicas -> [config : Configs, step : {"create"}]]
    /\ restarts = 0
    /\ schedule \in {NoSchedule} \cup
         [cron : {c.cron : c \in Configs}, types : {c.types : c \in Configs},
          overlap : {"skip", "allow"}, workflow : {"launcher", "orchestrator"}]
    /\ launchers = [n \in 1 .. MaxFires |-> [state |-> "none", types |-> {}]]
    /\ scans = <<>>
    /\ running = {}
    /\ answers = <<>>
    /\ faults = 0

Fired == {n \in 1 .. MaxFires : launchers[n].state # "none"}
MoreEvents == restarts + Cardinality(Fired) + Len(answers) + faults < MaxEvents

Fault == MoreEvents /\ faults < MaxFaults /\ faults' = faults + 1

-----------------------------------------------------------------------------
(* Starting the orchestrator. *)

(* Temporal refuses a second open execution of a workflow ID. *)
IsOpen(workflowID) == \E n \in running : scans[n].workflowID = workflowID

Begin(scan) ==
    /\ scans' = Append(scans, scan)
    /\ running' = running \cup {Len(scans) + 1}

(* mutant: no check of the workflow ID *)
OrchestratorUnchecked(scan) == IF scan.types = {} THEN UNCHANGED <<scans, running>> ELSE Begin(scan)

(* OrchestratorWorkflow refuses to run under any other ID, and without     *)
(* resource types.                                                         *)
Orchestrator(scan) ==
    IF scan.workflowID # ActiveScanWorkflowID \/ scan.types = {}
    THEN UNCHANGED <<scans, running>>
    ELSE Begin(scan)

(* The scan completes, fails, times out or is terminated with its parent. *)
ScanCloses(n) ==
    /\ running' = running \ {n}
    /\ UNCHANGED <<replica, restarts, schedule, launchers, scans, answers, faults>>

-----------------------------------------------------------------------------
(* POST /scan, and "scan start" of the command line client. *)

(* An empty list means a full scan. *)
ScopeIsFull(types) == types = {}

(* mutant: the length is tested the wrong way round *)
DecodedUnsized(q) == IF q.body \in {"unsized", "flags"} THEN q
                     ELSE [q EXCEPT !.scanID = None, !.types = {}]

(* What ServeHTTP decodes (a body of unknown length is not read), or the   *)
(* client's flags.                                                         *)
Decoded(q) == IF q.body \in {"sized", "flags"} THEN q
              ELSE [q EXCEPT !.scanID = None, !.types = {}]

(* The scan Trigger.Run asks for: a ScanID of its own unless the caller    *)
(* gave one, and the types configured if the caller named none.            *)
ScanOf(in, configured) ==
    [workflowID |-> ActiveScanWorkflowID,
     scanID |-> IF in.scanID = None THEN <<"uuid", Len(answers) + 1>> ELSE <<"caller", in.scanID>>,
     full   |-> ScopeIsFull(in.types),
     types  |-> IF in.types = {} THEN configured ELSE in.types,
     fired  |-> 0]

Answer(q, status, n) == answers' = Append(answers, [request |-> q, status |-> status, scan |-> n])

(* Trigger.Run.  The reply of Temporal may be lost: an error although the  *)
(* scan runs.                                                              *)
Run(q, configured) ==
    LET scan == ScanOf(Decoded(q), configured) IN
    \/ scan.types = {} /\ Answer(q, 500, 0) /\ UNCHANGED <<scans, running, faults>>
    \/ /\ scan.types # {}
       /\ \/ /\ IsOpen(scan.workflowID)
             /\ Answer(q, 409, 0) /\ UNCHANGED <<scans, running, faults>>
          \/ /\ ~IsOpen(scan.workflowID)
             /\ Orchestrator(scan) /\ Answer(q, 202, Len(scans) + 1) /\ UNCHANGED faults
          \/ /\ Fault /\ Answer(q, 500, 0)
             /\ \/ ~IsOpen(scan.workflowID) /\ Orchestrator(scan)
                \/ UNCHANGED <<scans, running>>

Post(r, q) ==
    /\ MoreEvents /\ Len(answers) < MaxPosts /\ q.body # "flags"
    /\ \/ q.body = "malformed" /\ Answer(q, 400, 0) /\ UNCHANGED <<scans, running, faults>>
       \/ q.body # "malformed" /\ Run(q, replica[r].config.types)
    /\ UNCHANGED <<replica, restarts, schedule, launchers>>

(* The client loads no configuration.  It answers with the same errors.    *)
ScanStart(q) ==
    /\ MoreEvents /\ Len(answers) < MaxPosts /\ q.body = "flags"
    /\ Run(q, {})
    /\ UNCHANGED <<replica, restarts, schedule, launchers>>

-----------------------------------------------------------------------------
(* The schedule. *)

SetLauncher(n, state) == launchers' = [launchers EXCEPT ![n].state = state]

(* The schedule fires: it starts the launcher, or the orchestrator itself  *)
(* when an old version of the program made the schedule.  The overlap      *)
(* policy looks at what earlier firings started.                           *)
Fire(n) ==
    /\ MoreEvents /\ schedule # NoSchedule
    /\ launchers[n].state = "none" /\ \A m \in 1 .. n - 1 : launchers[m].state # "none"
    /\ \/ /\ schedule.overlap = "skip" /\ \E m \in 1 .. n - 1 : launchers[m].state # "ended"
          /\ SetLauncher(n, "ended") /\ UNCHANGED <<scans, running>>
       \/ /\ schedule.overlap = "allow" \/ \A m \in 1 .. n - 1 : launchers[m].state = "ended"
          /\ \/ /\ schedule.workflow = "launcher"
                /\ launchers' = [launchers EXCEPT ![n] = [state |-> "started", types |-> schedule.types]]
                /\ UNCHANGED <<scans, running>>
             \/ /\ schedule.workflow = "orchestrator"
                /\ SetLauncher(n, "ended")
                /\ Orchestrator([workflowID |-> FiredWorkflowID(n), scanID |-> FiredWorkflowID(n),
                                 full |-> TRUE, types |-> schedule.types, fired |-> n])
    /\ UNCHANGED <<replica, restarts, schedule, answers, faults>>

(* mutant: the child defaults to its own workflow ID *)
ScheduledScanIDOmitted(n) == ActiveScanWorkflowID
(* The launcher passes its own ID on as the ScanID. *)
ScheduledScanID(n) == FiredWorkflowID(n)

(* ScheduledScanWorkflow starts the scan as its child under the singleton  *)
(* ID; Temporal refuses while a scan is open, and the launcher fails.      *)
LaunchScan(n) ==
    /\ launchers[n].state = "started"
    /\ \/ IsOpen(ActiveScanWorkflowID) /\ SetLauncher(n, "ended") /\ UNCHANGED <<scans, running>>
       \/ /\ ~IsOpen(ActiveScanWorkflowID) /\ SetLauncher(n, "waiting")
          /\ Orchestrator([workflowID |-> ActiveScanWorkflowID, scanID |-> ScheduledScanID(n),
                           full |-> TRUE, types |-> launchers[n].types, fired |-> n])
    /\ UNCHANGED <<replica, restarts, schedule, answers, faults>>

(* The child is over, or the launcher's own 2 h are. *)
LauncherEnds(n) ==
    /\ \/ /\ launchers[n].state = "waiting" /\ UNCHANGED faults
          /\ \A k \in running : scans[k].fired # n
       \/ launchers[n].state \in {"started", "waiting"} /\ Fault
    /\ SetLauncher(n, "ended")
    /\ UNCHANGED <<replica, restarts, schedule, scans, running, answers>>

-----------------------------------------------------------------------------
(* EnsureSchedule, which every replica runs when it starts. *)

Step(r, s) == replica' = [replica EXCEPT ![r].step = s]

Wanted(c) == [cron |-> c.cron, types |-> c.types, overlap |-> "skip", workflow |-> "launcher"]

Create(r) ==
    /\ replica[r].step = "create"
    /\ IF replica[r].config.types = {} THEN Step(r, "failed") /\ UNCHANGED schedule
       ELSE IF schedule = NoSchedule
       THEN Step(r, "done") /\ schedule' = Wanted(replica[r].config)
       ELSE Step(r, "describe") /\ UNCHANGED schedule
    /\ UNCHANGED <<restarts, launchers, scans, running, answers, faults>>

(* mutant: only the cron expression and the overlap policy are compared *)
MatchesSpecOnly(s, c) == s.cron = c.cron /\ s.overlap = "skip"
Matches(s, c) == s = Wanted(c)

(* The server may describe the spec in a normalised form, which is never   *)
(* what was asked for.                                                     *)
Describe(r) ==
    /\ replica[r].step = "describe"
    /\ \E normalised \in BOOLEAN :
          Step(r, IF ~normalised /\ Matches(schedule, replica[r].config) THEN "done" ELSE "update")
    /\ UNCHANGED <<restarts, schedule, launchers, scans, running, answers, faults>>

Update(r) ==
    /\ replica[r].step = "update"
    /\ schedule' = Wanted(replica[r].config)
    /\ Step(r, "done")
    /\ UNCHANGED <<restarts, launchers, scans, running, answers, faults>>

(* A call fails, perhaps after it took effect; the server starts anyway. *)
EnsureFails(r) ==
    /\ replica[r].step \in {"create", "describe", "update"}
    /\ Fault
    /\ Step(r, "failed")
    /\ \/ UNCHANGED schedule
       \/ /\ \/ replica[r].step = "create" /\ schedule = NoSchedule
             \/ replica[r].step = "update"
          /\ replica[r].config.types # {}
          /\ schedule' = Wanted(replica[r].config)
    /\ UNCHANGED <<restarts, launchers, scans, running, answers>>

(* A replica restarts, perhaps with a new configuration. *)
Restart(r, c) ==
    /\ MoreEvents /\ restarts < MaxRestarts
    /\ restarts' = restarts + 1
    /\ replica' = [replica EXCEPT ![r] = [config |-> c, step |-> "create"]]
    /\ UNCHANGED <<schedule, launchers, scans, running, answers, faults>>

-----------------------------------------------------------------------------
(* Nothing is left to do. *)
Idle ==
    /\ \A r \in Replicas : replica[r].step \in {"done", "failed"}
    /\ \A n \in 1 .. MaxFires : launchers[n].state \in {"none", "ended"}
    /\ running = {}
    /\ UNCHANGED vars

Next ==
    \/ \E n \in running : ScanCloses(n)
    \/ \E r \in Replicas, q \in Requests : Post(r, q)
    \/ \E q \in Requests : ScanStart(q)
    \/ \E n \in 1 .. MaxFires : Fire(n) \/ LaunchScan(n) \/ LauncherEnds(n)
    \/ \E r \in Replicas : Create(r) \/ Describe(r) \/ Update(r) \/ EnsureFails(r)
    \/ \E r \in Replicas, c \in Configs : Restart(r, c)
    \/ Idle

Spec == Init /\ [][Next]_vars

-----------------------------------------------------------------------------
(* Properties. *)

ScanIDs == {ActiveScanWorkflowID} \cup {FiredWorkflowID(n) : n \in 1 .. MaxFires}
           \cup {<<"uuid", n>> : n \in 1 .. MaxPosts} \cup {<<"caller", q.scanID>> : q \in Requests}
Scan == [workflowID : ScanIDs, scanID : ScanIDs, full : BOOLEAN, types : SUBSET Types,
         fired : 0 .. MaxFires]

(* Every variable has its type. *)
TypeOK ==
    /\ replica \in [Replicas -> [config : Configs,
                                 step : {"create", "describe", "update", "done", "failed"}]]
    /\ restarts \in 0 .. MaxRestarts
    /\ schedule \in Schedule \cup {NoSchedule}
    /\ launchers \in [1 .. MaxFires -> [state : {"none", "started", "waiting", "ended"},
                                         types : SUBSET Types]]
    /\ scans \in Seq(Scan) /\ running \subseteq DOMAIN scans
    /\ answers \in Seq([request : Requests, status : {202, 400, 409, 500}, scan : Nat])
    /\ faults \in 0 .. MaxFaults

(* "Only one collector scan can run at a time": requests, launchers and    *)
(* the actions of old schedules never have two scans open between them,    *)
(* although Temporal only keeps equal workflow IDs apart.                  *)
SingleScan == \A m, n \in running : m = n

(* Two scans share a ScanID, and so a snapshot ID and a key in every       *)
(* cache, only if a caller chose it, although all run under one workflow   *)
(* ID (ScheduledScanWorkflow passes its own ID on).                        *)
OwnScanID ==
    \A m, n \in DOMAIN scans :
        scans[m].scanID = scans[n].scanID /\ m # n => scans[m].scanID[1] = "caller"

(* "ResourceTypes limits the scan to the given resource config IDs", "an   *)
(* empty body triggers a full fleet scan": a request answered 202 has      *)
(* started a scan of its own with the ScanID and the types of its body, or *)
(* all types of a deployed configuration if it names none.  Of a body that *)
(* does not declare its length, which is never read, only the first is     *)
(* claimed.  The client, which knows no configuration, always says what it *)
(* scans.                                                                  *)
AcceptedAsAsked ==
    \A i \in DOMAIN answers :
        LET q == answers[i].request
            s == scans[answers[i].scan]
            read == q.body \in {"sized", "flags"}
            limited == read /\ q.types # {}
        IN answers[i].status = 202 =>
              /\ \A j \in DOMAIN answers : answers[j].scan = answers[i].scan => j = i
              /\ q.body # "unsized" =>
                    /\ limited => s.types = q.types /\ ~s.full
                    /\ ~limited => s.full /\ \E c \in Configs : c.types = s.types /\ s.types # {}
                    /\ q.body = "flags" => limited
                    /\ read /\ q.scanID # None => s.scanID = <<"caller", q.scanID>>

(* Once every replica runs one configuration and finished EnsureSchedule   *)
(* without an error, the schedule starts the launcher with that            *)
(* configuration and skips overlaps, whatever was there before, whichever  *)
(* replica came first, and whatever failed or was redeployed on the way.   *)
ScheduleIsCurrent ==
    \A c \in Configs :
        (\A r \in Replicas : replica[r] = [config |-> c, step |-> "done"])
            => schedule = Wanted(c)
=============================================================================
