-------------------------- MODULE ScanTriggerProofs --------------------------
(***************************************************************************)
(* Proofs about ScanTrigger, for any number of replicas, requests, firings *)
(* and configurations: one scan at a time, under an ID of its own, of what *)
(* was asked for, and a schedule that follows the configuration.           *)
(***************************************************************************)
EXTENDS ScanTrigger, TLAPS, SequenceTheorems

LEMMA InitTyped == Init => TypeOK
<1> SUFFICES ASSUME Init PROVE TypeOK OBVIOUS
<1> USE TriggerAssumption DEF TriggerAssumption
<1>1. schedule \in Schedule \cup {NoSchedule} BY DEF Init, Schedule
<1>2. QED BY <1>1 DEF Init, TypeOK

(* What a start of the orchestrator leaves of the type invariant. *)
LEMMA OrchestratorTyped ==
    ASSUME TypeOK, NEW scan \in Scan, Orchestrator(scan)
    PROVE  scans' \in Seq(Scan) /\ running' \subseteq DOMAIN scans'
<1>1. scans \in Seq(Scan) /\ running \subseteq DOMAIN scans BY DEF TypeOK
<1>2. CASE UNCHANGED <<scans, running>> BY <1>1, <1>2
<1>3. CASE Begin(scan)
  <2>1. scans' = Append(scans, scan) /\ running' = running \cup {Len(scans) + 1}
    BY <1>3 DEF Begin
  <2>2. scans' \in Seq(Scan) /\ DOMAIN scans' = 1 .. Len(scans) + 1
        /\ DOMAIN scans = 1 .. Len(scans) /\ Len(scans) \in Nat
    BY <1>1, <2>1, AppendProperties, LenProperties
  <2>3. QED BY <1>1, <2>1, <2>2
<1>4. QED BY <1>2, <1>3 DEF Orchestrator

(* An answer, with or without a call of Trigger.Run.                       *)
LEMMA AnswerTyped ==
    ASSUME TypeOK, NEW q \in Requests, NEW configured \in SUBSET Types,
           Len(answers) < MaxPosts, UNCHANGED <<replica, restarts, schedule, launchers>>,
           \/ Run(q, configured)
           \/ Answer(q, 400, 0) /\ UNCHANGED <<scans, running, faults>>
    PROVE  TypeOK'
<1> USE TriggerAssumption DEF TriggerAssumption
<1> DEFINE scan == ScanOf(Decoded(q), configured)
<1>1. /\ \/ UNCHANGED <<scans, running>>
         \/ Orchestrator(scan)
      /\ \/ UNCHANGED faults
         \/ Fault
      /\ \E status \in {202, 400, 409, 500}, n \in {0, Len(scans) + 1} : Answer(q, status, n)
  BY DEF Run
<1>2. answers \in Seq([request : Requests, status : {202, 400, 409, 500}, scan : Nat])
      /\ Len(answers) \in Nat /\ Len(scans) \in Nat
  BY LenProperties DEF TypeOK
<1>3. scan \in Scan
  <2>1. Decoded(q).types \subseteq Types /\ Decoded(q).scanID \in {q.scanID, None}
    BY DEF Decoded
  <2>2. Len(answers) + 1 \in 1 .. MaxPosts BY <1>2
  <2>3. scan.scanID \in ScanIDs BY <2>1, <2>2 DEF ScanOf, ScanIDs
  <2>4. ActiveScanWorkflowID \in ScanIDs BY DEF ScanIDs
  <2>5. QED BY <2>1, <2>3, <2>4 DEF ScanOf, Scan, ScopeIsFull
<1> HIDE DEF scan
<1>4. scans' \in Seq(Scan) /\ running' \subseteq DOMAIN scans'
  BY <1>1, <1>3, OrchestratorTyped DEF TypeOK
<1>5. answers' \in Seq([request : Requests, status : {202, 400, 409, 500}, scan : Nat])
  <2>1. PICK status \in {202, 400, 409, 500}, n \in {0, Len(scans) + 1} : Answer(q, status, n)
    BY <1>1
  <2>2. [request |-> q, status |-> status, scan |-> n]
          \in [request : Requests, status : {202, 400, 409, 500}, scan : Nat]
    BY <1>2
  <2>3. QED BY <1>2, <2>1, <2>2, AppendProperties DEF Answer
<1>6. faults' \in 0 .. MaxFaults BY <1>1 DEF TypeOK, Fault
<1>7. QED BY <1>4, <1>5, <1>6 DEF TypeOK

LEMMA TriggerTyped ==
    ASSUME TypeOK, NEW q \in Requests, (\E r \in Replicas : Post(r, q)) \/ ScanStart(q)
    PROVE  TypeOK'
<1>1. ASSUME NEW r \in Replicas, Post(r, q) PROVE TypeOK'
  <2>1. replica[r].config.types \in SUBSET Types
    BY TriggerAssumption DEF TypeOK, TriggerAssumption
  <2>2. QED BY <1>1, <2>1, AnswerTyped DEF Post
<1>2. CASE ScanStart(q) BY <1>2, AnswerTyped DEF ScanStart
<1>3. QED BY <1>1, <1>2

Launcher == [state : {"none", "started", "waiting", "ended"}, types : SUBSET Types]

LEMMA SetLauncherTyped ==
    ASSUME TypeOK, NEW n \in 1 .. MaxFires, NEW state \in {"none", "started", "waiting", "ended"},
           SetLauncher(n, state)
    PROVE  launchers' \in [1 .. MaxFires -> Launcher]
<1>1. launchers \in [1 .. MaxFires -> Launcher] BY DEF TypeOK, Launcher
<1>2. launchers[n] \in Launcher BY <1>1
<1>3. [launchers[n] EXCEPT !.state = state] \in Launcher BY <1>2 DEF Launcher
<1>4. launchers' = [launchers EXCEPT ![n] = [launchers[n] EXCEPT !.state = state]]
  BY <1>1 DEF SetLauncher
<1>5. QED BY <1>1, <1>3, <1>4

LEMMA FiringTyped ==
    ASSUME TypeOK, NEW n \in 1 .. MaxFires, Fire(n) \/ LaunchScan(n) \/ LauncherEnds(n)
    PROVE  TypeOK'
<1> USE TriggerAssumption DEF TriggerAssumption
<1>1. launchers[n].types \subseteq Types /\ schedule.types \subseteq Types
  BY DEF TypeOK, Schedule, NoSchedule
<1>2. n \in 0 .. MaxFires /\ FiredWorkflowID(n) \in ScanIDs /\ ActiveScanWorkflowID \in ScanIDs
  BY DEF ScanIDs
<1>3. CASE Fire(n)
  <2> DEFINE scan == [workflowID |-> FiredWorkflowID(n), scanID |-> FiredWorkflowID(n),
                      full |-> TRUE, types |-> schedule.types, fired |-> n]
  <2>1. scan \in Scan BY <1>1, <1>2 DEF Scan
  <2> HIDE DEF scan
  <2>2. UNCHANGED <<scans, running>> \/ Orchestrator(scan) BY <1>3 DEF Fire, scan
  <2>3. scans' \in Seq(Scan) /\ running' \subseteq DOMAIN scans'
    BY <2>1, <2>2, OrchestratorTyped DEF TypeOK
  <2>4. launchers' \in [1 .. MaxFires -> Launcher]
    <3>1. CASE SetLauncher(n, "ended") BY <3>1, SetLauncherTyped
    <3>2. CASE launchers' = [launchers EXCEPT ![n] = [state |-> "started", types |-> schedule.types]]
      BY <1>1, <3>2 DEF TypeOK, Launcher
    <3>3. QED BY <1>3, <3>1, <3>2 DEF Fire
  <2>5. UNCHANGED <<replica, restarts, schedule, answers, faults>> BY <1>3 DEF Fire
  <2>6. QED BY <2>3, <2>4, <2>5 DEF TypeOK, Launcher
<1>4. CASE LaunchScan(n)
  <2> DEFINE scan == [workflowID |-> ActiveScanWorkflowID, scanID |-> ScheduledScanID(n),
                      full |-> TRUE, types |-> launchers[n].types, fired |-> n]
  <2>1. scan \in Scan BY <1>1, <1>2 DEF Scan, ScheduledScanID
  <2> HIDE DEF scan
  <2>2. UNCHANGED <<scans, running>> \/ Orchestrator(scan) BY <1>4 DEF LaunchScan, scan
  <2>3. scans' \in Seq(Scan) /\ running' \subseteq DOMAIN scans'
    BY <2>1, <2>2, OrchestratorTyped DEF TypeOK
  <2>4. launchers' \in [1 .. MaxFires -> Launcher]
    BY <1>4, SetLauncherTyped DEF LaunchScan
  <2>5. UNCHANGED <<replica, restarts, schedule, answers, faults>> BY <1>4 DEF LaunchScan
  <2>6. QED BY <2>3, <2>4, <2>5 DEF TypeOK, Launcher
<1>5. CASE LauncherEnds(n)
  <2>1. launchers' \in [1 .. MaxFires -> Launcher]
    BY <1>5, SetLauncherTyped DEF LauncherEnds
  <2>2. faults' \in 0 .. MaxFaults BY <1>5 DEF LauncherEnds, Fault, TypeOK
  <2>3. QED BY <1>5, <2>1, <2>2 DEF LauncherEnds, TypeOK, Launcher
<1>6. QED BY <1>3, <1>4, <1>5

Replica == [config : Configs, step : {"create", "describe", "update", "done", "failed"}]

LEMMA ReplicaTyped ==
    ASSUME TypeOK, NEW r \in Replicas,
           \/ Create(r) \/ Describe(r) \/ Update(r) \/ EnsureFails(r)
           \/ \E c \in Configs : Restart(r, c)
    PROVE  TypeOK'
<1> USE TriggerAssumption DEF TriggerAssumption
<1>1. replica[r].config \in Configs BY DEF TypeOK
<1>2. Wanted(replica[r].config) \in Schedule BY <1>1 DEF Wanted, Schedule
<1>3. schedule' \in Schedule \cup {NoSchedule}
  BY <1>2 DEF TypeOK, Create, Describe, Update, EnsureFails, Restart
<1>4. replica' \in [Replicas -> Replica]
  <2>1. replica \in [Replicas -> Replica] BY DEF TypeOK, Replica
  <2>2. CASE \E c \in Configs : Restart(r, c) BY <2>1, <2>2 DEF Restart, Replica
  <2>3. ASSUME NEW s \in {"done", "failed", "describe", "update"}, Step(r, s)
        PROVE  replica' \in [Replicas -> Replica]
    <3>1. [replica[r] EXCEPT !.step = s] \in Replica BY <2>1 DEF Replica
    <3>2. replica' = [replica EXCEPT ![r] = [replica[r] EXCEPT !.step = s]]
      BY <2>1, <2>3 DEF Step
    <3>3. QED BY <2>1, <3>1, <3>2
  <2>4. QED BY <2>2, <2>3 DEF Create, Describe, Update, EnsureFails
<1>5. faults' \in 0 .. MaxFaults /\ restarts' \in 0 .. MaxRestarts
  BY DEF TypeOK, Create, Describe, Update, EnsureFails, Restart, Fault
<1>6. UNCHANGED <<launchers, scans, running, answers>>
  BY DEF Create, Describe, Update, EnsureFails, Restart
<1>7. QED BY <1>3, <1>4, <1>5, <1>6 DEF TypeOK, Replica

LEMMA StepTyped == TypeOK /\ [Next]_vars => TypeOK'
<1> SUFFICES ASSUME TypeOK, [Next]_vars PROVE TypeOK' OBVIOUS
<1>1. ASSUME NEW n \in running, ScanCloses(n) PROVE TypeOK'
  BY <1>1 DEF ScanCloses, TypeOK
<1>2. ASSUME NEW q \in Requests, (\E r \in Replicas : Post(r, q)) \/ ScanStart(q) PROVE TypeOK'
  BY <1>2, TriggerTyped
<1>3. ASSUME NEW n \in 1 .. MaxFires, Fire(n) \/ LaunchScan(n) \/ LauncherEnds(n) PROVE TypeOK'
  BY <1>3, FiringTyped
<1>4. ASSUME NEW r \in Replicas,
             \/ Create(r) \/ Describe(r) \/ Update(r) \/ EnsureFails(r)
             \/ \E c \in Configs : Restart(r, c)
      PROVE  TypeOK'
  BY <1>4, ReplicaTyped
<1>5. CASE UNCHANGED vars BY <1>5 DEF vars, TypeOK
<1>6. QED BY <1>1, <1>2, <1>3, <1>4, <1>5 DEF Next, Idle

(* Every variable keeps its type. *)
THEOREM TypeCorrect == Spec => []TypeOK
BY InitTyped, StepTyped, PTL DEF Spec

(***************************************************************************)
(* At most one open scan.                                                  *)
(***************************************************************************)

(* Every open scan has the singleton ID; that alone lets Temporal tell     *)
(* that another one is open.                                               *)
UnderSingletonID == \A n \in running : scans[n].workflowID = ActiveScanWorkflowID
SingleInv == TypeOK /\ UnderSingletonID /\ SingleScan

(* A start keeps the invariant when Temporal saw no open scan, or when the *)
(* ID check turns it away.                                                 *)
LEMMA OrchestratorSingle ==
    ASSUME SingleInv, NEW scan, Orchestrator(scan),
           \/ ~IsOpen(ActiveScanWorkflowID)
           \/ scan.workflowID # ActiveScanWorkflowID
    PROVE  UnderSingletonID' /\ SingleScan'
<1>1. CASE UNCHANGED <<scans, running>>
  BY <1>1 DEF SingleInv, UnderSingletonID, SingleScan
<1>2. CASE Begin(scan) /\ scan.workflowID = ActiveScanWorkflowID
  <2>1. running = {} BY <1>2 DEF SingleInv, UnderSingletonID, IsOpen
  <2>2. running' = {Len(scans) + 1} /\ scans' = Append(scans, scan)
    BY <1>2, <2>1 DEF Begin
  <2>3. scans'[Len(scans) + 1] = scan
    BY <2>2 DEF SingleInv, TypeOK
  <2>4. QED BY <1>2, <2>2, <2>3 DEF UnderSingletonID, SingleScan
<1>3. QED BY <1>1, <1>2 DEF Orchestrator

LEMMA StepSingle == SingleInv /\ [Next]_vars => SingleInv'
<1> SUFFICES ASSUME SingleInv, [Next]_vars PROVE SingleInv' OBVIOUS
<1>1. TypeOK' BY StepTyped DEF SingleInv
<1> SUFFICES UnderSingletonID' /\ SingleScan' BY <1>1 DEF SingleInv
<1>2. ASSUME NEW n \in running, ScanCloses(n) PROVE UnderSingletonID' /\ SingleScan'
  BY <1>2 DEF ScanCloses, SingleInv, UnderSingletonID, SingleScan
<1>3. CASE UNCHANGED <<scans, running>>
  BY <1>3 DEF SingleInv, UnderSingletonID, SingleScan
<1>4. ASSUME NEW q \in Requests, NEW configured, Run(q, configured)
      PROVE  UnderSingletonID' /\ SingleScan'
  <2> DEFINE scan == ScanOf(Decoded(q), configured)
  <2>1. scan.workflowID = ActiveScanWorkflowID BY DEF ScanOf
  <2>2. UNCHANGED <<scans, running>> \/ (~IsOpen(scan.workflowID) /\ Orchestrator(scan))
    BY <1>4 DEF Run
  <2> HIDE DEF scan
  <2>3. QED BY <1>3, <2>1, <2>2, OrchestratorSingle
<1>5. ASSUME NEW n \in 1 .. MaxFires, Fire(n) PROVE UnderSingletonID' /\ SingleScan'
  <2> DEFINE scan == [workflowID |-> FiredWorkflowID(n), scanID |-> FiredWorkflowID(n),
                      full |-> TRUE, types |-> schedule.types, fired |-> n]
  <2>1. scan.workflowID # ActiveScanWorkflowID BY DEF FiredWorkflowID, ActiveScanWorkflowID
  <2>2. UNCHANGED <<scans, running>> \/ Orchestrator(scan) BY <1>5 DEF Fire
  <2> HIDE DEF scan
  <2>3. QED BY <1>3, <2>1, <2>2, OrchestratorSingle
<1>6. ASSUME NEW n \in 1 .. MaxFires, LaunchScan(n) PROVE UnderSingletonID' /\ SingleScan'
  <2> DEFINE scan == [workflowID |-> ActiveScanWorkflowID, scanID |-> ScheduledScanID(n),
                      full |-> TRUE, types |-> launchers[n].types, fired |-> n]
  <2>1. UNCHANGED <<scans, running>> \/ (~IsOpen(ActiveScanWorkflowID) /\ Orchestrator(scan))
    BY <1>6 DEF LaunchScan
  <2> HIDE DEF scan
  <2>2. QED BY <1>3, <2>1, OrchestratorSingle
<1>7. ASSUME NEW r \in Replicas,
             \/ Create(r) \/ Describe(r) \/ Update(r) \/ EnsureFails(r)
             \/ \E c \in Configs : Restart(r, c)
      PROVE  UNCHANGED <<scans, running>>
  BY <1>7 DEF Create, Describe, Update, EnsureFails, Restart
<1>8. ASSUME NEW n \in 1 .. MaxFires, LauncherEnds(n) PROVE UNCHANGED <<scans, running>>
  BY <1>8 DEF LauncherEnds
<1>9. ASSUME NEW q \in Requests, (\E r \in Replicas : Post(r, q)) \/ ScanStart(q)
      PROVE  UnderSingletonID' /\ SingleScan'
  BY <1>3, <1>4, <1>9 DEF Post, ScanStart
<1>10. QED BY <1>2, <1>3, <1>5, <1>6, <1>7, <1>8, <1>9 DEF Next, Idle, vars

(* Requests, launchers and the actions of old schedules never have two     *)
(* scans open between them.                                                *)
THEOREM OneScanAtATime == Spec => []SingleScan
<1>1. Init => SingleInv BY InitTyped DEF Init, SingleInv, UnderSingletonID, SingleScan
<1>2. SingleInv => SingleScan BY DEF SingleInv
<1>3. QED BY <1>1, <1>2, StepSingle, PTL DEF Spec

(***************************************************************************)
(* The schedule.                                                           *)
(***************************************************************************)
LEMMA InitCurrent == Init => ScheduleIsCurrent
<1> SUFFICES ASSUME Init, NEW c \in Configs, \A r \in Replicas : replica[r] = [config |-> c, step |-> "done"]
             PROVE  FALSE
  BY DEF ScheduleIsCurrent
<1>1. PICK r \in Replicas : TRUE BY TriggerAssumption DEF TriggerAssumption
<1>2. replica[r].step = "create" BY <1>1 DEF Init
<1>3. QED BY <1>1, <1>2

(* Whoever writes the schedule is not done, or done with what it wrote. *)
LEMMA EnsureCurrent ==
    ASSUME TypeOK, ScheduleIsCurrent, NEW r \in Replicas,
           \/ Create(r) \/ Describe(r) \/ Update(r) \/ EnsureFails(r)
           \/ \E c \in Configs : Restart(r, c)
    PROVE  ScheduleIsCurrent'
<1> SUFFICES ASSUME NEW c \in Configs, \A q \in Replicas : replica'[q] = [config |-> c, step |-> "done"]
             PROVE  schedule' = Wanted(c)
  BY DEF ScheduleIsCurrent
<1>1. replica'[r] = [config |-> c, step |-> "done"] OBVIOUS
<1>2. replica \in [Replicas -> Replica] BY DEF TypeOK, Replica
<1>3. ASSUME NEW s, Step(r, s) PROVE replica'[r].step = s /\ replica'[r].config = replica[r].config
  BY <1>2, <1>3 DEF Step, Replica
<1>4. CASE Create(r)
  <2>1. schedule' = Wanted(replica[r].config) /\ replica[r].config = c
    BY <1>1, <1>3, <1>4 DEF Create
  <2>2. QED BY <2>1
<1>5. CASE Describe(r)
  <2>1. schedule' = schedule /\ Matches(schedule, replica[r].config) /\ replica[r].config = c
    BY <1>1, <1>3, <1>5 DEF Describe
  <2>2. QED BY <2>1 DEF Matches
<1>6. CASE Update(r)
  <2>1. schedule' = Wanted(replica[r].config) /\ replica[r].config = c
    BY <1>1, <1>3, <1>6 DEF Update
  <2>2. QED BY <2>1
<1>7. CASE EnsureFails(r) BY <1>1, <1>3, <1>7 DEF EnsureFails
<1>8. CASE \E d \in Configs : Restart(r, d)
  <2>1. replica'[r].step = "create" BY <1>2, <1>8 DEF Restart
  <2>2. QED BY <1>1, <2>1
<1>9. QED BY <1>4, <1>5, <1>6, <1>7, <1>8

LEMMA StepCurrent == TypeOK /\ ScheduleIsCurrent /\ [Next]_vars => ScheduleIsCurrent'
<1> SUFFICES ASSUME TypeOK, ScheduleIsCurrent, [Next]_vars PROVE ScheduleIsCurrent' OBVIOUS
<1>1. CASE UNCHANGED <<replica, schedule>> BY <1>1 DEF ScheduleIsCurrent
<1>2. ASSUME NEW r \in Replicas,
             \/ Create(r) \/ Describe(r) \/ Update(r) \/ EnsureFails(r)
             \/ \E c \in Configs : Restart(r, c)
      PROVE  ScheduleIsCurrent'
  BY <1>2, EnsureCurrent
<1>3. QED BY <1>1, <1>2 DEF Next, Idle, vars, ScanCloses, Post, ScanStart, Fire, LaunchScan, LauncherEnds

(* Once every replica runs one configuration and finished EnsureSchedule   *)
(* without an error, the schedule is that configuration's, whatever it was *)
(* before, in whatever order the replicas created, described and updated   *)
(* it, and whatever failed or was redeployed on the way.                   *)
THEOREM ScheduleFollows == Spec => []ScheduleIsCurrent
BY InitCurrent, StepCurrent, TypeCorrect, PTL DEF Spec

(***************************************************************************)
(* ScanIDs.                                                                *)
(***************************************************************************)
(* Where a ScanID can come from: a caller, the UUID of a request answered  *)
(* already, or a firing whose launcher has started its scan.               *)
Origin(id) ==
    \/ id[1] = "caller"
    \/ \E k \in 1 .. Len(answers) : id = <<"uuid", k>>
    \/ \E k \in 1 .. MaxFires :
          id = FiredWorkflowID(k) /\ launchers[k].state \in {"waiting", "ended"}
IDInv == \A n \in DOMAIN scans : Origin(scans[n].scanID)

LEMMA BeginIs ==
    ASSUME TypeOK, NEW scan, Begin(scan)
    PROVE  /\ Len(scans) \in Nat /\ DOMAIN scans = 1 .. Len(scans)
           /\ DOMAIN scans' = 1 .. Len(scans) + 1 /\ Len(scans') = Len(scans) + 1
           /\ \A n \in 1 .. Len(scans) : scans'[n] = scans[n]
           /\ scans'[Len(scans) + 1] = scan
<1>1. scans \in Seq(Scan) /\ scans' = Append(scans, scan) BY DEF TypeOK, Begin
<1>2. QED BY <1>1

(* A started scan whose ID is a caller's or nobody else's. *)
LEMMA BeginOwn ==
    ASSUME TypeOK, OwnScanID, IDInv, NEW scan, Begin(scan),
           \A id : Origin(id) => Origin(id)', Origin(scan.scanID)',
           Origin(scan.scanID) => scan.scanID[1] = "caller"
    PROVE  OwnScanID' /\ IDInv'
<1>1. IDInv'
  <2> SUFFICES ASSUME NEW n \in DOMAIN scans' PROVE Origin(scans[n].scanID)' BY DEF IDInv
  <2>1. CASE n \in DOMAIN scans
    <3>1. scans'[n] = scans[n] BY <2>1, BeginIs
    <3>2. Origin(scans[n].scanID) BY <2>1 DEF IDInv
    <3>3. PICK id : id = scans[n].scanID OBVIOUS
    <3>4. Origin(id)' BY <3>2, <3>3
    <3>5. QED BY <3>1, <3>3, <3>4
  <2>2. CASE n = Len(scans) + 1
    <3>1. scans'[n] = scan BY <2>2, BeginIs
    <3>2. QED BY <3>1
  <2>3. QED BY <2>1, <2>2, BeginIs
<1>2. OwnScanID'
  <2> SUFFICES ASSUME NEW m \in DOMAIN scans', NEW n \in DOMAIN scans', m # n,
                      scans'[m].scanID = scans'[n].scanID
               PROVE  scans'[m].scanID[1] = "caller"
    BY DEF OwnScanID
  <2>1. CASE m \in DOMAIN scans /\ n \in DOMAIN scans
    BY <2>1, BeginIs DEF OwnScanID
  <2>2. CASE m \in DOMAIN scans /\ n = Len(scans) + 1
    <3>1. Origin(scan.scanID) /\ scans'[m].scanID = scan.scanID BY <2>2, BeginIs DEF IDInv
    <3>2. QED BY <3>1
  <2>3. CASE m = Len(scans) + 1 /\ n \in DOMAIN scans
    <3>1. Origin(scan.scanID) /\ scans'[m].scanID = scan.scanID BY <2>3, BeginIs DEF IDInv
    <3>2. QED BY <3>1
  <2>4. QED BY <2>1, <2>2, <2>3, BeginIs
<1>3. QED BY <1>1, <1>2

LEMMA UnchangedOwn ==
    ASSUME OwnScanID, IDInv, UNCHANGED scans, \A id : Origin(id) => Origin(id)'
    PROVE  OwnScanID' /\ IDInv'
<1>1. OwnScanID' BY DEF OwnScanID
<1>2. ASSUME NEW n \in DOMAIN scans PROVE Origin(scans[n].scanID)'
  <2>1. PICK id : id = scans[n].scanID OBVIOUS
  <2>2. Origin(id)' BY <2>1 DEF IDInv
  <2>3. QED BY <2>1, <2>2
<1>3. QED BY <1>1, <1>2 DEF IDInv

(* What an answer says, and what Trigger.Run did. *)
LEMMA RunIs ==
    ASSUME TypeOK, NEW q \in Requests, NEW configured, Run(q, configured)
    PROVE  LET scan == ScanOf(Decoded(q), configured)
           IN /\ \E status \in {202, 409, 500}, n \in Nat :
                    /\ Answer(q, status, n)
                    /\ status # 202 => n = 0
                    /\ status = 202 => Begin(scan) /\ scan.types # {} /\ n = Len(scans) + 1
              /\ UNCHANGED <<scans, running>> \/ Begin(scan)
<1> DEFINE scan == ScanOf(Decoded(q), configured)
<1>1. Len(scans) + 1 \in Nat BY LenProperties DEF TypeOK
<1>2. scan.workflowID = ActiveScanWorkflowID BY DEF ScanOf
<1> HIDE DEF scan
<1>3. \/ Answer(q, 500, 0) /\ (UNCHANGED <<scans, running>> \/ Orchestrator(scan))
      \/ Answer(q, 409, 0) /\ UNCHANGED <<scans, running>>
      \/ Answer(q, 202, Len(scans) + 1) /\ scan.types # {} /\ Orchestrator(scan)
  BY DEF Run, scan
<1>4. Orchestrator(scan) /\ scan.types # {} => Begin(scan) BY <1>2 DEF Orchestrator
<1>5. Orchestrator(scan) => UNCHANGED <<scans, running>> \/ Begin(scan) BY DEF Orchestrator
<1>6. QED BY <1>1, <1>3, <1>4, <1>5 DEF scan

LEMMA AnswerIs ==
    ASSUME TypeOK, NEW q, NEW status, NEW n, Answer(q, status, n)
    PROVE  /\ Len(answers) \in Nat /\ DOMAIN answers = 1 .. Len(answers)
           /\ DOMAIN answers' = 1 .. Len(answers) + 1 /\ Len(answers') = Len(answers) + 1
           /\ \A i \in 1 .. Len(answers) : answers'[i] = answers[i]
           /\ answers'[Len(answers) + 1] = [request |-> q, status |-> status, scan |-> n]
<1>1. /\ answers \in Seq([request : Requests, status : {202, 400, 409, 500}, scan : Nat])
      /\ answers' = Append(answers, [request |-> q, status |-> status, scan |-> n])
  BY DEF TypeOK, Answer
<1>2. QED BY <1>1

LEMMA TriggerOwn ==
    ASSUME TypeOK, OwnScanID, IDInv, NEW q \in Requests, NEW configured,
           UNCHANGED launchers,
           \/ Run(q, configured)
           \/ Answer(q, 400, 0) /\ UNCHANGED <<scans, running, faults>>
    PROVE  OwnScanID' /\ IDInv'
<1>1. PICK status, n : Answer(q, status, n) BY RunIs
<1>2. Len(answers) \in Nat /\ Len(answers') = Len(answers) + 1 BY <1>1, AnswerIs
<1>3. \A id : Origin(id) => Origin(id)' BY <1>2 DEF Origin
<1>4. CASE UNCHANGED scans BY <1>3, <1>4, UnchangedOwn
<1>5. CASE Begin(ScanOf(Decoded(q), configured))
  <2>1. PICK scan : scan = ScanOf(Decoded(q), configured) OBVIOUS
  <2>2. scan.scanID = <<"uuid", Len(answers) + 1>> \/ scan.scanID[1] = "caller"
    BY <2>1 DEF ScanOf
  <2>3. Origin(scan.scanID)' BY <1>2, <2>2 DEF Origin
  <2>4. Origin(scan.scanID) => scan.scanID[1] = "caller"
    BY <1>2, <2>2 DEF Origin, FiredWorkflowID
  <2>5. QED BY <1>3, <1>5, <2>1, <2>3, <2>4, BeginOwn
<1>6. QED BY <1>4, <1>5, RunIs

LEMMA FiringOwn ==
    ASSUME TypeOK, OwnScanID, IDInv, NEW n \in 1 .. MaxFires,
           Fire(n) \/ LaunchScan(n) \/ LauncherEnds(n)
    PROVE  OwnScanID' /\ IDInv'
<1>1. launchers \in [1 .. MaxFires -> Launcher] BY DEF TypeOK, Launcher
<1>2. answers' = answers BY DEF Fire, LaunchScan, LauncherEnds
<1>3. \A k \in 1 .. MaxFires :
          launchers[k].state \in {"waiting", "ended"} => launchers'[k].state \in {"waiting", "ended"}
  <2>1. ASSUME NEW st \in {"waiting", "ended"}, SetLauncher(n, st)
        PROVE  \A k \in 1 .. MaxFires : launchers[k].state \in {"waiting", "ended"} =>
                   launchers'[k].state \in {"waiting", "ended"}
    BY <1>1, <2>1 DEF SetLauncher, Launcher
  <2>2. CASE Fire(n) BY <1>1, <2>1, <2>2 DEF Fire
  <2>3. QED BY <2>1, <2>2 DEF LaunchScan, LauncherEnds
<1>4. \A id : Origin(id) => Origin(id)' BY <1>2, <1>3 DEF Origin
<1>5. CASE UNCHANGED scans BY <1>4, <1>5, UnchangedOwn
<1>6. CASE Fire(n)
  <2>1. PICK scan : scan = [workflowID |-> FiredWorkflowID(n), scanID |-> FiredWorkflowID(n),
                            full |-> TRUE, types |-> schedule.types, fired |-> n]
    OBVIOUS
  <2>2. scan.workflowID # ActiveScanWorkflowID
    BY <2>1 DEF FiredWorkflowID, ActiveScanWorkflowID
  <2>3. UNCHANGED scans BY <1>6, <2>1, <2>2 DEF Fire, Orchestrator
  <2>4. QED BY <1>5, <2>3
<1>7. CASE LaunchScan(n)
  <2>1. PICK scan : scan = [workflowID |-> ActiveScanWorkflowID, scanID |-> ScheduledScanID(n),
                            full |-> TRUE, types |-> launchers[n].types, fired |-> n]
    OBVIOUS
  <2>2. UNCHANGED scans \/ (Begin(scan) /\ SetLauncher(n, "waiting"))
    BY <1>7, <2>1 DEF LaunchScan, Orchestrator
  <2>3. CASE Begin(scan) /\ SetLauncher(n, "waiting")
    <3>1. launchers[n].state = "started" BY <1>7 DEF LaunchScan
    <3>2. launchers'[n].state = "waiting" BY <1>1, <2>3 DEF SetLauncher, Launcher
    <3>3. scan.scanID = FiredWorkflowID(n) BY <2>1 DEF ScheduledScanID
    <3>4. Origin(scan.scanID)' BY <3>2, <3>3 DEF Origin
    <3>5. ~Origin(scan.scanID) BY <3>1, <3>3 DEF Origin, FiredWorkflowID
    <3>6. QED BY <1>4, <2>3, <3>4, <3>5, BeginOwn
  <2>4. QED BY <1>5, <2>2, <2>3
<1>8. CASE LauncherEnds(n) BY <1>5, <1>8 DEF LauncherEnds
<1>9. QED BY <1>6, <1>7, <1>8

LEMMA StepOwn == TypeOK /\ OwnScanID /\ IDInv /\ [Next]_vars => OwnScanID' /\ IDInv'
<1> SUFFICES ASSUME TypeOK, OwnScanID, IDInv, [Next]_vars PROVE OwnScanID' /\ IDInv' OBVIOUS
<1>1. CASE UNCHANGED <<scans, answers, launchers>>
  <2>1. \A id : Origin(id) => Origin(id)' BY <1>1 DEF Origin
  <2>2. QED BY <1>1, <2>1, UnchangedOwn
<1>2. ASSUME NEW q \in Requests, (\E r \in Replicas : Post(r, q)) \/ ScanStart(q)
      PROVE  OwnScanID' /\ IDInv'
  BY <1>2, TriggerOwn DEF Post, ScanStart
<1>3. ASSUME NEW n \in 1 .. MaxFires, Fire(n) \/ LaunchScan(n) \/ LauncherEnds(n)
      PROVE  OwnScanID' /\ IDInv'
  BY <1>3, FiringOwn
<1>4. QED
  BY <1>1, <1>2, <1>3 DEF Next, Idle, vars, ScanCloses, Create, Describe, Update, EnsureFails, Restart

(* No two scans share a ScanID (and so a snapshot ID, and the keys of the  *)
(* workers' caches) unless a caller gave it to both: a request without one *)
(* gets a new UUID, a firing its own workflow ID, whatever is retried,     *)
(* refused or lost.                                                        *)
THEOREM ScanIDsDiffer == Spec => []OwnScanID
<1>1. Init => OwnScanID /\ IDInv BY DEF Init, OwnScanID, IDInv
<1>2. QED BY <1>1, StepOwn, TypeCorrect, PTL DEF Spec

(***************************************************************************)
(* What callers are told.                                                  *)
(***************************************************************************)
(* The scan s is what the request q asks for. *)
Told(q, s) ==
    LET read == q.body \in {"sized", "flags"}
        limited == read /\ q.types # {}
    IN /\ limited => s.types = q.types /\ ~s.full
       /\ ~limited => s.full /\ \E c \in Configs : c.types = s.types /\ s.types # {}
       /\ q.body = "flags" => limited
       /\ read /\ q.scanID # None => s.scanID = <<"caller", q.scanID>>

(* An accepted request names a scan of the history, every other one none. *)
AnswerInv ==
    \A i \in DOMAIN answers :
        /\ answers[i].status # 202 => answers[i].scan = 0
        /\ answers[i].status = 202 =>
              /\ answers[i].scan \in DOMAIN scans
              /\ Told(answers[i].request, scans[answers[i].scan])
              /\ \A j \in DOMAIN answers : answers[j].scan = answers[i].scan => j = i

(* A scan never changes once it is in the history. *)
LEMMA ScansGrow ==
    ASSUME TypeOK, NEW scan, UNCHANGED scans \/ Begin(scan)
    PROVE  \A n \in DOMAIN scans : n \in DOMAIN scans' /\ scans'[n] = scans[n]
BY BeginIs

LEMMA AnswersKept ==
    ASSUME AnswerInv, UNCHANGED answers,
           \A n \in DOMAIN scans : n \in DOMAIN scans' /\ scans'[n] = scans[n]
    PROVE  AnswerInv'
BY DEF AnswerInv

(* What Trigger.Run starts for a request is what the request asks for, if  *)
(* the configured types are those of a configuration, or none for a client *)
LEMMA StartIsTold ==
    ASSUME NEW q \in Requests, NEW configured,
           q.body # "flags" => \E c \in Configs : c.types = configured,
           q.body = "flags" => configured = {},
           ScanOf(Decoded(q), configured).types # {}
    PROVE  Told(q, ScanOf(Decoded(q), configured))
<1>1. q = [scanID |-> q.scanID, types |-> q.types, body |-> q.body]
  BY TriggerAssumption DEF TriggerAssumption
<1>2. CASE q.body \in {"sized", "flags"}
  BY <1>2 DEF Told, ScanOf, Decoded, ScopeIsFull
<1>3. CASE q.body \notin {"sized", "flags"}
  <2>1. Decoded(q).types = {} BY <1>1, <1>3 DEF Decoded
  <2>2. QED BY <1>3, <2>1 DEF Told, ScanOf, ScopeIsFull
<1>4. QED BY <1>2, <1>3

LEMMA TriggerTold ==
    ASSUME TypeOK, AnswerInv, NEW q \in Requests, NEW configured,
           q.body # "flags" => \E c \in Configs : c.types = configured,
           q.body = "flags" => configured = {},
           \/ Run(q, configured)
           \/ Answer(q, 400, 0) /\ UNCHANGED <<scans, running, faults>>
    PROVE  AnswerInv'
<1>1. PICK scan : scan = ScanOf(Decoded(q), configured) OBVIOUS
<1>2. PICK status, n : /\ Answer(q, status, n)
                       /\ status # 202 => n = 0
                       /\ status = 202 => Begin(scan) /\ scan.types # {} /\ n = Len(scans) + 1
  BY <1>1, RunIs
<1>3. UNCHANGED scans \/ Begin(scan) BY <1>1, RunIs
<1>4. \A k \in DOMAIN scans : k \in DOMAIN scans' /\ scans'[k] = scans[k] BY <1>3, ScansGrow
<1>5. PICK new : new = Len(answers) + 1 OBVIOUS
<1>6. /\ DOMAIN answers = 1 .. Len(answers) /\ Len(answers) \in Nat
      /\ DOMAIN answers' = DOMAIN answers \cup {new} /\ new \notin DOMAIN answers
      /\ \A i \in DOMAIN answers : answers'[i] = answers[i]
      /\ answers'[new] = [request |-> q, status |-> status, scan |-> n]
  <2>1. /\ Len(answers) \in Nat /\ DOMAIN answers = 1 .. Len(answers)
        /\ DOMAIN answers' = 1 .. Len(answers) + 1
        /\ \A i \in 1 .. Len(answers) : answers'[i] = answers[i]
        /\ answers'[Len(answers) + 1] = [request |-> q, status |-> status, scan |-> n]
    BY <1>2, AnswerIs
  <2>2. 1 .. Len(answers) + 1 = (1 .. Len(answers)) \cup {Len(answers) + 1} BY <2>1
  <2>3. QED BY <1>5, <2>1, <2>2
<1>7. ASSUME status = 202
      PROVE  n \in DOMAIN scans' /\ Told(q, scans'[n]) /\ n \notin DOMAIN scans /\ n # 0
  <2>1. Told(q, scan) BY <1>1, <1>2, <1>7, StartIsTold
  <2>2. QED BY <1>2, <1>7, <2>1, BeginIs
<1> SUFFICES ASSUME NEW i \in DOMAIN answers'
             PROVE  /\ answers'[i].status # 202 => answers'[i].scan = 0
                    /\ answers'[i].status = 202 =>
                          /\ answers'[i].scan \in DOMAIN scans'
                          /\ Told(answers'[i].request, scans'[answers'[i].scan])
                          /\ \A j \in DOMAIN answers' :
                                answers'[j].scan = answers'[i].scan => j = i
  BY DEF AnswerInv, Told
<1>8. ASSUME NEW j \in DOMAIN answers PROVE answers[j].scan \in DOMAIN scans \cup {0}
  <2>1. answers[j].status = 202 \/ answers[j].status # 202 OBVIOUS
  <2>2. QED BY <2>1 DEF AnswerInv
<1>9. 0 \notin DOMAIN scans BY LenProperties DEF TypeOK
<1>10. CASE i = new
  <2>1. answers'[i].status = status /\ answers'[i].scan = n /\ answers'[i].request = q
    BY <1>6, <1>10
  <2>2. ASSUME status = 202, NEW j \in DOMAIN answers', answers'[j].scan = n PROVE j = i
    <3>1. j \notin DOMAIN answers BY <1>6, <1>7, <1>8, <2>2
    <3>2. QED BY <1>6, <1>10, <3>1
  <2>3. QED BY <1>2, <1>7, <2>1, <2>2
<1>11. CASE i \in DOMAIN answers
  <2>1. answers'[i] = answers[i] BY <1>6, <1>11
  <2>2. ASSUME answers[i].status = 202, NEW j \in DOMAIN answers', answers'[j].scan = answers[i].scan
        PROVE  j = i
    <3>1. answers[i].scan \in DOMAIN scans BY <1>11, <2>2 DEF AnswerInv
    <3>2. j # new
      <4>1. n \notin DOMAIN scans BY <1>2, <1>7, <1>9
      <4>2. QED BY <1>6, <2>2, <3>1, <4>1
    <3>3. j \in DOMAIN answers /\ answers[j].scan = answers[i].scan BY <1>6, <2>2, <3>2
    <3>4. QED BY <1>11, <2>2, <3>3 DEF AnswerInv
  <2>3. answers[i].status = 202 => /\ answers[i].scan \in DOMAIN scans'
                                   /\ Told(answers[i].request, scans'[answers[i].scan])
    BY <1>4, <1>11 DEF AnswerInv
  <2>4. answers[i].status # 202 => answers[i].scan = 0 BY <1>11 DEF AnswerInv
  <2>5. QED BY <2>1, <2>2, <2>3, <2>4
<1>12. QED BY <1>6, <1>10, <1>11

LEMMA StepTold == TypeOK /\ AnswerInv /\ [Next]_vars => AnswerInv'
<1> SUFFICES ASSUME TypeOK, AnswerInv, [Next]_vars PROVE AnswerInv' OBVIOUS
<1>1. CASE UNCHANGED <<scans, answers>> BY <1>1 DEF AnswerInv
<1>2. ASSUME NEW q \in Requests, NEW r \in Replicas, Post(r, q) PROVE AnswerInv'
  <2>1. replica[r].config \in Configs BY DEF TypeOK
  <2>2. QED BY <1>2, <2>1, TriggerTold DEF Post
<1>3. ASSUME NEW q \in Requests, ScanStart(q) PROVE AnswerInv'
  BY <1>3, TriggerTold DEF ScanStart
<1>4. ASSUME NEW n \in 1 .. MaxFires, Fire(n) \/ LaunchScan(n) \/ LauncherEnds(n) PROVE AnswerInv'
  <2>1. answers' = answers BY <1>4 DEF Fire, LaunchScan, LauncherEnds
  <2>2. \E scan : UNCHANGED scans \/ Begin(scan)
    BY <1>4 DEF Fire, LaunchScan, LauncherEnds, Orchestrator
  <2>3. QED BY <2>1, <2>2, ScansGrow, AnswersKept
<1>5. QED
  BY <1>1, <1>2, <1>3, <1>4 DEF Next, Idle, vars, ScanCloses, Create, Describe, Update, EnsureFails, Restart

(* A caller told 202 has a scan of its own, with the ScanID and the types  *)
(* it asked for, or all the types of a deployed configuration: whatever    *)
(* replies are lost, no two callers are told of one scan.                  *)
THEOREM AnswersAreTrue == Spec => []AcceptedAsAsked
<1>1. Init => AnswerInv BY DEF Init, AnswerInv
<1>2. AnswerInv => AcceptedAsAsked BY DEF AnswerInv, AcceptedAsAsked, Told
<1>3. QED BY <1>1, <1>2, StepTold, TypeCorrect, PTL DEF Spec
=============================================================================
