---------------------------- MODULE ScanPipeline ----------------------------
(***************************************************************************)
(* Successive scans end to end: OrchestratorWorkflow fans out one detection*)
(* child per resource type (here: the contract the children implement),    *)
(* collects their results, has a worker persist a snapshot of its findings *)
(* store, and tells the emitter (pkg/workflow/orchestrator).               *)
(*                                                                         *)
(*   status, acked, store   of the children and workers: DetectionContract *)
(*   scan       the orchestrator run that holds the singleton workflow ID, *)
(*              with its input and how far it got                          *)
(*   outcome    per ScanID, how its orchestrator run ended                 *)
(*   writers    the CreateSnapshot attempts executing on some worker       *)
(*   snapshots  per ScanID, the dated object in the snapshot store         *)
(*   latest     the ScanID of the snapshot under latest.json (0: none)     *)
(*   notified   the ScanIDs the emitter was told about                     *)
(*   faults     how many faults the environment has injected so far        *)
(*                                                                         *)
(* ScanIDs are numbered in the order the scans start.  The findings a      *)
(* child publishes are represented by the ScanID they were made for.       *)
(* Only one orchestrator runs at a time; ScanTrigger models why.           *)
(***************************************************************************)
EXTENDS Naturals, FiniteSets

CONSTANTS
    Types,         \* the configured resource types
    Workers,       \* the worker processes polling the task queue
    MaxScans,      \* bound: how many scans are started
    MaxTries,      \* attempts of CreateSnapshot and NotifyEmitter (3 in the code)
    MaxFaults,     \* bound: how many faults the environment injects
    LateAttempts,  \* may an activity attempt outlive its timeout?
    Restarts       \* may a worker process restart?

ASSUME PipelineAssumption ==
    /\ IsFiniteSet(Workers)
    /\ MaxScans \in Nat \ {0}
    /\ MaxTries \in Nat \ {0}
    /\ MaxFaults \in Nat
    /\ LateAttempts \in BOOLEAN
    /\ Restarts \in BOOLEAN

VARIABLES status, acked, store, scan, outcome, writers, snapshots, latest, notified, faults
children == <<status, acked, store>>
vars == <<children, scan, outcome, writers, snapshots, latest, notified, faults>>

ScanIDs == 1 .. MaxScans
NoFindings == 0
Contents == ScanIDs \cup {NoFindings}

Children == INSTANCE DetectionContract WITH Findings <- ScanIDs

(* The findings by type of a snapshot: one entry per type that was listed. *)
Listing == UNION {[ts -> Contents] : ts \in SUBSET Types}
Snapshot == [full : BOOLEAN, expected : SUBSET Types, found : Listing]
NoSnapshot == [full |-> FALSE, expected |-> {}, found |-> [t \in {} |-> NoFindings]]

Phases == {"idle", "detect", "snapshot", "notify"}
Scan == [id : 0 .. MaxScans, phase : Phases, full : BOOLEAN, webhook : BOOLEAN,
         types : SUBSET Types, successful : SUBSET Types,
         try : 1 .. MaxTries, busy : BOOLEAN]
Writer == [scan : ScanIDs, try : 1 .. MaxTries, host : Workers,
           step : {"started", "built", "dated"},
           types : SUBSET Types, snapshot : Snapshot]

Init ==
    /\ status = [t \in Types |-> "idle"]
    /\ acked = [t \in Types |-> FALSE]
    /\ store = [w \in Workers |-> [t \in Types |-> NoFindings]]
    /\ scan = [id |-> 0, phase |-> "idle", full |-> FALSE, webhook |-> FALSE,
               types |-> {}, successful |-> {}, try |-> 1, busy |-> FALSE]
    /\ outcome = [s \in ScanIDs |-> "none"]
    /\ writers = {}
    /\ snapshots = [s \in ScanIDs |-> NoSnapshot]
    /\ latest = 0
    /\ notified = {}
    /\ faults = 0

Fault == faults < MaxFaults /\ faults' = faults + 1

-----------------------------------------------------------------------------
(* The children, as the contract lets them act. *)

Publish(t, w) ==
    /\ scan.phase = "detect"
    /\ \/ Children!PublishAcked(t, w, scan.id)
       \/ status[t] = "running" /\ Children!PublishUnacked(t, w, scan.id)
    /\ UNCHANGED <<scan, outcome, writers, snapshots, latest, notified, faults>>

(* An attempt that a scan gave up on stores its findings after all. *)
PublishLate(t, w, s) ==
    /\ LateAttempts /\ s <= scan.id
    /\ Fault
    /\ Children!PublishUnacked(t, w, s)
    /\ UNCHANGED <<scan, outcome, writers, snapshots, latest, notified>>

ChildEnds(t) ==
    /\ Children!Succeed(t) \/ Children!Fail(t)
    /\ UNCHANGED <<scan, outcome, writers, snapshots, latest, notified, faults>>

-----------------------------------------------------------------------------
(* The orchestrator. *)

Finish(result) ==
    /\ scan' = [scan EXCEPT !.phase = "idle", !.busy = FALSE]
    /\ outcome' = [outcome EXCEPT ![scan.id] = result]

(* A full scan covers every configured type.  An empty list is refused. *)
StartScan(full, types, webhook) ==
    /\ scan.phase = "idle" /\ scan.id < MaxScans
    /\ full => types = Types
    /\ scan' = [id |-> scan.id + 1, phase |-> IF types = {} THEN "idle" ELSE "detect",
                full |-> full, webhook |-> webhook, types |-> types,
                successful |-> {}, try |-> 1, busy |-> FALSE]
    /\ outcome' = [outcome EXCEPT ![scan.id + 1] =
                     IF types = {} THEN "failed" ELSE "running"]
    /\ status' = [t \in Types |-> IF t \in types THEN "running" ELSE "idle"]
    /\ acked' = [t \in Types |-> FALSE]
    /\ UNCHANGED <<store, writers, snapshots, latest, notified, faults>>

(* mutant: one success vouches for every type *)
CollectAll ==
    LET successful == {t \in scan.types : status[t] = "succeeded"} IN
    /\ scan.phase = "detect"
    /\ \A t \in scan.types : status[t] # "running"
    /\ IF successful = {} THEN Finish("failed")
       ELSE /\ scan' = [scan EXCEPT !.phase = "snapshot", !.successful = scan.types]
            /\ UNCHANGED outcome
    /\ UNCHANGED <<children, writers, snapshots, latest, notified, faults>>

(* The types whose child succeeded go into the snapshot; a failed child    *)
(* fails the scan only if no other succeeded.                              *)
Collect ==
    LET successful == {t \in scan.types : status[t] = "succeeded"} IN
    /\ scan.phase = "detect"
    /\ \A t \in scan.types : status[t] # "running"
    /\ IF successful = {} THEN Finish("failed")
       ELSE /\ scan' = [scan EXCEPT !.phase = "snapshot", !.successful = successful]
            /\ UNCHANGED outcome
    /\ UNCHANGED <<children, writers, snapshots, latest, notified, faults>>

(* Temporal accepts the reply of an attempt only while it waits for it. *)
Live(a) == scan.phase = "snapshot" /\ scan.busy /\ a.scan = scan.id /\ a.try = scan.try
Quiet == \A a \in writers : ~Live(a)

(* mutant: attempts without end *)
AttemptFailedForever == scan' = [scan EXCEPT !.busy = FALSE] /\ UNCHANGED outcome

AttemptFailed ==
    IF scan.try < MaxTries
    THEN scan' = [scan EXCEPT !.try = @ + 1, !.busy = FALSE] /\ UNCHANGED outcome
    ELSE Finish("failed")

SnapshotSaved ==
    IF scan.webhook
    THEN /\ scan' = [scan EXCEPT !.phase = "notify", !.try = 1, !.busy = FALSE]
         /\ UNCHANGED outcome
    ELSE Finish("completed")

(* CreateSnapshot is not pinned: any worker may pick the attempt up. *)
StartSnapshot(w) ==
    /\ scan.phase = "snapshot" /\ ~scan.busy
    /\ scan' = [scan EXCEPT !.busy = TRUE]
    /\ writers' = writers \cup
         {[scan |-> scan.id, try |-> scan.try, host |-> w, step |-> "started",
           types |-> scan.successful,
           snapshot |-> [full |-> scan.full, expected |-> scan.types,
                         found |-> [t \in {} |-> NoFindings]]]}
    /\ UNCHANGED <<children, outcome, snapshots, latest, notified, faults>>

AttemptTimesOut ==
    /\ scan.phase = "snapshot" /\ scan.busy /\ Quiet
    /\ AttemptFailed
    /\ UNCHANGED <<children, writers, snapshots, latest, notified, faults>>

AttemptIsLate ==
    /\ LateAttempts /\ scan.phase = "snapshot" /\ scan.busy /\ ~Quiet
    /\ Fault
    /\ AttemptFailed
    /\ UNCHANGED <<children, writers, snapshots, latest, notified>>

(* The webhook is tried MaxTries times; a failure does not fail the scan.  *)
(* The emitter may have been told although the reply was lost.             *)
Notify ==
    /\ scan.phase = "notify"
    /\ notified' = notified \cup {scan.id}
    /\ Finish("completed")
    /\ UNCHANGED <<children, writers, snapshots, latest, faults>>

NotifyFails ==
    /\ scan.phase = "notify"
    /\ Fault
    /\ \E told \in BOOLEAN : notified' = IF told THEN notified \cup {scan.id} ELSE notified
    /\ IF scan.try < MaxTries
       THEN scan' = [scan EXCEPT !.try = @ + 1] /\ UNCHANGED outcome
       ELSE Finish("completed")
    /\ UNCHANGED <<children, writers, snapshots, latest>>

(* The 2 h execution timeout ends the orchestrator and its children. *)
ScanTimesOut ==
    /\ scan.phase # "idle"
    /\ LateAttempts \/ Quiet
    /\ Fault
    /\ Finish("failed")
    /\ status' = [t \in Types |-> IF status[t] = "running" THEN "failed" ELSE status[t]]
    /\ acked' = [t \in Types |-> FALSE]
    /\ UNCHANGED <<store, writers, snapshots, latest, notified>>

-----------------------------------------------------------------------------
(* The CreateSnapshot activity. *)

(* mutant: any type will do *)
CompleteAny(snap) == snap.full => DOMAIN snap.found # {}

(* validateSnapshotCompleteness: a full scan's snapshot has every expected *)
(* type as a key, and is not empty; the summary of Builder adds up.        *)
Complete(snap) ==
    snap.full => /\ snap.expected # {}
                 /\ DOMAIN snap.found # {}
                 /\ snap.expected \subseteq DOMAIN snap.found

AttemptEnds(a) == writers' = writers \ {a}

(* The attempt returns an error: the snapshot is not complete, or a put    *)
(* failed, which leaves what earlier puts wrote.                           *)
ReturnError(a) ==
    /\ AttemptEnds(a)
    /\ IF Live(a) THEN AttemptFailed ELSE UNCHANGED <<scan, outcome>>
    /\ UNCHANGED <<children, snapshots, latest, notified>>

(* ListFindings of the successful types, one call after the other, from    *)
(* the store of this worker.                                               *)
ListFindings(a, t) ==
    /\ a.step = "started" /\ t \in a.types \ DOMAIN a.snapshot.found
    /\ writers' = (writers \ {a}) \cup
         {[a EXCEPT !.snapshot.found = [u \in DOMAIN @ \cup {t} |->
                                          IF u = t THEN store[a.host][t] ELSE @[u]]]}
    /\ UNCHANGED <<children, scan, outcome, snapshots, latest, notified, faults>>

(* All types are listed: Build and validate. *)
Validate(a) ==
    /\ a.step = "started" /\ DOMAIN a.snapshot.found = a.types
    /\ \/ /\ Complete(a.snapshot)
          /\ writers' = (writers \ {a}) \cup {[a EXCEPT !.step = "built"]}
          /\ UNCHANGED <<children, scan, outcome, snapshots, latest, notified, faults>>
       \/ ~Complete(a.snapshot) /\ ReturnError(a) /\ UNCHANGED faults

PutFails(a) ==
    /\ a.step \in {"built", "dated"}
    /\ Fault
    /\ ReturnError(a)

PutDated(a) ==
    /\ a.step = "built"
    /\ snapshots' = [snapshots EXCEPT ![a.scan] = a.snapshot]
    /\ writers' = (writers \ {a}) \cup {[a EXCEPT !.step = "dated"]}
    /\ UNCHANGED <<children, scan, outcome, latest, notified, faults>>

(* mutants: latest.json before the dated object; latest.json written once *)
PutLatestEarly(a) ==
    /\ a.step \in {"built", "dated"}
    /\ latest' = a.scan
    /\ AttemptEnds(a)
    /\ \/ Live(a) /\ SnapshotSaved /\ UNCHANGED faults
       \/ ~Live(a) /\ UNCHANGED <<scan, outcome, faults>>
       \/ Live(a) /\ Fault /\ UNCHANGED <<scan, outcome>>
    /\ UNCHANGED <<children, snapshots, notified>>
PutLatestOnce(a) ==
    /\ a.step = "dated"
    /\ latest' = IF latest = 0 THEN a.scan ELSE latest
    /\ AttemptEnds(a)
    /\ \/ Live(a) /\ SnapshotSaved /\ UNCHANGED faults
       \/ ~Live(a) /\ UNCHANGED <<scan, outcome, faults>>
       \/ Live(a) /\ Fault /\ UNCHANGED <<scan, outcome>>
    /\ UNCHANGED <<children, snapshots, notified>>

(* The second put, and the reply: delivered, too late, or lost. *)
PutLatest(a) ==
    /\ a.step = "dated"
    /\ latest' = a.scan
    /\ AttemptEnds(a)
    /\ \/ Live(a) /\ SnapshotSaved /\ UNCHANGED faults
       \/ ~Live(a) /\ UNCHANGED <<scan, outcome, faults>>
       \/ Live(a) /\ Fault /\ UNCHANGED <<scan, outcome>>
    /\ UNCHANGED <<children, snapshots, notified>>

(* A worker process restarts: its store and its attempts are gone. *)
WorkerRestarts(w) ==
    /\ Restarts
    /\ Fault
    /\ Children!Forget(w)
    /\ writers' = {a \in writers : a.host # w}
    /\ UNCHANGED <<scan, outcome, snapshots, latest, notified>>

(* Nothing is left to do. *)
AllScansEnded ==
    /\ scan.phase = "idle" /\ scan.id = MaxScans /\ writers = {}
    /\ UNCHANGED vars

-----------------------------------------------------------------------------
WriterStep(a) ==
    \/ \E t \in Types : ListFindings(a, t)
    \/ Validate(a) \/ PutDated(a) \/ PutLatest(a)

OrchestratorStep ==
    \/ Collect
    \/ \E w \in Workers : StartSnapshot(w)
    \/ AttemptTimesOut
    \/ Notify

Next ==
    \/ \E full, webhook \in BOOLEAN, types \in SUBSET Types : StartScan(full, types, webhook)
    \/ \E t \in Types : ChildEnds(t)
    \/ \E t \in Types, w \in Workers : Publish(t, w)
    \/ \E t \in Types, w \in Workers, s \in ScanIDs : PublishLate(t, w, s)
    \/ OrchestratorStep
    \/ \E a \in writers : WriterStep(a) \/ PutFails(a)
    \/ AttemptIsLate \/ NotifyFails \/ ScanTimesOut
    \/ \E w \in Workers : WorkerRestarts(w)
    \/ AllScansEnded

Spec == Init /\ [][Next]_vars

(* Every child ends (Detection!ScanEnds), Temporal drives the orchestrator, *)
(* and a live worker finishes what it executes.                             *)
FairSpec ==
    /\ Spec
    /\ \A t \in Types : WF_vars(ChildEnds(t))
    /\ WF_vars(OrchestratorStep)
    /\ WF_vars(\E a \in writers : WriterStep(a))

-----------------------------------------------------------------------------
(* Properties. *)

(* Every variable has its type. *)
TypeOK ==
    /\ status \in [Types -> {"idle", "running", "succeeded", "failed"}]
    /\ acked \in [Types -> BOOLEAN]
    /\ store \in [Workers -> [Types -> Contents]]
    /\ scan \in Scan
    /\ scan.phase # "idle" => scan.id \in ScanIDs
    /\ outcome \in [ScanIDs -> {"none", "running", "completed", "failed"}]
    /\ writers \in SUBSET Writer
    /\ snapshots \in [ScanIDs -> Snapshot]
    /\ latest \in 0 .. MaxScans
    /\ notified \in SUBSET ScanIDs
    /\ faults \in 0 .. MaxFaults

(* A persisted snapshot of a full scan has every type that the scan was to *)
(* cover, whatever child failed, attempt was repeated or reply was lost    *)
(* (validateSnapshotCompleteness before SaveSnapshot).                     *)
FullSnapshotComplete ==
    \A s \in ScanIDs :
        snapshots[s].full => DOMAIN snapshots[s].found = Types

(* The emitter is told of a scan only when its snapshot is durable, and    *)
(* latest.json never names a snapshot without a dated object.              *)
ReadersFindSnapshot ==
    \A s \in notified \cup ({latest} \ {0}) : snapshots[s] # NoSnapshot

(* A scan that completed without late attempts left latest.json on its own *)
(* snapshot, and nothing but a later scan's snapshot moves it on.          *)
CompletedIsLatest ==
    ~LateAttempts =>
        \A s \in ScanIDs : outcome[s] = "completed" =>
            /\ snapshots[s] # NoSnapshot
            /\ latest >= s

(* When workers neither multiply nor restart nor leave attempts behind, a  *)
(* snapshot shows exactly what the detection of its own scan published for *)
(* each of its types: no gap, nothing of an earlier scan, although the     *)
(* store and CreateSnapshot are not tied to a scan.                        *)
SnapshotIsOfItsScan ==
    (Cardinality(Workers) = 1 /\ ~Restarts /\ ~LateAttempts) =>
        \A s \in ScanIDs : \A t \in DOMAIN snapshots[s].found : snapshots[s].found[t] = s

(* Every scan that starts ends and gives the singleton ID back. *)
ScanReturns == (scan.phase # "idle") ~> (scan.phase = "idle")

(* "the configured resource families that must appear in the persisted     *)
(* snapshot": each family of a persisted full snapshot has findings in it. *)
FamiliesAppear ==
    \A s \in ScanIDs : snapshots[s].full =>
        \A t \in snapshots[s].expected : snapshots[s].found[t] # NoFindings

-----------------------------------------------------------------------------
(* The inductive invariant behind the safety properties. *)

Persisted(s) == snapshots[s] # NoSnapshot

(* What the orchestrator knows: the scope it was started with, that there  *)
(* is something to persist, and that it only notifies of what is durable.  *)
ScanInv ==
    /\ scan.full => scan.types = Types
    /\ scan.phase = "snapshot" => scan.successful # {}
    /\ scan.phase = "notify" => Persisted(scan.id) /\ (~LateAttempts => latest = scan.id)
    /\ latest <= scan.id
    /\ \A s \in ScanIDs : outcome[s] = "completed" => s <= scan.id

(* What every executing attempt carries, also one nobody waits for. *)
WriterInv(a) ==
    /\ a.scan <= scan.id
    /\ a.types # {}
    /\ a.snapshot.full => a.snapshot.expected = Types
    /\ DOMAIN a.snapshot.found \subseteq a.types
    /\ a.step # "started" => Complete(a.snapshot) /\ DOMAIN a.snapshot.found = a.types
    /\ a.step = "dated" => Persisted(a.scan)

(* Without late attempts the only attempt is the one that is waited for. *)
NoLateWriter ==
    ~LateAttempts => /\ \A a \in writers : Live(a)
                     /\ \A a, b \in writers : a = b

IInv ==
    /\ TypeOK /\ ScanInv /\ NoLateWriter
    /\ \A a \in writers : WriterInv(a)
    /\ FullSnapshotComplete /\ ReadersFindSnapshot /\ CompletedIsLatest
=============================================================================
