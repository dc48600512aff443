------------------------- MODULE ScanPipelineProofs -------------------------
(***************************************************************************)
(* Proofs about ScanPipeline, for any number of types, workers, scans and  *)
(* faults, with late attempts and restarts.                                *)
(***************************************************************************)
EXTENDS ScanPipeline, FiniteSetTheorems, TLAPS

LEMMA ListingOf ==
    ASSUME NEW ts \in SUBSET Types, NEW f \in [ts -> Contents]
    PROVE  f \in Listing
BY DEF Listing

LEMMA NoListing == [t \in {} |-> NoFindings] \in Listing
<1>1. [t \in {} |-> NoFindings] \in [{} -> Contents] OBVIOUS
<1>2. QED BY <1>1, ListingOf

(***************************************************************************)
(* Type correctness.                                                       *)
(***************************************************************************)
LEMMA InitType == Init => TypeOK
<1> SUFFICES ASSUME Init PROVE TypeOK OBVIOUS
<1> USE PipelineAssumption DEF PipelineAssumption, Init, TypeOK
<1>1. scan \in Scan BY DEF Scan, Phases
<1>2. snapshots \in [ScanIDs -> Snapshot] BY NoListing DEF NoSnapshot, Snapshot
<1>3. QED BY <1>1, <1>2 DEF Contents, NoFindings

Outcomes == {"none", "running", "completed", "failed"}

(* The part of TypeOK about the orchestrator. *)
ScanTyped ==
    /\ scan \in Scan
    /\ scan.phase # "idle" => scan.id \in ScanIDs
    /\ outcome \in [ScanIDs -> Outcomes]

LEMMA FinishType ==
    ASSUME TypeOK, NEW r \in Outcomes, Finish(r)
    PROVE  ScanTyped'
BY DEF ScanTyped, TypeOK, Finish, Scan, Phases, Outcomes

LEMMA AttemptFailedType ==
    ASSUME TypeOK, AttemptFailed, scan.phase # "idle"
    PROVE  ScanTyped'
<1>1. CASE scan.try < MaxTries
  <2>1. scan.try + 1 \in 1 .. MaxTries
    BY <1>1, PipelineAssumption DEF PipelineAssumption, TypeOK, Scan
  <2>2. scan' = [scan EXCEPT !.try = scan.try + 1, !.busy = FALSE] /\ outcome' = outcome
    BY <1>1 DEF AttemptFailed
  <2>3. QED BY <2>1, <2>2 DEF ScanTyped, TypeOK, Scan, Outcomes
<1>2. CASE ~(scan.try < MaxTries)
  BY <1>2, FinishType DEF AttemptFailed, Outcomes
<1>3. QED BY <1>1, <1>2

LEMMA SnapshotSavedType ==
    ASSUME TypeOK, SnapshotSaved, scan.phase # "idle"
    PROVE  ScanTyped'
<1>1. CASE scan.webhook
  <2>1. 1 \in 1 .. MaxTries BY PipelineAssumption DEF PipelineAssumption
  <2>2. scan' = [scan EXCEPT !.phase = "notify", !.try = 1, !.busy = FALSE] /\ outcome' = outcome
    BY <1>1 DEF SnapshotSaved
  <2>3. QED BY <2>1, <2>2 DEF ScanTyped, TypeOK, Scan, Phases, Outcomes
<1>2. CASE ~scan.webhook
  BY <1>2, FinishType DEF SnapshotSaved, Outcomes
<1>3. QED BY <1>1, <1>2

LEMMA FaultType ==
    ASSUME TypeOK, Fault PROVE faults' \in 0 .. MaxFaults
BY PipelineAssumption DEF PipelineAssumption, Fault, TypeOK

LEMMA ReturnErrorType ==
    ASSUME TypeOK, NEW a \in writers, ReturnError(a), faults' \in 0 .. MaxFaults
    PROVE  TypeOK'
<1>1. ScanTyped'
  <2>1. CASE Live(a)
    BY <2>1, AttemptFailedType DEF ReturnError, Live
  <2>2. CASE ~Live(a)
    BY <2>2 DEF ReturnError, ScanTyped, TypeOK, Outcomes
  <2>3. QED BY <2>1, <2>2
<1>2. writers' \in SUBSET Writer BY DEF ReturnError, AttemptEnds, TypeOK
<1>3. QED BY <1>1, <1>2 DEF ScanTyped, ReturnError, children, TypeOK, Outcomes

(* The attempt after it has listed one more type. *)
Listed(a, t) ==
    [a EXCEPT !.snapshot.found = [u \in DOMAIN @ \cup {t} |->
                                    IF u = t THEN store[a.host][t] ELSE @[u]]]

LEMMA ListedWriter ==
    ASSUME TypeOK, NEW a \in writers, NEW t \in Types
    PROVE  Listed(a, t) \in Writer
<1> DEFINE found == a.snapshot.found
           more == [u \in DOMAIN found \cup {t} |-> IF u = t THEN store[a.host][t] ELSE found[u]]
<1>1. a \in Writer /\ a.snapshot \in Snapshot /\ found \in Listing
  BY DEF TypeOK, Writer, Snapshot
<1>2. PICK ts \in SUBSET Types : found \in [ts -> Contents] BY <1>1 DEF Listing
<1>3. store[a.host][t] \in Contents BY <1>1 DEF TypeOK, Writer
<1>4. more \in [ts \cup {t} -> Contents] BY <1>2, <1>3
<1>5. more \in Listing BY <1>4, ListingOf
<1>6. [a.snapshot EXCEPT !.found = more] \in Snapshot BY <1>1, <1>5 DEF Snapshot
<1>7. Listed(a, t) = [a EXCEPT !.snapshot = [a.snapshot EXCEPT !.found = more]]
  BY <1>1 DEF Listed, Writer, Snapshot
<1>8. QED BY <1>1, <1>6, <1>7 DEF Writer

(* What each kind of step leaves typed. *)
LEMMA StepType == TypeOK /\ [Next]_vars => TypeOK'
<1> SUFFICES ASSUME TypeOK, [Next]_vars PROVE TypeOK' OBVIOUS
<1> USE DEF Outcomes
<1>1. ASSUME NEW full \in BOOLEAN, NEW webhook \in BOOLEAN, NEW types \in SUBSET Types,
             StartScan(full, types, webhook)
      PROVE  TypeOK'
  <2>1. scan.id + 1 \in ScanIDs
    BY <1>1, PipelineAssumption DEF PipelineAssumption, StartScan, TypeOK, Scan, ScanIDs
  <2>2. 1 \in 1 .. MaxTries BY PipelineAssumption DEF PipelineAssumption
  <2>3. scan' \in Scan
    BY <1>1, <2>1, <2>2 DEF StartScan, TypeOK, Scan, Phases, ScanIDs
  <2>4. outcome' \in [ScanIDs -> Outcomes]
    BY <1>1 DEF StartScan, TypeOK
  <2>5. status' \in [Types -> {"idle", "running", "succeeded", "failed"}]
    BY <1>1 DEF StartScan
  <2>6. acked' \in [Types -> BOOLEAN] BY <1>1 DEF StartScan
  <2>7. QED BY <1>1, <2>3, <2>4, <2>5, <2>6 DEF StartScan, TypeOK
<1>2. ASSUME NEW t \in Types, ChildEnds(t) PROVE TypeOK'
  BY <1>2 DEF ChildEnds, Children!Succeed, Children!Fail, TypeOK
<1>3. ASSUME NEW t \in Types, NEW w \in Workers, Publish(t, w) PROVE TypeOK'
  <2>1. scan.id \in Contents
    BY <1>3 DEF TypeOK, Scan, Contents, ScanIDs, NoFindings
  <2>2. store' \in [Workers -> [Types -> Contents]]
    BY <1>3, <2>1 DEF Publish, Children!PublishAcked, Children!PublishUnacked, Children!Write, TypeOK
  <2>3. status' \in [Types -> {"idle", "running", "succeeded", "failed"}] /\ acked' \in [Types -> BOOLEAN]
    BY <1>3 DEF Publish, Children!PublishAcked, Children!PublishUnacked, TypeOK
  <2>4. QED BY <1>3, <2>2, <2>3 DEF Publish, TypeOK
<1>4. ASSUME NEW t \in Types, NEW w \in Workers, NEW s \in ScanIDs, PublishLate(t, w, s) PROVE TypeOK'
  <2>1. store' \in [Workers -> [Types -> Contents]]
    BY <1>4 DEF PublishLate, Children!PublishUnacked, Children!Write, TypeOK, Contents
  <2>2. faults' \in 0 .. MaxFaults
    BY <1>4, PipelineAssumption DEF PipelineAssumption, PublishLate, Fault, TypeOK
  <2>3. QED BY <1>4, <2>1, <2>2 DEF PublishLate, Children!PublishUnacked, TypeOK
<1>5. CASE Collect
  <2>1. ScanTyped'
    <3> DEFINE successful == {t \in scan.types : status[t] = "succeeded"}
    <3>1. CASE successful = {}
      <4>1. Finish("failed") BY <1>5, <3>1 DEF Collect
      <4>2. QED BY <4>1, FinishType
    <3>2. CASE successful # {}
      <4>1. scan' = [scan EXCEPT !.phase = "snapshot", !.successful = successful] /\ outcome' = outcome
        BY <1>5, <3>2 DEF Collect
      <4>2. successful \in SUBSET Types BY DEF TypeOK, Scan
      <4>3. QED BY <1>5, <4>1, <4>2 DEF ScanTyped, Collect, TypeOK, Scan, Phases
    <3>3. QED BY <3>1, <3>2
  <2>2. QED BY <1>5, <2>1 DEF ScanTyped, Collect, children, TypeOK
<1>6. ASSUME NEW w \in Workers, StartSnapshot(w) PROVE TypeOK'
  <2>1. scan' \in Scan BY <1>6 DEF StartSnapshot, TypeOK, Scan
  <2> DEFINE a == [scan |-> scan.id, try |-> scan.try, host |-> w, step |-> "started",
                   types |-> scan.successful,
                   snapshot |-> [full |-> scan.full, expected |-> scan.types,
                                 found |-> [t \in {} |-> NoFindings]]]
  <2>2. a \in Writer
    <3>1. scan.id \in ScanIDs BY <1>6 DEF StartSnapshot, TypeOK
    <3>2. a.snapshot \in Snapshot BY NoListing DEF Snapshot, TypeOK, Scan
    <3>3. QED BY <3>1, <3>2 DEF Writer, TypeOK, Scan
  <2>3. QED BY <1>6, <2>1, <2>2 DEF StartSnapshot, children, TypeOK
<1>7. CASE AttemptTimesOut
  <2>1. ScanTyped' BY <1>7, AttemptFailedType DEF AttemptTimesOut
  <2>2. QED BY <1>7, <2>1 DEF ScanTyped, AttemptTimesOut, children, TypeOK
<1>8. CASE AttemptIsLate
  <2>1. ScanTyped' BY <1>8, AttemptFailedType DEF AttemptIsLate
  <2>2. faults' \in 0 .. MaxFaults BY <1>8, FaultType DEF AttemptIsLate
  <2>3. QED BY <1>8, <2>1, <2>2 DEF ScanTyped, AttemptIsLate, children, TypeOK
<1>9. CASE Notify
  <2>1. ScanTyped' BY <1>9, FinishType DEF Notify
  <2>2. notified' \in SUBSET ScanIDs BY <1>9 DEF Notify, TypeOK
  <2>3. QED BY <1>9, <2>1, <2>2 DEF ScanTyped, Notify, children, TypeOK
<1>10. CASE NotifyFails
  <2>1. ScanTyped'
    <3>1. CASE scan.try < MaxTries
      <4>1. scan' = [scan EXCEPT !.try = scan.try + 1] /\ outcome' = outcome
        BY <1>10, <3>1 DEF NotifyFails
      <4>2. scan.try + 1 \in 1 .. MaxTries
        BY <3>1, PipelineAssumption DEF PipelineAssumption, TypeOK, Scan
      <4>3. QED BY <4>1, <4>2 DEF ScanTyped, TypeOK, Scan
    <3>2. CASE ~(scan.try < MaxTries)
      BY <1>10, <3>2, FinishType DEF NotifyFails
    <3>3. QED BY <3>1, <3>2
  <2>2. notified' \in SUBSET ScanIDs BY <1>10 DEF NotifyFails, TypeOK
  <2>3. faults' \in 0 .. MaxFaults BY <1>10, FaultType DEF NotifyFails
  <2>4. QED BY <1>10, <2>1, <2>2, <2>3 DEF ScanTyped, NotifyFails, children, TypeOK
<1>11. CASE ScanTimesOut
  <2>1. ScanTyped' BY <1>11, FinishType DEF ScanTimesOut
  <2>2. faults' \in 0 .. MaxFaults BY <1>11, FaultType DEF ScanTimesOut
  <2>3. status' \in [Types -> {"idle", "running", "succeeded", "failed"}] /\ acked' \in [Types -> BOOLEAN]
    BY <1>11 DEF ScanTimesOut, TypeOK
  <2>4. QED BY <1>11, <2>1, <2>2, <2>3 DEF ScanTyped, ScanTimesOut, TypeOK
<1>12. ASSUME NEW a \in writers, NEW t \in Types, ListFindings(a, t) PROVE TypeOK'
  <2>1. writers' = (writers \ {a}) \cup {Listed(a, t)} BY <1>12 DEF ListFindings, Listed
  <2>2. QED BY <1>12, <2>1, ListedWriter DEF ListFindings, children, TypeOK
<1>12a. ASSUME NEW a \in writers, Validate(a) PROVE TypeOK'
  <2>1. CASE Complete(a.snapshot)
    <3>1. [a EXCEPT !.step = "built"] \in Writer BY DEF TypeOK, Writer
    <3>2. QED BY <1>12a, <2>1, <3>1 DEF Validate, children, TypeOK
  <2>2. CASE ~Complete(a.snapshot)
    <3>1. ReturnError(a) /\ UNCHANGED faults BY <1>12a, <2>2 DEF Validate
    <3>2. QED BY <3>1, ReturnErrorType DEF TypeOK
  <2>3. QED BY <2>1, <2>2
<1>13. ASSUME NEW a \in writers, PutDated(a) PROVE TypeOK'
  <2>1. a \in Writer BY DEF TypeOK
  <2>2. [a EXCEPT !.step = "dated"] \in Writer BY <2>1 DEF Writer
  <2>3. snapshots' \in [ScanIDs -> Snapshot] BY <1>13, <2>1 DEF PutDated, TypeOK, Writer
  <2>4. QED BY <1>13, <2>2, <2>3 DEF PutDated, children, TypeOK
<1>14. ASSUME NEW a \in writers, PutLatest(a) PROVE TypeOK'
  <2>1. a \in Writer BY DEF TypeOK
  <2>2. latest' \in 0 .. MaxScans BY <1>14, <2>1 DEF PutLatest, Writer, ScanIDs
  <2>3. ScanTyped' /\ faults' \in 0 .. MaxFaults
    <3>1. CASE Live(a) /\ SnapshotSaved /\ UNCHANGED faults
      BY <3>1, SnapshotSavedType DEF Live, TypeOK
    <3>2. CASE UNCHANGED <<scan, outcome, faults>>
      BY <3>2 DEF ScanTyped, TypeOK
    <3>3. CASE Fault /\ UNCHANGED <<scan, outcome>>
      BY <3>3, FaultType DEF ScanTyped, TypeOK
    <3>4. QED BY <1>14, <3>1, <3>2, <3>3 DEF PutLatest
  <2>4. writers' \in SUBSET Writer BY <1>14 DEF PutLatest, AttemptEnds, TypeOK
  <2>5. QED BY <1>14, <2>2, <2>3, <2>4 DEF ScanTyped, PutLatest, children, TypeOK
<1>15. ASSUME NEW a \in writers, PutFails(a) PROVE TypeOK'
  <2>1. faults' \in 0 .. MaxFaults BY <1>15, FaultType DEF PutFails
  <2>2. QED BY <1>15, <2>1, ReturnErrorType DEF PutFails
<1>16. ASSUME NEW w \in Workers, WorkerRestarts(w) PROVE TypeOK'
  <2>1. faults' \in 0 .. MaxFaults BY <1>16, FaultType DEF WorkerRestarts
  <2>2. store' \in [Workers -> [Types -> Contents]]
    BY <1>16 DEF WorkerRestarts, Children!Forget, TypeOK, Contents
  <2>3. QED BY <1>16, <2>1, <2>2 DEF WorkerRestarts, Children!Forget, TypeOK
<1>17. CASE UNCHANGED vars
  BY <1>17 DEF vars, children, TypeOK
<1>18. QED
  BY <1>1, <1>2, <1>3, <1>4, <1>5, <1>6, <1>7, <1>8, <1>9, <1>10, <1>11, <1>12, <1>13,
     <1>14, <1>15, <1>16, <1>17, <1>12a DEF Next, OrchestratorStep, WriterStep, AllScansEnded

(* TypeOK is an invariant: the widths and domains TLC checks on small      *)
(* instances hold for any number of types, workers, scans and attempts.    *)
THEOREM TypeCorrect == Spec => []TypeOK
<1>1. QED BY InitType, StepType, PTL DEF Spec

(***************************************************************************)
(* The safety properties.  IInv says what every executing CreateSnapshot   *)
(* attempt carries, so that it may end at any later time without harm.     *)
(***************************************************************************)
LEMMA InitInv == Init => IInv
<1> SUFFICES ASSUME Init PROVE IInv OBVIOUS
<1>1. TypeOK BY InitType
<1>2. ScanInv /\ NoLateWriter /\ \A a \in writers : WriterInv(a)
  BY PipelineAssumption DEF PipelineAssumption, Init, ScanInv, NoLateWriter
<1>3. FullSnapshotComplete /\ ReadersFindSnapshot /\ CompletedIsLatest
  BY DEF Init, FullSnapshotComplete, ReadersFindSnapshot, CompletedIsLatest, NoSnapshot
<1>4. QED BY <1>1, <1>2, <1>3 DEF IInv

(* A snapshot with an entry in it is not the absent one. *)
LEMMA EntryPersists ==
    ASSUME NEW snap, DOMAIN snap.found # {} PROVE snap # NoSnapshot
BY DEF NoSnapshot

(* Steps that touch neither the attempts nor the snapshots keep IInv. *)
LEMMA QuietStep ==
    ASSUME IInv, TypeOK', scan' = scan, outcome' = outcome,
           writers' = writers, snapshots' = snapshots, latest' = latest, notified' = notified
    PROVE  IInv'
BY DEF IInv, ScanInv, NoLateWriter, WriterInv, Persisted, Live, Complete,
       FullSnapshotComplete, ReadersFindSnapshot, CompletedIsLatest

(* The orchestrator moves within, or out of, the run it executes, while no *)
(* attempt that it waits for goes on.                                      *)
LEMMA OrchestratorMoves ==
    ASSUME IInv, TypeOK',
           scan'.id = scan.id, scan'.full = scan.full, scan'.types = scan.types,
           scan'.phase = "snapshot" => scan'.successful # {},
           scan'.phase = "notify" => Persisted(scan.id) /\ (~LateAttempts => latest' = scan.id),
           \/ outcome' = outcome
           \/ outcome' = [outcome EXCEPT ![scan.id] = "failed"]
           \/ /\ outcome' = [outcome EXCEPT ![scan.id] = "completed"]
              /\ Persisted(scan.id) /\ (~LateAttempts => latest' = scan.id),
           writers' \subseteq writers, ~LateAttempts => writers' = {},
           snapshots' = snapshots,
           \/ latest' = latest
           \/ latest' <= scan.id /\ (latest' # 0 => snapshots[latest'] # NoSnapshot) /\ (~LateAttempts => latest' = scan.id),
           \A s \in notified' \ notified : Persisted(s)
    PROVE  IInv'
<1>0. TypeOK /\ scan.id \in Nat /\ latest' \in Nat
  BY DEF IInv, TypeOK, Scan
<1>1. ScanInv' BY <1>0 DEF IInv, ScanInv, Persisted, TypeOK, ScanIDs
<1>2. NoLateWriter' BY DEF NoLateWriter
<1>3. \A a \in writers' : WriterInv(a)' BY DEF IInv, WriterInv, Persisted, Complete
<1>4. FullSnapshotComplete' BY DEF IInv, FullSnapshotComplete
<1>5. ReadersFindSnapshot' BY DEF IInv, ReadersFindSnapshot, Persisted
<1>6. CompletedIsLatest'
  <2> SUFFICES ASSUME ~LateAttempts, NEW s \in ScanIDs, outcome'[s] = "completed"
               PROVE  snapshots'[s] # NoSnapshot /\ latest' >= s
    BY DEF CompletedIsLatest
  <2>1. CASE outcome[s] = "completed"
    <3>1. snapshots[s] # NoSnapshot /\ latest >= s /\ s <= scan.id /\ s \in Nat
      BY <2>1 DEF IInv, CompletedIsLatest, ScanInv, ScanIDs
    <3>2. QED BY <1>0, <3>1
  <2>2. CASE outcome[s] # "completed"
    <3>1. s = scan.id /\ Persisted(scan.id) /\ latest' = scan.id
      BY <2>2, <1>0 DEF TypeOK
    <3>2. QED BY <1>0, <3>1 DEF Persisted
  <2>3. QED BY <2>1, <2>2
<1>7. QED BY <1>1, <1>2, <1>3, <1>4, <1>5, <1>6 DEF IInv

LEMMA AttemptFailedMoves ==
    ASSUME IInv, TypeOK', AttemptFailed, scan.phase = "snapshot",
           writers' \subseteq writers, ~LateAttempts => writers' = {},
           snapshots' = snapshots, latest' = latest, notified' = notified
    PROVE  IInv'
<1>0. TypeOK /\ scan.successful # {} BY DEF IInv, ScanInv
<1>1. CASE scan.try < MaxTries
  <2>1. scan' = [scan EXCEPT !.try = scan.try + 1, !.busy = FALSE] /\ outcome' = outcome
    BY <1>1 DEF AttemptFailed
  <2>2. scan'.id = scan.id /\ scan'.full = scan.full /\ scan'.types = scan.types
        /\ scan'.phase = "snapshot" /\ scan'.successful = scan.successful
    BY <1>0, <2>1 DEF TypeOK, Scan
  <2>3. QED BY <1>0, <2>1, <2>2, OrchestratorMoves
<1>2. CASE ~(scan.try < MaxTries)
  <2>1. Finish("failed") BY <1>2 DEF AttemptFailed
  <2>2. scan'.id = scan.id /\ scan'.full = scan.full /\ scan'.types = scan.types /\ scan'.phase = "idle"
    BY <1>0, <2>1 DEF Finish, TypeOK, Scan
  <2>3. QED BY <2>1, <2>2, OrchestratorMoves DEF Finish
<1>3. QED BY <1>1, <1>2

LEMMA ReturnErrorMoves ==
    ASSUME IInv, TypeOK', NEW a \in writers, ReturnError(a)
    PROVE  IInv'
<1>1. writers' = writers \ {a} /\ UNCHANGED <<snapshots, latest, notified>>
  BY DEF ReturnError, AttemptEnds
<1>2. ~LateAttempts => Live(a) /\ writers' = {}
  BY <1>1 DEF IInv, NoLateWriter
<1>3. CASE Live(a)
  BY <1>1, <1>2, <1>3, AttemptFailedMoves DEF ReturnError, Live
<1>4. CASE ~Live(a)
  <2>1. LateAttempts /\ UNCHANGED <<scan, outcome>>
    BY <1>2, <1>4, PipelineAssumption DEF PipelineAssumption, ReturnError
  <2>2. QED BY <1>1, <2>1, OrchestratorMoves DEF IInv, ScanInv, Persisted
<1>5. QED BY <1>3, <1>4

LEMMA StepInv == IInv /\ [Next]_vars => IInv'
<1> SUFFICES ASSUME IInv, [Next]_vars PROVE IInv' OBVIOUS
<1>0. TypeOK /\ TypeOK' BY StepType DEF IInv
<1>1. ASSUME NEW full \in BOOLEAN, NEW webhook \in BOOLEAN, NEW types \in SUBSET Types,
             StartScan(full, types, webhook)
      PROVE  IInv'
  <2>1. ~LateAttempts => writers = {}
    BY <1>1 DEF IInv, NoLateWriter, Live, StartScan
  <2>2. scan.id \in Nat /\ scan'.id = scan.id + 1 /\ scan'.phase \in {"idle", "detect"}
        /\ (scan'.full => scan'.types = Types)
    BY <1>0, <1>1 DEF StartScan, TypeOK, Scan
  <2>3. ScanInv'
    BY <1>0, <1>1, <2>2 DEF StartScan, IInv, ScanInv, TypeOK, ScanIDs
  <2>4. NoLateWriter' BY <1>1, <2>1 DEF StartScan, NoLateWriter
  <2>5. \A a \in writers' : WriterInv(a)'
    BY <1>0, <1>1, <2>2 DEF StartScan, IInv, WriterInv, Persisted, Complete, TypeOK, Writer, ScanIDs
  <2>6. (FullSnapshotComplete /\ ReadersFindSnapshot)'
    BY <1>1 DEF StartScan, IInv, FullSnapshotComplete, ReadersFindSnapshot
  <2>7. CompletedIsLatest'
    BY <1>0, <1>1 DEF StartScan, IInv, CompletedIsLatest, TypeOK
  <2>8. QED BY <1>0, <2>3, <2>4, <2>5, <2>6, <2>7 DEF IInv
<1>2. ASSUME NEW t \in Types, ChildEnds(t) PROVE IInv'
  BY <1>0, <1>2, QuietStep DEF ChildEnds
<1>3. ASSUME NEW t \in Types, NEW w \in Workers, Publish(t, w) PROVE IInv'
  BY <1>0, <1>3, QuietStep DEF Publish
<1>4. ASSUME NEW t \in Types, NEW w \in Workers, NEW s \in ScanIDs, PublishLate(t, w, s) PROVE IInv'
  BY <1>0, <1>4, QuietStep DEF PublishLate
<1>5. CASE Collect
  <2>1. ~LateAttempts => writers = {}
    BY <1>5 DEF IInv, NoLateWriter, Live, Collect
  <2> DEFINE successful == {t \in scan.types : status[t] = "succeeded"}
  <2>2. CASE successful = {}
    <3>1. Finish("failed") BY <1>5, <2>2 DEF Collect
    <3>2. scan'.id = scan.id /\ scan'.full = scan.full /\ scan'.types = scan.types /\ scan'.phase = "idle"
      BY <1>0, <3>1 DEF Finish, TypeOK, Scan
    <3>3. outcome' = [outcome EXCEPT ![scan.id] = "failed"] BY <3>1 DEF Finish
    <3>4. QED BY <1>0, <1>5, <2>1, <3>2, <3>3, OrchestratorMoves DEF Collect
  <2>3. CASE successful # {}
    <3>1. scan' = [scan EXCEPT !.phase = "snapshot", !.successful = successful] /\ outcome' = outcome
      BY <1>5, <2>3 DEF Collect
    <3>2. scan'.id = scan.id /\ scan'.full = scan.full /\ scan'.types = scan.types
          /\ scan'.phase = "snapshot" /\ scan'.successful # {}
      BY <1>0, <2>3, <3>1 DEF TypeOK, Scan
    <3>3. QED BY <1>0, <1>5, <2>1, <3>1, <3>2, OrchestratorMoves DEF Collect
  <2>4. QED BY <2>2, <2>3
<1>6. ASSUME NEW w \in Workers, StartSnapshot(w) PROVE IInv'
  <2> DEFINE a == [scan |-> scan.id, try |-> scan.try, host |-> w, step |-> "started",
                   types |-> scan.successful,
                   snapshot |-> [full |-> scan.full, expected |-> scan.types,
                                 found |-> [t \in {} |-> NoFindings]]]
  <2>1. /\ scan' = [scan EXCEPT !.busy = TRUE] /\ writers' = writers \cup {a}
        /\ scan.phase = "snapshot" /\ ~scan.busy
        /\ UNCHANGED <<outcome, snapshots, latest, notified>>
    BY <1>6 DEF StartSnapshot
  <2>2. scan'.id = scan.id /\ scan'.full = scan.full /\ scan'.types = scan.types /\ scan'.phase = scan.phase
        /\ scan'.successful = scan.successful /\ scan'.try = scan.try /\ scan'.busy
    BY <1>0, <2>1 DEF TypeOK, Scan
  <2>3. ~LateAttempts => writers = {}
    BY <2>1 DEF IInv, NoLateWriter, Live
  <2>4. ScanInv' BY <2>1, <2>2 DEF IInv, ScanInv, Persisted
  <2>5. NoLateWriter' BY <2>1, <2>2, <2>3 DEF NoLateWriter, Live
  <2>6. \A b \in writers' : WriterInv(b)'
    BY <1>0, <2>1, <2>2 DEF IInv, ScanInv, WriterInv, Persisted, Complete, TypeOK, Scan
  <2>7. (FullSnapshotComplete /\ ReadersFindSnapshot /\ CompletedIsLatest)'
    BY <2>1 DEF IInv, FullSnapshotComplete, ReadersFindSnapshot, CompletedIsLatest
  <2>8. QED BY <1>0, <2>4, <2>5, <2>6, <2>7 DEF IInv
<1>7. CASE AttemptTimesOut
  <2>1. ~LateAttempts => writers = {} BY <1>7 DEF IInv, NoLateWriter, AttemptTimesOut, Quiet
  <2>2. QED BY <1>0, <1>7, <2>1, AttemptFailedMoves DEF AttemptTimesOut
<1>8. CASE AttemptIsLate
  BY <1>0, <1>8, AttemptFailedMoves DEF AttemptIsLate
<1>9. CASE Notify
  <2>1. scan'.id = scan.id /\ scan'.full = scan.full /\ scan'.types = scan.types /\ scan'.phase = "idle"
    BY <1>0, <1>9 DEF Notify, Finish, TypeOK, Scan
  <2>2. Persisted(scan.id) /\ (~LateAttempts => latest = scan.id /\ writers = {})
    BY <1>9 DEF Notify, IInv, ScanInv, NoLateWriter, Live
  <2>3. QED BY <1>0, <1>9, <2>1, <2>2, OrchestratorMoves DEF Notify, Finish, Persisted
<1>10. CASE NotifyFails
  <2>1. Persisted(scan.id) /\ (~LateAttempts => latest = scan.id /\ writers = {})
    BY <1>10 DEF NotifyFails, IInv, ScanInv, NoLateWriter, Live
  <2>2. CASE scan.try < MaxTries
    <3>1. scan' = [scan EXCEPT !.try = scan.try + 1] /\ outcome' = outcome
      BY <1>10, <2>2 DEF NotifyFails
    <3>2. scan'.id = scan.id /\ scan'.full = scan.full /\ scan'.types = scan.types /\ scan'.phase = "notify"
      BY <1>0, <1>10, <3>1 DEF NotifyFails, TypeOK, Scan
    <3>3. QED BY <1>0, <1>10, <2>1, <3>1, <3>2, OrchestratorMoves DEF NotifyFails, Persisted
  <2>3. CASE ~(scan.try < MaxTries)
    <3>1. Finish("completed") BY <1>10, <2>3 DEF NotifyFails
    <3>2. scan'.id = scan.id /\ scan'.full = scan.full /\ scan'.types = scan.types /\ scan'.phase = "idle"
      BY <1>0, <3>1 DEF Finish, TypeOK, Scan
    <3>3. QED BY <1>0, <1>10, <2>1, <3>1, <3>2, OrchestratorMoves DEF NotifyFails, Finish, Persisted
  <2>4. QED BY <2>2, <2>3
<1>11. CASE ScanTimesOut
  <2>1. scan'.id = scan.id /\ scan'.full = scan.full /\ scan'.types = scan.types /\ scan'.phase = "idle"
    BY <1>0, <1>11 DEF ScanTimesOut, Finish, TypeOK, Scan
  <2>2. ~LateAttempts => writers = {} BY <1>11 DEF IInv, NoLateWriter, ScanTimesOut, Quiet
  <2>3. QED BY <1>0, <1>11, <2>1, <2>2, OrchestratorMoves DEF ScanTimesOut, Finish
<1>12. ASSUME NEW a \in writers, NEW t \in Types, ListFindings(a, t) PROVE IInv'
  <2>1. PICK b : b = Listed(a, t) OBVIOUS
  <2>2. /\ a.step = "started" /\ t \in a.types
        /\ writers' = (writers \ {a}) \cup {b}
        /\ UNCHANGED <<scan, outcome, snapshots, latest, notified>>
    BY <1>12, <2>1 DEF ListFindings, Listed
  <2>3. /\ b.scan = a.scan /\ b.try = a.try /\ b.types = a.types /\ b.step = a.step
        /\ b.snapshot.full = a.snapshot.full /\ b.snapshot.expected = a.snapshot.expected
        /\ DOMAIN b.snapshot.found = DOMAIN a.snapshot.found \cup {t}
    BY <1>0, <2>1 DEF Listed, TypeOK, Writer, Snapshot
  <2>4. WriterInv(a) BY DEF IInv
  <2>5. WriterInv(b)' BY <2>2, <2>3, <2>4 DEF WriterInv
  <2>6. \A c \in writers : WriterInv(c)' BY <2>2 DEF IInv, WriterInv, Persisted, Complete
  <2>7. \A c \in writers' : WriterInv(c)' BY <2>2, <2>5, <2>6
  <2>8. NoLateWriter' BY <2>2, <2>3 DEF IInv, NoLateWriter, Live
  <2>9. (ScanInv /\ FullSnapshotComplete /\ ReadersFindSnapshot /\ CompletedIsLatest)'
    BY <2>2 DEF IInv, ScanInv, Persisted, FullSnapshotComplete, ReadersFindSnapshot, CompletedIsLatest
  <2>10. QED BY <1>0, <2>7, <2>8, <2>9 DEF IInv
<1>12a. ASSUME NEW a \in writers, Validate(a) PROVE IInv'
  <2> DEFINE b == [a EXCEPT !.step = "built"]
  <2>1. CASE Complete(a.snapshot)
    <3>1. /\ a.step = "started" /\ DOMAIN a.snapshot.found = a.types
          /\ writers' = (writers \ {a}) \cup {b}
          /\ UNCHANGED <<scan, outcome, snapshots, latest, notified>>
      BY <1>12a, <2>1 DEF Validate
    <3>2. b.scan = a.scan /\ b.try = a.try /\ b.types = a.types /\ b.step = "built" /\ b.snapshot = a.snapshot
      BY <1>0 DEF TypeOK, Writer
    <3>3. WriterInv(a) BY DEF IInv
    <3>4. WriterInv(b)' BY <2>1, <3>1, <3>2, <3>3 DEF WriterInv, Complete
    <3>5. \A c \in writers : WriterInv(c)' BY <3>1 DEF IInv, WriterInv, Persisted, Complete
    <3>6. \A c \in writers' : WriterInv(c)' BY <3>1, <3>4, <3>5
    <3>7. NoLateWriter' BY <3>1, <3>2 DEF IInv, NoLateWriter, Live
    <3>8. (ScanInv /\ FullSnapshotComplete /\ ReadersFindSnapshot /\ CompletedIsLatest)'
      BY <3>1 DEF IInv, ScanInv, Persisted, FullSnapshotComplete, ReadersFindSnapshot, CompletedIsLatest
    <3>9. QED BY <1>0, <3>6, <3>7, <3>8 DEF IInv
  <2>2. CASE ~Complete(a.snapshot)
    BY <1>0, <1>12a, <2>2, ReturnErrorMoves DEF Validate
  <2>3. QED BY <2>1, <2>2
<1>13. ASSUME NEW a \in writers, PutDated(a) PROVE IInv'
  <2> DEFINE b == [a EXCEPT !.step = "dated"]
  <2>1. /\ a.step = "built" /\ writers' = (writers \ {a}) \cup {b}
        /\ snapshots' = [snapshots EXCEPT ![a.scan] = a.snapshot]
        /\ UNCHANGED <<scan, outcome, latest, notified>>
    BY <1>13 DEF PutDated
  <2>2. a \in Writer BY <1>0 DEF TypeOK
  <2>3. /\ b.scan = a.scan /\ b.try = a.try /\ b.types = a.types /\ b.step = "dated" /\ b.snapshot = a.snapshot
        /\ a.scan \in ScanIDs
    BY <2>2 DEF Writer
  <2>4. a.snapshot # NoSnapshot /\ Complete(a.snapshot) /\ DOMAIN a.snapshot.found = a.types
        /\ (a.snapshot.full => a.snapshot.expected = Types)
    BY <2>1, EntryPersists DEF IInv, WriterInv
  <2>5. \A s \in ScanIDs : /\ snapshots'[s] = IF s = a.scan THEN a.snapshot ELSE snapshots[s]
                           /\ Persisted(s) => Persisted(s)'
    BY <1>0, <2>1, <2>3, <2>4 DEF TypeOK, Persisted
  <2>6. \A c \in writers' : WriterInv(c)'
    <3>1. WriterInv(b)' BY <2>1, <2>3, <2>4, <2>5 DEF IInv, WriterInv, Persisted, Complete
    <3>2. \A c \in writers : WriterInv(c)'
      BY <1>0, <2>1, <2>5 DEF IInv, WriterInv, Persisted, Complete, TypeOK, Writer
    <3>3. QED BY <2>1, <3>1, <3>2
  <2>7. NoLateWriter' BY <2>1, <2>3 DEF IInv, NoLateWriter, Live
  <2>8. ScanInv' BY <1>0, <2>1, <2>5 DEF IInv, ScanInv, TypeOK
  <2>9. FullSnapshotComplete'
    <3>1. a.snapshot.full => DOMAIN a.snapshot.found = Types
      BY <1>0, <2>2, <2>4 DEF Complete, Writer
    <3>2. QED BY <2>5, <3>1 DEF IInv, FullSnapshotComplete
  <2>10. ReadersFindSnapshot'
    BY <1>0, <2>1, <2>5 DEF IInv, ReadersFindSnapshot, Persisted, TypeOK, ScanIDs
  <2>11. CompletedIsLatest'
    BY <2>1, <2>5 DEF IInv, CompletedIsLatest, Persisted
  <2>12. QED BY <1>0, <2>6, <2>7, <2>8, <2>9, <2>10, <2>11 DEF IInv
<1>14. ASSUME NEW a \in writers, PutLatest(a) PROVE IInv'
  <2>1. a.step = "dated" /\ latest' = a.scan /\ writers' = writers \ {a}
        /\ UNCHANGED <<snapshots, notified>>
    BY <1>14 DEF PutLatest, AttemptEnds
  <2>2. a.scan \in ScanIDs /\ a.scan <= scan.id /\ Persisted(a.scan)
    BY <1>0, <2>1 DEF IInv, WriterInv, TypeOK, Writer
  <2>3. ~LateAttempts => writers' = {} /\ a.scan = scan.id
    BY <2>1 DEF IInv, NoLateWriter, Live
  <2>4. CASE UNCHANGED <<scan, outcome>>
    BY <1>0, <2>1, <2>2, <2>3, <2>4, OrchestratorMoves DEF IInv, ScanInv, Persisted
  <2>5. CASE Live(a) /\ SnapshotSaved
    <3>1. a.scan = scan.id BY <2>5 DEF Live
    <3>2. CASE scan.webhook
      <4>1. scan' = [scan EXCEPT !.phase = "notify", !.try = 1, !.busy = FALSE] /\ outcome' = outcome
        BY <2>5, <3>2 DEF SnapshotSaved
      <4>2. scan'.id = scan.id /\ scan'.full = scan.full /\ scan'.types = scan.types /\ scan'.phase = "notify"
        BY <1>0, <4>1 DEF TypeOK, Scan
      <4>3. QED BY <1>0, <2>1, <2>2, <2>3, <3>1, <4>1, <4>2, OrchestratorMoves DEF Persisted
    <3>3. CASE ~scan.webhook
      <4>1. Finish("completed") BY <2>5, <3>3 DEF SnapshotSaved
      <4>2. scan'.id = scan.id /\ scan'.full = scan.full /\ scan'.types = scan.types /\ scan'.phase = "idle"
        BY <1>0, <4>1 DEF Finish, TypeOK, Scan
      <4>3. QED BY <1>0, <2>1, <2>2, <2>3, <3>1, <4>1, <4>2, OrchestratorMoves DEF Finish, Persisted
    <3>4. QED BY <3>2, <3>3
  <2>6. QED BY <1>14, <2>4, <2>5 DEF PutLatest
<1>15. ASSUME NEW a \in writers, PutFails(a) PROVE IInv'
  BY <1>0, <1>15, ReturnErrorMoves DEF PutFails
<1>16. ASSUME NEW w \in Workers, WorkerRestarts(w) PROVE IInv'
  <2>1. writers' \subseteq writers /\ UNCHANGED <<scan, outcome, snapshots, latest, notified>>
    BY <1>16 DEF WorkerRestarts
  <2>2. \A a \in writers' : WriterInv(a)' BY <2>1 DEF IInv, WriterInv, Persisted, Complete
  <2>3. NoLateWriter' BY <2>1 DEF IInv, NoLateWriter, Live
  <2>4. (ScanInv /\ FullSnapshotComplete /\ ReadersFindSnapshot /\ CompletedIsLatest)'
    BY <2>1 DEF IInv, ScanInv, Persisted, FullSnapshotComplete, ReadersFindSnapshot, CompletedIsLatest
  <2>5. QED BY <1>0, <2>2, <2>3, <2>4 DEF IInv
<1>17. CASE UNCHANGED vars
  BY <1>0, <1>17, QuietStep DEF vars
<1>18. QED
  BY <1>1, <1>2, <1>3, <1>4, <1>5, <1>6, <1>7, <1>8, <1>9, <1>10, <1>11, <1>12, <1>13,
     <1>14, <1>15, <1>16, <1>17, <1>12a DEF Next, OrchestratorStep, WriterStep, AllScansEnded

LEMMA Invariance == Spec => []IInv
BY InitInv, StepInv, PTL DEF Spec

(* No full snapshot with a gap is ever persisted, whatever fails, is       *)
(* repeated, restarts or comes late.                                       *)
THEOREM FullSnapshotsAreComplete == Spec => []FullSnapshotComplete
<1>1. IInv => FullSnapshotComplete BY DEF IInv
<1>2. QED BY <1>1, Invariance, PTL

(* The emitter and latest.json only name snapshots that are durable. *)
THEOREM ReadersAlwaysFindSnapshot == Spec => []ReadersFindSnapshot
<1>1. IInv => ReadersFindSnapshot BY DEF IInv
<1>2. QED BY <1>1, Invariance, PTL

(* Without late attempts latest.json never falls behind a completed scan. *)
THEOREM CompletedScansAreLatest == Spec => []CompletedIsLatest
<1>1. IInv => CompletedIsLatest BY DEF IInv
<1>2. QED BY <1>1, Invariance, PTL

(***************************************************************************)
(* One worker that neither restarts nor leaves attempts behind: what it    *)
(* stores for a type is of the scan in progress from the acknowledgement   *)
(* of the type's child until the scan has persisted it.                    *)
(***************************************************************************)
Alone == Cardinality(Workers) = 1 /\ ~Restarts /\ ~LateAttempts

(* The store of the worker, while children run and while it is listed. *)
StoreInv ==
    \A w \in Workers :
        /\ scan.phase = "detect" =>
             \A t \in Types : acked[t] \/ status[t] = "succeeded" => store[w][t] = scan.id
        /\ scan.phase = "snapshot" => \A t \in scan.successful : store[w][t] = scan.id

(* What the attempt in progress has listed so far. *)
ListedInv ==
    \A a \in writers :
        /\ a.types = scan.successful
        /\ \A t \in DOMAIN a.snapshot.found : a.snapshot.found[t] = a.scan

OwnInv == Alone => StoreInv /\ ListedInv /\ SnapshotIsOfItsScan

LEMMA OnlyWorker ==
    ASSUME Alone PROVE \A v, w \in Workers : v = w
<1>1. PICK w : Workers = {w}
  BY FS_Singleton, PipelineAssumption DEF PipelineAssumption, Alone
<1>2. QED BY <1>1

LEMMA InitOwn == Init => OwnInv
BY DEF Init, OwnInv, StoreInv, ListedInv, SnapshotIsOfItsScan, NoSnapshot

(* Nobody waits for an attempt, so none executes. *)
LEMMA NobodyListens ==
    ASSUME IInv', Alone, ~scan'.busy \/ scan'.phase # "snapshot"
    PROVE  writers' = {}
BY DEF IInv, NoLateWriter, Live, Alone

(* A step that ends the wait for an attempt, or the scan. *)
LEMMA WaitEnds ==
    ASSUME IInv, IInv', OwnInv, Alone,
           scan'.id = scan.id, scan'.successful = scan.successful,
           ~scan'.busy \/ scan'.phase # "snapshot",
           scan'.phase \in {scan.phase, "idle", "notify"},
           \/ scan'.phase \in {"idle", "notify"}
           \/ UNCHANGED <<status, acked, store>>,
           UNCHANGED snapshots
    PROVE  OwnInv'
<1>1. writers' = {} BY NobodyListens
<1>2. StoreInv' BY DEF OwnInv, StoreInv
<1>3. ListedInv' BY <1>1 DEF ListedInv
<1>4. SnapshotIsOfItsScan' BY DEF OwnInv, SnapshotIsOfItsScan
<1>5. QED BY <1>2, <1>3, <1>4 DEF OwnInv

LEMMA FinishWaitEnds ==
    ASSUME IInv, IInv', OwnInv, Alone, NEW r, Finish(r), UNCHANGED snapshots
    PROVE  OwnInv'
<1>1. scan'.id = scan.id /\ scan'.successful = scan.successful /\ scan'.phase = "idle"
  BY DEF Finish, IInv, TypeOK, Scan
<1>2. QED BY <1>1, WaitEnds

LEMMA AttemptFailedOwn ==
    ASSUME IInv, IInv', OwnInv, Alone, AttemptFailed, UNCHANGED <<children, snapshots>>
    PROVE  OwnInv'
<1>1. CASE scan.try < MaxTries
  <2>1. scan' = [scan EXCEPT !.try = scan.try + 1, !.busy = FALSE] BY <1>1 DEF AttemptFailed
  <2>2. scan'.id = scan.id /\ scan'.successful = scan.successful /\ scan'.phase = scan.phase
        /\ ~scan'.busy
    BY <2>1 DEF IInv, TypeOK, Scan
  <2>3. QED BY <2>2, WaitEnds DEF children
<1>2. CASE ~(scan.try < MaxTries)
  BY <1>2, FinishWaitEnds DEF AttemptFailed
<1>3. QED BY <1>1, <1>2

LEMMA ReturnErrorOwn ==
    ASSUME IInv, IInv', OwnInv, Alone, NEW a \in writers, ReturnError(a)
    PROVE  OwnInv'
<1>1. Live(a) BY DEF IInv, NoLateWriter, Alone
<1>2. QED BY <1>1, AttemptFailedOwn DEF ReturnError

LEMMA SnapshotSavedOwn ==
    ASSUME IInv, IInv', OwnInv, Alone, SnapshotSaved, UNCHANGED <<children, snapshots>>
    PROVE  OwnInv'
<1>1. CASE scan.webhook
  <2>1. scan' = [scan EXCEPT !.phase = "notify", !.try = 1, !.busy = FALSE]
    BY <1>1 DEF SnapshotSaved
  <2>2. scan'.id = scan.id /\ scan'.successful = scan.successful /\ scan'.phase = "notify"
    BY <2>1 DEF IInv, TypeOK, Scan
  <2>3. QED BY <2>2, WaitEnds
<1>2. CASE ~scan.webhook
  BY <1>2, FinishWaitEnds DEF SnapshotSaved
<1>3. QED BY <1>1, <1>2

(* A step of one attempt that nobody hears of keeps what the others carry. *)
LEMMA AttemptGoesOn ==
    ASSUME IInv, OwnInv, Alone, NEW a \in writers, NEW b,
           writers' = (writers \ {a}) \cup {b}, b.types = a.types,
           \A t \in DOMAIN b.snapshot.found : b.snapshot.found[t] = b.scan,
           UNCHANGED <<children, scan>>, SnapshotIsOfItsScan'
    PROVE  OwnInv'
<1>1. StoreInv' BY DEF OwnInv, StoreInv, children
<1>2. ListedInv' BY DEF OwnInv, ListedInv
<1>3. QED BY <1>1, <1>2 DEF OwnInv

LEMMA StepOwn == IInv /\ OwnInv /\ [Next]_vars => OwnInv'
<1> SUFFICES ASSUME IInv, OwnInv, [Next]_vars, Alone PROVE OwnInv' BY DEF OwnInv
<1>0. IInv' /\ TypeOK /\ ~LateAttempts /\ ~Restarts BY StepInv DEF IInv, Alone
<1>l. \A a \in writers : Live(a) BY <1>0 DEF IInv, NoLateWriter
<1>s. StoreInv /\ ListedInv /\ SnapshotIsOfItsScan BY DEF OwnInv
<1>1. ASSUME NEW full \in BOOLEAN, NEW webhook \in BOOLEAN, NEW types \in SUBSET Types,
             StartScan(full, types, webhook)
      PROVE  OwnInv'
  <2>1. scan'.phase # "snapshot" /\ snapshots' = snapshots BY <1>1 DEF StartScan
  <2>2. writers' = {} BY <1>0, <2>1, NobodyListens
  <2>3. \A t \in Types : ~acked'[t] /\ status'[t] # "succeeded" BY <1>1 DEF StartScan
  <2>4. StoreInv' BY <2>1, <2>3 DEF StoreInv
  <2>5. QED BY <1>s, <2>1, <2>2, <2>4 DEF OwnInv, ListedInv, SnapshotIsOfItsScan
<1>2. ASSUME NEW t \in Types, ChildEnds(t) PROVE OwnInv'
  <2>1. store' = store /\ UNCHANGED <<scan, writers, snapshots>>
    BY <1>2 DEF ChildEnds, Children!Succeed, Children!Fail
  <2>2. \A u \in Types : acked'[u] \/ status'[u] = "succeeded" => acked[u] \/ status[u] = "succeeded"
    BY <1>0, <1>2 DEF ChildEnds, Children!Succeed, Children!Fail, TypeOK
  <2>3. StoreInv' BY <1>s, <2>1, <2>2 DEF StoreInv
  <2>4. QED BY <1>s, <2>1, <2>3 DEF OwnInv, ListedInv, SnapshotIsOfItsScan
<1>3. ASSUME NEW t \in Types, NEW w \in Workers, Publish(t, w) PROVE OwnInv'
  <2>1. scan.phase = "detect" /\ UNCHANGED <<scan, writers, snapshots, status>>
        /\ store' = [store EXCEPT ![w][t] = scan.id]
    BY <1>3 DEF Publish, Children!PublishAcked, Children!PublishUnacked, Children!Write
  <2>2. \A u \in Types : u # t /\ acked'[u] => acked[u]
    BY <1>0, <1>3 DEF Publish, Children!PublishAcked, Children!PublishUnacked, TypeOK
  <2>3. \A v \in Workers, u \in Types : store'[v][u] = IF u = t THEN scan.id ELSE store[v][u]
    BY <1>0, <2>1, OnlyWorker DEF TypeOK
  <2>4. StoreInv' BY <1>s, <2>1, <2>2, <2>3 DEF StoreInv
  <2>5. QED BY <1>s, <2>1, <2>4 DEF OwnInv, ListedInv, SnapshotIsOfItsScan
<1>4. ASSUME NEW t \in Types, NEW w \in Workers, NEW s \in ScanIDs, PublishLate(t, w, s) PROVE OwnInv'
  BY <1>0, <1>4 DEF PublishLate
<1>5. CASE Collect
  <2> DEFINE successful == {t \in scan.types : status[t] = "succeeded"}
  <2>1. snapshots' = snapshots /\ UNCHANGED children BY <1>5 DEF Collect
  <2>2. CASE successful = {}
    BY <1>0, <1>5, <2>1, <2>2, FinishWaitEnds DEF Collect
  <2>3. CASE successful # {}
    <3>1. scan.phase = "detect" /\ scan' = [scan EXCEPT !.phase = "snapshot", !.successful = successful]
          /\ writers' = writers
      BY <1>5, <2>3 DEF Collect
    <3>2. scan'.id = scan.id /\ scan'.phase = "snapshot" /\ scan'.successful = successful
          /\ successful \subseteq Types
      BY <1>0, <3>1 DEF TypeOK, Scan
    <3>3. StoreInv' BY <1>s, <2>1, <3>1, <3>2 DEF StoreInv, children
    <3>4. writers' = {} BY <1>l, <3>1 DEF Live
    <3>5. QED BY <1>s, <2>1, <3>3, <3>4 DEF OwnInv, ListedInv, SnapshotIsOfItsScan
  <2>4. QED BY <2>2, <2>3
<1>6. ASSUME NEW w \in Workers, StartSnapshot(w) PROVE OwnInv'
  <2>1. ~scan.busy /\ scan' = [scan EXCEPT !.busy = TRUE] /\ UNCHANGED <<children, snapshots>>
    BY <1>6 DEF StartSnapshot
  <2>2. scan'.id = scan.id /\ scan'.phase = scan.phase /\ scan'.successful = scan.successful
    BY <1>0, <2>1 DEF TypeOK, Scan
  <2>3. writers = {} BY <1>l, <2>1 DEF Live
  <2>4. \A a \in writers' : a.types = scan.successful /\ DOMAIN a.snapshot.found = {}
    BY <1>6, <2>3 DEF StartSnapshot
  <2>5. ListedInv' BY <2>2, <2>4 DEF ListedInv
  <2>6. QED BY <1>s, <2>1, <2>2, <2>5 DEF OwnInv, StoreInv, SnapshotIsOfItsScan, children
<1>7. CASE AttemptTimesOut BY <1>0, <1>7, AttemptFailedOwn DEF AttemptTimesOut
<1>8. CASE AttemptIsLate BY <1>0, <1>8 DEF AttemptIsLate
<1>9. CASE Notify BY <1>0, <1>9, FinishWaitEnds DEF Notify
<1>10. CASE NotifyFails
  <2>1. CASE scan.try < MaxTries
    <3>1. scan' = [scan EXCEPT !.try = scan.try + 1] /\ scan.phase = "notify"
      BY <1>10, <2>1 DEF NotifyFails
    <3>2. scan'.id = scan.id /\ scan'.successful = scan.successful /\ scan'.phase = "notify"
      BY <1>0, <3>1 DEF TypeOK, Scan
    <3>3. QED BY <1>0, <1>10, <3>2, WaitEnds DEF NotifyFails
  <2>2. CASE ~(scan.try < MaxTries)
    BY <1>0, <1>10, <2>2, FinishWaitEnds DEF NotifyFails
  <2>3. QED BY <2>1, <2>2
<1>11. CASE ScanTimesOut BY <1>0, <1>11, FinishWaitEnds DEF ScanTimesOut
<1>12. ASSUME NEW a \in writers, NEW t \in Types, ListFindings(a, t) PROVE OwnInv'
  <2>1. t \in a.types /\ writers' = (writers \ {a}) \cup {Listed(a, t)}
        /\ UNCHANGED <<children, scan, snapshots>>
    BY <1>12 DEF ListFindings, Listed
  <2>2. a \in Writer /\ a.types = scan.successful /\ a.scan = scan.id /\ scan.phase = "snapshot"
    BY <1>0, <1>l, <1>s DEF TypeOK, ListedInv, Live
  <2>3. a.host \in Workers /\ store[a.host][t] = a.scan
    BY <1>s, <2>1, <2>2 DEF StoreInv, Writer
  <2>4. PICK b : b = Listed(a, t) OBVIOUS
  <2>5. b.types = a.types /\ b.scan = a.scan /\ b.snapshot.found =
          [u \in DOMAIN a.snapshot.found \cup {t} |->
             IF u = t THEN store[a.host][t] ELSE a.snapshot.found[u]]
    BY <2>2, <2>4 DEF Listed, Writer, Snapshot
  <2>6. \A u \in DOMAIN b.snapshot.found : b.snapshot.found[u] = b.scan
    BY <1>s, <2>3, <2>5 DEF ListedInv
  <2>7. SnapshotIsOfItsScan' BY <1>s, <2>1 DEF SnapshotIsOfItsScan
  <2>8. QED BY <1>0, <2>1, <2>4, <2>5, <2>6, <2>7, AttemptGoesOn
<1>13. ASSUME NEW a \in writers, Validate(a) PROVE OwnInv'
  <2>1. CASE Complete(a.snapshot)
    <3>1. PICK b : b = [a EXCEPT !.step = "built"] OBVIOUS
    <3>2. b.types = a.types /\ b.scan = a.scan /\ b.snapshot = a.snapshot
      BY <1>0, <3>1 DEF TypeOK, Writer
    <3>3. UNCHANGED <<children, scan, snapshots>> /\ writers' = (writers \ {a}) \cup {b}
      BY <1>13, <2>1, <3>1 DEF Validate
    <3>4. QED BY <1>s, <3>2, <3>3, AttemptGoesOn DEF ListedInv, SnapshotIsOfItsScan
  <2>2. CASE ~Complete(a.snapshot)
    BY <1>0, <1>13, <2>2, ReturnErrorOwn DEF Validate
  <2>3. QED BY <2>1, <2>2
<1>14. ASSUME NEW a \in writers, PutFails(a) PROVE OwnInv'
  BY <1>0, <1>14, ReturnErrorOwn DEF PutFails
<1>15. ASSUME NEW a \in writers, PutDated(a) PROVE OwnInv'
  <2>1. PICK b : b = [a EXCEPT !.step = "dated"] OBVIOUS
  <2>2. b.types = a.types /\ b.scan = a.scan /\ b.snapshot = a.snapshot
    BY <1>0, <2>1 DEF TypeOK, Writer
  <2>3. UNCHANGED <<children, scan>> /\ writers' = (writers \ {a}) \cup {b}
        /\ snapshots' = [snapshots EXCEPT ![a.scan] = a.snapshot]
    BY <1>15, <2>1 DEF PutDated
  <2>4. \A s \in ScanIDs : snapshots'[s] = IF s = a.scan THEN a.snapshot ELSE snapshots[s]
    BY <1>0, <2>3 DEF TypeOK
  <2>5. SnapshotIsOfItsScan' BY <1>s, <2>4 DEF SnapshotIsOfItsScan, ListedInv
  <2>6. QED BY <1>s, <2>2, <2>3, <2>5, AttemptGoesOn DEF ListedInv
<1>16. ASSUME NEW a \in writers, PutLatest(a) PROVE OwnInv'
  <2>1. UNCHANGED <<children, snapshots>> /\ writers' = writers \ {a} /\ Live(a)
    BY <1>16, <1>l DEF PutLatest, AttemptEnds
  <2>2. CASE SnapshotSaved BY <1>0, <2>1, <2>2, SnapshotSavedOwn
  <2>3. CASE scan' = scan
    BY <1>s, <2>1, <2>3 DEF OwnInv, StoreInv, ListedInv, SnapshotIsOfItsScan, children
  <2>4. QED BY <1>16, <2>1, <2>2, <2>3 DEF PutLatest
<1>17. ASSUME NEW w \in Workers, WorkerRestarts(w) PROVE OwnInv'
  BY <1>0, <1>17 DEF WorkerRestarts
<1>18. CASE UNCHANGED vars
  BY <1>s, <1>18 DEF vars, children, OwnInv, StoreInv, ListedInv, SnapshotIsOfItsScan
<1>19. QED
  BY <1>1, <1>2, <1>3, <1>4, <1>5, <1>6, <1>7, <1>8, <1>9, <1>10, <1>11, <1>12, <1>13,
     <1>14, <1>15, <1>16, <1>17, <1>18 DEF Next, OrchestratorStep, WriterStep, AllScansEnded

(* With one worker that neither restarts nor leaves attempts behind, a     *)
(* snapshot shows what the children of its own scan published, although    *)
(* neither store nor CreateSnapshot knows of scans.                        *)
THEOREM SnapshotsAreOfTheirScan == Spec => []SnapshotIsOfItsScan
<1>1. Init => OwnInv BY InitOwn
<1>2. IInv /\ OwnInv /\ [Next]_vars => OwnInv' BY StepOwn
<1>3. OwnInv => SnapshotIsOfItsScan BY DEF OwnInv, Alone, SnapshotIsOfItsScan
<1>4. QED BY <1>1, <1>2, <1>3, Invariance, PTL DEF Spec

(***************************************************************************)
(* How a scan advances.  Progress numbers the places of a scan; every step *)
(* that changes the orchestrator moves it to a later one, so a scan takes  *)
(* no more than MaxProgress steps of its own, however often its attempts   *)
(* fail: what liveness adds is only that they are taken.                   *)
(***************************************************************************)
PhaseStart(p) ==
    IF p = "detect" THEN 0
    ELSE IF p = "snapshot" THEN 2 * (MaxTries + 1)
    ELSE IF p = "notify" THEN 4 * (MaxTries + 1)
    ELSE 6 * (MaxTries + 1)
Progress(s) == PhaseStart(s.phase) + 2 * s.try + (IF s.busy THEN 1 ELSE 0)
MaxProgress == 8 * (MaxTries + 1)

(* The next scan takes the ID over from one that has ended. *)
Begins ==
    /\ scan.phase = "idle" /\ scan'.id = scan.id + 1
    /\ IF scan'.phase = "idle"
       THEN outcome' = [outcome EXCEPT ![scan.id + 1] = "failed"]
       ELSE outcome' = [outcome EXCEPT ![scan.id + 1] = "running"]

(* The scan in progress gets further, or ends with its outcome. *)
Advances ==
    /\ scan.phase # "idle" /\ scan'.id = scan.id
    /\ Progress(scan) < Progress(scan')
    /\ IF scan'.phase = "idle"
       THEN \E r \in {"completed", "failed"} : outcome' = [outcome EXCEPT ![scan.id] = r]
       ELSE outcome' = outcome

RunMoves == Begins \/ Advances \/ UNCHANGED <<scan, outcome>>

LEMMA ProgressTyped ==
    ASSUME NEW s \in Scan PROVE Progress(s) \in 0 .. MaxProgress
<1>1. s.try \in 1 .. MaxTries /\ s.phase \in Phases BY DEF Scan
<1>2. MaxTries \in Nat BY PipelineAssumption DEF PipelineAssumption
<1>3. QED BY <1>1, <1>2 DEF Progress, PhaseStart, MaxProgress, Phases

LEMMA FinishAdvances ==
    ASSUME TypeOK, NEW r \in {"completed", "failed"}, Finish(r), scan.phase # "idle"
    PROVE  Advances
<1>1. scan \in Scan /\ scan.try \in 1 .. MaxTries /\ scan.phase \in {"detect", "snapshot", "notify"}
  BY DEF TypeOK, Scan, Phases
<1>2. scan'.id = scan.id /\ scan'.phase = "idle" /\ scan'.try = scan.try /\ ~scan'.busy
  BY <1>1 DEF Finish, Scan
<1>3. MaxTries \in Nat BY PipelineAssumption DEF PipelineAssumption
<1>4. Progress(scan) < Progress(scan')
  BY <1>1, <1>2, <1>3 DEF Progress, PhaseStart
<1>5. QED BY <1>2, <1>4 DEF Advances, Finish

LEMMA AttemptFailedAdvances ==
    ASSUME TypeOK, AttemptFailed, scan.phase = "snapshot"
    PROVE  Advances
<1>1. CASE scan.try < MaxTries
  <2>1. scan' = [scan EXCEPT !.try = scan.try + 1, !.busy = FALSE] /\ outcome' = outcome
    BY <1>1 DEF AttemptFailed
  <2>2. scan'.id = scan.id /\ scan'.phase = "snapshot" /\ scan'.try = scan.try + 1 /\ ~scan'.busy
    BY <2>1 DEF TypeOK, Scan
  <2>3. scan.try \in Nat /\ MaxTries \in Nat
    BY PipelineAssumption DEF PipelineAssumption, TypeOK, Scan
  <2>4. Progress(scan) < Progress(scan')
    BY <2>2, <2>3 DEF Progress, PhaseStart
  <2>5. QED BY <2>1, <2>2, <2>4 DEF Advances
<1>2. CASE ~(scan.try < MaxTries)
  BY <1>2, FinishAdvances DEF AttemptFailed
<1>3. QED BY <1>1, <1>2

LEMMA SnapshotSavedAdvances ==
    ASSUME TypeOK, SnapshotSaved, scan.phase = "snapshot"
    PROVE  Advances
<1>1. CASE scan.webhook
  <2>1. scan' = [scan EXCEPT !.phase = "notify", !.try = 1, !.busy = FALSE] /\ outcome' = outcome
    BY <1>1 DEF SnapshotSaved
  <2>2. scan'.id = scan.id /\ scan'.phase = "notify" /\ scan'.try = 1 /\ ~scan'.busy
    BY <2>1 DEF TypeOK, Scan
  <2>3. scan.try \in 1 .. MaxTries /\ MaxTries \in Nat
    BY PipelineAssumption DEF PipelineAssumption, TypeOK, Scan
  <2>4. Progress(scan) < Progress(scan')
    BY <2>2, <2>3 DEF Progress, PhaseStart
  <2>5. QED BY <2>1, <2>2, <2>4 DEF Advances
<1>2. CASE ~scan.webhook
  BY <1>2, FinishAdvances DEF SnapshotSaved
<1>3. QED BY <1>1, <1>2

LEMMA ReturnErrorAdvances ==
    ASSUME TypeOK, NEW a, ReturnError(a) PROVE RunMoves
BY AttemptFailedAdvances DEF ReturnError, Live, RunMoves

LEMMA StepMoves == TypeOK /\ [Next]_vars => RunMoves
<1> SUFFICES ASSUME TypeOK, [Next]_vars PROVE RunMoves OBVIOUS
<1>0. MaxTries \in Nat /\ scan \in Scan /\ scan.try \in 1 .. MaxTries /\ scan.id \in Nat
  BY PipelineAssumption DEF PipelineAssumption, TypeOK, Scan
<1>1. ASSUME NEW full \in BOOLEAN, NEW webhook \in BOOLEAN, NEW types \in SUBSET Types,
             StartScan(full, types, webhook)
      PROVE  RunMoves
  <2>1. scan'.id = scan.id + 1 /\ (scan'.phase = "idle" <=> types = {})
    BY <1>1 DEF StartScan
  <2>2. QED BY <1>1, <2>1 DEF StartScan, RunMoves, Begins
<1>2. CASE Collect
  <2> DEFINE successful == {t \in scan.types : status[t] = "succeeded"}
  <2>1. CASE successful = {}
    BY <1>2, <2>1, FinishAdvances DEF Collect, RunMoves
  <2>2. CASE successful # {}
    <3>1. scan.phase = "detect" /\ outcome' = outcome
          /\ scan' = [scan EXCEPT !.phase = "snapshot", !.successful = successful]
      BY <1>2, <2>2 DEF Collect
    <3>2. scan'.id = scan.id /\ scan'.phase = "snapshot" /\ scan'.try = scan.try
          /\ scan'.busy = scan.busy
      BY <1>0, <3>1 DEF Scan
    <3>3. Progress(scan) < Progress(scan')
      BY <1>0, <3>1, <3>2 DEF Progress, PhaseStart
    <3>4. QED BY <3>1, <3>2, <3>3 DEF Advances, RunMoves
  <2>3. QED BY <2>1, <2>2
<1>3. ASSUME NEW w \in Workers, StartSnapshot(w) PROVE RunMoves
  <2>1. scan.phase = "snapshot" /\ ~scan.busy /\ outcome' = outcome
        /\ scan' = [scan EXCEPT !.busy = TRUE]
    BY <1>3 DEF StartSnapshot
  <2>2. scan'.id = scan.id /\ scan'.phase = "snapshot" /\ scan'.try = scan.try /\ scan'.busy
    BY <1>0, <2>1 DEF Scan
  <2>3. Progress(scan) < Progress(scan')
    BY <1>0, <2>1, <2>2 DEF Progress, PhaseStart
  <2>4. QED BY <2>1, <2>2, <2>3 DEF Advances, RunMoves
<1>4. CASE AttemptTimesOut \/ AttemptIsLate
  BY <1>4, AttemptFailedAdvances DEF AttemptTimesOut, AttemptIsLate, RunMoves
<1>5. CASE Notify
  BY <1>5, FinishAdvances DEF Notify, RunMoves
<1>6. CASE NotifyFails
  <2>1. CASE scan.try < MaxTries
    <3>1. scan.phase = "notify" /\ outcome' = outcome /\ scan' = [scan EXCEPT !.try = scan.try + 1]
      BY <1>6, <2>1 DEF NotifyFails
    <3>2. scan'.id = scan.id /\ scan'.phase = "notify" /\ scan'.try = scan.try + 1
          /\ scan'.busy = scan.busy
      BY <1>0, <3>1 DEF Scan
    <3>3. Progress(scan) < Progress(scan')
      BY <1>0, <3>1, <3>2 DEF Progress, PhaseStart
    <3>4. QED BY <3>1, <3>2, <3>3 DEF Advances, RunMoves
  <2>2. CASE ~(scan.try < MaxTries)
    BY <1>6, <2>2, FinishAdvances DEF NotifyFails, RunMoves
  <2>3. QED BY <2>1, <2>2
<1>7. CASE ScanTimesOut
  BY <1>7, FinishAdvances DEF ScanTimesOut, RunMoves
<1>8. ASSUME NEW a \in writers, Validate(a) PROVE RunMoves
  BY <1>8, ReturnErrorAdvances DEF Validate, RunMoves
<1>9. ASSUME NEW a \in writers, PutFails(a) PROVE RunMoves
  BY <1>9, ReturnErrorAdvances DEF PutFails
<1>10. ASSUME NEW a \in writers, PutLatest(a) PROVE RunMoves
  BY <1>10, SnapshotSavedAdvances DEF PutLatest, Live, RunMoves
<1>11. ASSUME UNCHANGED <<scan, outcome>> PROVE RunMoves
  BY <1>11 DEF RunMoves
<1>12. QED
  BY <1>1, <1>2, <1>3, <1>4, <1>5, <1>6, <1>7, <1>8, <1>9, <1>10, <1>11
  DEF Next, OrchestratorStep, WriterStep, AllScansEnded, vars, ChildEnds, Publish, PublishLate,
      ListFindings, PutDated, WorkerRestarts

(* A scan is only ever replaced by the next one once it has ended, and     *)
(* every other step of it gets further, up to a bound: no order of failed  *)
(* attempts, lost replies and repeated notifications makes the             *)
(* orchestrator go round in a circle.                                      *)
ScansAdvance ==
    [][/\ scan' # scan => \/ scan.phase = "idle" /\ scan'.id = scan.id + 1
                          \/ scan'.id = scan.id /\ Progress(scan) < Progress(scan')
       /\ Progress(scan') \in 0 .. MaxProgress]_vars

THEOREM NoScanGoesInCircles == Spec => ScansAdvance
<1>1. TypeOK /\ TypeOK' /\ RunMoves =>
        /\ scan' # scan => \/ scan.phase = "idle" /\ scan'.id = scan.id + 1
                           \/ scan'.id = scan.id /\ Progress(scan) < Progress(scan')
        /\ Progress(scan') \in 0 .. MaxProgress
  BY ProgressTyped DEF RunMoves, Begins, Advances, TypeOK
<1>2. QED BY <1>1, StepMoves, TypeCorrect, PTL DEF Spec, ScansAdvance

(* Exactly the scan in progress is running, and only later ones have yet   *)
(* to start.                                                               *)
OutcomesFit ==
    \A s \in ScanIDs :
        /\ outcome[s] = "running" <=> s = scan.id /\ scan.phase # "idle"
        /\ outcome[s] = "none" <=> s > scan.id

LEMMA OutcomesInit == Init => OutcomesFit
BY DEF Init, OutcomesFit, ScanIDs

LEMMA OutcomesStep == TypeOK /\ TypeOK' /\ OutcomesFit /\ RunMoves => OutcomesFit'
<1> SUFFICES ASSUME TypeOK, TypeOK', OutcomesFit, RunMoves PROVE OutcomesFit' OBVIOUS
<1>0. scan.id \in Nat /\ ScanIDs \subseteq Nat /\ outcome \in [ScanIDs -> Outcomes]
  BY DEF TypeOK, Scan, ScanIDs, Outcomes
<1>1. CASE Begins
  <2> DEFINE r == IF scan'.phase = "idle" THEN "failed" ELSE "running"
  <2>1. scan'.id = scan.id + 1 /\ scan.phase = "idle"
        /\ \A s \in ScanIDs : outcome'[s] = IF s = scan.id + 1 THEN r ELSE outcome[s]
    BY <1>0, <1>1 DEF Begins
  <2>2. QED BY <1>0, <2>1 DEF OutcomesFit
<1>2. CASE Advances /\ scan'.phase = "idle"
  <2>1. PICK r \in {"completed", "failed"} : outcome' = [outcome EXCEPT ![scan.id] = r]
    BY <1>2 DEF Advances
  <2>2. \A s \in ScanIDs : outcome'[s] = IF s = scan.id THEN r ELSE outcome[s]
    BY <1>0, <2>1
  <2>3. QED BY <1>0, <1>2, <2>2 DEF OutcomesFit, Advances
<1>3. CASE Advances /\ scan'.phase # "idle"
  BY <1>3 DEF OutcomesFit, Advances
<1>4. CASE UNCHANGED <<scan, outcome>>
  BY <1>4 DEF OutcomesFit
<1>5. QED BY <1>1, <1>2, <1>3, <1>4 DEF RunMoves

LEMMA OutcomesInvariance == Spec => []OutcomesFit
BY OutcomesInit, OutcomesStep, StepMoves, TypeCorrect, PTL DEF Spec

(* How a scan ended is never revised: a late attempt, a lost reply or a    *)
(* next scan does not turn a failed scan into a completed one, or back.    *)
OutcomesFinal ==
    [][\A s \in ScanIDs : outcome[s] \in {"completed", "failed"} => outcome'[s] = outcome[s]]_vars

THEOREM OutcomesAreFinal == Spec => OutcomesFinal
<1>1. ASSUME TypeOK, OutcomesFit, RunMoves
      PROVE  \A s \in ScanIDs : outcome[s] \in {"completed", "failed"} => outcome'[s] = outcome[s]
  <2> SUFFICES ASSUME NEW s \in ScanIDs, outcome[s] \in {"completed", "failed"}
               PROVE  outcome'[s] = outcome[s]
    OBVIOUS
  <2>1. outcome \in [ScanIDs -> Outcomes] /\ scan.id \in Nat /\ s \in Nat
    BY <1>1 DEF TypeOK, Outcomes, Scan, ScanIDs
  <2>2. s # scan.id + 1 /\ (scan.phase # "idle" => s # scan.id)
    BY <1>1, <2>1 DEF OutcomesFit
  <2>3. CASE Begins BY <2>1, <2>2, <2>3 DEF Begins
  <2>4. CASE Advances BY <2>1, <2>2, <2>4 DEF Advances
  <2>5. QED BY <1>1, <2>3, <2>4 DEF RunMoves
<1>2. TypeOK /\ OutcomesFit /\ [Next]_vars =>
        \A s \in ScanIDs : outcome[s] \in {"completed", "failed"} => outcome'[s] = outcome[s]
  BY <1>1, StepMoves
<1>3. QED BY <1>2, OutcomesInvariance, TypeCorrect, PTL DEF Spec, OutcomesFinal

(* The place in its scan at which an attempt was started. *)
StartedAt(a) == 2 * (MaxTries + 1) + 2 * a.try + 1

(* Every attempt that executes was started by its scan, and no two for the *)
(* same try of the same scan.                                              *)
OncePerTry ==
    /\ \A a \in writers :
         a.scan <= scan.id /\ (a.scan = scan.id => StartedAt(a) <= Progress(scan))
    /\ \A a, b \in writers : a.scan = b.scan /\ a.try = b.try => a = b

(* The orchestrator goes on, and no attempt is started. *)
LEMMA OnceMoves ==
    ASSUME TypeOK, TypeOK', OncePerTry, RunMoves, writers' \subseteq writers
    PROVE  OncePerTry'
<1>a. Progress(scan) \in Nat /\ Progress(scan') \in Nat
  BY ProgressTyped DEF TypeOK
<1>b. /\ scan.id \in Nat /\ MaxTries \in Nat
      /\ \A a \in writers : a.scan \in Nat /\ a.try \in Nat
  BY PipelineAssumption DEF PipelineAssumption, TypeOK, Scan, Writer, ScanIDs
<1>0. /\ scan.id \in Nat /\ Progress(scan) \in Nat /\ Progress(scan') \in Nat /\ MaxTries \in Nat
      /\ \A a \in writers : a.scan \in Nat /\ a.try \in Nat
  BY <1>a, <1>b
<1>1. ASSUME NEW a \in writers
      PROVE  a.scan <= scan'.id /\ (a.scan = scan'.id => StartedAt(a) <= Progress(scan'))
  <2>1. a.scan <= scan.id /\ (a.scan = scan.id => StartedAt(a) <= Progress(scan)) /\ StartedAt(a) \in Nat
    BY <1>0 DEF OncePerTry, StartedAt
  <2>2. CASE Begins BY <1>0, <2>1, <2>2 DEF Begins
  <2>3. CASE Advances BY <1>0, <2>1, <2>3 DEF Advances
  <2>4. CASE scan' = scan BY <2>1, <2>4
  <2>5. QED BY <2>2, <2>3, <2>4 DEF RunMoves
<1>2. QED BY <1>1 DEF OncePerTry, StartedAt

(* One attempt goes on with its work. *)
LEMMA OnceGoesOn ==
    ASSUME OncePerTry, scan' = scan, NEW a \in writers, NEW b,
           b.scan = a.scan, b.try = a.try, writers' = (writers \ {a}) \cup {b}
    PROVE  OncePerTry'
<1>1. \A c \in writers' : \E d \in writers : c.scan = d.scan /\ c.try = d.try /\ (c = b \/ c = d)
  OBVIOUS
<1>2. \A c \in writers' : c.scan <= scan'.id /\ (c.scan = scan'.id => StartedAt(c) <= Progress(scan'))
  BY <1>1 DEF OncePerTry, StartedAt
<1>3. \A c, d \in writers' : c.scan = d.scan /\ c.try = d.try => c = d
  BY DEF OncePerTry
<1>4. QED BY <1>2, <1>3 DEF OncePerTry

LEMMA OnceStep == TypeOK /\ OncePerTry /\ [Next]_vars => OncePerTry'
<1> SUFFICES ASSUME TypeOK, OncePerTry, [Next]_vars PROVE OncePerTry' OBVIOUS
<1>0. TypeOK' /\ RunMoves BY StepType, StepMoves
<1>1. CASE writers' \subseteq writers BY <1>0, <1>1, OnceMoves
<1>2. ASSUME NEW w \in Workers, StartSnapshot(w) PROVE OncePerTry'
  <2>1. PICK a : /\ a.scan = scan.id /\ a.try = scan.try
                 /\ writers' = writers \cup {a}
    BY <1>2 DEF StartSnapshot
  <2>2. scan.phase = "snapshot" /\ ~scan.busy /\ scan' = [scan EXCEPT !.busy = TRUE]
    BY <1>2 DEF StartSnapshot
  <2>3. scan'.id = scan.id /\ scan'.phase = "snapshot" /\ scan'.try = scan.try /\ scan'.busy
    BY <2>2 DEF TypeOK, Scan
  <2>4. /\ scan.id \in Nat /\ scan.try \in Nat /\ MaxTries \in Nat
        /\ \A b \in writers : b.scan \in Nat /\ b.try \in Nat
    BY PipelineAssumption DEF PipelineAssumption, TypeOK, Scan, Writer, ScanIDs
  <2>5. StartedAt(a) = Progress(scan') /\ Progress(scan) = Progress(scan') - 1
    BY <2>1, <2>2, <2>3, <2>4 DEF StartedAt, Progress, PhaseStart
  <2>6. Progress(scan') \in Nat
    BY <2>3, <2>4 DEF Progress, PhaseStart
  <2>7. \A b \in writers : b.scan <= scan.id /\ (b.scan = scan.id => StartedAt(b) < StartedAt(a))
    BY <2>4, <2>5, <2>6 DEF OncePerTry, StartedAt
  <2>8. \A b \in writers : ~(b.scan = a.scan /\ b.try = a.try)
    BY <2>1, <2>4, <2>7 DEF StartedAt
  <2>9. \A b \in writers' : b.scan <= scan'.id /\ (b.scan = scan'.id => StartedAt(b) <= Progress(scan'))
    BY <2>1, <2>3, <2>4, <2>5, <2>6, <2>7 DEF StartedAt
  <2>10. \A b, c \in writers' : b.scan = c.scan /\ b.try = c.try => b = c
    BY <2>1, <2>8 DEF OncePerTry
  <2>11. QED BY <2>9, <2>10 DEF OncePerTry, StartedAt
<1>3. ASSUME NEW a \in writers, NEW t \in Types, ListFindings(a, t) PROVE OncePerTry'
  <2>1. PICK b : b = Listed(a, t) OBVIOUS
  <2>2. writers' = (writers \ {a}) \cup {b} /\ scan' = scan
    BY <1>3, <2>1 DEF ListFindings, Listed
  <2>3. b.scan = a.scan /\ b.try = a.try
    BY <2>1 DEF Listed, TypeOK, Writer
  <2>4. QED BY <2>2, <2>3, OnceGoesOn
<1>4. ASSUME NEW a \in writers, Validate(a), Complete(a.snapshot) PROVE OncePerTry'
  <2>1. PICK b : b = [a EXCEPT !.step = "built"] OBVIOUS
  <2>2. writers' = (writers \ {a}) \cup {b} /\ scan' = scan
    BY <1>4, <2>1 DEF Validate
  <2>3. b.scan = a.scan /\ b.try = a.try BY <2>1 DEF TypeOK, Writer
  <2>4. QED BY <2>2, <2>3, OnceGoesOn
<1>5. ASSUME NEW a \in writers, PutDated(a) PROVE OncePerTry'
  <2>1. PICK b : b = [a EXCEPT !.step = "dated"] OBVIOUS
  <2>2. writers' = (writers \ {a}) \cup {b} /\ scan' = scan
    BY <1>5, <2>1 DEF PutDated
  <2>3. b.scan = a.scan /\ b.try = a.try BY <2>1 DEF TypeOK, Writer
  <2>4. QED BY <2>2, <2>3, OnceGoesOn
<1>6. ASSUME NEW a \in writers, Validate(a), ~Complete(a.snapshot) PROVE OncePerTry'
  BY <1>1, <1>6 DEF Validate, ReturnError, AttemptEnds
<1>7. ASSUME NEW a \in writers, PutLatest(a) \/ PutFails(a) PROVE OncePerTry'
  BY <1>1, <1>7 DEF PutLatest, PutFails, ReturnError, AttemptEnds
<1>8. ASSUME NEW w \in Workers, WorkerRestarts(w) PROVE OncePerTry'
  BY <1>1, <1>8 DEF WorkerRestarts
<1>9. QED
  BY <1>1, <1>2, <1>3, <1>4, <1>5, <1>6, <1>7, <1>8
  DEF Next, OrchestratorStep, WriterStep, AllScansEnded, vars, ChildEnds, Publish, PublishLate,
      StartScan, Collect, AttemptTimesOut, AttemptIsLate, Notify, NotifyFails, ScanTimesOut

(* However many late attempts are still writing, the reply the orchestrator *)
(* waits for can come from one of them only: that of the try it is at.      *)
OneAwaited == \A a, b \in writers : Live(a) /\ Live(b) => a = b

THEOREM OneReplyIsAwaited == Spec => []OneAwaited
<1>1. Init => OncePerTry BY DEF Init, OncePerTry
<1>2. OncePerTry => OneAwaited BY DEF OncePerTry, OneAwaited, Live
<1>3. QED BY <1>1, <1>2, OnceStep, TypeCorrect, PTL DEF Spec

(* Without late attempts a snapshot settles with its scan: only the scan   *)
(* that persists one writes its dated object, be it again after a lost     *)
(* reply, and latest.json never goes back.                                 *)
SnapshotsSettle ==
    [][~LateAttempts =>
         /\ \A s \in ScanIDs : snapshots'[s] # snapshots[s] => s = scan.id /\ scan.phase = "snapshot"
         /\ latest <= latest']_vars

LEMMA StepSettles ==
    IInv /\ [Next]_vars =>
      (~LateAttempts =>
         /\ \A s \in ScanIDs : snapshots'[s] # snapshots[s] => s = scan.id /\ scan.phase = "snapshot"
         /\ latest <= latest')
<1> SUFFICES ASSUME IInv, [Next]_vars, ~LateAttempts
             PROVE  /\ \A s \in ScanIDs : snapshots'[s] # snapshots[s] => s = scan.id /\ scan.phase = "snapshot"
                    /\ latest <= latest'
  OBVIOUS
<1>0. /\ TypeOK /\ latest \in Nat /\ latest <= scan.id
      /\ \A a \in writers : Live(a)
  BY DEF IInv, NoLateWriter, ScanInv, TypeOK
<1>1. ASSUME NEW a \in writers, PutDated(a)
      PROVE  /\ \A s \in ScanIDs : snapshots'[s] # snapshots[s] => s = scan.id /\ scan.phase = "snapshot"
             /\ latest <= latest'
  BY <1>0, <1>1 DEF PutDated, Live, TypeOK
<1>2. ASSUME NEW a \in writers, PutLatest(a)
      PROVE  snapshots' = snapshots /\ latest <= latest'
  BY <1>0, <1>2 DEF PutLatest, Live
<1>3. CASE UNCHANGED <<snapshots, latest>> BY <1>0, <1>3
<1>4. QED
  BY <1>1, <1>2, <1>3
  DEF Next, OrchestratorStep, WriterStep, AllScansEnded, vars, ChildEnds, Publish, PublishLate,
      StartScan, Collect, StartSnapshot, AttemptTimesOut, AttemptIsLate, Notify, NotifyFails,
      ScanTimesOut, ListFindings, Validate, PutFails, ReturnError, WorkerRestarts

THEOREM SnapshotsAreSettled == Spec => SnapshotsSettle
BY Invariance, StepSettles, PTL DEF Spec, SnapshotsSettle
=============================================================================
