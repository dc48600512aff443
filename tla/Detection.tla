----------------------------- MODULE Detection -----------------------------
(***************************************************************************)
(* The detection stage of one scan: one DetectionWorkflow child per        *)
(* resource type in the input, its five activities, and the worker         *)
(* processes that execute them (pkg/workflow/detection).  Nobody removes   *)
(* types that occur twice in the input: their children work side by side,  *)
(* on the same batch IDs, and the orchestrator keeps the future of the     *)
(* last of them only.                                                      *)
(*                                                                         *)
(*   inventory      the listing an inventory source would return now, as a *)
(*                  version number per resource type                       *)
(*   child          the workflow state Temporal keeps for each child       *)
(*   attempts       the activity attempts executing on some worker; an     *)
(*                  attempt Temporal gave up on stays here until it ends   *)
(*   resourceCache  Activities.resourceCache of each worker process        *)
(*   store          the in-memory findings store of each worker process    *)
(*   faults         how many faults the environment has injected so far    *)
(*                                                                         *)
(* A listing and the findings made from it are a Batch: the type of the    *)
(* resources in it, the version of the listing they were read from, and    *)
(* (for findings) the version of the listing the lifecycles were made for. *)
(* An activity runs in two steps, because other attempts can run between   *)
(* them: it loads what it works on, then it writes what it made and        *)
(* replies.  A reply may be lost, an attempt may outlive its timeout, and  *)
(* a worker may restart; each of these spends one of MaxFaults, and so     *)
(* does a type the input repeats.                                          *)
(***************************************************************************)
EXTENDS Naturals, FiniteSets

CONSTANTS
    Types,         \* resource types
    Children,      \* the positions of the input's resource types
    Inputs,        \* the lists of types the orchestrator may fan out over
    Workers,       \* the worker processes polling the task queue
    Providers,     \* the resource types main.go built an EOL provider for
    MaxRuns,       \* attempts of a child workflow (3 in the code)
    MaxTries,      \* attempts of an activity (5 in the code)
    MaxInventory,  \* bound: how often a listing changes during the scan
    MaxFaults,     \* bound: how many faults the environment injects
    LateAttempts,  \* may an attempt outlive the timeout Temporal gave it?
    None           \* no batch, no worker, no version

ASSUME BoundsAssumption ==
    /\ MaxRuns \in Nat \ {0}
    /\ MaxTries \in Nat \ {0}
    /\ MaxInventory \in Nat
    /\ MaxFaults \in Nat
ASSUME ConstantsAssumption ==
    /\ Workers # {}
    /\ Providers \subseteq Types
    /\ Children \subseteq Nat /\ IsFiniteSet(Children)
    /\ Inputs \subseteq [Children -> Types]
    /\ LateAttempts \in BOOLEAN
    /\ None \notin Workers
    /\ None \notin 0 .. MaxInventory

VARIABLES inventory, child, attempts, resourceCache, store, faults
vars == <<inventory, child, attempts, resourceCache, store, faults>>

Activities ==
    {"FetchInventory", "FetchEOLData", "DetectDrift", "StoreFindings", "EmitMetrics"}
Following ==
    [FetchInventory |-> "FetchEOLData", FetchEOLData |-> "DetectDrift",
     DetectDrift |-> "StoreFindings", StoreFindings |-> "EmitMetrics",
     EmitMetrics |-> "completed"]

Versions == 0 .. MaxInventory
Batch == [type : Types, version : Versions, lifecycles : Versions \cup {None}]
NoBatch == [type |-> None, version |-> None, lifecycles |-> None]

(* The keys of resourceCache.  All children of a scan share its ScanID, so *)
(* within one scan a batch ID is the resource type and, for findings, the  *)
(* "-findings" suffix.                                                     *)
BatchIDs == Types \X {"resources", "findings"}
SharedBatchID(t) == <<CHOOSE u \in Types : TRUE, "resources">>  \* mutant: the ScanID alone
ResourceBatchID(t) == <<t, "resources">>
FindingsBatchID(batchID) == <<batchID[1], "findings">>

Child == [type : Types, pc : {"session", "completed", "failed"} \cup Activities,
          run : 1 .. MaxRuns, try : 1 .. MaxTries, busy : BOOLEAN,
          host : Workers \cup {None}, up : BOOLEAN,
          lifecycles : Versions \cup {None},
          detected : Batch \cup {NoBatch}, summary : Batch \cup {NoBatch}]
Attempt == [child : Children, type : Types, run : 1 .. MaxRuns, try : 1 .. MaxTries,
            activity : Activities, host : Workers, loaded : BOOLEAN,
            lifecycles : Versions \cup {None}, batch : Batch \cup {NoBatch}]

(* A run of a child starts by asking for a session. *)
NewRun(t, n) == [type |-> t, pc |-> "session", run |-> n, try |-> 1, busy |-> FALSE,
                 host |-> None, up |-> FALSE, lifecycles |-> None,
                 detected |-> NoBatch, summary |-> NoBatch]

(* A type that is listed again counts as one of the faults of the bound. *)
Repeated(types) == {n \in Children : \E m \in Children : m < n /\ types[m] = types[n]}

Init ==
    /\ inventory = [t \in Types |-> 0]
    /\ \E types \in Inputs : /\ child = [n \in Children |-> NewRun(types[n], 1)]
                            /\ faults = Cardinality(Repeated(types))
    /\ attempts = {}
    /\ resourceCache = [w \in Workers |-> [b \in BatchIDs |-> NoBatch]]
    /\ store = [w \in Workers |-> [t \in Types |-> NoBatch]]

Fault == faults < MaxFaults /\ faults' = faults + 1

-----------------------------------------------------------------------------
(* The child workflow. *)

Ended(n) == child[n].pc \in {"completed", "failed"}

(* Temporal accepts the reply of an attempt only while it waits for it. *)
Live(a) ==
    LET c == child[a.child]
    IN c.busy /\ c.pc = a.activity /\ c.run = a.run /\ c.try = a.try

RunFailed(c) ==
    IF c.run < MaxRuns THEN NewRun(c.type, c.run + 1)
    ELSE [c EXCEPT !.pc = "failed", !.busy = FALSE]

(* mutant: an error of StoreFindings is logged and ignored as well *)
ActivityFailedLenient(c) ==
    IF c.pc \in {"StoreFindings", "EmitMetrics"} THEN [c EXCEPT !.pc = "completed", !.busy = FALSE]
    ELSE RunFailed(c)

(* Every activity error fails the run, except that of EmitMetrics: the     *)
(* child then completes without a summary.                                 *)
ActivityFailed(c) ==
    IF c.pc = "EmitMetrics" THEN [c EXCEPT !.pc = "completed", !.busy = FALSE]
    ELSE RunFailed(c)

(* mutants: one attempt too many; attempts without end *)
AttemptFailedOverrun(c) ==
    IF c.try <= MaxTries THEN [c EXCEPT !.try = c.try + 1, !.busy = FALSE]
    ELSE ActivityFailed(c)
AttemptFailedForever(c) == [c EXCEPT !.busy = FALSE]

AttemptFailed(c) ==
    IF c.try < MaxTries THEN [c EXCEPT !.try = c.try + 1, !.busy = FALSE]
    ELSE ActivityFailed(c)

ActivitySucceeded(c) ==
    [c EXCEPT !.pc = Following[c.pc], !.try = 1, !.busy = FALSE]

SetChild(n, c) == child' = [child EXCEPT ![n] = c]

(* The session pins the run's activities to the worker that accepted it. *)
CreateSession(n, w) ==
    /\ child[n].pc = "session"
    /\ SetChild(n, [child[n] EXCEPT !.pc = "FetchInventory", !.host = w, !.up = TRUE])
    /\ UNCHANGED <<inventory, attempts, resourceCache, store, faults>>

CreateSessionTimesOut(n) ==
    /\ child[n].pc = "session"
    /\ Fault
    /\ SetChild(n, RunFailed(child[n]))
    /\ UNCHANGED <<inventory, attempts, resourceCache, store>>

(* The next attempt of the current activity starts on the session's worker. *)
StartAttempt(n) ==
    LET c == child[n] IN
    /\ c.pc \in Activities /\ ~c.busy /\ c.up
    /\ SetChild(n, [c EXCEPT !.busy = TRUE])
    /\ attempts' = attempts \cup
         {[child |-> n, type |-> c.type, run |-> c.run, try |-> c.try, activity |-> c.pc,
           host |-> c.host, loaded |-> FALSE, lifecycles |-> c.lifecycles,
           batch |-> NoBatch]}
    /\ UNCHANGED <<inventory, resourceCache, store, faults>>

(* No attempt that Temporal waits for is still executing for a child. *)
Quiet(n) == \A a \in attempts : a.child = n => ~Live(a)

(* StartToCloseTimeout of an attempt whose worker is gone or whose reply   *)
(* was lost; AttemptIsLate is the one that is still executing.             *)
AttemptTimesOut(n) ==
    /\ child[n].busy /\ child[n].up /\ Quiet(n)
    /\ SetChild(n, AttemptFailed(child[n]))
    /\ UNCHANGED <<inventory, attempts, resourceCache, store, faults>>

AttemptIsLate(n) ==
    /\ LateAttempts
    /\ child[n].busy /\ child[n].up /\ ~Quiet(n)
    /\ Fault
    /\ SetChild(n, AttemptFailed(child[n]))
    /\ UNCHANGED <<inventory, attempts, resourceCache, store>>

(* The session's worker is gone: the current activity fails for good. *)
SessionFails(n) ==
    /\ child[n].pc \in Activities /\ ~child[n].up
    /\ SetChild(n, ActivityFailed(child[n]))
    /\ UNCHANGED <<inventory, attempts, resourceCache, store, faults>>

(* The session's ExecutionTimeout. *)
SessionTimesOut(n) ==
    /\ child[n].pc \in Activities /\ child[n].up
    /\ LateAttempts \/ Quiet(n)
    /\ Fault
    /\ SetChild(n, ActivityFailed(child[n]))
    /\ UNCHANGED <<inventory, attempts, resourceCache, store>>

(* The child's WorkflowExecutionTimeout, which spans its runs. *)
ChildTimesOut(n) ==
    /\ ~Ended(n)
    /\ Fault
    /\ LateAttempts \/ Quiet(n)
    /\ SetChild(n, [child[n] EXCEPT !.pc = "failed", !.busy = FALSE])
    /\ UNCHANGED <<inventory, attempts, resourceCache, store>>

-----------------------------------------------------------------------------
(* The activities. *)

(* What an attempt finds when it loads its input. *)
InputOf(a) ==
    CASE a.activity = "FetchInventory" ->
           [type |-> a.type, version |-> inventory[a.type], lifecycles |-> None]
      [] a.activity \in {"FetchEOLData", "DetectDrift"} ->
           resourceCache[a.host][ResourceBatchID(a.type)]
      [] OTHER ->
           resourceCache[a.host][FindingsBatchID(ResourceBatchID(a.type))]

HasProvider(a) == a.activity = "FetchEOLData" => a.type \in Providers

Load(a) ==
    /\ ~a.loaded /\ InputOf(a) # NoBatch /\ HasProvider(a)
    /\ attempts' = (attempts \ {a}) \cup {[a EXCEPT !.loaded = TRUE, !.batch = InputOf(a)]}
    /\ UNCHANGED <<inventory, child, resourceCache, store, faults>>

(* The attempt returns an error: its batch is not in the cache, the type   *)
(* has no EOL provider, or the inventory source failed.                    *)
ReturnError(a) ==
    /\ ~a.loaded
    /\ \/ (InputOf(a) = NoBatch \/ ~HasProvider(a)) /\ UNCHANGED faults
       \/ a.activity = "FetchInventory" /\ Fault
    /\ attempts' = attempts \ {a}
    /\ IF Live(a) THEN SetChild(a.child, AttemptFailed(child[a.child])) ELSE UNCHANGED child
    /\ UNCHANGED <<inventory, resourceCache, store>>

(* The attempt ends; its reply moves the child to c, comes too late to     *)
(* count, or is lost.                                                      *)
Reply(a, c) ==
    /\ attempts' = attempts \ {a}
    /\ \/ Live(a) /\ SetChild(a.child, c) /\ UNCHANGED faults
       \/ ~Live(a) /\ UNCHANGED <<child, faults>>
       \/ Live(a) /\ Fault /\ UNCHANGED child

FetchInventory(a) ==
    /\ a.activity = "FetchInventory" /\ a.loaded
    /\ resourceCache' = [resourceCache EXCEPT ![a.host][ResourceBatchID(a.type)] = a.batch]
    /\ Reply(a, ActivitySucceeded(child[a.child]))
    /\ UNCHANGED <<inventory, store>>

FetchEOLData(a) ==
    /\ a.activity = "FetchEOLData" /\ a.loaded
    /\ Reply(a, [ActivitySucceeded(child[a.child]) EXCEPT !.lifecycles = a.batch.version])
    /\ UNCHANGED <<inventory, resourceCache, store>>

(* mutant: findings that are in the cache already are not replaced *)
DetectDriftKeeps(a) ==
    LET batchID  == ResourceBatchID(a.type)
        findings == [a.batch EXCEPT !.lifecycles = a.lifecycles]
        cached   == resourceCache[a.host][FindingsBatchID(batchID)]
    IN /\ a.activity = "DetectDrift" /\ a.loaded
       /\ resourceCache' = [resourceCache EXCEPT
              ![a.host][batchID] = NoBatch,
              ![a.host][FindingsBatchID(batchID)] = IF cached = NoBatch THEN findings ELSE cached]
       /\ Reply(a, [ActivitySucceeded(child[a.child]) EXCEPT !.detected = findings])
       /\ UNCHANGED <<inventory, store>>

(* The resource batch is dropped and the findings batch takes its place. *)
DetectDrift(a) ==
    LET batchID  == ResourceBatchID(a.type)
        findings == [a.batch EXCEPT !.lifecycles = a.lifecycles]
    IN /\ a.activity = "DetectDrift" /\ a.loaded
       /\ resourceCache' = [resourceCache EXCEPT ![a.host][batchID] = NoBatch,
                                                 ![a.host][FindingsBatchID(batchID)] = findings]
       /\ Reply(a, [ActivitySucceeded(child[a.child]) EXCEPT !.detected = findings])
       /\ UNCHANGED <<inventory, store>>

(* mutant: evict after writing *)
ReplaceFindingsEvictsLast(st, t, findings) ==
    [u \in Types |-> IF u = t THEN NoBatch
                     ELSE IF u = findings.type THEN findings ELSE st[u]]

(* Store.ReplaceFindings: evict the type's findings, then write each new   *)
(* one under the type it carries.                                          *)
ReplaceFindings(st, t, findings) ==
    [u \in Types |-> IF u = findings.type THEN findings
                     ELSE IF u = t THEN NoBatch ELSE st[u]]

StoreFindings(a) ==
    /\ a.activity = "StoreFindings" /\ a.loaded
    /\ store' = [store EXCEPT ![a.host] = ReplaceFindings(store[a.host], a.type, a.batch)]
    /\ Reply(a, ActivitySucceeded(child[a.child]))
    /\ UNCHANGED <<inventory, resourceCache>>

(* mutant: the findings batch stays in the cache *)
EmitMetricsKeeps(a) ==
    /\ a.activity = "EmitMetrics" /\ a.loaded
    /\ Reply(a, [ActivitySucceeded(child[a.child]) EXCEPT !.summary = a.batch])
    /\ UNCHANGED <<inventory, resourceCache, store>>

EmitMetrics(a) ==
    /\ a.activity = "EmitMetrics" /\ a.loaded
    /\ resourceCache' =
         [resourceCache EXCEPT ![a.host][FindingsBatchID(ResourceBatchID(a.type))] = NoBatch]
    /\ Reply(a, [ActivitySucceeded(child[a.child]) EXCEPT !.summary = a.batch])
    /\ UNCHANGED <<inventory, store>>

-----------------------------------------------------------------------------
(* The environment. *)

InventoryChanges(t) ==
    /\ inventory[t] < MaxInventory
    /\ inventory' = [inventory EXCEPT ![t] = @ + 1]
    /\ UNCHANGED <<child, attempts, resourceCache, store, faults>>

(* A worker process dies and a fresh one takes its place: everything it    *)
(* held in memory and everything it was executing is gone.                 *)
WorkerRestarts(w) ==
    /\ Fault
    /\ resourceCache' = [resourceCache EXCEPT ![w] = [b \in BatchIDs |-> NoBatch]]
    /\ store' = [store EXCEPT ![w] = [t \in Types |-> NoBatch]]
    /\ attempts' = {a \in attempts : a.host # w}
    /\ child' = [n \in Children |-> IF child[n].host = w THEN [child[n] EXCEPT !.up = FALSE]
                                    ELSE child[n]]
    /\ UNCHANGED inventory

(* Nothing is left to do. *)
Finished ==
    /\ \A n \in Children : Ended(n)
    /\ attempts = {}
    /\ UNCHANGED vars

WorkflowStep(n) ==
    \/ \E w \in Workers : CreateSession(n, w)
    \/ StartAttempt(n)
    \/ AttemptTimesOut(n)
    \/ SessionFails(n)

ActivityStep(a) ==
    \/ Load(a) \/ ReturnError(a)
    \/ FetchInventory(a) \/ FetchEOLData(a) \/ DetectDrift(a)
    \/ StoreFindings(a) \/ EmitMetrics(a)

Next ==
    \/ \E n \in Children : WorkflowStep(n)
    \/ \E n \in Children : \/ CreateSessionTimesOut(n) \/ AttemptIsLate(n)
                          \/ SessionTimesOut(n) \/ ChildTimesOut(n)
    \/ \E a \in attempts : ActivityStep(a)
    \/ \E t \in Types : InventoryChanges(t)
    \/ \E w \in Workers : WorkerRestarts(w)
    \/ Finished

Spec == Init /\ [][Next]_vars

(* Temporal keeps driving every child, and a live worker finishes what it  *)
(* executes.                                                               *)
FairSpec ==
    /\ Spec
    /\ \A n \in Children : WF_vars(WorkflowStep(n))
    /\ WF_vars(\E a \in attempts : ActivityStep(a))

-----------------------------------------------------------------------------
(* What the orchestrator sees of a type (DetectionContract): the future of *)
(* its last child, pending, resolved or failed.  The store is acknowledged *)
(* from the step after StoreFindings on.  A child whose future was         *)
(* replaced looks like an attempt nobody waits for.                        *)
Shows(t, pcs) ==
    \E n \in Children : /\ child[n].type = t /\ child[n].pc \in pcs
                        /\ \A m \in Children : m > n => child[m].type # t

Contract == INSTANCE DetectionContract WITH
    Findings   <- Batch,
    NoFindings <- NoBatch,
    status     <- [t \in Types |-> IF Shows(t, {"completed"}) THEN "succeeded"
                                   ELSE IF Shows(t, {"failed"}) THEN "failed" ELSE "running"],
    acked      <- [t \in Types |-> Shows(t, {"EmitMetrics", "completed"})]

-----------------------------------------------------------------------------
(* Properties. *)

(* The workflow, its sessions, retries and caches do no more than the      *)
(* contract allows: a child reports success only after its findings were   *)
(* stored and acknowledged, and what was acknowledged is not overwritten   *)
(* by the child itself unless an attempt of it is late.  A second child of *)
(* the same type does no more than a late attempt could.                   *)
ImplementsContract == Contract!Spec

(* Every variable has its type. *)
TypeOK ==
    /\ inventory \in [Types -> Versions]
    /\ child \in [Children -> Child]
    /\ attempts \in SUBSET Attempt
    /\ resourceCache \in [Workers -> [BatchIDs -> Batch \cup {NoBatch}]]
    /\ store \in [Workers -> [Types -> Batch \cup {NoBatch}]]
    /\ faults \in Nat

(* Children of one scan share a ScanID and a cache, and never resources of *)
(* another type: what a child detected and summarised came from its type's *)
(* inventory (FetchInventory's batch ID carries the type).                 *)
OwnInventory ==
    \A n \in Children :
        /\ child[n].detected # NoBatch => child[n].detected.type = child[n].type
        /\ child[n].summary # NoBatch => child[n].summary.type = child[n].type

(* A child that reports success has its findings in its worker's store,    *)
(* whatever was retried, lost or late, and whoever consumed its batches,   *)
(* unless that worker has restarted.                                       *)
CompletedIsStored ==
    \A n \in Children :
        LET c == child[n]
        IN c.pc = "completed" /\ c.up => store[c.host][c.type] # NoBatch

Alone(n) == \A m \in Children : child[m].type = child[n].type => m = n

(* When no attempt outlives its timeout, the count, the summary and the    *)
(* stored findings of a successful child all describe one listing, and its *)
(* lifecycles were fetched for that same listing, although each activity   *)
(* rereads the cache and any of them may have been retried.  (Children of  *)
(* one type take each other's batches.)                                    *)
Coherent ==
    ~LateAttempts =>
        \A n \in Children :
            LET c == child[n]
            IN Alone(n) /\ c.pc = "completed" /\ c.up =>
                  /\ store[c.host][c.type] = c.detected
                  /\ c.summary \in {NoBatch, c.detected}
                  /\ c.detected.lifecycles = c.detected.version

(* A child that got its summary leaves neither of its batches behind in    *)
(* the cache of its worker, which nothing else would ever empty.           *)
CacheDrained ==
    ~LateAttempts =>
        \A n \in Children :
            LET c == child[n]
            IN Alone(n) /\ c.pc = "completed" /\ c.summary # NoBatch =>
                  \A kind \in {"resources", "findings"} :
                      resourceCache[c.host][<<c.type, kind>>] = NoBatch

(* Every child of the fan-out ends, so the orchestrator's Get returns,     *)
(* also when two of them consume each other's batches.                     *)
ScanEnds == <>(\A n \in Children : Ended(n))
=============================================================================
