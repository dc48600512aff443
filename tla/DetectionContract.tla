------------------------- MODULE DetectionContract -------------------------
(***************************************************************************)
(* What the detection stage promises the orchestrator, without its         *)
(* sessions, retries and caches.  A child publishes findings for its type  *)
(* in the store of some worker process and ends; it may report success     *)
(* only after a publication of its current run was acknowledged.  Detection*)
(* implements this module, and ScanPipeline builds the scan on top of it.  *)
(***************************************************************************)
CONSTANTS
    Types, Workers,
    Findings,      \* what a child can publish
    NoFindings,    \* what the store holds for a type before any of it
    LateAttempts   \* may an activity attempt outlive its timeout?

VARIABLES
    status,   \* the child's state for each type, as the orchestrator's future shows it
    acked,    \* has the child's StoreFindings been acknowledged in this run?
    store     \* the findings store of each worker process
vars == <<status, acked, store>>

(* Before the fan-out no child exists; right after it every one is running. *)
Init ==
    /\ \E s \in {"idle", "running"} : status = [t \in Types |-> s]
    /\ acked = [t \in Types |-> FALSE]
    /\ store = [w \in Workers |-> [t \in Types |-> NoFindings]]

Write(w, t, f) == store' = [store EXCEPT ![w][t] = f]

(* StoreFindings succeeded and the child knows. *)
PublishAcked(t, w, f) ==
    /\ Write(w, t, f)
    /\ status[t] = "running" /\ ~acked[t]
    /\ acked' = [acked EXCEPT ![t] = TRUE]
    /\ UNCHANGED status

(* StoreFindings took effect and the child does not know: its reply was    *)
(* lost, or the attempt is a late one that nobody waits for.               *)
PublishUnacked(t, w, f) ==
    /\ Write(w, t, f)
    /\ LateAttempts \/ (status[t] = "running" /\ ~acked[t])
    /\ UNCHANGED <<status, acked>>

Succeed(t) ==
    /\ status[t] = "running" /\ acked[t]
    /\ status' = [status EXCEPT ![t] = "succeeded"]
    /\ UNCHANGED <<acked, store>>

Fail(t) ==
    /\ status[t] = "running"
    /\ status' = [status EXCEPT ![t] = "failed"]
    /\ acked' = [acked EXCEPT ![t] = FALSE]
    /\ UNCHANGED store

(* A worker process restarts with an empty store. *)
Forget(w) ==
    /\ store' = [store EXCEPT ![w] = [t \in Types |-> NoFindings]]
    /\ UNCHANGED <<status, acked>>

Next ==
    \/ \E t \in Types : Succeed(t) \/ Fail(t)
    \/ \E t \in Types, w \in Workers, f \in Findings :
           PublishAcked(t, w, f) \/ PublishUnacked(t, w, f)
    \/ \E w \in Workers : Forget(w)

Spec == Init /\ [][Next]_vars
=============================================================================
