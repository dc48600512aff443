--------------------------- MODULE DetectionProofs ---------------------------
(***************************************************************************)
(* Proofs about Detection, for any number of types, children, workers,     *)
(* runs, tries, faults and listing changes, and any list of types.         *)
(***************************************************************************)
EXTENDS Detection, FiniteSetTheorems, TLAPS

(* Where a child finds its worker, where its attempts run, and what they   *)
(* carry: batches of their own type only.                                  *)
AttemptInv(a) ==
    LET c == child[a.child]
    IN /\ a.type = c.type /\ a.run <= c.run
       /\ a.run = c.run => c.pc # "session" /\ c.up /\ a.host = c.host
       /\ a.loaded => a.batch # NoBatch /\ a.batch.type = a.type

CacheInv ==
    \A w \in Workers, b \in BatchIDs :
        resourceCache[w][b] # NoBatch => resourceCache[w][b].type = b[1]

StoredInv(n) ==
    LET c == child[n]
    IN /\ c.busy => c.pc \in Activities
       /\ c.up => c.host \in Workers
       /\ c.pc \in {"EmitMetrics", "completed"} /\ c.up => store[c.host][c.type] # NoBatch

IInv ==
    /\ TypeOK /\ OwnInventory /\ CacheInv
    /\ \A a \in attempts : AttemptInv(a)
    /\ \A n \in Children : StoredInv(n)

USE BoundsAssumption, ConstantsAssumption DEF BoundsAssumption, ConstantsAssumption

-----------------------------------------------------------------------------
(* What moves of a child and its batches are made of. *)

LEMMA NoBatchIsNone == NoBatch \notin Batch
BY DEF Batch, NoBatch, Versions

LEMMA NewRunTyped == ASSUME NEW t \in Types, NEW r \in 1 .. MaxRuns PROVE NewRun(t, r) \in Child
BY DEF NewRun, Child, Activities

(* A child moved on in its run, or on to its next run, and has not been    *)
(* told of any batch.                                                      *)
SameRun(c, d) ==
    /\ d \in Child /\ d.type = c.type /\ d.run = c.run /\ d.host = c.host /\ d.up = c.up
    /\ d.pc # "session"
Failure(c, d) ==
    /\ c.pc \notin {"completed", "failed"}
    /\ \/ /\ c.pc # "EmitMetrics"
          /\ c.run < d.run /\ d.run \in 1 .. MaxRuns /\ d = NewRun(c.type, d.run)
       \/ /\ SameRun(c, d) /\ ~d.busy
          /\ d.lifecycles = c.lifecycles /\ d.detected = c.detected /\ d.summary = c.summary
          /\ d.pc \in {c.pc, "failed"} \/ (c.pc = "EmitMetrics" /\ d.pc = "completed")

LEMMA RunFailedIs ==
    ASSUME NEW c \in Child, c.pc \notin {"EmitMetrics", "completed", "failed"}
    PROVE  Failure(c, RunFailed(c))
<1>1. CASE c.run < MaxRuns
  <2>1. RunFailed(c) = NewRun(c.type, c.run + 1) /\ c.run + 1 \in 1 .. MaxRuns
        /\ NewRun(c.type, c.run + 1).run = c.run + 1 /\ c.run < c.run + 1
    BY <1>1 DEF RunFailed, Child, NewRun
  <2>2. QED BY <2>1 DEF Failure
<1>2. CASE ~(c.run < MaxRuns)
  <2>1. RunFailed(c) = [c EXCEPT !.pc = "failed", !.busy = FALSE] BY <1>2 DEF RunFailed
  <2>2. QED BY <2>1 DEF Failure, SameRun, Child
<1>3. QED BY <1>1, <1>2

LEMMA ActivityFailedIs ==
    ASSUME NEW c \in Child, c.pc \in Activities PROVE Failure(c, ActivityFailed(c))
<1>1. CASE c.pc = "EmitMetrics"
  <2>1. ActivityFailed(c) = [c EXCEPT !.pc = "completed", !.busy = FALSE] BY <1>1 DEF ActivityFailed
  <2>2. QED BY <1>1, <2>1 DEF Failure, SameRun, Child
<1>2. CASE c.pc # "EmitMetrics" BY <1>2, RunFailedIs DEF ActivityFailed, Activities
<1>3. QED BY <1>1, <1>2

LEMMA AttemptFailedIs ==
    ASSUME NEW c \in Child, c.pc \in Activities PROVE Failure(c, AttemptFailed(c))
<1>1. CASE c.try < MaxTries
  <2>1. AttemptFailed(c) = [c EXCEPT !.try = c.try + 1, !.busy = FALSE] /\ c.try + 1 \in 1 .. MaxTries
    BY <1>1 DEF AttemptFailed, Child
  <2>2. QED BY <2>1 DEF Failure, SameRun, Child, Activities
<1>2. CASE ~(c.try < MaxTries) BY <1>2, ActivityFailedIs DEF AttemptFailed
<1>3. QED BY <1>1, <1>2

(* What the reply of a successful activity tells the child. *)
Success(c, d) ==
    /\ SameRun(c, d)
    /\ d.pc = Following[c.pc] /\ d.try = 1 /\ d.busy = FALSE

LEMMA ActivitySucceededIs ==
    ASSUME NEW c \in Child, c.pc \in Activities,
           NEW l \in Versions \cup {None}, NEW b \in Batch \cup {NoBatch}
    PROVE  /\ Success(c, ActivitySucceeded(c))
           /\ Success(c, [ActivitySucceeded(c) EXCEPT !.lifecycles = l])
           /\ Success(c, [ActivitySucceeded(c) EXCEPT !.detected = b])
           /\ Success(c, [ActivitySucceeded(c) EXCEPT !.summary = b])
<1>1. Following[c.pc] \in {"completed"} \cup Activities /\ 1 \in 1 .. MaxTries
  BY DEF Following, Activities
<1>2. ActivitySucceeded(c) = [c EXCEPT !.pc = Following[c.pc], !.try = 1, !.busy = FALSE]
  BY DEF ActivitySucceeded
<1>3. ActivitySucceeded(c) \in Child BY <1>1, <1>2 DEF Child
<1> DEFINE d == ActivitySucceeded(c)
<1>4. Success(c, d)
  BY <1>1, <1>2, <1>3 DEF Success, SameRun, Child, Activities
<1> HIDE DEF d
<1>5. ASSUME NEW e, \/ e = [d EXCEPT !.lifecycles = l]
                    \/ e = [d EXCEPT !.detected = b]
                    \/ e = [d EXCEPT !.summary = b]
      PROVE  Success(c, e)
  BY <1>4, <1>5 DEF Success, SameRun, Child
<1>6. QED BY <1>4, <1>5 DEF d

(* What the reply leaves alone, and what the activity adds to it. *)
Moved(c, d) ==
    /\ d.type = c.type /\ d.host = c.host /\ d.up = c.up /\ d.pc = Following[c.pc]

LEMMA ActivitySucceededKeeps ==
    ASSUME NEW c \in Child
    PROVE  LET d == ActivitySucceeded(c)
           IN /\ Moved(c, d) /\ d.type = c.type /\ d.lifecycles = c.lifecycles
              /\ d.detected = c.detected /\ d.summary = c.summary
BY DEF ActivitySucceeded, Child, Moved

LEMMA ActivitySucceededAdds ==
    ASSUME NEW c \in Child, NEW x
    PROVE  /\ LET d == [ActivitySucceeded(c) EXCEPT !.lifecycles = x]
              IN /\ Moved(c, d) /\ d.type = c.type /\ d.lifecycles = x
                 /\ d.detected = c.detected /\ d.summary = c.summary
           /\ LET d == [ActivitySucceeded(c) EXCEPT !.detected = x]
              IN /\ Moved(c, d) /\ d.type = c.type /\ d.lifecycles = c.lifecycles
                 /\ d.detected = x /\ d.summary = c.summary
           /\ LET d == [ActivitySucceeded(c) EXCEPT !.summary = x]
              IN /\ Moved(c, d) /\ d.type = c.type /\ d.lifecycles = c.lifecycles
                 /\ d.detected = c.detected /\ d.summary = x
BY DEF ActivitySucceeded, Child, Moved

-----------------------------------------------------------------------------
(* The invariant is kept. *)

LEMMA FaultTyped == IInv /\ Fault => faults' \in Nat
BY DEF IInv, TypeOK, Fault

LEMMA Initially == Init => IInv
<1> SUFFICES ASSUME Init PROVE IInv OBVIOUS
<1>1. PICK types \in Inputs : /\ child = [n \in Children |-> NewRun(types[n], 1)]
                              /\ faults = Cardinality(Repeated(types))
  BY DEF Init
<1>2. faults \in Nat
  <2>1. Repeated(types) \subseteq Children BY DEF Repeated
  <2>2. QED BY <1>1, <2>1, FS_Subset, FS_CardinalityType
<1>3. 1 \in 1 .. MaxRuns /\ \A n \in Children : types[n] \in Types OBVIOUS
<1>4. child \in [Children -> Child] BY <1>1, <1>3, NewRunTyped
<1>5. TypeOK
  BY <1>2, <1>4 DEF Init, TypeOK, Versions
<1>6. OwnInventory BY <1>1 DEF OwnInventory, NewRun
<1>7. CacheInv BY DEF Init, CacheInv
<1>8. \A n \in Children : StoredInv(n) BY <1>1 DEF StoredInv, NewRun
<1>9. QED BY <1>5, <1>6, <1>7, <1>8 DEF Init, IInv

(* An activity, a session, a run or the child fails: nothing is written. *)
LEMMA FailureKeeps ==
    ASSUME IInv, NEW n \in Children, NEW d, SetChild(n, d), Failure(child[n], d),
           attempts' \subseteq attempts, faults' \in Nat,
           UNCHANGED <<inventory, resourceCache, store>>
    PROVE  IInv'
<1>1. child' = [child EXCEPT ![n] = d] /\ child \in [Children -> Child]
  BY DEF SetChild, IInv, TypeOK
<1>2. /\ d \in Child /\ d.type = child[n].type
      /\ ~d.busy
      /\ \/ /\ child[n].run < d.run /\ ~d.up /\ d.pc = "session"
            /\ d.detected = NoBatch /\ d.summary = NoBatch
         \/ /\ SameRun(child[n], d)
            /\ d.detected = child[n].detected /\ d.summary = child[n].summary
            /\ d.pc \in {"EmitMetrics", "completed"} => child[n].pc = "EmitMetrics"
  <2>1. child[n].type \in Types BY <1>1 DEF Child
  <2>2. CASE SameRun(child[n], d) BY <2>2 DEF Failure, SameRun, NewRun
  <2>3. CASE d.run \in 1 .. MaxRuns /\ d = NewRun(child[n].type, d.run)
    <3>1. d \in Child BY <2>1, <2>3, NewRunTyped
    <3>2. /\ d.type = child[n].type /\ ~d.up /\ ~d.busy /\ d.pc = "session"
          /\ d.detected = NoBatch /\ d.summary = NoBatch
      BY <2>3 DEF NewRun
    <3>3. QED BY <3>1, <3>2 DEF Failure, SameRun
  <2>4. QED BY <2>2, <2>3 DEF Failure
<1>3. TypeOK' BY <1>1, <1>2 DEF IInv, TypeOK
<1>4. OwnInventory' BY <1>1, <1>2 DEF IInv, OwnInventory
<1>5. CacheInv' BY DEF IInv, CacheInv
<1>6. \A m \in Children : StoredInv(m)' BY <1>1, <1>2 DEF IInv, StoredInv, SameRun
<1>7. ASSUME NEW a \in attempts PROVE AttemptInv(a)'
  <2>1. AttemptInv(a) /\ a.child \in Children /\ a.run \in Nat /\ child[n].run \in Nat /\ d.run \in Nat
    BY <1>1, <1>2 DEF IInv, TypeOK, Attempt, Child
  <2>2. QED BY <1>1, <1>2, <2>1 DEF AttemptInv, SameRun
<1>8. QED BY <1>3, <1>4, <1>5, <1>6, <1>7 DEF IInv

(* An activity writes, ends, and its reply is delivered, late or lost. *)
LEMMA ReplyKeeps ==
    ASSUME IInv, NEW a \in attempts, NEW d, Reply(a, d), inventory' = inventory,
           Live(a) => /\ Success(child[a.child], d)
                      /\ d.detected # NoBatch => d.detected.type = d.type
                      /\ d.summary # NoBatch => d.summary.type = d.type
                      /\ a.activity = "StoreFindings" => store'[a.host][a.type] # NoBatch,
           resourceCache' \in [Workers -> [BatchIDs -> Batch \cup {NoBatch}]], CacheInv',
           store' \in [Workers -> [Types -> Batch \cup {NoBatch}]],
           \A w \in Workers, t \in Types : store[w][t] # NoBatch => store'[w][t] # NoBatch
    PROVE  IInv'
<1>1. attempts' = attempts \ {a} /\ faults' \in Nat BY FaultTyped DEF Reply, IInv, TypeOK
<1>2. a \in Attempt /\ a.child \in Children /\ AttemptInv(a) /\ child \in [Children -> Child]
  BY DEF IInv, TypeOK, Attempt
<1>3. CASE Live(a) /\ SetChild(a.child, d)
  <2> DEFINE n == a.child
             c == child[n]
  <2>1. child' = [child EXCEPT ![n] = d] BY <1>3 DEF SetChild
  <2>2. /\ c.pc = a.activity /\ c.run = a.run /\ a.activity \in Activities /\ a.run \in Nat
        /\ a.host = c.host /\ a.type = c.type
    BY <1>2, <1>3 DEF Live, AttemptInv, Attempt
  <2>3. /\ SameRun(c, d)
        /\ ~d.busy
        /\ d.pc = "EmitMetrics" => c.pc = "StoreFindings"
        /\ d.pc = "completed" => c.pc = "EmitMetrics"
    BY <1>3, <2>2 DEF Success, Following, Activities
  <2>4. TypeOK' BY <1>1, <1>2, <2>1, <2>3 DEF IInv, TypeOK, SameRun
  <2>5. OwnInventory' BY <1>2, <1>3, <2>1 DEF IInv, OwnInventory
  <2>6. \A m \in Children : StoredInv(m)'
    <3>1. ASSUME NEW m \in Children, m # n PROVE StoredInv(m)'
      <4>1. StoredInv(m) /\ child'[m] = child[m] /\ child[m].type \in Types
        BY <1>2, <2>1, <3>1 DEF IInv, Child
      <4>2. QED BY <4>1 DEF StoredInv
    <3>2. StoredInv(n)'
      <4>1. StoredInv(n) /\ child'[n] = d /\ c.type \in Types
        BY <1>2, <2>1 DEF IInv, Child
      <4>2. QED BY <1>3, <2>2, <2>3, <4>1 DEF StoredInv, SameRun
    <3>3. QED BY <3>1, <3>2
  <2>7. ASSUME NEW b \in attempts PROVE AttemptInv(b)'
    <3>1. AttemptInv(b) BY DEF IInv
    <3>2. QED BY <1>2, <2>1, <2>3, <3>1 DEF AttemptInv, SameRun
  <2>8. QED BY <1>1, <2>4, <2>5, <2>6, <2>7 DEF IInv
<1>4. CASE child' = child
  <2>1. TypeOK' BY <1>1, <1>4 DEF IInv, TypeOK
  <2>2. OwnInventory' BY <1>4 DEF IInv, OwnInventory
  <2>3. \A m \in Children : StoredInv(m)'
    <3>1. \A m \in Children : StoredInv(m) /\ child[m].type \in Types BY <1>2 DEF IInv, Child
    <3>2. QED BY <1>4, <3>1 DEF StoredInv
  <2>4. \A b \in attempts : AttemptInv(b)' BY <1>4 DEF IInv, AttemptInv
  <2>5. QED BY <1>1, <2>1, <2>2, <2>3, <2>4 DEF IInv
<1>5. QED BY <1>3, <1>4 DEF Reply

(* CreateSession and StartAttempt. *)
LEMMA CreateSessionKeeps ==
    ASSUME IInv, NEW n \in Children, NEW w \in Workers, CreateSession(n, w) PROVE IInv'
<1> DEFINE d == [child[n] EXCEPT !.pc = "FetchInventory", !.host = w, !.up = TRUE]
<1>1. /\ child' = [child EXCEPT ![n] = d] /\ child[n].pc = "session" /\ child[n] \in Child
      /\ child \in [Children -> Child] /\ UNCHANGED <<inventory, attempts, resourceCache, store, faults>>
  BY DEF CreateSession, SetChild, IInv, TypeOK
<1>2. /\ d \in Child /\ d.type = child[n].type /\ d.pc = "FetchInventory" /\ d.host = w /\ d.up
      /\ d.run = child[n].run /\ d.detected = child[n].detected /\ d.summary = child[n].summary
  BY <1>1 DEF Child, Activities
<1> HIDE DEF d
<1>3. TypeOK' BY <1>1, <1>2 DEF IInv, TypeOK
<1>4. OwnInventory' /\ CacheInv' BY <1>1, <1>2 DEF IInv, OwnInventory, CacheInv
<1>5. \A m \in Children : StoredInv(m)'
  BY <1>1, <1>2 DEF IInv, StoredInv, Activities
<1>6. \A a \in attempts : AttemptInv(a)' BY <1>1, <1>2 DEF IInv, AttemptInv, TypeOK, Attempt
<1>7. QED BY <1>1, <1>3, <1>4, <1>5, <1>6 DEF IInv

LEMMA StartAttemptKeeps ==
    ASSUME IInv, NEW n \in Children, StartAttempt(n) PROVE IInv'
<1>1. PICK c : c = child[n] OBVIOUS
<1>2. PICK d : d = [c EXCEPT !.busy = TRUE] OBVIOUS
<1>3. PICK a : a = [child |-> n, type |-> c.type, run |-> c.run, try |-> c.try,
                    activity |-> c.pc, host |-> c.host, loaded |-> FALSE,
                    lifecycles |-> c.lifecycles, batch |-> NoBatch]
  OBVIOUS
<1>4. /\ child' = [child EXCEPT ![n] = d] /\ attempts' = attempts \cup {a}
      /\ c.pc \in Activities /\ c.up /\ c \in Child /\ c.host \in Workers
      /\ child \in [Children -> Child] /\ UNCHANGED <<inventory, resourceCache, store, faults>>
  BY <1>1, <1>2, <1>3 DEF StartAttempt, SetChild, IInv, TypeOK, StoredInv
<1>5. SameRun(c, d) /\ d.pc = c.pc /\ d.detected = c.detected /\ d.summary = c.summary
  BY <1>2, <1>4 DEF SameRun, Child, Activities
<1>6. /\ a \in Attempt /\ a.child = n /\ a.type = c.type /\ a.run = c.run
      /\ a.host = c.host /\ ~a.loaded
  BY <1>3, <1>4 DEF Child, Attempt
<1>7. TypeOK' BY <1>4, <1>5, <1>6 DEF IInv, TypeOK, SameRun
<1>8. OwnInventory' /\ CacheInv' BY <1>1, <1>4, <1>5 DEF IInv, OwnInventory, CacheInv, SameRun
<1>9. \A m \in Children : StoredInv(m)' BY <1>1, <1>4, <1>5 DEF IInv, StoredInv, SameRun
<1>10. child'[n] = d /\ \A m \in Children \ {n} : child'[m] = child[m] BY <1>4
<1>11. d.type = c.type /\ d.run = c.run /\ c.run \in Nat /\ d.host = c.host /\ d.up /\ d.pc # "session"
  BY <1>4, <1>5 DEF SameRun, Child
<1>12. ASSUME NEW b \in attempts PROVE AttemptInv(b)'
  <2>1. AttemptInv(b) /\ b.child \in Children BY DEF IInv, TypeOK, Attempt
  <2>2. CASE b.child = n BY <1>1, <1>10, <1>11, <2>1, <2>2 DEF AttemptInv
  <2>3. CASE b.child # n BY <1>10, <2>1, <2>3 DEF AttemptInv
  <2>4. QED BY <2>2, <2>3
<1>13. AttemptInv(a)' BY <1>6, <1>10, <1>11 DEF AttemptInv
<1>14. QED BY <1>4, <1>7, <1>8, <1>9, <1>12, <1>13 DEF IInv

LEMMA RestartKeeps ==
    ASSUME IInv, NEW w \in Workers, WorkerRestarts(w) PROVE IInv'
<1>1. /\ resourceCache' = [resourceCache EXCEPT ![w] = [b \in BatchIDs |-> NoBatch]]
      /\ store' = [store EXCEPT ![w] = [t \in Types |-> NoBatch]]
      /\ attempts' = {a \in attempts : a.host # w}
      /\ child' = [n \in Children |-> IF child[n].host = w THEN [child[n] EXCEPT !.up = FALSE]
                                      ELSE child[n]]
      /\ inventory' = inventory /\ faults' \in Nat /\ child \in [Children -> Child]
  BY FaultTyped DEF WorkerRestarts, IInv, TypeOK
<1>2. ASSUME NEW n \in Children
      PROVE  /\ child'[n] \in Child /\ child'[n].type = child[n].type
             /\ child'[n].pc = child[n].pc /\ child'[n].run = child[n].run
             /\ child'[n].host = child[n].host /\ child'[n].busy = child[n].busy
             /\ child'[n].detected = child[n].detected /\ child'[n].summary = child[n].summary
             /\ child'[n].up => child[n].up /\ child[n].host # w
             /\ child[n].host # w => child'[n] = child[n]
  BY <1>1 DEF Child
<1>3. child' \in [Children -> Child] BY <1>1, <1>2
<1>4. TypeOK' BY <1>1, <1>3 DEF IInv, TypeOK
<1>5. OwnInventory' BY <1>2 DEF IInv, OwnInventory
<1>6. CacheInv' BY <1>1 DEF IInv, CacheInv, TypeOK
<1>7. ASSUME NEW n \in Children PROVE StoredInv(n)'
  <2>1. StoredInv(n) BY DEF IInv
  <2>2. ASSUME child[n].host # w PROVE store'[child[n].host] = store[child[n].host]
    BY <1>1, <2>2 DEF IInv, TypeOK
  <2>3. QED BY <1>2, <2>1, <2>2 DEF StoredInv
<1>8. ASSUME NEW a \in attempts, a.host # w PROVE AttemptInv(a)'
  <2>1. AttemptInv(a) /\ a.child \in Children BY DEF IInv, TypeOK, Attempt
  <2>2. QED BY <1>2, <1>8, <2>1 DEF AttemptInv
<1>9. QED BY <1>1, <1>4, <1>5, <1>6, <1>7, <1>8 DEF IInv

(* An attempt loads a batch of its own type. *)
LEMMA InputTyped ==
    ASSUME IInv, NEW a \in attempts, InputOf(a) # NoBatch
    PROVE  InputOf(a) \in Batch /\ InputOf(a).type = a.type
<1>1. /\ a.type \in Types /\ a.host \in Workers /\ inventory[a.type] \in Versions
      /\ <<a.type, "resources">> \in BatchIDs /\ <<a.type, "findings">> \in BatchIDs
  BY DEF IInv, TypeOK, Attempt, BatchIDs
<1>2. CASE a.activity = "FetchInventory" BY <1>1, <1>2 DEF InputOf, Batch
<1>3. CASE a.activity \in {"FetchEOLData", "DetectDrift"}
  <2>1. InputOf(a) = resourceCache[a.host][<<a.type, "resources">>]
    BY <1>3 DEF InputOf, ResourceBatchID
  <2>2. QED BY <1>1, <2>1 DEF IInv, CacheInv, TypeOK
<1>4. CASE a.activity \notin {"FetchInventory", "FetchEOLData", "DetectDrift"}
  <2>1. InputOf(a) = resourceCache[a.host][<<a.type, "findings">>]
    BY <1>4 DEF InputOf, ResourceBatchID, FindingsBatchID
  <2>2. QED BY <1>1, <2>1 DEF IInv, CacheInv, TypeOK
<1>5. QED BY <1>2, <1>3, <1>4

LEMMA LoadKeeps == ASSUME IInv, NEW a \in attempts, Load(a) PROVE IInv'
<1>1. PICK b : b = [a EXCEPT !.loaded = TRUE, !.batch = InputOf(a)] OBVIOUS
<1>2. /\ attempts' = (attempts \ {a}) \cup {b} /\ InputOf(a) \in Batch /\ InputOf(a).type = a.type
      /\ a \in Attempt /\ InputOf(a) # NoBatch
      /\ UNCHANGED <<inventory, child, resourceCache, store, faults>>
  BY <1>1, InputTyped DEF Load, IInv, TypeOK
<1>3. /\ b \in Attempt /\ b.child = a.child /\ b.type = a.type /\ b.run = a.run /\ b.host = a.host
      /\ b.batch # NoBatch /\ b.batch.type = a.type
  BY <1>1, <1>2 DEF Attempt
<1>4. TypeOK' BY <1>2, <1>3 DEF IInv, TypeOK
<1>5. OwnInventory' /\ CacheInv' BY <1>2 DEF IInv, OwnInventory, CacheInv
<1>6. \A n \in Children : StoredInv(n)' BY <1>2 DEF IInv, StoredInv
<1>7. ASSUME NEW c \in attempts PROVE AttemptInv(c)' BY <1>2 DEF IInv, AttemptInv
<1>8. AttemptInv(b)'
  <2>1. AttemptInv(a) BY DEF IInv
  <2>2. QED BY <1>2, <1>3, <2>1 DEF AttemptInv
<1>9. QED BY <1>2, <1>4, <1>5, <1>6, <1>7, <1>8 DEF IInv

(* What an activity that has loaded its batch knows of it. *)
LEMMA LoadedIs ==
    ASSUME IInv, NEW a \in attempts, a.loaded
    PROVE  /\ a.batch \in Batch /\ a.batch.type = a.type
           /\ a.type \in Types /\ a.host \in Workers /\ a.child \in Children
           /\ a.lifecycles \in Versions \cup {None}
           /\ child[a.child] \in Child /\ child[a.child].type = a.type
           /\ <<a.type, "resources">> \in BatchIDs /\ <<a.type, "findings">> \in BatchIDs
           /\ Live(a) => child[a.child].pc = a.activity
           /\ child[a.child].detected # NoBatch => child[a.child].detected.type = a.type
           /\ child[a.child].summary # NoBatch => child[a.child].summary.type = a.type
<1>1. a \in Attempt /\ AttemptInv(a) BY DEF IInv, TypeOK
<1>2. a.child \in Children /\ child[a.child] \in Child BY <1>1 DEF Attempt, IInv, TypeOK
<1>3. QED BY <1>1, <1>2 DEF Attempt, AttemptInv, Live, IInv, OwnInventory, BatchIDs

(* A cache in which one entry became a batch of its own type, or empty. *)
CacheTyped(rc) ==
    /\ rc \in [Workers -> [BatchIDs -> Batch \cup {NoBatch}]]
    /\ \A w \in Workers, b \in BatchIDs : rc[w][b] # NoBatch => rc[w][b].type = b[1]

LEMMA CachePut ==
    ASSUME NEW rc, CacheTyped(rc), NEW w \in Workers, NEW b \in BatchIDs,
           NEW x \in Batch \cup {NoBatch}, x # NoBatch => x.type = b[1]
    PROVE  CacheTyped([rc EXCEPT ![w][b] = x])
BY DEF CacheTyped

LEMMA CacheIs == CacheTyped(resourceCache)' <=>
    resourceCache' \in [Workers -> [BatchIDs -> Batch \cup {NoBatch}]] /\ CacheInv'
BY DEF CacheTyped, CacheInv

LEMMA CacheWas == IInv => CacheTyped(resourceCache)
BY DEF IInv, TypeOK, CacheTyped, CacheInv

LEMMA FetchInventoryKeeps == ASSUME IInv, NEW a \in attempts, FetchInventory(a) PROVE IInv'
<1> DEFINE c == child[a.child]
           d == ActivitySucceeded(c)
<1>1. /\ a.activity = "FetchInventory" /\ a.loaded /\ Reply(a, d)
      /\ resourceCache' = [resourceCache EXCEPT ![a.host][<<a.type, "resources">>] = a.batch]
      /\ inventory' = inventory /\ store' = store
  BY DEF FetchInventory, ResourceBatchID
<1>2. CacheTyped([resourceCache EXCEPT ![a.host][<<a.type, "resources">>] = a.batch])
  BY <1>1, LoadedIs, CachePut, CacheWas
<1>3. resourceCache' \in [Workers -> [BatchIDs -> Batch \cup {NoBatch}]] /\ CacheInv'
  BY <1>1, <1>2, CacheIs
<1>4. Live(a) => Success(c, d)
  BY <1>1, LoadedIs, ActivitySucceededIs DEF Activities
<1>5. /\ d.detected # NoBatch => d.detected.type = d.type
      /\ d.summary # NoBatch => d.summary.type = d.type
  <2>1. d.detected = c.detected /\ d.summary = c.summary /\ d.type = c.type
    BY <1>1, LoadedIs, ActivitySucceededKeeps
  <2>2. QED BY <1>1, <2>1, LoadedIs
<1> HIDE DEF d
<1>6. store' \in [Workers -> [Types -> Batch \cup {NoBatch}]]
  BY <1>1 DEF IInv, TypeOK
<1>7. QED BY <1>1, <1>3, <1>4, <1>5, <1>6, ReplyKeeps

LEMMA FetchEOLDataKeeps == ASSUME IInv, NEW a \in attempts, FetchEOLData(a) PROVE IInv'
<1> DEFINE c == child[a.child]
           d == [ActivitySucceeded(c) EXCEPT !.lifecycles = a.batch.version]
<1>1. /\ a.activity = "FetchEOLData" /\ a.loaded /\ Reply(a, d)
      /\ inventory' = inventory /\ resourceCache' = resourceCache /\ store' = store
  BY DEF FetchEOLData
<1>2. resourceCache' \in [Workers -> [BatchIDs -> Batch \cup {NoBatch}]] /\ CacheInv'
  BY <1>1 DEF IInv, CacheInv, TypeOK
<1>3. Live(a) => Success(c, d)
  <2>1. a.batch.version \in Versions \cup {None} BY <1>1, LoadedIs DEF Batch
  <2>2. QED BY <1>1, <2>1, LoadedIs, ActivitySucceededIs DEF Activities
<1>4. /\ d.detected # NoBatch => d.detected.type = d.type
      /\ d.summary # NoBatch => d.summary.type = d.type
  <2>1. d.detected = c.detected /\ d.summary = c.summary /\ d.type = c.type
    <3>1. c \in Child BY <1>1, LoadedIs
    <3>2. QED BY <3>1, ActivitySucceededAdds
  <2>2. /\ c.type = a.type
        /\ c.detected # NoBatch => c.detected.type = a.type
        /\ c.summary # NoBatch => c.summary.type = a.type
    BY <1>1, LoadedIs
  <2> HIDE DEF c, d
  <2>3. QED BY <2>1, <2>2
<1> HIDE DEF d
<1>5. store' \in [Workers -> [Types -> Batch \cup {NoBatch}]]
  BY <1>1 DEF IInv, TypeOK
<1>6. QED BY <1>1, <1>2, <1>3, <1>4, <1>5, ReplyKeeps

LEMMA DetectDriftKeepsInv == ASSUME IInv, NEW a \in attempts, DetectDrift(a) PROVE IInv'
<1> DEFINE c == child[a.child]
           findings == [a.batch EXCEPT !.lifecycles = a.lifecycles]
           d == [ActivitySucceeded(c) EXCEPT !.detected = findings]
           emptied == [resourceCache EXCEPT ![a.host][<<a.type, "resources">>] = NoBatch]
<1>1. /\ a.activity = "DetectDrift" /\ a.loaded /\ Reply(a, d)
      /\ resourceCache' = [emptied EXCEPT ![a.host][<<a.type, "findings">>] = findings]
      /\ inventory' = inventory /\ store' = store
  BY DEF DetectDrift, ResourceBatchID, FindingsBatchID
<1>2. findings \in Batch /\ findings.type = a.type BY <1>1, LoadedIs DEF Batch
<1>3. Live(a) => Success(c, d)
  BY <1>1, <1>2, LoadedIs, ActivitySucceededIs DEF Activities
<1>4. /\ d.detected # NoBatch => d.detected.type = d.type
      /\ d.summary # NoBatch => d.summary.type = d.type
  <2>1. d.detected = findings /\ d.summary = c.summary /\ d.type = c.type
    <3>1. c \in Child BY <1>1, LoadedIs
    <3>2. QED BY <3>1, ActivitySucceededAdds
  <2> HIDE DEF findings, d
  <2>2. QED BY <1>1, <1>2, <2>1, LoadedIs
<1> HIDE DEF findings
<1>5. CacheTyped(emptied) BY <1>1, LoadedIs, CachePut, CacheWas
<1> HIDE DEF emptied
<1>6. CacheTyped([emptied EXCEPT ![a.host][<<a.type, "findings">>] = findings])
  BY <1>1, <1>2, <1>5, LoadedIs, CachePut
<1>7. resourceCache' \in [Workers -> [BatchIDs -> Batch \cup {NoBatch}]] /\ CacheInv'
  BY <1>1, <1>6, CacheIs
<1> HIDE DEF d
<1>8. store' \in [Workers -> [Types -> Batch \cup {NoBatch}]]
  BY <1>1 DEF IInv, TypeOK
<1>9. QED BY <1>1, <1>3, <1>4, <1>7, <1>8, ReplyKeeps

LEMMA StoreFindingsKeeps == ASSUME IInv, NEW a \in attempts, StoreFindings(a) PROVE IInv'
<1> DEFINE c == child[a.child]
           d == ActivitySucceeded(c)
<1>1. /\ a.activity = "StoreFindings" /\ a.loaded /\ Reply(a, d)
      /\ store' = [store EXCEPT ![a.host] = ReplaceFindings(store[a.host], a.type, a.batch)]
      /\ inventory' = inventory /\ resourceCache' = resourceCache
  BY DEF StoreFindings
<1>2. resourceCache' \in [Workers -> [BatchIDs -> Batch \cup {NoBatch}]] /\ CacheInv'
  BY <1>1 DEF IInv, CacheInv, TypeOK
<1>3. /\ store' \in [Workers -> [Types -> Batch \cup {NoBatch}]]
      /\ store'[a.host][a.type] # NoBatch
      /\ \A w \in Workers, t \in Types : store[w][t] # NoBatch => store'[w][t] # NoBatch
  <2>1. /\ a.batch \in Batch /\ a.batch.type = a.type /\ a.host \in Workers /\ a.type \in Types
        /\ store \in [Workers -> [Types -> Batch \cup {NoBatch}]]
    BY <1>1, LoadedIs DEF IInv, TypeOK
  <2>2. store' = [store EXCEPT ![a.host] =
                     [u \in Types |-> IF u = a.type THEN a.batch ELSE store[a.host][u]]]
    BY <1>1, <2>1 DEF ReplaceFindings
  <2>3. QED BY <2>1, <2>2, NoBatchIsNone
<1>4. Live(a) => Success(c, d)
  BY <1>1, LoadedIs, ActivitySucceededIs DEF Activities
<1>5. /\ d.detected # NoBatch => d.detected.type = d.type
      /\ d.summary # NoBatch => d.summary.type = d.type
  <2>1. d.detected = c.detected /\ d.summary = c.summary /\ d.type = c.type
    BY <1>1, LoadedIs, ActivitySucceededKeeps
  <2>2. QED BY <1>1, <2>1, LoadedIs
<1> HIDE DEF d
<1>6. QED BY <1>1, <1>2, <1>3, <1>4, <1>5, ReplyKeeps

LEMMA EmitMetricsKeepsInv == ASSUME IInv, NEW a \in attempts, EmitMetrics(a) PROVE IInv'
<1> DEFINE c == child[a.child]
           d == [ActivitySucceeded(c) EXCEPT !.summary = a.batch]
<1>1. /\ a.activity = "EmitMetrics" /\ a.loaded /\ Reply(a, d)
      /\ resourceCache' = [resourceCache EXCEPT ![a.host][<<a.type, "findings">>] = NoBatch]
      /\ inventory' = inventory /\ store' = store
  BY DEF EmitMetrics, ResourceBatchID, FindingsBatchID
<1>2. CacheTyped([resourceCache EXCEPT ![a.host][<<a.type, "findings">>] = NoBatch])
  BY <1>1, LoadedIs, CachePut, CacheWas
<1>3. resourceCache' \in [Workers -> [BatchIDs -> Batch \cup {NoBatch}]] /\ CacheInv'
  BY <1>1, <1>2, CacheIs
<1>4. Live(a) => Success(c, d)
  BY <1>1, LoadedIs, ActivitySucceededIs DEF Activities
<1>5. /\ d.detected # NoBatch => d.detected.type = d.type
      /\ d.summary # NoBatch => d.summary.type = d.type
  <2>1. d.detected = c.detected /\ d.summary = a.batch /\ d.type = c.type
    <3>1. c \in Child BY <1>1, LoadedIs
    <3>2. QED BY <3>1, ActivitySucceededAdds
  <2>2. QED BY <1>1, <2>1, LoadedIs
<1> HIDE DEF d
<1>6. store' \in [Workers -> [Types -> Batch \cup {NoBatch}]]
  BY <1>1 DEF IInv, TypeOK
<1>7. QED BY <1>1, <1>3, <1>4, <1>5, <1>6, ReplyKeeps

LEMMA ReturnErrorKeeps == ASSUME IInv, NEW a \in attempts, ReturnError(a) PROVE IInv'
<1>1. /\ faults' \in Nat /\ attempts' \subseteq attempts /\ UNCHANGED <<inventory, resourceCache, store>>
      /\ a.child \in Children /\ a.activity \in Activities /\ child[a.child] \in Child
  BY FaultTyped DEF ReturnError, IInv, TypeOK, Attempt
<1>2. CASE Live(a) /\ SetChild(a.child, AttemptFailed(child[a.child]))
  BY <1>1, <1>2, AttemptFailedIs, FailureKeeps DEF Live
<1>3. CASE child' = child
  <2>1. TypeOK' BY <1>1, <1>3 DEF IInv, TypeOK
  <2>2. OwnInventory' /\ CacheInv' BY <1>1, <1>3 DEF IInv, OwnInventory, CacheInv
  <2>3. \A n \in Children : StoredInv(n)' BY <1>1, <1>3 DEF IInv, StoredInv
  <2>4. \A b \in attempts : AttemptInv(b)' BY <1>3 DEF IInv, AttemptInv
  <2>5. QED BY <1>1, <2>1, <2>2, <2>3, <2>4 DEF IInv
<1>4. QED BY <1>2, <1>3 DEF ReturnError

(* The six ways the workflow itself gives up on an attempt, a session, a   *)
(* run or a child.                                                         *)
GivesUp(n) ==
    \/ CreateSessionTimesOut(n) \/ AttemptTimesOut(n) \/ AttemptIsLate(n)
    \/ SessionFails(n) \/ SessionTimesOut(n) \/ ChildTimesOut(n)

LEMMA GivesUpIs ==
    ASSUME IInv, NEW n \in Children, GivesUp(n)
    PROVE  /\ \E d : SetChild(n, d) /\ Failure(child[n], d)
           /\ faults' \in Nat /\ UNCHANGED <<inventory, attempts, resourceCache, store>>
<1>1. child[n] \in Child /\ (child[n].busy => child[n].pc \in Activities)
  BY DEF IInv, TypeOK, StoredInv
<1>2. faults' \in Nat /\ UNCHANGED <<inventory, attempts, resourceCache, store>>
  BY FaultTyped DEF GivesUp, CreateSessionTimesOut, AttemptTimesOut, AttemptIsLate, SessionFails,
                    SessionTimesOut, ChildTimesOut, IInv, TypeOK
<1>3. CASE CreateSessionTimesOut(n)
  <2>1. SetChild(n, RunFailed(child[n])) BY <1>3 DEF CreateSessionTimesOut
  <2>2. Failure(child[n], RunFailed(child[n])) BY <1>1, <1>3, RunFailedIs DEF CreateSessionTimesOut
  <2>3. QED BY <1>2, <2>1, <2>2
<1>4. CASE AttemptTimesOut(n) \/ AttemptIsLate(n)
  <2>1. SetChild(n, AttemptFailed(child[n])) /\ child[n].busy
    BY <1>4 DEF AttemptTimesOut, AttemptIsLate
  <2>2. Failure(child[n], AttemptFailed(child[n])) BY <1>1, <2>1, AttemptFailedIs
  <2>3. QED BY <1>2, <2>1, <2>2
<1>5. CASE SessionFails(n) \/ SessionTimesOut(n)
  <2>1. SetChild(n, ActivityFailed(child[n])) /\ child[n].pc \in Activities
    BY <1>5 DEF SessionFails, SessionTimesOut
  <2>2. Failure(child[n], ActivityFailed(child[n])) BY <1>1, <2>1, ActivityFailedIs
  <2>3. QED BY <1>2, <2>1, <2>2
<1>6. CASE ChildTimesOut(n)
  <2> DEFINE d == [child[n] EXCEPT !.pc = "failed", !.busy = FALSE]
  <2>1. SetChild(n, d) BY <1>6 DEF ChildTimesOut
  <2>2. Failure(child[n], d) BY <1>1, <1>6 DEF Failure, SameRun, Child, ChildTimesOut, Ended
  <2> HIDE DEF d
  <2>3. QED BY <1>2, <2>1, <2>2
<1>7. QED BY <1>3, <1>4, <1>5, <1>6 DEF GivesUp

LEMMA GivesUpKeeps == ASSUME IInv, NEW n \in Children, GivesUp(n) PROVE IInv'
<1>1. PICK d : SetChild(n, d) /\ Failure(child[n], d) BY GivesUpIs
<1>2. faults' \in Nat /\ attempts' \subseteq attempts /\ UNCHANGED <<inventory, resourceCache, store>>
  BY GivesUpIs
<1>3. QED BY <1>1, <1>2, FailureKeeps

LEMMA InventoryChangesKeeps == ASSUME IInv, NEW t \in Types, InventoryChanges(t) PROVE IInv'
<1>1. /\ inventory' = [inventory EXCEPT ![t] = @ + 1] /\ inventory[t] < MaxInventory
      /\ UNCHANGED <<child, attempts, resourceCache, store, faults>>
  BY DEF InventoryChanges
<1>2. inventory' \in [Types -> Versions] BY <1>1 DEF IInv, TypeOK, Versions
<1>3. QED BY <1>1, <1>2 DEF IInv, TypeOK, OwnInventory, CacheInv, AttemptInv, StoredInv

LEMMA StutterKeeps == IInv /\ UNCHANGED vars => IInv'
BY DEF vars, IInv, TypeOK, OwnInventory, CacheInv, AttemptInv, StoredInv

(* The disjuncts of Next, with what the workflow gives up on as one. *)
LEMMA Steps ==
    ASSUME Next
    PROVE  \/ \E n \in Children : \/ \E w \in Workers : CreateSession(n, w)
                                  \/ StartAttempt(n) \/ GivesUp(n)
           \/ \E a \in attempts : ActivityStep(a)
           \/ \E t \in Types : InventoryChanges(t)
           \/ \E w \in Workers : WorkerRestarts(w)
           \/ UNCHANGED vars
BY DEF Next, WorkflowStep, GivesUp, Finished

LEMMA NextKeeps == IInv /\ [Next]_vars => IInv'
<1> SUFFICES ASSUME IInv, [Next]_vars PROVE IInv' OBVIOUS
<1>1. CASE UNCHANGED vars BY <1>1, StutterKeeps
<1>2. CASE Next
  <2>1. ASSUME NEW n \in Children, NEW w \in Workers, CreateSession(n, w) PROVE IInv'
    BY <2>1, CreateSessionKeeps
  <2>2. ASSUME NEW n \in Children, StartAttempt(n) PROVE IInv' BY <2>2, StartAttemptKeeps
  <2>3. ASSUME NEW n \in Children, GivesUp(n) PROVE IInv' BY <2>3, GivesUpKeeps
  <2>4. ASSUME NEW a \in attempts, ActivityStep(a) PROVE IInv'
    BY <2>4, LoadKeeps, ReturnErrorKeeps, FetchInventoryKeeps, FetchEOLDataKeeps,
       DetectDriftKeepsInv, StoreFindingsKeeps, EmitMetricsKeepsInv DEF ActivityStep
  <2>5. ASSUME NEW t \in Types, InventoryChanges(t) PROVE IInv' BY <2>5, InventoryChangesKeeps
  <2>6. ASSUME NEW w \in Workers, WorkerRestarts(w) PROVE IInv' BY <2>6, RestartKeeps
  <2>7. QED BY <1>1, <1>2, <2>1, <2>2, <2>3, <2>4, <2>5, <2>6, Steps
<1>3. QED BY <1>1, <1>2

LEMMA Invariance == Spec => []IInv
<1>1. QED BY Initially, NextKeeps, PTL DEF Spec

(* Every variable keeps its type: a child, an attempt or a batch is never  *)
(* left half made, whatever fails in whatever order.                       *)
THEOREM Typed == Spec => []TypeOK
BY Invariance, PTL DEF IInv

(* The children of a scan share its ScanID and their workers' caches, and  *)
(* what a child detected and summarised still came from the inventory of   *)
(* its own type, however many children, of the same type or not, read and  *)
(* write the cache in whatever order (ActivityInputs of the five           *)
(* activities, workflow.go).                                               *)
THEOREM OwnInventoryHolds == Spec => []OwnInventory
BY Invariance, PTL DEF IInv

LEMMA StoredIsStored == (\A n \in Children : StoredInv(n)) => CompletedIsStored
BY DEF StoredInv, CompletedIsStored

(* A child reports success only after the findings of its type are in the  *)
(* store of its session's worker, for any number of attempts, lost replies *)
(* and late attempts of any child: no later write, by whichever attempt,   *)
(* leaves the type without findings; only the worker's restart does.       *)
THEOREM SuccessIsStored == Spec => []CompletedIsStored
<1>1. IInv => CompletedIsStored BY StoredIsStored DEF IInv
<1>2. QED BY <1>1, Invariance, PTL

-----------------------------------------------------------------------------
(* Without late attempts: a child has at most one attempt, the one it      *)
(* waits for, and nobody else touches the batches of a child that has its  *)
(* type for itself.                                                        *)
NoneLate ==
    /\ \A a \in attempts : Live(a)
    /\ \A a, b \in attempts : a.child = b.child => a = b

(* What a child c relies on, stage by stage, of its resource batch r, its  *)
(* findings batch f and its type's entry s of the store, all on its worker *)
(* (which holds none of its batches any more once it has restarted).       *)
FlowOf(c, r, f, s) ==
    /\ c.pc \notin {"session", "failed"} => c.host \in Workers
    /\ ~c.up /\ c.host \in Workers => r = NoBatch /\ f = NoBatch
    /\ c.pc \notin {"completed", "failed"} => c.summary = NoBatch
    /\ c.pc = "DetectDrift" /\ r # NoBatch => c.lifecycles = r.version
    /\ c.pc \in {"StoreFindings", "EmitMetrics", "completed"} =>
          r = NoBatch /\ c.detected.lifecycles = c.detected.version
    /\ c.pc = "StoreFindings" => f \in {NoBatch, c.detected}
    /\ c.pc = "EmitMetrics" => f \in {NoBatch, c.detected}
    /\ c.pc \in {"EmitMetrics", "completed"} /\ c.up => s = c.detected
    /\ c.pc = "completed" => c.summary \in {NoBatch, c.detected}
    /\ c.pc = "completed" /\ c.summary # NoBatch => f = NoBatch

(* What the child's attempt carries. *)
CarriedBy(a, c, r) ==
    /\ a.lifecycles = c.lifecycles
    /\ a.loaded /\ a.activity = "FetchEOLData" => a.batch = r
    /\ a.loaded /\ a.activity = "DetectDrift" => a.batch.version = c.lifecycles
    /\ a.loaded /\ a.activity \in {"StoreFindings", "EmitMetrics"} => a.batch = c.detected

Flow(n) ==
    LET c == child[n]
        r == resourceCache[c.host][<<c.type, "resources">>]
        f == resourceCache[c.host][<<c.type, "findings">>]
    IN /\ FlowOf(c, r, f, store[c.host][c.type])
       /\ \A a \in attempts : a.child = n => CarriedBy(a, c, r)

FInv ==
    /\ IInv
    /\ ~LateAttempts => NoneLate /\ \A n \in Children : Alone(n) => Flow(n)

LEMMA FlowInitially == Init => FInv
<1> SUFFICES ASSUME Init PROVE FInv OBVIOUS
<1>1. IInv /\ attempts = {} BY Initially DEF Init
<1>2. PICK types \in Inputs : child = [n \in Children |-> NewRun(types[n], 1)] BY DEF Init
<1>3. \A n \in Children : Flow(n)
  BY <1>1, <1>2 DEF Flow, FlowOf, NewRun
<1>4. QED BY <1>1, <1>3 DEF FInv, NoneLate

(* The worker of an attempt is the one its child's session is pinned to. *)
LEMMA AttemptOfChild ==
    ASSUME IInv, NoneLate, NEW a \in attempts
    PROVE  /\ a \in Attempt /\ a.child \in Children /\ child[a.child] \in Child
           /\ a.type = child[a.child].type /\ a.host = child[a.child].host
           /\ a.host \in Workers /\ a.type \in Types
           /\ child[a.child].up /\ child[a.child].busy /\ child[a.child].pc = a.activity
           /\ \A b \in attempts \ {a} : b.child # a.child
<1>1. a \in Attempt /\ a.child \in Children /\ child[a.child] \in Child
  BY DEF IInv, TypeOK, Attempt
<1>2. AttemptInv(a) /\ Live(a) BY DEF IInv, NoneLate
<1>3. QED BY <1>1, <1>2 DEF AttemptInv, Live, Attempt, NoneLate

(* What a step of child n leaves alone: everything of the other types. *)
OthersKept(t) ==
    \A w \in Workers, u \in Types : u # t =>
        /\ resourceCache'[w][<<u, "resources">>] = resourceCache[w][<<u, "resources">>]
        /\ resourceCache'[w][<<u, "findings">>] = resourceCache[w][<<u, "findings">>]
        /\ store'[w][u] = store[w][u]

LEMMA FlowOfOthers ==
    ASSUME IInv, NoneLate, NEW n \in Children, NEW m \in Children, m # n, Alone(m), Flow(m),
           OthersKept(child[n].type), child'[m] = child[m],
           \A a \in attempts' : a.child = m => a \in attempts
    PROVE  Flow(m)'
<1>1. PICK c : c = child[m] OBVIOUS
<1>2. child'[m] = c /\ c \in Child /\ c.type \in Types /\ child[n].type # c.type
  BY <1>1 DEF IInv, TypeOK, Child, Alone
<1>3. CASE c.host \in Workers
  <2>1. /\ resourceCache'[c.host][<<c.type, "resources">>] = resourceCache[c.host][<<c.type, "resources">>]
        /\ resourceCache'[c.host][<<c.type, "findings">>] = resourceCache[c.host][<<c.type, "findings">>]
        /\ store'[c.host][c.type] = store[c.host][c.type]
    BY <1>2, <1>3 DEF OthersKept
  <2>2. QED BY <1>1, <1>2, <2>1 DEF Flow
<1>4. CASE c.host \notin Workers
  <2>1. \A a \in attempts' : a.child # m
    BY <1>1, <1>4, AttemptOfChild
  <2>2. c.pc \in {"session", "failed"} /\ (c.pc = "session" => c.summary = NoBatch)
    BY <1>1, <1>4 DEF Flow, FlowOf
  <2>3. QED BY <1>2, <1>4, <2>1, <2>2 DEF Flow, FlowOf
<1>5. QED BY <1>3, <1>4

(* A step of a child that leaves it without an attempt. *)
LEMMA QuietStep ==
    ASSUME FInv, ~LateAttempts, NEW n \in Children, NEW d,
           child' = [child EXCEPT ![n] = d], d.type = child[n].type,
           attempts' \subseteq attempts, \A a \in attempts' : a.child # n,
           OthersKept(child[n].type),
           Alone(n) => FlowOf(d, resourceCache'[d.host][<<d.type, "resources">>],
                              resourceCache'[d.host][<<d.type, "findings">>],
                              store'[d.host][d.type])
    PROVE  NoneLate' /\ \A m \in Children : Alone(m)' => Flow(m)'
<1>1. IInv /\ NoneLate /\ child \in [Children -> Child] BY DEF FInv, IInv, TypeOK
<1>2. \A a \in attempts : a.child \in Children BY <1>1, AttemptOfChild
<1>3. child'[n] = d /\ \A m \in Children \ {n} : child'[m] = child[m] BY <1>1
<1>4. NoneLate' BY <1>1, <1>2, <1>3 DEF NoneLate, Live
<1>5. ASSUME NEW m \in Children, Alone(m)' PROVE Alone(m) BY <1>3, <1>5 DEF Alone
<1>6. ASSUME Alone(n) PROVE Flow(n)' BY <1>3, <1>6 DEF Flow
<1>7. ASSUME NEW m \in Children, m # n, Alone(m) PROVE Flow(m)'
  <2>1. Flow(m) BY <1>7 DEF FInv
  <2>2. QED BY <1>1, <1>3, <1>7, <2>1, FlowOfOthers
<1>8. QED BY <1>4, <1>5, <1>6, <1>7

FlowKept == ~LateAttempts => NoneLate' /\ \A m \in Children : Alone(m)' => Flow(m)'

(* A failure writes nothing, and what the child relies on is still there. *)
LEMMA FailureFlows ==
    ASSUME FInv, ~LateAttempts, NEW n \in Children, NEW d, SetChild(n, d), Failure(child[n], d),
           attempts' \subseteq attempts, \A a \in attempts' : a.child # n,
           UNCHANGED <<resourceCache, store>>
    PROVE  FlowKept
<1>1. PICK c : c = child[n] OBVIOUS
<1>2. c \in Child /\ child' = [child EXCEPT ![n] = d] BY <1>1 DEF SetChild, FInv, IInv, TypeOK
<1>3. OthersKept(c.type) BY DEF OthersKept
<1>4. ASSUME NEW r, NEW f, NEW s, FlowOf(c, r, f, s), SameRun(c, d), Failure(c, d)
      PROVE  FlowOf(d, r, f, s)
  <2>1. /\ d.host = c.host /\ d.up = c.up /\ d.pc # "session"
        /\ d.lifecycles = c.lifecycles /\ d.detected = c.detected /\ d.summary = c.summary
        /\ d.pc \in {c.pc, "failed"} \/ (c.pc = "EmitMetrics" /\ d.pc = "completed")
        /\ d.pc \in {"EmitMetrics", "completed"} => c.pc = "EmitMetrics"
    <3>1. c.run \in Nat /\ d.run = c.run BY <1>2, <1>4 DEF SameRun, Child
    <3>2. QED BY <1>4, <3>1 DEF Failure, SameRun
  <2>2. CASE c.pc = "session" BY <1>4, <2>1, <2>2 DEF FlowOf
  <2>3. CASE c.pc # "session" BY <1>4, <2>1, <2>3 DEF FlowOf
  <2>4. QED BY <2>2, <2>3
<1>5. ASSUME NEW r, NEW f, NEW s, d = NewRun(c.type, d.run) PROVE FlowOf(d, r, f, s)
  <2>1. /\ d.pc = "session" /\ ~d.up /\ d.host = None /\ d.summary = NoBatch
    BY <1>5 DEF NewRun
  <2>2. QED BY <2>1 DEF FlowOf
<1>6. d.type = c.type BY <1>1 DEF Failure, SameRun, NewRun
<1>7. ASSUME Alone(n)
      PROVE  FlowOf(d, resourceCache'[d.host][<<d.type, "resources">>],
                    resourceCache'[d.host][<<d.type, "findings">>], store'[d.host][d.type])
  <2>1. CASE SameRun(c, d)
    <3>1. FlowOf(c, resourceCache[c.host][<<c.type, "resources">>],
                 resourceCache[c.host][<<c.type, "findings">>], store[c.host][c.type])
      BY <1>1, <1>7 DEF FInv, Flow
    <3>2. d.host = c.host BY <2>1 DEF SameRun
    <3>3. QED BY <1>1, <1>4, <1>6, <2>1, <3>1, <3>2
  <2>2. CASE d = NewRun(c.type, d.run) BY <1>5, <2>2
  <2>3. QED BY <1>1, <2>1, <2>2 DEF Failure
<1>8. QED BY <1>1, <1>2, <1>3, <1>6, <1>7, QuietStep DEF FlowKept

LEMMA GivesUpFlows == ASSUME FInv, NEW n \in Children, GivesUp(n) PROVE FlowKept
<1> SUFFICES ASSUME ~LateAttempts PROVE FlowKept BY DEF FlowKept
<1>1. IInv /\ NoneLate BY DEF FInv
<1>2. PICK d : SetChild(n, d) /\ Failure(child[n], d) BY <1>1, GivesUpIs
<1>3. UNCHANGED <<attempts, resourceCache, store>> BY <1>1, GivesUpIs
<1>4. ASSUME NEW a \in attempts, a.child = n PROVE FALSE
  <2>1. Live(a) /\ child[n].up /\ child[n].busy /\ child[n].pc = a.activity /\ a.activity \in Activities
    BY <1>1, <1>4, AttemptOfChild DEF NoneLate, Attempt
  <2>2. ~Quiet(n) BY <1>4, <2>1 DEF Quiet
  <2>3. QED
    BY <2>1, <2>2 DEF GivesUp, CreateSessionTimesOut, AttemptTimesOut, AttemptIsLate,
       SessionFails, SessionTimesOut, ChildTimesOut, Activities
<1>5. QED BY <1>2, <1>3, <1>4, FailureFlows

LEMMA ReturnErrorFlows == ASSUME FInv, NEW a \in attempts, ReturnError(a) PROVE FlowKept
<1> SUFFICES ASSUME ~LateAttempts PROVE FlowKept BY DEF FlowKept
<1>1. IInv /\ NoneLate /\ Live(a) BY DEF FInv, NoneLate
<1>2. /\ attempts' = attempts \ {a} /\ SetChild(a.child, AttemptFailed(child[a.child]))
      /\ UNCHANGED <<resourceCache, store>>
  BY <1>1 DEF ReturnError
<1>3. /\ a.child \in Children /\ child[a.child] \in Child /\ child[a.child].pc \in Activities
      /\ \A b \in attempts \ {a} : b.child # a.child
  BY <1>1, AttemptOfChild DEF Attempt
<1>4. Failure(child[a.child], AttemptFailed(child[a.child])) BY <1>3, AttemptFailedIs
<1>5. QED BY <1>2, <1>3, <1>4, FailureFlows

LEMMA CreateSessionFlows ==
    ASSUME FInv, NEW n \in Children, NEW w \in Workers, CreateSession(n, w) PROVE FlowKept
<1> SUFFICES ASSUME ~LateAttempts PROVE FlowKept BY DEF FlowKept
<1>1. PICK c : c = child[n] OBVIOUS
<1>2. PICK d : d = [c EXCEPT !.pc = "FetchInventory", !.host = w, !.up = TRUE] OBVIOUS
<1>3. /\ child' = [child EXCEPT ![n] = d] /\ c.pc = "session" /\ c \in Child
      /\ UNCHANGED <<attempts, resourceCache, store>>
  BY <1>1, <1>2 DEF CreateSession, SetChild, FInv, IInv, TypeOK
<1>4. d.type = c.type /\ d.pc = "FetchInventory" /\ d.host = w /\ d.up /\ d.summary = c.summary
  BY <1>2, <1>3 DEF Child
<1>5. IInv /\ NoneLate BY DEF FInv
<1>6. \A a \in attempts' : a.child # n
  BY <1>1, <1>3, <1>5, AttemptOfChild DEF Attempt, Activities
<1>7. OthersKept(c.type) BY <1>3 DEF OthersKept
<1>8. ASSUME Alone(n), NEW r, NEW f, NEW s PROVE FlowOf(d, r, f, s)
  <2>1. c.summary = NoBatch BY <1>1, <1>3, <1>8 DEF FInv, Flow, FlowOf
  <2>2. QED BY <1>4, <2>1 DEF FlowOf
<1>9. QED BY <1>1, <1>3, <1>4, <1>6, <1>7, <1>8, QuietStep DEF FlowKept

LEMMA StartAttemptFlows == ASSUME FInv, NEW n \in Children, StartAttempt(n) PROVE FlowKept
<1> SUFFICES ASSUME ~LateAttempts PROVE FlowKept BY DEF FlowKept
<1>1. PICK c : c = child[n] OBVIOUS
<1>2. PICK d : d = [c EXCEPT !.busy = TRUE] OBVIOUS
<1>3. PICK a : a = [child |-> n, type |-> c.type, run |-> c.run, try |-> c.try,
                    activity |-> c.pc, host |-> c.host, loaded |-> FALSE,
                    lifecycles |-> c.lifecycles, batch |-> NoBatch]
  OBVIOUS
<1>4. /\ child' = [child EXCEPT ![n] = d] /\ attempts' = attempts \cup {a}
      /\ c.pc \in Activities /\ ~c.busy /\ c.up /\ c \in Child /\ child \in [Children -> Child]
      /\ resourceCache' = resourceCache /\ store' = store
  BY <1>1, <1>2, <1>3 DEF StartAttempt, SetChild, FInv, IInv, TypeOK
<1>5. /\ d.type = c.type /\ d.pc = c.pc /\ d.run = c.run /\ d.try = c.try /\ d.busy = TRUE
      /\ d.host = c.host /\ d.up = c.up /\ d.lifecycles = c.lifecycles
      /\ d.detected = c.detected /\ d.summary = c.summary
  BY <1>2, <1>4 DEF Child
<1>6. /\ a.child = n /\ a.activity = c.pc /\ a.run = c.run /\ a.try = c.try
      /\ ~a.loaded /\ a.lifecycles = c.lifecycles
  BY <1>3
<1>7. IInv /\ NoneLate BY DEF FInv
<1>8. \A b \in attempts : b.child \in Children /\ b.child # n BY <1>1, <1>4, <1>7, AttemptOfChild
<1>9. child'[n] = d /\ \A m \in Children \ {n} : child'[m] = child[m] BY <1>4
<1>10. NoneLate'
  <2>1. Live(a)' BY <1>5, <1>6, <1>9 DEF Live
  <2>2. ASSUME NEW b \in attempts PROVE Live(b)' BY <1>7, <1>8, <1>9 DEF Live, NoneLate
  <2>3. \A b, e \in attempts' : b.child = e.child => b = e
    BY <1>4, <1>6, <1>7, <1>8 DEF NoneLate
  <2>4. QED BY <1>4, <2>1, <2>2, <2>3 DEF NoneLate
<1>11. ASSUME NEW m \in Children, Alone(m)' PROVE Alone(m)
  BY <1>1, <1>5, <1>9, <1>11 DEF Alone
<1>12. ASSUME Alone(n) PROVE Flow(n)'
  <2>1. FlowOf(c, resourceCache[c.host][<<c.type, "resources">>],
               resourceCache[c.host][<<c.type, "findings">>], store[c.host][c.type])
    BY <1>1, <1>12 DEF FInv, Flow
  <2>2. ASSUME NEW r, NEW f, NEW s, FlowOf(c, r, f, s) PROVE FlowOf(d, r, f, s)
    BY <1>5, <2>2 DEF FlowOf
  <2>3. ASSUME NEW r, NEW b \in attempts', b.child = n PROVE CarriedBy(b, d, r)
    BY <1>4, <1>5, <1>6, <1>8, <2>3 DEF CarriedBy
  <2>4. QED BY <1>4, <1>5, <1>9, <2>1, <2>2, <2>3 DEF Flow
<1>13. OthersKept(child[n].type) BY <1>4 DEF OthersKept
<1>14. ASSUME NEW m \in Children, m # n, Alone(m) PROVE Flow(m)'
  <2>1. Flow(m) BY <1>14 DEF FInv
  <2>2. \A b \in attempts' : b.child = m => b \in attempts BY <1>4, <1>6, <1>14
  <2>3. QED BY <1>7, <1>9, <1>13, <1>14, <2>1, <2>2, FlowOfOthers
<1>15. QED BY <1>10, <1>11, <1>12, <1>14 DEF FlowKept

LEMMA LoadFlows == ASSUME FInv, NEW a \in attempts, Load(a) PROVE FlowKept
<1> SUFFICES ASSUME ~LateAttempts PROVE FlowKept BY DEF FlowKept
<1>1. PICK b : b = [a EXCEPT !.loaded = TRUE, !.batch = InputOf(a)] OBVIOUS
<1>2. /\ attempts' = (attempts \ {a}) \cup {b} /\ InputOf(a) # NoBatch
      /\ child' = child /\ resourceCache' = resourceCache /\ store' = store
  BY <1>1 DEF Load
<1>3. IInv /\ NoneLate BY DEF FInv
<1>4. PICK c : c = child[a.child] OBVIOUS
<1>5. /\ a \in Attempt /\ c.pc = a.activity /\ a.type = c.type /\ a.host = c.host
      /\ c.up /\ a.child \in Children /\ \A e \in attempts \ {a} : e.child # a.child
  BY <1>3, <1>4, AttemptOfChild
<1>6. /\ b.child = a.child /\ b.run = a.run /\ b.try = a.try /\ b.activity = a.activity
      /\ b.lifecycles = a.lifecycles /\ b.batch = InputOf(a)
  BY <1>1, <1>5 DEF Attempt
<1>7. NoneLate'
  <2>1. Live(b)' BY <1>2, <1>3, <1>6 DEF Live, NoneLate
  <2>2. ASSUME NEW e \in attempts PROVE Live(e)' BY <1>2, <1>3 DEF Live, NoneLate
  <2>3. QED BY <1>2, <1>3, <1>5, <1>6, <2>1, <2>2 DEF NoneLate
<1>8. ASSUME NEW m \in Children, Alone(m)' PROVE Flow(m)'
  <2>1. Alone(m) /\ Flow(m) BY <1>2, <1>8 DEF Alone, FInv
  <2>2. CASE m # a.child BY <1>2, <1>6, <2>1, <2>2 DEF Flow
  <2>3. CASE m = a.child
    <3> DEFINE r == resourceCache[c.host][<<c.type, "resources">>]
               f == resourceCache[c.host][<<c.type, "findings">>]
    <3>1. FlowOf(c, r, f, store[c.host][c.type]) /\ CarriedBy(a, c, r)
      BY <1>4, <2>1, <2>3 DEF Flow
    <3>2. /\ a.activity \in {"FetchEOLData", "DetectDrift"} => b.batch = r
          /\ a.activity \in {"StoreFindings", "EmitMetrics"} => b.batch = f
      BY <1>5, <1>6 DEF InputOf, ResourceBatchID, FindingsBatchID
    <3>3. b.batch # NoBatch BY <1>2, <1>6
    <3> HIDE DEF r, f
    <3>4. CarriedBy(b, c, r)
      BY <1>5, <1>6, <3>1, <3>2, <3>3 DEF FlowOf, CarriedBy
    <3>5. \A e \in attempts' : e.child = m => e = b BY <1>2, <1>5, <2>3
    <3>6. QED BY <1>2, <1>4, <2>3, <3>1, <3>4, <3>5 DEF Flow, r, f
  <2>4. QED BY <2>2, <2>3
<1>9. QED BY <1>7, <1>8 DEF FlowKept

LEMMA RestartFlows == ASSUME FInv, NEW w \in Workers, WorkerRestarts(w) PROVE FlowKept
<1> SUFFICES ASSUME ~LateAttempts PROVE FlowKept BY DEF FlowKept
<1>1. IInv /\ NoneLate BY DEF FInv
<1>2. /\ resourceCache' = [resourceCache EXCEPT ![w] = [b \in BatchIDs |-> NoBatch]]
      /\ store' = [store EXCEPT ![w] = [t \in Types |-> NoBatch]]
      /\ attempts' = {a \in attempts : a.host # w}
      /\ child' = [n \in Children |-> IF child[n].host = w THEN [child[n] EXCEPT !.up = FALSE]
                                      ELSE child[n]]
      /\ child \in [Children -> Child]
      /\ resourceCache \in [Workers -> [BatchIDs -> Batch \cup {NoBatch}]]
      /\ store \in [Workers -> [Types -> Batch \cup {NoBatch}]]
  BY <1>1 DEF WorkerRestarts, IInv, TypeOK
<1>3. \A n \in Children : child[n].host # w => child'[n] = child[n] BY <1>2
<1>4. \A a \in attempts' : a \in attempts /\ a.child \in Children /\ child'[a.child] = child[a.child]
  BY <1>1, <1>2, <1>3, AttemptOfChild
<1>5. NoneLate' BY <1>1, <1>4 DEF NoneLate, Live
<1>6. ASSUME NEW n \in Children PROVE child'[n].type = child[n].type BY <1>2 DEF Child
<1>7. ASSUME NEW m \in Children, Alone(m)' PROVE Flow(m)'
  <2>1. Alone(m) /\ Flow(m) BY <1>6, <1>7 DEF Alone, FInv
  <2>2. CASE child[m].host # w
    <3>1. child'[m] = child[m] /\ child[m].type \in Types BY <1>2, <1>3, <2>2 DEF Child
    <3>2. /\ resourceCache'[child[m].host] = resourceCache[child[m].host]
          /\ store'[child[m].host] = store[child[m].host]
      BY <1>2, <2>2
    <3>3. QED BY <1>4, <2>1, <3>1, <3>2 DEF Flow
  <2>3. CASE child[m].host = w
    <3>1. PICK c : c = child[m] OBVIOUS
    <3>2. PICK d : d = child'[m] OBVIOUS
    <3>3. /\ d.type = c.type /\ d.pc = c.pc /\ d.host = w /\ ~d.up /\ d.summary = c.summary
          /\ d.detected = c.detected /\ d.lifecycles = c.lifecycles /\ c.type \in Types
      BY <1>2, <2>3, <3>1, <3>2 DEF Child
    <3>4. /\ resourceCache'[w][<<c.type, "resources">>] = NoBatch
          /\ resourceCache'[w][<<c.type, "findings">>] = NoBatch
      BY <1>2, <3>3 DEF BatchIDs
    <3>5. ASSUME NEW r, NEW f, NEW s, FlowOf(c, r, f, s), NEW t PROVE FlowOf(d, NoBatch, NoBatch, t)
      BY <3>3, <3>5 DEF FlowOf
    <3>6. \A a \in attempts' : a.child # m BY <1>1, <1>2, <2>3, AttemptOfChild
    <3>7. QED BY <2>1, <3>1, <3>2, <3>3, <3>4, <3>5, <3>6 DEF Flow
  <2>4. QED BY <2>2, <2>3
<1>8. QED BY <1>5, <1>7 DEF FlowKept

(* The reply of an activity, delivered or lost, after it wrote its batches. *)
LEMMA ReplyFlows ==
    ASSUME FInv, ~LateAttempts, NEW a \in attempts, NEW d, Reply(a, d), d.type = a.type,
           OthersKept(a.type), d.host = a.host,
           Alone(a.child) =>
               \A e \in {child[a.child], d} :
                   FlowOf(e, resourceCache'[a.host][<<a.type, "resources">>],
                          resourceCache'[a.host][<<a.type, "findings">>], store'[a.host][a.type])
    PROVE  FlowKept
<1>1. IInv /\ NoneLate BY DEF FInv
<1>2. PICK c : c = child[a.child] OBVIOUS
<1>3. /\ a.child \in Children /\ a.type = c.type /\ a.host = c.host
      /\ \A b \in attempts \ {a} : b.child # a.child
  BY <1>1, <1>2, AttemptOfChild
<1>4. attempts' = attempts \ {a} BY DEF Reply
<1>5. CASE child' = [child EXCEPT ![a.child] = d]
  BY <1>2, <1>3, <1>4, <1>5, QuietStep DEF FlowKept
<1>6. CASE child' = child
  <2>1. child' = [child EXCEPT ![a.child] = c] BY <1>1, <1>2, <1>3, <1>6 DEF IInv, TypeOK
  <2>2. QED BY <1>2, <1>3, <1>4, <2>1, QuietStep DEF FlowKept
<1>7. QED BY <1>5, <1>6 DEF Reply, SetChild

(* What the child of a loaded attempt relies on, and what the attempt is   *)
(* about to write.                                                         *)
LEMMA LoadedFlow ==
    ASSUME FInv, ~LateAttempts, NEW a \in attempts, Alone(a.child), NEW c, c = child[a.child]
    PROVE  /\ FlowOf(c, resourceCache[a.host][<<a.type, "resources">>],
                     resourceCache[a.host][<<a.type, "findings">>], store[a.host][a.type])
           /\ CarriedBy(a, c, resourceCache[a.host][<<a.type, "resources">>])
<1>1. IInv /\ NoneLate BY DEF FInv
<1>2. a.child \in Children /\ a.type = c.type /\ a.host = c.host BY <1>1, AttemptOfChild
<1>3. Flow(a.child) BY <1>2 DEF FInv
<1>4. QED BY <1>2, <1>3 DEF Flow

LEMMA FetchInventoryFlows == ASSUME FInv, NEW a \in attempts, FetchInventory(a) PROVE FlowKept
<1> SUFFICES ASSUME ~LateAttempts PROVE FlowKept BY DEF FlowKept
<1>1. PICK c : c = child[a.child] OBVIOUS
<1>2. PICK d : d = ActivitySucceeded(c) OBVIOUS
<1>3. /\ a.activity = "FetchInventory" /\ a.loaded /\ Reply(a, d) /\ store' = store
      /\ resourceCache' = [resourceCache EXCEPT ![a.host][<<a.type, "resources">>] = a.batch]
  BY <1>1, <1>2 DEF FetchInventory, ResourceBatchID
<1>4. IInv /\ NoneLate /\ resourceCache \in [Workers -> [BatchIDs -> Batch \cup {NoBatch}]]
  BY DEF FInv, IInv, TypeOK
<1>5. /\ c \in Child /\ c.pc = "FetchInventory" /\ a.host \in Workers /\ a.type \in Types
      /\ a.type = c.type /\ a.host = c.host /\ c.up
  BY <1>1, <1>3, <1>4, AttemptOfChild
<1>6. /\ d.pc = "FetchEOLData" /\ d.host = c.host /\ d.up = c.up /\ d.type = c.type
      /\ d.summary = c.summary
  <2>1. /\ Moved(c, d) /\ d.summary = c.summary
    <3>1. c \in Child BY <1>5
    <3>2. QED BY <1>2, <3>1, ActivitySucceededKeeps
  <2>2. QED BY <1>5, <2>1 DEF Moved, Following
<1>7. OthersKept(a.type) BY <1>3, <1>4, <1>5 DEF OthersKept, BatchIDs
<1>8. ASSUME NEW r, NEW f, NEW s, FlowOf(c, r, f, s), NEW x
      PROVE  FlowOf(c, x, f, s) /\ FlowOf(d, x, f, s)
  BY <1>5, <1>6, <1>8 DEF FlowOf
<1>9. resourceCache'[a.host][<<a.type, "findings">>] = resourceCache[a.host][<<a.type, "findings">>]
  BY <1>3, <1>4, <1>5 DEF BatchIDs
<1>10. ASSUME Alone(a.child)
      PROVE  \A e \in {child[a.child], d} :
                 FlowOf(e, resourceCache'[a.host][<<a.type, "resources">>],
                        resourceCache'[a.host][<<a.type, "findings">>], store'[a.host][a.type])
  <2>1. /\ FlowOf(c, resourceCache[a.host][<<a.type, "resources">>],
                  resourceCache[a.host][<<a.type, "findings">>], store[a.host][a.type])
        /\ CarriedBy(a, c, resourceCache[a.host][<<a.type, "resources">>])
    BY <1>1, <1>10, LoadedFlow
  <2>2. QED BY <1>1, <1>3, <1>8, <1>9, <2>1
<1>11. QED BY <1>3, <1>5, <1>6, <1>7, <1>10, ReplyFlows

LEMMA FetchEOLDataFlows == ASSUME FInv, NEW a \in attempts, FetchEOLData(a) PROVE FlowKept
<1> SUFFICES ASSUME ~LateAttempts PROVE FlowKept BY DEF FlowKept
<1>1. PICK c : c = child[a.child] OBVIOUS
<1>2. PICK d : d = [ActivitySucceeded(c) EXCEPT !.lifecycles = a.batch.version] OBVIOUS
<1>3. /\ a.activity = "FetchEOLData" /\ a.loaded /\ Reply(a, d)
      /\ resourceCache' = resourceCache /\ store' = store
  BY <1>1, <1>2 DEF FetchEOLData
<1>4. IInv /\ NoneLate BY DEF FInv
<1>5. /\ c \in Child /\ c.pc = "FetchEOLData" /\ a.type = c.type /\ a.host = c.host /\ c.up
  BY <1>1, <1>3, <1>4, AttemptOfChild
<1>6. /\ d.pc = "DetectDrift" /\ d.host = c.host /\ d.up = c.up /\ d.type = c.type
      /\ d.summary = c.summary /\ d.lifecycles = a.batch.version
  <2>1. /\ Moved(c, d) /\ d.summary = c.summary /\ d.lifecycles = a.batch.version
    <3>1. c \in Child BY <1>5
    <3>2. PICK x : x = a.batch.version OBVIOUS
    <3>3. d = [ActivitySucceeded(c) EXCEPT !.lifecycles = x] BY <1>2, <3>2
    <3>4. QED BY <3>1, <3>2, <3>3 DEF ActivitySucceeded, Child, Moved
  <2>2. QED BY <1>5, <2>1 DEF Moved, Following
<1>7. OthersKept(a.type) BY <1>3 DEF OthersKept
<1>8. ASSUME NEW r, NEW f, NEW s, FlowOf(c, r, f, s), CarriedBy(a, c, r)
      PROVE  FlowOf(c, r, f, s) /\ FlowOf(d, r, f, s)
  BY <1>3, <1>5, <1>6, <1>8 DEF FlowOf, CarriedBy
<1>9. ASSUME Alone(a.child)
      PROVE  \A e \in {child[a.child], d} :
                 FlowOf(e, resourceCache'[a.host][<<a.type, "resources">>],
                        resourceCache'[a.host][<<a.type, "findings">>], store'[a.host][a.type])
  <2>1. /\ FlowOf(c, resourceCache[a.host][<<a.type, "resources">>],
                  resourceCache[a.host][<<a.type, "findings">>], store[a.host][a.type])
        /\ CarriedBy(a, c, resourceCache[a.host][<<a.type, "resources">>])
    BY <1>1, <1>9, LoadedFlow
  <2>2. QED BY <1>1, <1>3, <1>8, <2>1
<1>10. QED BY <1>3, <1>5, <1>6, <1>7, <1>9, ReplyFlows

LEMMA DetectDriftFlows == ASSUME FInv, NEW a \in attempts, DetectDrift(a) PROVE FlowKept
<1> SUFFICES ASSUME ~LateAttempts PROVE FlowKept BY DEF FlowKept
<1>1. PICK c : c = child[a.child] OBVIOUS
<1>2. PICK x : x = [a.batch EXCEPT !.lifecycles = a.lifecycles] OBVIOUS
<1>3. PICK d : d = [ActivitySucceeded(c) EXCEPT !.detected = x] OBVIOUS
<1>4. /\ a.activity = "DetectDrift" /\ a.loaded /\ Reply(a, d) /\ store' = store
      /\ resourceCache' = [resourceCache EXCEPT ![a.host][<<a.type, "resources">>] = NoBatch,
                                                ![a.host][<<a.type, "findings">>] = x]
  BY <1>1, <1>2, <1>3 DEF DetectDrift, ResourceBatchID, FindingsBatchID
<1>5. IInv /\ NoneLate /\ resourceCache \in [Workers -> [BatchIDs -> Batch \cup {NoBatch}]]
  BY DEF FInv, IInv, TypeOK
<1>6. /\ c \in Child /\ c.pc = "DetectDrift" /\ a.host \in Workers /\ a.type \in Types
      /\ a.type = c.type /\ a.host = c.host /\ c.up /\ a.batch \in Batch
  BY <1>1, <1>4, <1>5, AttemptOfChild, LoadedIs
<1>7. x.lifecycles = a.lifecycles /\ x.version = a.batch.version BY <1>2, <1>6 DEF Batch
<1>8. /\ d.pc = "StoreFindings" /\ d.host = c.host /\ d.up = c.up /\ d.type = c.type
      /\ d.summary = c.summary /\ d.detected = x
  <2>1. /\ Moved(c, d) /\ d.summary = c.summary /\ d.detected = x
    <3>1. c \in Child BY <1>6
    <3>2. QED BY <1>3, <3>1, ActivitySucceededAdds
  <2>2. QED BY <1>6, <2>1 DEF Moved, Following
<1>9. OthersKept(a.type) BY <1>4, <1>5, <1>6 DEF OthersKept, BatchIDs
<1>10. ASSUME NEW r, NEW f, NEW s, FlowOf(c, r, f, s), CarriedBy(a, c, r)
       PROVE  FlowOf(c, NoBatch, x, s) /\ FlowOf(d, NoBatch, x, s)
  BY <1>4, <1>6, <1>7, <1>8, <1>10 DEF FlowOf, CarriedBy
<1>11. /\ resourceCache'[a.host][<<a.type, "resources">>] = NoBatch
       /\ resourceCache'[a.host][<<a.type, "findings">>] = x
  BY <1>4, <1>5, <1>6 DEF BatchIDs
<1>12. ASSUME Alone(a.child)
      PROVE  \A e \in {child[a.child], d} :
                 FlowOf(e, resourceCache'[a.host][<<a.type, "resources">>],
                        resourceCache'[a.host][<<a.type, "findings">>], store'[a.host][a.type])
  <2>1. /\ FlowOf(c, resourceCache[a.host][<<a.type, "resources">>],
                  resourceCache[a.host][<<a.type, "findings">>], store[a.host][a.type])
        /\ CarriedBy(a, c, resourceCache[a.host][<<a.type, "resources">>])
    BY <1>1, <1>12, LoadedFlow
  <2>2. QED BY <1>1, <1>4, <1>10, <1>11, <2>1
<1>13. QED BY <1>4, <1>6, <1>8, <1>9, <1>12, ReplyFlows

LEMMA StoreFindingsFlows == ASSUME FInv, NEW a \in attempts, StoreFindings(a) PROVE FlowKept
<1> SUFFICES ASSUME ~LateAttempts PROVE FlowKept BY DEF FlowKept
<1>1. PICK c : c = child[a.child] OBVIOUS
<1>2. PICK d : d = ActivitySucceeded(c) OBVIOUS
<1>3. /\ a.activity = "StoreFindings" /\ a.loaded /\ Reply(a, d) /\ resourceCache' = resourceCache
      /\ store' = [store EXCEPT ![a.host] = ReplaceFindings(store[a.host], a.type, a.batch)]
  BY <1>1, <1>2 DEF StoreFindings
<1>4. IInv /\ NoneLate /\ store \in [Workers -> [Types -> Batch \cup {NoBatch}]]
  BY DEF FInv, IInv, TypeOK
<1>5. /\ c \in Child /\ c.pc = "StoreFindings" /\ a.host \in Workers /\ a.type \in Types
      /\ a.type = c.type /\ a.host = c.host /\ c.up /\ a.batch.type = a.type
  BY <1>1, <1>3, <1>4, AttemptOfChild, LoadedIs
<1>6. /\ d.pc = "EmitMetrics" /\ d.host = c.host /\ d.up = c.up /\ d.type = c.type
      /\ d.summary = c.summary /\ d.detected = c.detected
  <2>1. /\ Moved(c, d) /\ d.summary = c.summary /\ d.detected = c.detected
    <3>1. c \in Child BY <1>5
    <3>2. QED BY <1>2, <3>1, ActivitySucceededKeeps
  <2>2. QED BY <1>5, <2>1 DEF Moved, Following
<1>7. /\ store'[a.host][a.type] = a.batch
      /\ \A w \in Workers, u \in Types : u # a.type => store'[w][u] = store[w][u]
  BY <1>3, <1>4, <1>5 DEF ReplaceFindings
<1>8. OthersKept(a.type) BY <1>3, <1>7 DEF OthersKept
<1>9. ASSUME NEW r, NEW f, NEW s, FlowOf(c, r, f, s), CarriedBy(a, c, r)
      PROVE  FlowOf(c, r, f, a.batch) /\ FlowOf(d, r, f, a.batch)
  BY <1>3, <1>5, <1>6, <1>9 DEF FlowOf, CarriedBy
<1>10. ASSUME Alone(a.child)
      PROVE  \A e \in {child[a.child], d} :
                 FlowOf(e, resourceCache'[a.host][<<a.type, "resources">>],
                        resourceCache'[a.host][<<a.type, "findings">>], store'[a.host][a.type])
  <2>1. /\ FlowOf(c, resourceCache[a.host][<<a.type, "resources">>],
                  resourceCache[a.host][<<a.type, "findings">>], store[a.host][a.type])
        /\ CarriedBy(a, c, resourceCache[a.host][<<a.type, "resources">>])
    BY <1>1, <1>10, LoadedFlow
  <2>2. QED BY <1>1, <1>3, <1>7, <1>9, <2>1
<1>11. QED BY <1>3, <1>5, <1>6, <1>8, <1>10, ReplyFlows

LEMMA EmitMetricsFlows == ASSUME FInv, NEW a \in attempts, EmitMetrics(a) PROVE FlowKept
<1> SUFFICES ASSUME ~LateAttempts PROVE FlowKept BY DEF FlowKept
<1>1. PICK c : c = child[a.child] OBVIOUS
<1>2. PICK d : d = [ActivitySucceeded(c) EXCEPT !.summary = a.batch] OBVIOUS
<1>3. /\ a.activity = "EmitMetrics" /\ a.loaded /\ Reply(a, d) /\ store' = store
      /\ resourceCache' = [resourceCache EXCEPT ![a.host][<<a.type, "findings">>] = NoBatch]
  BY <1>1, <1>2 DEF EmitMetrics, ResourceBatchID, FindingsBatchID
<1>4. IInv /\ NoneLate /\ resourceCache \in [Workers -> [BatchIDs -> Batch \cup {NoBatch}]]
  BY DEF FInv, IInv, TypeOK
<1>5. /\ c \in Child /\ c.pc = "EmitMetrics" /\ a.host \in Workers /\ a.type \in Types
      /\ a.type = c.type /\ a.host = c.host /\ c.up
  BY <1>1, <1>3, <1>4, AttemptOfChild
<1>6. /\ d.pc = "completed" /\ d.host = c.host /\ d.up = c.up /\ d.type = c.type
      /\ d.summary = a.batch /\ d.detected = c.detected
  <2>1. /\ Moved(c, d) /\ d.summary = a.batch /\ d.detected = c.detected
    <3>1. c \in Child BY <1>5
    <3>2. PICK x : x = a.batch OBVIOUS
    <3>3. d = [ActivitySucceeded(c) EXCEPT !.summary = x] BY <1>2, <3>2
    <3>4. QED BY <3>1, <3>2, <3>3 DEF ActivitySucceeded, Child, Moved
  <2>2. QED BY <1>5, <2>1 DEF Moved, Following
<1>7. OthersKept(a.type) BY <1>3, <1>4, <1>5 DEF OthersKept, BatchIDs
<1>8. ASSUME NEW r, NEW f, NEW s, FlowOf(c, r, f, s), CarriedBy(a, c, r)
      PROVE  FlowOf(c, r, NoBatch, s) /\ FlowOf(d, r, NoBatch, s)
  BY <1>3, <1>5, <1>6, <1>8 DEF FlowOf, CarriedBy
<1>9. /\ resourceCache'[a.host][<<a.type, "resources">>] = resourceCache[a.host][<<a.type, "resources">>]
      /\ resourceCache'[a.host][<<a.type, "findings">>] = NoBatch
  BY <1>3, <1>4, <1>5 DEF BatchIDs
<1>10. ASSUME Alone(a.child)
      PROVE  \A e \in {child[a.child], d} :
                 FlowOf(e, resourceCache'[a.host][<<a.type, "resources">>],
                        resourceCache'[a.host][<<a.type, "findings">>], store'[a.host][a.type])
  <2>1. /\ FlowOf(c, resourceCache[a.host][<<a.type, "resources">>],
                  resourceCache[a.host][<<a.type, "findings">>], store[a.host][a.type])
        /\ CarriedBy(a, c, resourceCache[a.host][<<a.type, "resources">>])
    BY <1>1, <1>10, LoadedFlow
  <2>2. QED BY <1>1, <1>3, <1>8, <1>9, <2>1
<1>11. QED BY <1>3, <1>5, <1>6, <1>7, <1>10, ReplyFlows

LEMMA UntouchedFlows ==
    ASSUME FInv, UNCHANGED <<child, attempts, resourceCache, store>> PROVE FlowKept
BY DEF FInv, FlowKept, NoneLate, Live, Alone, Flow

LEMMA NextFlows == FInv /\ [Next]_vars => FInv'
<1> SUFFICES ASSUME FInv, [Next]_vars PROVE FInv' OBVIOUS
<1>1. IInv' BY NextKeeps DEF FInv
<1>2. FlowKept
  <2>1. CASE UNCHANGED vars BY <2>1, UntouchedFlows DEF vars
  <2>2. CASE Next
    <3>1. ASSUME NEW n \in Children, NEW w \in Workers, CreateSession(n, w) PROVE FlowKept
      BY <3>1, CreateSessionFlows
    <3>2. ASSUME NEW n \in Children, StartAttempt(n) PROVE FlowKept BY <3>2, StartAttemptFlows
    <3>3. ASSUME NEW n \in Children, GivesUp(n) PROVE FlowKept BY <3>3, GivesUpFlows
    <3>4. ASSUME NEW a \in attempts, ActivityStep(a) PROVE FlowKept
      BY <3>4, LoadFlows, ReturnErrorFlows, FetchInventoryFlows, FetchEOLDataFlows,
         DetectDriftFlows, StoreFindingsFlows, EmitMetricsFlows DEF ActivityStep
    <3>5. ASSUME NEW t \in Types, InventoryChanges(t) PROVE FlowKept
      BY <3>5, UntouchedFlows DEF InventoryChanges
    <3>6. ASSUME NEW w \in Workers, WorkerRestarts(w) PROVE FlowKept BY <3>6, RestartFlows
    <3>7. QED BY <2>1, <2>2, <3>1, <3>2, <3>3, <3>4, <3>5, <3>6, Steps
  <2>3. QED BY <2>1, <2>2
<1>3. QED BY <1>1, <1>2 DEF FInv, FlowKept

LEMMA FlowInvariance == Spec => []FInv
<1>1. QED BY FlowInitially, NextFlows, PTL DEF Spec

(* When no attempt outlives its timeout, what a successful child of its    *)
(* type counted (detected), summarised and stored is one and the same      *)
(* listing, judged by lifecycles fetched for it, although each of the five *)
(* activities rereads the cache, and any reply, session or run may have    *)
(* been lost and retried.                                                  *)
THEOREM CoherentHolds == Spec => []Coherent
<1>1. FInv => Coherent
  <2> SUFFICES ASSUME FInv, ~LateAttempts, NEW n \in Children, Alone(n),
                      child[n].pc = "completed", child[n].up
               PROVE  /\ store[child[n].host][child[n].type] = child[n].detected
                      /\ child[n].summary \in {NoBatch, child[n].detected}
                      /\ child[n].detected.lifecycles = child[n].detected.version
    BY DEF Coherent
  <2>1. Flow(n) BY DEF FInv
  <2>2. QED BY <2>1 DEF Flow, FlowOf
<1>2. QED BY <1>1, FlowInvariance, PTL

(* A successful child that got its summary has emptied both of its cache   *)
(* entries (DetectDrift drops the resources, EmitMetrics the findings),    *)
(* also when either ran more than once.                                    *)
THEOREM CacheDrainedHolds == Spec => []CacheDrained
<1>1. FInv => CacheDrained
  <2> SUFFICES ASSUME FInv, ~LateAttempts, NEW n \in Children, Alone(n),
                      child[n].pc = "completed", child[n].summary # NoBatch,
                      NEW kind \in {"resources", "findings"}
               PROVE  resourceCache[child[n].host][<<child[n].type, kind>>] = NoBatch
    BY DEF CacheDrained
  <2>1. Flow(n) BY DEF FInv
  <2>2. QED BY <2>1 DEF Flow, FlowOf
<1>2. QED BY <1>1, FlowInvariance, PTL

-----------------------------------------------------------------------------
(* The contract.  What it shows of a type is what its last child shows.    *)
StatusOf(pc) ==
    IF pc = "completed" THEN "succeeded" ELSE IF pc = "failed" THEN "failed" ELSE "running"
AckedAt(pc) == pc \in {"EmitMetrics", "completed"}

Status == [t \in Types |-> IF Shows(t, {"completed"}) THEN "succeeded"
                           ELSE IF Shows(t, {"failed"}) THEN "failed" ELSE "running"]
Acked == [t \in Types |-> Shows(t, {"EmitMetrics", "completed"})]

Watched(n) == \A m \in Children : m > n => child[m].type # child[n].type

LEMMA ShowsWatched ==
    ASSUME NEW n \in Children, Watched(n), NEW pcs
    PROVE  Shows(child[n].type, pcs) <=> child[n].pc \in pcs
BY DEF Watched, Shows

(* A step of child n shows at its own type, and there only if n is watched. *)
LEMMA ShowsStep ==
    ASSUME child \in [Children -> Child], NEW n \in Children, NEW d,
           child' = [child EXCEPT ![n] = d], d.type = child[n].type, NEW pcs
    PROVE  /\ \A t \in Types : t # d.type \/ ~Watched(n) => (Shows(t, pcs)' <=> Shows(t, pcs))
           /\ Watched(n) => (Shows(d.type, pcs)' <=> d.pc \in pcs)
<1>1. child'[n] = d /\ \A m \in Children \ {n} : child'[m] = child[m] OBVIOUS
<1>2. \A m \in Children : child'[m].type = child[m].type BY <1>1
<1>3. ASSUME NEW t \in Types, t # d.type \/ ~Watched(n) PROVE Shows(t, pcs)' <=> Shows(t, pcs)
  BY <1>1, <1>2, <1>3 DEF Shows, Watched
<1>4. ASSUME Watched(n) PROVE Shows(d.type, pcs)' <=> d.pc \in pcs
  BY <1>1, <1>2, <1>4 DEF Shows, Watched
<1>5. QED BY <1>3, <1>4

LEMMA BooleanShows ==
    ASSUME NEW t, NEW pcs, NEW pc
    PROVE  Shows(t, pcs) \in BOOLEAN /\ Shows(t, pcs)' \in BOOLEAN /\ AckedAt(pc) \in BOOLEAN
BY DEF Shows, AckedAt

LEMMA StatusAt ==
    ASSUME child \in [Children -> Child], NEW n \in Children, Watched(n)
    PROVE  /\ Status[child[n].type] = StatusOf(child[n].pc)
           /\ Acked[child[n].type] = AckedAt(child[n].pc)
<1>1. child[n].type \in Types BY DEF Child
<1>2. /\ Shows(child[n].type, {"completed"}) <=> child[n].pc = "completed"
      /\ Shows(child[n].type, {"failed"}) <=> child[n].pc = "failed"
      /\ Shows(child[n].type, {"EmitMetrics", "completed"})
            <=> child[n].pc \in {"EmitMetrics", "completed"}
  BY ShowsWatched
<1>3. Status[child[n].type] = StatusOf(child[n].pc) BY <1>1, <1>2 DEF Status, StatusOf
<1>4. Shows(child[n].type, {"EmitMetrics", "completed"}) = AckedAt(child[n].pc)
  BY <1>2, BooleanShows DEF AckedAt
<1>5. QED BY <1>1, <1>3, <1>4 DEF Acked

LEMMA StatusStep ==
    ASSUME child \in [Children -> Child], NEW n \in Children, NEW d,
           child' = [child EXCEPT ![n] = d], d.type = child[n].type
    PROVE  /\ ~Watched(n) => Status' = Status /\ Acked' = Acked
           /\ Watched(n) => /\ Status[d.type] = StatusOf(child[n].pc)
                            /\ Acked[d.type] = AckedAt(child[n].pc)
                            /\ Status' = [Status EXCEPT ![d.type] = StatusOf(d.pc)]
                            /\ Acked' = [Acked EXCEPT ![d.type] = AckedAt(d.pc)]
<1>1. d.type \in Types BY DEF Child
<1>2. CASE ~Watched(n)
  <2>1. \A t \in Types : /\ Shows(t, {"completed"})' <=> Shows(t, {"completed"})
                         /\ Shows(t, {"failed"})' <=> Shows(t, {"failed"})
                         /\ Shows(t, {"EmitMetrics", "completed"})' <=> Shows(t, {"EmitMetrics", "completed"})
    BY <1>2, ShowsStep
  <2>2. Status' = Status BY <2>1 DEF Status
  <2>3. \A t \in Types : Shows(t, {"EmitMetrics", "completed"})' = Shows(t, {"EmitMetrics", "completed"})
    BY <2>1, BooleanShows
  <2>4. Acked' = Acked BY <2>3 DEF Acked
  <2>5. QED BY <1>2, <2>2, <2>4
<1>3. CASE Watched(n)
  <2>1. \A t \in Types \ {d.type} :
            /\ Shows(t, {"completed"})' <=> Shows(t, {"completed"})
            /\ Shows(t, {"failed"})' <=> Shows(t, {"failed"})
            /\ Shows(t, {"EmitMetrics", "completed"})' <=> Shows(t, {"EmitMetrics", "completed"})
    BY ShowsStep
  <2>2. /\ Shows(d.type, {"completed"})' <=> d.pc = "completed"
        /\ Shows(d.type, {"failed"})' <=> d.pc = "failed"
        /\ Shows(d.type, {"EmitMetrics", "completed"})' <=> d.pc \in {"EmitMetrics", "completed"}
    BY <1>3, ShowsStep
  <2>4. Status[d.type] = StatusOf(child[n].pc) /\ Acked[d.type] = AckedAt(child[n].pc)
    BY <1>3, StatusAt
  <2>5. Status' = [Status EXCEPT ![d.type] = StatusOf(d.pc)]
    BY <1>1, <2>1, <2>2 DEF Status, StatusOf
  <2>6. Acked' = [Acked EXCEPT ![d.type] = AckedAt(d.pc)]
    <3>1. /\ Shows(d.type, {"EmitMetrics", "completed"})' = AckedAt(d.pc)
          /\ \A t \in Types \ {d.type} :
                 Shows(t, {"EmitMetrics", "completed"})' = Shows(t, {"EmitMetrics", "completed"})
      BY <2>1, <2>2, BooleanShows DEF AckedAt
    <3>2. QED BY <1>1, <3>1 DEF Acked
  <2>7. QED BY <1>3, <2>4, <2>5, <2>6
<1>4. QED BY <1>2, <1>3

(* The actions of the contract, in these terms. *)
LEMMA IsSucceed ==
    ASSUME NEW t \in Types, Status[t] = "running", Acked[t],
           Status' = [Status EXCEPT ![t] = "succeeded"], Acked' = Acked, store' = store
    PROVE  Contract!Next
BY DEF Contract!Next, Contract!Succeed, Status, Acked

LEMMA IsFail ==
    ASSUME NEW t \in Types, Status[t] = "running", Status' = [Status EXCEPT ![t] = "failed"],
           Acked' = [Acked EXCEPT ![t] = FALSE], store' = store
    PROVE  Contract!Next
BY DEF Contract!Next, Contract!Fail, Status, Acked

LEMMA IsPublishAcked ==
    ASSUME NEW t \in Types, NEW w \in Workers, NEW f \in Batch,
           store' = [store EXCEPT ![w][t] = f], Status[t] = "running", ~Acked[t],
           Acked' = [Acked EXCEPT ![t] = TRUE], Status' = Status
    PROVE  Contract!Next
BY DEF Contract!Next, Contract!PublishAcked, Contract!Write, Status, Acked

LEMMA IsPublishUnacked ==
    ASSUME NEW t \in Types, NEW w \in Workers, NEW f \in Batch,
           store' = [store EXCEPT ![w][t] = f],
           LateAttempts \/ (Status[t] = "running" /\ ~Acked[t]),
           Status' = Status, Acked' = Acked
    PROVE  Contract!Next
BY DEF Contract!Next, Contract!PublishUnacked, Contract!Write, Status, Acked

LEMMA IsForget ==
    ASSUME NEW w \in Workers, store' = [store EXCEPT ![w] = [t \in Types |-> NoBatch]],
           Status' = Status, Acked' = Acked
    PROVE  Contract!Next
BY DEF Contract!Next, Contract!Forget, Status, Acked

ContractStep == Contract!Next \/ (Status' = Status /\ Acked' = Acked /\ store' = store)

(* A child moves on without publishing anything. *)
LEMMA ChildStep ==
    ASSUME child \in [Children -> Child], NEW n \in Children, NEW d,
           child' = [child EXCEPT ![n] = d], d.type = child[n].type, store' = store,
           \/ StatusOf(d.pc) = StatusOf(child[n].pc) /\ AckedAt(d.pc) = AckedAt(child[n].pc)
           \/ child[n].pc \notin {"completed", "failed"} /\ d.pc = "failed"
           \/ child[n].pc = "EmitMetrics" /\ d.pc = "completed"
    PROVE  ContractStep
<1>1. CASE ~Watched(n) BY <1>1, StatusStep DEF ContractStep
<1>2. CASE Watched(n)
  <2>1. PICK t : t = d.type OBVIOUS
  <2>2. /\ Status[t] = StatusOf(child[n].pc) /\ Acked[t] = AckedAt(child[n].pc)
        /\ Status' = [Status EXCEPT ![t] = StatusOf(d.pc)]
        /\ Acked' = [Acked EXCEPT ![t] = AckedAt(d.pc)]
    BY <1>2, <2>1, StatusStep
  <2>3. t \in Types BY <2>1 DEF Child
  <2>4. CASE StatusOf(d.pc) = StatusOf(child[n].pc) /\ AckedAt(d.pc) = AckedAt(child[n].pc)
    <3>1. Status' = Status BY <2>2, <2>4, <2>3 DEF Status
    <3>2. Acked' = Acked BY <2>2, <2>4, <2>3 DEF Acked
    <3>3. QED BY <3>1, <3>2 DEF ContractStep
  <2>5. CASE child[n].pc \notin {"completed", "failed"} /\ d.pc = "failed"
    <3>1. StatusOf(child[n].pc) = "running" /\ StatusOf(d.pc) = "failed" /\ AckedAt(d.pc) = FALSE
      BY <2>5 DEF StatusOf, AckedAt
    <3>2. QED BY <2>2, <2>3, <3>1, IsFail DEF ContractStep
  <2>6. CASE child[n].pc = "EmitMetrics" /\ d.pc = "completed"
    <3>1. StatusOf(child[n].pc) = "running" /\ StatusOf(d.pc) = "succeeded"
          /\ AckedAt(d.pc) = TRUE /\ AckedAt(child[n].pc) = TRUE
      BY <2>6 DEF StatusOf, AckedAt
    <3>2. Acked' = Acked BY <2>2, <2>3, <3>1 DEF Acked
    <3>3. QED BY <2>2, <2>3, <3>1, <3>2, IsSucceed DEF ContractStep
  <2>7. QED BY <2>4, <2>5, <2>6
<1>3. QED BY <1>1, <1>2

(* An attempt publishes; its child learns of it, or not. *)
LEMMA PublishStep ==
    ASSUME IInv, NEW a \in attempts, NEW d, SameRun(child[a.child], d), d.pc = "EmitMetrics",
           a.activity = "StoreFindings", a.batch \in Batch,
           store' = [store EXCEPT ![a.host][a.type] = a.batch],
           \/ Live(a) /\ child' = [child EXCEPT ![a.child] = d]
           \/ child' = child,
           LateAttempts \/ (Live(a) /\ Watched(a.child))
    PROVE  ContractStep
<1>1. PICK n : n = a.child OBVIOUS
<1>2. PICK t : t = a.type OBVIOUS
<1>3. /\ child \in [Children -> Child] /\ n \in Children /\ a.host \in Workers /\ t \in Types
      /\ t = child[n].type /\ d.type = t
  BY <1>1, <1>2 DEF IInv, TypeOK, Attempt, AttemptInv, SameRun
<1>4. ASSUME Live(a), Watched(n)
      PROVE  Status[t] = "running" /\ Acked[t] = FALSE
  <2>1. child[n].pc = "StoreFindings" BY <1>1, <1>4 DEF Live
  <2>2. Status[t] = StatusOf("StoreFindings") /\ Acked[t] = AckedAt("StoreFindings")
    BY <1>3, <1>4, <2>1, StatusAt
  <2>3. StatusOf("StoreFindings") = "running" BY DEF StatusOf
  <2>4. AckedAt("StoreFindings") = FALSE BY DEF AckedAt
  <2>5. QED BY <2>2, <2>3, <2>4
<1>5. ASSUME Status' = Status, Acked' = Acked PROVE ContractStep
  <2>1. LateAttempts \/ (Status[t] = "running" /\ ~Acked[t]) BY <1>1, <1>4
  <2>2. QED BY <1>2, <1>3, <1>5, <2>1, IsPublishUnacked DEF ContractStep
<1>6. CASE child' = child
  <2>1. Status' = Status /\ Acked' = Acked BY <1>6 DEF Status, Acked, Shows
  <2>2. QED BY <1>5, <2>1
<1>7. CASE Live(a) /\ child' = [child EXCEPT ![n] = d]
  <2>1. CASE ~Watched(n) BY <1>3, <1>5, <1>7, <2>1, StatusStep
  <2>2. CASE Watched(n)
    <3>1. Status' = [Status EXCEPT ![t] = "running"] /\ Acked' = [Acked EXCEPT ![t] = TRUE]
      <4>1. /\ Status' = [Status EXCEPT ![d.type] = StatusOf(d.pc)]
            /\ Acked' = [Acked EXCEPT ![d.type] = AckedAt(d.pc)]
        BY <1>1, <1>3, <1>7, <2>2, StatusStep
      <4>2. StatusOf(d.pc) = "running" /\ AckedAt(d.pc) = TRUE BY DEF StatusOf, AckedAt
      <4>3. QED BY <1>3, <4>1, <4>2
    <3>2. Status' = Status BY <1>3, <1>4, <1>7, <2>2, <3>1 DEF Status
    <3>3. QED BY <1>2, <1>3, <1>4, <1>7, <2>2, <3>1, <3>2, IsPublishAcked DEF ContractStep
  <2>3. QED BY <2>1, <2>2
<1>8. QED BY <1>1, <1>6, <1>7

(* The steps of Detection, one by one, are steps of the contract. *)
LEMMA UnseenStep ==
    ASSUME child' = child, store' = store PROVE ContractStep
BY DEF ContractStep, Status, Acked, Shows

LEMMA FailureSeen ==
    ASSUME IInv, NEW n \in Children, NEW d, SetChild(n, d), Failure(child[n], d), store' = store
    PROVE  ContractStep
<1>1. PICK c : c = child[n] OBVIOUS
<1>2. child \in [Children -> Child] /\ child' = [child EXCEPT ![n] = d] /\ c \in Child
  BY <1>1 DEF IInv, TypeOK, SetChild
<1>3. d.type = c.type BY <1>1 DEF Failure, SameRun, NewRun
<1>4. \/ StatusOf(d.pc) = StatusOf(c.pc) /\ AckedAt(d.pc) = AckedAt(c.pc)
      \/ c.pc \notin {"completed", "failed"} /\ d.pc = "failed"
      \/ c.pc = "EmitMetrics" /\ d.pc = "completed"
  <2>1. CASE c.pc \notin {"EmitMetrics", "completed", "failed"} /\ d = NewRun(c.type, d.run)
    <3>1. d.pc = "session" BY <2>1 DEF NewRun
    <3>2. StatusOf(d.pc) = StatusOf(c.pc) BY <2>1, <3>1 DEF StatusOf
    <3>3. AckedAt(d.pc) = AckedAt(c.pc) BY <2>1, <3>1 DEF AckedAt
    <3>4. QED BY <3>2, <3>3
  <2>2. QED BY <1>1, <2>1 DEF Failure
<1>5. QED BY <1>1, <1>2, <1>3, <1>4, ChildStep

LEMMA ReplySeen ==
    ASSUME IInv, NEW a \in attempts, NEW d, Reply(a, d), store' = store,
           Live(a) => Success(child[a.child], d), a.activity # "StoreFindings"
    PROVE  ContractStep
<1>1. CASE child' = child BY <1>1, UnseenStep
<1>2. CASE Live(a) /\ SetChild(a.child, d)
  <2>1. PICK n : n = a.child OBVIOUS
  <2>2. PICK c : c = child[n] OBVIOUS
  <2>3. /\ child \in [Children -> Child] /\ child' = [child EXCEPT ![n] = d]
        /\ n \in Children /\ d.type = c.type
        /\ c.pc = a.activity /\ a.activity \in Activities /\ d.pc = Following[c.pc]
    BY <1>2, <2>1, <2>2 DEF IInv, TypeOK, Attempt, SetChild, Success, SameRun, Live
  <2>4. CASE c.pc = "EmitMetrics"
    <3>1. d.pc = "completed" BY <2>3, <2>4 DEF Following
    <3>2. QED BY <2>2, <2>3, <2>4, <3>1, ChildStep
  <2>5. CASE c.pc # "EmitMetrics"
    <3>1. c.pc \in {"FetchInventory", "FetchEOLData", "DetectDrift"}
      BY <2>3, <2>5 DEF Activities
    <3>2. d.pc \in {"FetchEOLData", "DetectDrift", "StoreFindings"} BY <2>3, <3>1 DEF Following
    <3>3. StatusOf(d.pc) = StatusOf(c.pc) BY <3>1, <3>2 DEF StatusOf
    <3>4. AckedAt(d.pc) = AckedAt(c.pc) BY <3>1, <3>2 DEF AckedAt
    <3>5. QED BY <2>2, <2>3, <3>3, <3>4, ChildStep
  <2>6. QED BY <2>4, <2>5
<1>3. QED BY <1>1, <1>2 DEF Reply

LEMMA StoreFindingsSeen ==
    ASSUME IInv, NEW a \in attempts, StoreFindings(a),
           LateAttempts \/ (Live(a) /\ Watched(a.child))
    PROVE  ContractStep
<1>1. PICK c : c = child[a.child] OBVIOUS
<1>2. PICK d : d = ActivitySucceeded(c) OBVIOUS
<1>3. /\ a.activity = "StoreFindings" /\ a.loaded /\ Reply(a, d)
      /\ store' = [store EXCEPT ![a.host] = ReplaceFindings(store[a.host], a.type, a.batch)]
  BY <1>1, <1>2 DEF StoreFindings
<1>4. /\ a.batch \in Batch /\ a.batch.type = a.type /\ a.host \in Workers /\ a.type \in Types
      /\ c \in Child /\ store \in [Workers -> [Types -> Batch \cup {NoBatch}]]
  BY <1>1, <1>3, LoadedIs DEF IInv, TypeOK
<1>5. store' = [store EXCEPT ![a.host][a.type] = a.batch]
  BY <1>3, <1>4 DEF ReplaceFindings
<1>6. CASE child' = child
  <2>1. PICK e : e = [c EXCEPT !.pc = "EmitMetrics"] OBVIOUS
  <2>2. SameRun(c, e) /\ e.pc = "EmitMetrics" BY <1>4, <2>1 DEF SameRun, Child, Activities
  <2>3. QED BY <1>1, <1>3, <1>4, <1>5, <1>6, <2>2, PublishStep
<1>7. CASE Live(a) /\ child' = [child EXCEPT ![a.child] = d]
  <2>1. c.pc = "StoreFindings" BY <1>1, <1>3, <1>7 DEF Live
  <2>2. Success(c, d) BY <1>2, <1>4, <2>1, ActivitySucceededIs DEF Activities
  <2>3. SameRun(c, d) /\ d.pc = "EmitMetrics" BY <2>1, <2>2 DEF Success, Following
  <2>4. QED BY <1>1, <1>3, <1>4, <1>5, <1>7, <2>3, PublishStep
<1>8. QED BY <1>3, <1>6, <1>7 DEF Reply, SetChild

LEMMA ActivitySeen ==
    ASSUME IInv, NEW a \in attempts, ActivityStep(a),
           LateAttempts \/ (Live(a) /\ Watched(a.child))
    PROVE  ContractStep
<1>1. PICK c : c = child[a.child] OBVIOUS
<1>2. CASE Load(a) BY <1>2, UnseenStep DEF Load
<1>3. CASE ReturnError(a)
  <2>1. store' = store /\ (child' = child \/ (Live(a) /\ SetChild(a.child, AttemptFailed(c))))
    BY <1>1, <1>3 DEF ReturnError
  <2>2. a.child \in Children /\ c \in Child /\ (Live(a) => c.pc \in Activities)
    BY <1>1 DEF IInv, TypeOK, Attempt, Live
  <2>3. Live(a) => Failure(c, AttemptFailed(c)) BY <2>2, AttemptFailedIs
  <2>4. QED BY <1>1, <2>1, <2>2, <2>3, FailureSeen, UnseenStep
<1>4. CASE FetchInventory(a)
  <2>1. PICK d : d = ActivitySucceeded(c) OBVIOUS
  <2>2. a.activity = "FetchInventory" /\ a.loaded /\ Reply(a, d) /\ store' = store
    BY <1>1, <1>4, <2>1 DEF FetchInventory
  <2>3. Live(a) => Success(c, d)
    BY <1>1, <2>1, <2>2, LoadedIs, ActivitySucceededIs DEF Activities
  <2>4. QED BY <1>1, <2>2, <2>3, ReplySeen
<1>5. CASE FetchEOLData(a)
  <2>1. PICK l : l = a.batch.version OBVIOUS
  <2>2. PICK d : d = [ActivitySucceeded(c) EXCEPT !.lifecycles = l] OBVIOUS
  <2>3. a.activity = "FetchEOLData" /\ a.loaded /\ Reply(a, d) /\ store' = store
    BY <1>1, <1>5, <2>1, <2>2 DEF FetchEOLData
  <2>4. l \in Versions \cup {None} BY <2>1, <2>3, LoadedIs DEF Batch
  <2>5. Live(a) => Success(c, d)
    BY <1>1, <2>2, <2>3, <2>4, LoadedIs, ActivitySucceededIs DEF Activities
  <2>6. QED BY <1>1, <2>3, <2>5, ReplySeen
<1>6. CASE DetectDrift(a)
  <2>1. PICK x : x = [a.batch EXCEPT !.lifecycles = a.lifecycles] OBVIOUS
  <2>2. PICK d : d = [ActivitySucceeded(c) EXCEPT !.detected = x] OBVIOUS
  <2>3. a.activity = "DetectDrift" /\ a.loaded /\ Reply(a, d) /\ store' = store
    BY <1>1, <1>6, <2>1, <2>2 DEF DetectDrift
  <2>4. x \in Batch BY <2>1, <2>3, LoadedIs DEF Batch
  <2>5. Live(a) => Success(c, d)
    BY <1>1, <2>2, <2>3, <2>4, LoadedIs, ActivitySucceededIs DEF Activities
  <2>6. QED BY <1>1, <2>3, <2>5, ReplySeen
<1>7. CASE StoreFindings(a) BY <1>7, StoreFindingsSeen
<1>8. CASE EmitMetrics(a)
  <2>1. PICK x : x = a.batch OBVIOUS
  <2>2. PICK d : d = [ActivitySucceeded(c) EXCEPT !.summary = x] OBVIOUS
  <2>3. a.activity = "EmitMetrics" /\ a.loaded /\ Reply(a, d) /\ store' = store
    BY <1>1, <1>8, <2>1, <2>2 DEF EmitMetrics
  <2>4. x \in Batch BY <2>1, <2>3, LoadedIs
  <2>5. Live(a) => Success(c, d)
    BY <1>1, <2>2, <2>3, <2>4, LoadedIs, ActivitySucceededIs DEF Activities
  <2>6. QED BY <1>1, <2>3, <2>5, ReplySeen
<1>9. QED BY <1>2, <1>3, <1>4, <1>5, <1>6, <1>7, <1>8 DEF ActivityStep

LEMMA WorkflowSeen ==
    ASSUME IInv, NEW n \in Children,
           (\E w \in Workers : CreateSession(n, w)) \/ StartAttempt(n) \/ GivesUp(n)
    PROVE  ContractStep
<1>1. PICK c : c = child[n] OBVIOUS
<1>2. child \in [Children -> Child] /\ c \in Child BY <1>1 DEF IInv, TypeOK
<1>3. ASSUME NEW w \in Workers, CreateSession(n, w) PROVE ContractStep
  <2>1. PICK d : d = [c EXCEPT !.pc = "FetchInventory", !.host = w, !.up = TRUE] OBVIOUS
  <2>2. child' = [child EXCEPT ![n] = d] /\ c.pc = "session" /\ store' = store
    BY <1>1, <1>3, <2>1 DEF CreateSession, SetChild
  <2>3. d.type = c.type /\ d.pc = "FetchInventory" BY <1>2, <2>1 DEF Child
  <2>4. StatusOf(d.pc) = StatusOf(c.pc) BY <2>2, <2>3 DEF StatusOf
  <2>5. AckedAt(d.pc) = AckedAt(c.pc) BY <2>2, <2>3 DEF AckedAt
  <2>6. QED BY <1>1, <1>2, <2>2, <2>3, <2>4, <2>5, ChildStep
<1>4. CASE StartAttempt(n)
  <2>1. PICK d : d = [c EXCEPT !.busy = TRUE] OBVIOUS
  <2>2. child' = [child EXCEPT ![n] = d] /\ store' = store
    BY <1>1, <1>4, <2>1 DEF StartAttempt, SetChild
  <2>3. d.type = c.type /\ d.pc = c.pc BY <1>2, <2>1 DEF Child
  <2>4. QED BY <1>1, <1>2, <2>2, <2>3, ChildStep
<1>5. CASE GivesUp(n)
  <2>1. PICK d : SetChild(n, d) /\ Failure(child[n], d) BY <1>5, GivesUpIs
  <2>2. store' = store BY <1>5, GivesUpIs
  <2>3. QED BY <2>1, <2>2, FailureSeen
<1>6. QED BY <1>3, <1>4, <1>5

LEMMA RestartSeen == ASSUME IInv, NEW w \in Workers, WorkerRestarts(w) PROVE ContractStep
<1>1. /\ child' = [n \in Children |-> IF child[n].host = w THEN [child[n] EXCEPT !.up = FALSE]
                                      ELSE child[n]]
      /\ store' = [store EXCEPT ![w] = [t \in Types |-> NoBatch]]
      /\ child \in [Children -> Child]
  BY DEF WorkerRestarts, IInv, TypeOK
<1>2. \A n \in Children : child'[n].type = child[n].type /\ child'[n].pc = child[n].pc
  BY <1>1 DEF Child
<1>3. Status' = Status /\ Acked' = Acked BY <1>2 DEF Status, Acked, Shows
<1>4. QED BY <1>1, <1>3, IsForget DEF ContractStep

(* The types of the children are the input's, from the first step on. *)
LEMMA TypesStay ==
    ASSUME IInv, Next PROVE \A n \in Children : child'[n].type = child[n].type
<1>1. child \in [Children -> Child] BY DEF IInv, TypeOK
<1>2. ASSUME NEW n \in Children, NEW d, SetChild(n, d), d.type = child[n].type
      PROVE  \A m \in Children : child'[m].type = child[m].type
  BY <1>1, <1>2 DEF SetChild
<1>3. ASSUME NEW n \in Children, NEW w \in Workers, CreateSession(n, w)
      PROVE  \A m \in Children : child'[m].type = child[m].type
  BY <1>1, <1>3 DEF CreateSession, SetChild, Child
<1>4. ASSUME NEW n \in Children, StartAttempt(n)
      PROVE  \A m \in Children : child'[m].type = child[m].type
  BY <1>1, <1>4 DEF StartAttempt, SetChild, Child
<1>5. ASSUME NEW n \in Children, GivesUp(n)
      PROVE  \A m \in Children : child'[m].type = child[m].type
  <2>1. PICK d : SetChild(n, d) /\ Failure(child[n], d) BY <1>5, GivesUpIs
  <2>2. d.type = child[n].type BY <2>1 DEF Failure, SameRun, NewRun
  <2>3. QED BY <1>2, <2>1, <2>2
<1>6. ASSUME NEW a \in attempts, ActivityStep(a)
      PROVE  \A m \in Children : child'[m].type = child[m].type
  <2>1. PICK c : c = child[a.child] OBVIOUS
  <2>2. a.child \in Children /\ c \in Child BY <2>1 DEF IInv, TypeOK, Attempt
  <2>3. CASE child' = child BY <2>3
  <2>4. CASE Live(a) /\ SetChild(a.child, AttemptFailed(c))
    <3>1. Failure(c, AttemptFailed(c))
      <4>1. c.pc \in Activities BY <2>1, <2>4 DEF Live, IInv, TypeOK, Attempt
      <4>2. QED BY <2>2, <4>1, AttemptFailedIs
    <3>2. AttemptFailed(c).type = c.type BY <3>1 DEF Failure, SameRun, NewRun
    <3>3. QED BY <1>2, <2>1, <2>2, <2>4, <3>2
  <2>5. CASE SetChild(a.child, ActivitySucceeded(c))
    BY <1>2, <2>1, <2>2, <2>5, ActivitySucceededKeeps
  <2>6. ASSUME NEW x, \/ SetChild(a.child, [ActivitySucceeded(c) EXCEPT !.lifecycles = x])
                      \/ SetChild(a.child, [ActivitySucceeded(c) EXCEPT !.detected = x])
                      \/ SetChild(a.child, [ActivitySucceeded(c) EXCEPT !.summary = x])
        PROVE  \A m \in Children : child'[m].type = child[m].type
    <3>1. ASSUME NEW d, \/ d = [ActivitySucceeded(c) EXCEPT !.lifecycles = x]
                        \/ d = [ActivitySucceeded(c) EXCEPT !.detected = x]
                        \/ d = [ActivitySucceeded(c) EXCEPT !.summary = x]
          PROVE  d.type = c.type
      BY <2>2, <3>1 DEF ActivitySucceeded, Child
    <3>2. QED BY <1>2, <2>1, <2>2, <2>6, <3>1
  <2>7. QED
    BY <1>6, <2>1, <2>3, <2>4, <2>5, <2>6 DEF ActivityStep, Load, ReturnError, FetchInventory,
       FetchEOLData, DetectDrift, StoreFindings, EmitMetrics, Reply
<1>7. ASSUME NEW w \in Workers, WorkerRestarts(w)
      PROVE  \A m \in Children : child'[m].type = child[m].type
  BY <1>1, <1>7 DEF WorkerRestarts, Child
<1>8. ASSUME child' = child PROVE \A m \in Children : child'[m].type = child[m].type BY <1>8
<1>9. QED BY <1>3, <1>4, <1>5, <1>6, <1>7, <1>8, Steps DEF InventoryChanges, vars

OnceEach == \A types \in Inputs : Repeated(types) = {}
RInv == FInv /\ (OnceEach => \A n \in Children : Alone(n))

LEMMA ContractInitially == Init => Contract!Init /\ RInv
<1> SUFFICES ASSUME Init PROVE Contract!Init /\ RInv OBVIOUS
<1>1. PICK types \in Inputs : child = [n \in Children |-> NewRun(types[n], 1)] BY DEF Init
<1>2. \A n \in Children : child[n].pc = "session" /\ child[n].type = types[n] BY <1>1 DEF NewRun
<1>3. \A t : ~Shows(t, {"completed"}) /\ ~Shows(t, {"failed"}) /\ ~Shows(t, {"EmitMetrics", "completed"})
  BY <1>2 DEF Shows
<1>4. Status = [t \in Types |-> "running"] BY <1>3 DEF Status
<1>5. Acked = [t \in Types |-> FALSE]
  <2>1. \A t : Shows(t, {"EmitMetrics", "completed"}) = FALSE BY <1>3, BooleanShows
  <2>2. QED BY <2>1 DEF Acked
<1>6. store = [w \in Workers |-> [t \in Types |-> NoBatch]] BY DEF Init
<1>7. Contract!Init BY <1>4, <1>5, <1>6 DEF Contract!Init, Status, Acked
<1>8. ASSUME OnceEach, NEW n \in Children PROVE Alone(n)
  <2>1. Repeated(types) = {} BY <1>8 DEF OnceEach
  <2>2. ASSUME NEW m \in Children, types[m] = types[n] PROVE m = n
    <3>1. ~(m < n) /\ ~(n < m) BY <2>1, <2>2 DEF Repeated
    <3>2. m \in Nat /\ n \in Nat OBVIOUS
    <3>3. QED BY <3>1, <3>2
  <2>3. QED BY <1>2, <2>2 DEF Alone
<1>9. QED BY <1>7, <1>8, FlowInitially DEF RInv

LEMMA ContractNext ==
    ASSUME LateAttempts \/ OnceEach, RInv, [Next]_vars
    PROVE  [Contract!Next]_(Contract!vars) /\ RInv'
<1>1. IInv /\ FInv BY DEF RInv, FInv
<1>2. RInv'
  <2>1. FInv' BY <1>1, NextFlows
  <2>2. \A n \in Children : child'[n].type = child[n].type BY <1>1, TypesStay DEF vars
  <2>3. ASSUME NEW n \in Children, Alone(n) PROVE Alone(n)' BY <2>2, <2>3 DEF Alone
  <2>4. QED BY <2>1, <2>3 DEF RInv, OnceEach, Repeated
<1>3. ContractStep
  <2>1. CASE UNCHANGED vars BY <2>1, UnseenStep DEF vars
  <2>2. CASE Next
    <3>1. ASSUME NEW n \in Children,
                 (\E w \in Workers : CreateSession(n, w)) \/ StartAttempt(n) \/ GivesUp(n)
          PROVE  ContractStep
      BY <1>1, <3>1, WorkflowSeen
    <3>2. ASSUME NEW a \in attempts, ActivityStep(a) PROVE ContractStep
      <4>1. CASE LateAttempts BY <1>1, <3>2, <4>1, ActivitySeen
      <4>2. CASE ~LateAttempts
        <5>1. Live(a) /\ a.child \in Children /\ Alone(a.child)
          BY <1>1, <4>2 DEF FInv, NoneLate, RInv, IInv, TypeOK, Attempt
        <5>2. Watched(a.child) BY <5>1 DEF Watched, Alone
        <5>3. QED BY <1>1, <3>2, <5>1, <5>2, ActivitySeen
      <4>3. QED BY <4>1, <4>2
    <3>3. ASSUME NEW t \in Types, InventoryChanges(t) PROVE ContractStep
      BY <3>3, UnseenStep DEF InventoryChanges
    <3>4. ASSUME NEW w \in Workers, WorkerRestarts(w) PROVE ContractStep
      BY <1>1, <3>4, RestartSeen
    <3>5. QED BY <2>1, <2>2, <3>1, <3>2, <3>3, <3>4, Steps
  <2>3. QED BY <2>1, <2>2
<1>4. QED BY <1>2, <1>3 DEF ContractStep, Contract!vars, Status, Acked

(* The five activities, their sessions, retries, late and lost replies and *)
(* worker restarts do no more to the store, and tell the orchestrator no   *)
(* more, than DetectionContract: success is reported only after the        *)
(* findings of the run were stored and acknowledged, and what was          *)
(* acknowledged is rewritten by late attempts only.  (A type the input     *)
(* repeats has a second child nobody watches: what it writes is a late     *)
(* attempt's write to the contract, so without late attempts the input     *)
(* must name each type once.)                                              *)
THEOREM Refinement ==
    ASSUME LateAttempts \/ OnceEach
    PROVE  Spec => ImplementsContract
<1>1. Init => Contract!Init /\ RInv BY ContractInitially
<1>2. RInv /\ [Next]_vars => [Contract!Next]_(Contract!vars) /\ RInv' BY ContractNext
<1>3. QED BY <1>1, <1>2, PTL DEF Spec, ImplementsContract, Contract!Spec

-----------------------------------------------------------------------------
(* Progress.  Whatever fails, times out, is lost or comes late, a child    *)
(* only moves on: within a try, to its next try, activity or run.  (That   *)
(* it does move, when Temporal is fair, is ScanEnds.)                      *)

Stage == [session |-> 0, FetchInventory |-> 1, FetchEOLData |-> 2, DetectDrift |-> 3,
          StoreFindings |-> 4, EmitMetrics |-> 5, completed |-> 6, failed |-> 7]
Advance(c, d) ==
    \/ c.run < d.run
    \/ c.run = d.run /\ Stage[c.pc] < Stage[d.pc]
    \/ c.run = d.run /\ c.pc = d.pc /\ c.try < d.try
    \/ c.run = d.run /\ c.pc = d.pc /\ c.try = d.try
       /\ ((c.up /\ d.up /\ ~c.busy /\ d.busy) \/ (c.up /\ ~d.up /\ c.busy = d.busy))

(* The try an attempt was made for is the one its child waits for, or is   *)
(* over.                                                                   *)
Reached(a, c) ==
    \/ a.run < c.run
    \/ a.run = c.run /\ Stage[a.activity] < Stage[c.pc]
    \/ a.run = c.run /\ a.activity = c.pc /\ a.try < c.try
    \/ a.run = c.run /\ a.activity = c.pc /\ a.try = c.try /\ c.busy
SameTry(a, b) == a.child = b.child /\ a.run = b.run /\ a.activity = b.activity /\ a.try = b.try
TriedOnce ==
    /\ \A a \in attempts : Reached(a, child[a.child])
    /\ \A a, b \in attempts : SameTry(a, b) => a = b

LEMMA StagesAre ==
    \A pc \in {"session", "completed", "failed"} \cup Activities :
        Stage[pc] \in Nat /\ Stage[pc] <= 7
BY DEF Stage, Activities

LEMMA RunFailedAdvances ==
    ASSUME NEW c \in Child, c.pc \notin {"completed", "failed"} PROVE Advance(c, RunFailed(c))
<1>1. CASE c.run < MaxRuns
  <2>1. RunFailed(c).run = c.run + 1 BY <1>1 DEF RunFailed, NewRun
  <2>2. QED BY <2>1 DEF Advance, Child
<1>2. CASE ~(c.run < MaxRuns)
  <2>1. RunFailed(c).pc = "failed" /\ RunFailed(c).run = c.run BY <1>2 DEF RunFailed, Child
  <2>2. Stage[c.pc] < Stage["failed"] BY DEF Stage, Child, Activities
  <2>3. QED BY <2>1, <2>2 DEF Advance
<1>3. QED BY <1>1, <1>2

LEMMA ActivityFailedAdvances ==
    ASSUME NEW c \in Child, c.pc \in Activities PROVE Advance(c, ActivityFailed(c))
<1>1. CASE c.pc = "EmitMetrics"
  <2>1. ActivityFailed(c).pc = "completed" /\ ActivityFailed(c).run = c.run BY <1>1 DEF ActivityFailed, Child
  <2>2. QED BY <1>1, <2>1 DEF Advance, Stage
<1>2. CASE c.pc # "EmitMetrics" BY <1>2, RunFailedAdvances DEF ActivityFailed, Activities
<1>3. QED BY <1>1, <1>2

LEMMA AttemptFailedAdvances ==
    ASSUME NEW c \in Child, c.pc \in Activities PROVE Advance(c, AttemptFailed(c))
<1>1. CASE c.try < MaxTries
  <2>1. /\ AttemptFailed(c).try = c.try + 1 /\ AttemptFailed(c).pc = c.pc
        /\ AttemptFailed(c).run = c.run
    BY <1>1 DEF AttemptFailed, Child
  <2>2. QED BY <2>1 DEF Advance, Child
<1>2. CASE ~(c.try < MaxTries) BY <1>2, ActivityFailedAdvances DEF AttemptFailed
<1>3. QED BY <1>1, <1>2

LEMMA SuccessAdvances ==
    ASSUME NEW c \in Child, c.pc \in Activities, NEW d, Success(c, d) PROVE Advance(c, d)
BY DEF Success, SameRun, Advance, Stage, Following, Activities

(* An attempt whose try was reached stays reached. *)
LEMMA ReachedStays ==
    ASSUME NEW a \in Attempt, NEW c \in Child, NEW d \in Child, Reached(a, c), c = d \/ Advance(c, d)
    PROVE  Reached(a, d)
<1>1. /\ Stage[c.pc] \in Nat /\ Stage[d.pc] \in Nat /\ Stage[a.activity] \in Nat
      /\ a.run \in Nat /\ c.run \in Nat /\ d.run \in Nat /\ a.try \in Nat /\ c.try \in Nat /\ d.try \in Nat
  <2>1. c.pc \in {"session", "completed", "failed"} \cup Activities BY DEF Child
  <2>2. d.pc \in {"session", "completed", "failed"} \cup Activities BY DEF Child
  <2>3. a.activity \in {"session", "completed", "failed"} \cup Activities BY DEF Attempt
  <2>4. Stage[c.pc] \in Nat /\ Stage[d.pc] \in Nat /\ Stage[a.activity] \in Nat
    BY <2>1, <2>2, <2>3, StagesAre
  <2>5. QED BY <2>4 DEF Attempt, Child
<1>2. CASE c = d BY <1>2
<1>3. CASE c.run < d.run \/ (c.run = d.run /\ Stage[c.pc] < Stage[d.pc])
  BY <1>1, <1>3 DEF Reached
<1>4. CASE c.run = d.run /\ c.pc = d.pc /\ (c.try < d.try \/ (c.try = d.try /\ (c.busy => d.busy)))
  BY <1>1, <1>4 DEF Reached
<1>5. QED BY <1>2, <1>3, <1>4 DEF Advance

(* What an activity does to its attempt and its child. *)
LEMMA ActivityMoves ==
    ASSUME IInv, NEW a \in attempts, ActivityStep(a)
    PROVE  \/ Load(a)
           \/ /\ attempts' = attempts \ {a}
              /\ \/ child' = child
                 \/ \E d : SetChild(a.child, d) /\ Advance(child[a.child], d)
<1>1. a \in Attempt /\ a.child \in Children /\ a.activity \in Activities /\ child[a.child] \in Child
  BY DEF IInv, TypeOK, Attempt
<1>2. PICK c : c = child[a.child] OBVIOUS
<1>3. ASSUME NEW d, Reply(a, d), Live(a) => Success(c, d)
      PROVE  /\ attempts' = attempts \ {a}
             /\ child' = child \/ (SetChild(a.child, d) /\ Advance(c, d))
  <2>1. Live(a) => c.pc \in Activities BY <1>1, <1>2 DEF Live
  <2>2. Live(a) => Advance(c, d) BY <1>1, <1>2, <1>3, <2>1, SuccessAdvances
  <2>3. QED BY <1>3, <2>2 DEF Reply
<1>4. CASE ReturnError(a)
  <2>1. Live(a) => c.pc \in Activities BY <1>1, <1>2 DEF Live
  <2>2. Live(a) => Advance(c, AttemptFailed(c)) BY <1>1, <1>2, <2>1, AttemptFailedAdvances
  <2>3. QED BY <1>2, <1>4, <2>2 DEF ReturnError
<1>5. ASSUME a.loaded, NEW l \in Versions \cup {None}, NEW b \in Batch \cup {NoBatch}
      PROVE  Live(a) =>
                 /\ Success(c, ActivitySucceeded(c))
                 /\ Success(c, [ActivitySucceeded(c) EXCEPT !.lifecycles = l])
                 /\ Success(c, [ActivitySucceeded(c) EXCEPT !.detected = b])
                 /\ Success(c, [ActivitySucceeded(c) EXCEPT !.summary = b])
  BY <1>1, <1>2, ActivitySucceededIs DEF Live
<1>6. ASSUME a.loaded PROVE /\ a.batch \in Batch /\ a.batch.version \in Versions
                            /\ [a.batch EXCEPT !.lifecycles = a.lifecycles] \in Batch
  BY <1>6, LoadedIs DEF Batch
<1>7. CASE FetchInventory(a) \/ StoreFindings(a)
  <2>1. Reply(a, ActivitySucceeded(c)) /\ a.loaded BY <1>2, <1>7 DEF FetchInventory, StoreFindings
  <2>2. QED BY <1>2, <1>3, <1>5, <1>6, <2>1
<1>8. CASE FetchEOLData(a)
  <2>1. Reply(a, [ActivitySucceeded(c) EXCEPT !.lifecycles = a.batch.version]) /\ a.loaded
    BY <1>2, <1>8 DEF FetchEOLData
  <2>2. QED BY <1>2, <1>3, <1>5, <1>6, <2>1
<1>9. CASE DetectDrift(a)
  <2>1. Reply(a, [ActivitySucceeded(c) EXCEPT !.detected = [a.batch EXCEPT !.lifecycles = a.lifecycles]])
        /\ a.loaded
    BY <1>2, <1>9 DEF DetectDrift
  <2>2. QED BY <1>2, <1>3, <1>5, <1>6, <2>1
<1>10. CASE EmitMetrics(a)
  <2>1. Reply(a, [ActivitySucceeded(c) EXCEPT !.summary = a.batch]) /\ a.loaded
    BY <1>2, <1>10 DEF EmitMetrics
  <2>2. QED BY <1>2, <1>3, <1>5, <1>6, <2>1
<1>11. QED BY <1>4, <1>7, <1>8, <1>9, <1>10 DEF ActivityStep

LEMMA GivingUpAdvances ==
    ASSUME IInv, NEW n \in Children, GivesUp(n)
    PROVE  attempts' = attempts /\ \E d : SetChild(n, d) /\ Advance(child[n], d)
<1>1. child[n] \in Child /\ (child[n].busy => child[n].pc \in Activities)
  BY DEF IInv, TypeOK, StoredInv
<1>2. attempts' = attempts
  BY DEF GivesUp, CreateSessionTimesOut, AttemptTimesOut, AttemptIsLate, SessionFails, SessionTimesOut,
         ChildTimesOut
<1>3. CASE CreateSessionTimesOut(n)
  <2>1. SetChild(n, RunFailed(child[n])) /\ child[n].pc = "session" BY <1>3 DEF CreateSessionTimesOut
  <2>2. Advance(child[n], RunFailed(child[n])) BY <1>1, <2>1, RunFailedAdvances
  <2>3. QED BY <1>2, <2>1, <2>2
<1>4. CASE AttemptTimesOut(n) \/ AttemptIsLate(n)
  <2>1. SetChild(n, AttemptFailed(child[n])) /\ child[n].busy BY <1>4 DEF AttemptTimesOut, AttemptIsLate
  <2>2. Advance(child[n], AttemptFailed(child[n])) BY <1>1, <2>1, AttemptFailedAdvances
  <2>3. QED BY <1>2, <2>1, <2>2
<1>5. CASE SessionFails(n) \/ SessionTimesOut(n)
  <2>1. SetChild(n, ActivityFailed(child[n])) /\ child[n].pc \in Activities
    BY <1>5 DEF SessionFails, SessionTimesOut
  <2>2. Advance(child[n], ActivityFailed(child[n])) BY <1>1, <2>1, ActivityFailedAdvances
  <2>3. QED BY <1>2, <2>1, <2>2
<1>6. CASE ChildTimesOut(n)
  <2>1. PICK d : d = [child[n] EXCEPT !.pc = "failed", !.busy = FALSE] OBVIOUS
  <2>2. SetChild(n, d) /\ child[n].pc \notin {"completed", "failed"} BY <1>6, <2>1 DEF ChildTimesOut, Ended
  <2>3. d.pc = "failed" /\ d.run = child[n].run BY <1>1, <2>1 DEF Child
  <2>4. Stage[child[n].pc] < Stage["failed"] BY <1>1, <2>2 DEF Stage, Child, Activities
  <2>5. QED BY <1>2, <2>2, <2>3, <2>4 DEF Advance
<1>7. QED BY <1>3, <1>4, <1>5, <1>6 DEF GivesUp

(* What a step does to a child: nothing, or it advances. *)
LEMMA StepAdvances ==
    ASSUME IInv, [Next]_vars
    PROVE  \A n \in Children : child'[n] = child[n] \/ Advance(child[n], child'[n])
<1>1. child \in [Children -> Child] BY DEF IInv, TypeOK
<1>2. CASE child' = child BY <1>2
<1>3. ASSUME NEW n \in Children, NEW d, SetChild(n, d), Advance(child[n], d)
      PROVE  \A m \in Children : child'[m] = child[m] \/ Advance(child[m], child'[m])
  BY <1>1, <1>3 DEF SetChild
<1>4. ASSUME NEW n \in Children, NEW w \in Workers, CreateSession(n, w)
      PROVE  \E d : SetChild(n, d) /\ Advance(child[n], d)
  <2>1. PICK d : d = [child[n] EXCEPT !.pc = "FetchInventory", !.host = w, !.up = TRUE] OBVIOUS
  <2>2. d.pc = "FetchInventory" /\ d.run = child[n].run /\ child[n].pc = "session"
    BY <1>1, <1>4, <2>1 DEF CreateSession, Child
  <2>3. Stage[child[n].pc] < Stage[d.pc] BY <2>2 DEF Stage
  <2>4. QED BY <1>4, <2>1, <2>2, <2>3 DEF CreateSession, Advance
<1>5. ASSUME NEW n \in Children, StartAttempt(n)
      PROVE  \E d : SetChild(n, d) /\ Advance(child[n], d)
  <2>1. PICK d : d = [child[n] EXCEPT !.busy = TRUE] OBVIOUS
  <2>2. /\ d.pc = child[n].pc /\ d.run = child[n].run /\ d.try = child[n].try /\ d.busy /\ d.up
        /\ child[n].up /\ ~child[n].busy
    BY <1>1, <1>5, <2>1 DEF StartAttempt, Child
  <2>3. QED BY <1>5, <2>1, <2>2 DEF StartAttempt, Advance
<1>6. ASSUME NEW w \in Workers, WorkerRestarts(w), NEW n \in Children
      PROVE  child'[n] = child[n] \/ Advance(child[n], child'[n])
  <2>1. child'[n] = IF child[n].host = w THEN [child[n] EXCEPT !.up = FALSE] ELSE child[n]
    BY <1>6 DEF WorkerRestarts
  <2>2. PICK d : d = [child[n] EXCEPT !.up = FALSE] OBVIOUS
  <2>3. CASE child[n].up
    <3>1. /\ d.pc = child[n].pc /\ d.run = child[n].run /\ d.try = child[n].try
          /\ d.busy = child[n].busy /\ ~d.up
      BY <1>1, <2>2 DEF Child
    <3>2. QED BY <2>1, <2>2, <2>3, <3>1 DEF Advance
  <2>4. CASE ~child[n].up
    <3>1. d = child[n] BY <1>1, <2>2, <2>4 DEF Child
    <3>2. QED BY <2>1, <2>2, <3>1
  <2>5. QED BY <2>3, <2>4
<1>7. ASSUME NEW a \in attempts, ActivityStep(a)
      PROVE  child' = child \/ \E d : SetChild(a.child, d) /\ Advance(child[a.child], d)
  BY <1>7, ActivityMoves DEF Load
<1>8. \A a \in attempts : a.child \in Children BY DEF IInv, TypeOK, Attempt
<1>9. CASE UNCHANGED vars BY <1>2, <1>9 DEF vars
<1>10. CASE Next
  BY <1>2, <1>3, <1>4, <1>5, <1>6, <1>7, <1>8, <1>9, <1>10, GivingUpAdvances, Steps DEF InventoryChanges
<1>11. QED BY <1>9, <1>10

LEMMA TriedStep == ASSUME IInv, TriedOnce, [Next]_vars PROVE TriedOnce'
<1>1. /\ child \in [Children -> Child] /\ child' \in [Children -> Child]
      /\ \A a \in attempts : a \in Attempt /\ a.child \in Children
  BY NextKeeps DEF IInv, TypeOK, Attempt
<1>2. ASSUME NEW a \in attempts PROVE Reached(a, child'[a.child])
  BY <1>1, ReachedStays, StepAdvances DEF TriedOnce
<1>3. CASE attempts' \subseteq attempts BY <1>2, <1>3 DEF TriedOnce
<1>4. ASSUME NEW a \in attempts, NEW b, attempts' = (attempts \ {a}) \cup {b}, SameTry(a, b)
      PROVE  TriedOnce'
  <2>1. Reached(b, child'[b.child]) BY <1>2, <1>4 DEF Reached, SameTry
  <2>2. \A c, d \in attempts' : SameTry(c, d) => c = d BY <1>4 DEF TriedOnce, SameTry
  <2>3. QED BY <1>2, <1>4, <2>1, <2>2 DEF TriedOnce
<1>5. ASSUME NEW a \in attempts, Load(a) PROVE TriedOnce'
  <2>1. PICK b : b = [a EXCEPT !.loaded = TRUE, !.batch = InputOf(a)] OBVIOUS
  <2>2. SameTry(a, b) BY <1>1, <2>1 DEF SameTry, Attempt
  <2>3. QED BY <1>4, <1>5, <2>1, <2>2 DEF Load
<1>6. ASSUME NEW n \in Children, StartAttempt(n) PROVE TriedOnce'
  <2>1. PICK c : c = child[n] OBVIOUS
  <2>2. PICK a : a = [child |-> n, type |-> c.type, run |-> c.run, try |-> c.try,
                      activity |-> c.pc, host |-> c.host, loaded |-> FALSE,
                      lifecycles |-> c.lifecycles, batch |-> NoBatch]
    OBVIOUS
  <2>3. attempts' = attempts \cup {a} /\ ~c.busy /\ child' = [child EXCEPT ![n] = [c EXCEPT !.busy = TRUE]]
    BY <1>6, <2>1, <2>2 DEF StartAttempt, SetChild
  <2>4. Reached(a, child'[a.child])
    <3>1. c \in Child /\ child'[n] = [c EXCEPT !.busy = TRUE] BY <1>1, <2>1, <2>3
    <3>2. QED BY <2>2, <3>1 DEF Reached, Child
  <2>5. ASSUME NEW b \in attempts PROVE ~SameTry(a, b) /\ ~SameTry(b, a)
    <3>1. b.child = n => Reached(b, c) BY <2>1 DEF TriedOnce
    <3>2. c.run \in Nat /\ c.try \in Nat /\ Stage[c.pc] \in Nat
      <4>1. c \in Child /\ c.pc \in {"session", "completed", "failed"} \cup Activities BY <1>1, <2>1 DEF Child
      <4>2. Stage[c.pc] \in Nat BY <4>1, StagesAre
      <4>3. QED BY <4>1, <4>2 DEF Child
    <3>3. QED BY <2>2, <2>3, <3>1, <3>2 DEF SameTry, Reached
  <2>6. QED BY <1>2, <2>3, <2>4, <2>5 DEF TriedOnce
<1>7. ASSUME NEW a \in attempts, ActivityStep(a) PROVE TriedOnce'
  BY <1>3, <1>5, <1>7, ActivityMoves
<1>8. CASE UNCHANGED vars BY <1>3, <1>8 DEF vars
<1>9. CASE Next
  BY <1>3, <1>6, <1>7, <1>8, <1>9, GivingUpAdvances, Steps DEF InventoryChanges, WorkerRestarts, CreateSession
<1>10. QED BY <1>8, <1>9

LEMMA TriedInvariance == Spec => [](IInv /\ TriedOnce)
<1>1. Init => TriedOnce BY DEF Init, TriedOnce
<1>2. IInv /\ TriedOnce /\ [Next]_vars => TriedOnce' BY TriedStep
<1>3. QED BY <1>1, <1>2, Invariance, PTL DEF Spec

(* Late attempts run beside their retries, but no try is made twice, and   *)
(* Temporal takes the reply of at most one attempt for each child: the     *)
(* others write to caches and store, but never move their child.           *)
OneCounts ==
    \A a, b \in attempts : a.child = b.child /\ Live(a) /\ Live(b) => a = b
THEOREM OneReplyCounts == Spec => []OneCounts
<1>1. TriedOnce => OneCounts BY DEF TriedOnce, OneCounts, SameTry, Live
<1>2. QED BY <1>1, TriedInvariance, PTL

(* How far a child is, as a number. *)
Beat(c) == IF ~c.up THEN 2 ELSE IF c.busy THEN 1 ELSE 0
Progress(c) == ((c.run * 8 + Stage[c.pc]) * (MaxTries + 1) + c.try) * 3 + Beat(c)
MaxProgress == ((MaxRuns * 8 + 7) * (MaxTries + 1) + MaxTries) * 3 + 2

LEMMA Multiples ==
    ASSUME NEW m \in Nat, NEW a \in Nat, NEW b \in Nat
    PROVE  /\ a * m \in Nat
           /\ a < b => a * m + m <= b * m
           /\ a <= b => a * m <= b * m
OBVIOUS

LEMMA ProgressIs ==
    ASSUME NEW c \in Child
    PROVE  /\ Progress(c) \in Nat /\ Progress(c) <= MaxProgress
           /\ \A d \in Child : Advance(c, d) => Progress(c) < Progress(d)
<1>1. ASSUME NEW d \in Child
      PROVE  /\ d.run \in Nat /\ d.run <= MaxRuns /\ d.try \in Nat /\ d.try <= MaxTries
             /\ Stage[d.pc] \in Nat /\ Stage[d.pc] <= 7
  <2>1. d.pc \in {"session", "completed", "failed"} \cup Activities BY DEF Child
  <2>2. Stage[d.pc] \in Nat /\ Stage[d.pc] <= 7 BY <2>1, StagesAre
  <2>3. QED BY <2>2 DEF Child
<1>2. PICK m \in Nat : m = MaxTries + 1 OBVIOUS
<1>3. PICK p : p = [d \in Child |-> d.run * 8 + Stage[d.pc]] OBVIOUS
<1>4. \A d \in Child : p[d] \in Nat /\ p[d] <= MaxRuns * 8 + 7 BY <1>1, <1>3
<1>5. \A d \in Child : Progress(d) = (p[d] * m + d.try) * 3 + Beat(d) BY <1>2, <1>3 DEF Progress
<1>6. \A d \in Child : Beat(d) \in 0 .. 2 BY DEF Beat
<1>7. Progress(c) \in Nat /\ Progress(c) <= MaxProgress
  <2>1. p[c] * m \in Nat /\ p[c] * m <= (MaxRuns * 8 + 7) * m BY <1>2, <1>4, Multiples
  <2>2. (MaxRuns * 8 + 7) * m \in Nat BY <1>2, Multiples
  <2>3. QED BY <1>1, <1>2, <1>5, <1>6, <2>1, <2>2 DEF MaxProgress
<1>8. ASSUME NEW d \in Child, Advance(c, d) PROVE Progress(c) < Progress(d)
  <2>1. p[c] * m \in Nat /\ p[d] * m \in Nat BY <1>2, <1>4, Multiples
  <2>2. CASE c.run < d.run \/ (c.run = d.run /\ Stage[c.pc] < Stage[d.pc])
    <3>1. p[c] < p[d] BY <1>1, <1>3, <2>2
    <3>2. p[c] * m + m <= p[d] * m BY <1>2, <1>4, <3>1, Multiples
    <3>3. p[c] * m + c.try < p[d] * m + d.try BY <1>1, <1>2, <2>1, <3>2
    <3>4. QED BY <1>1, <1>5, <1>6, <2>1, <3>3
  <2>3. CASE c.run = d.run /\ c.pc = d.pc /\ c.try < d.try
    <3>1. p[c] * m = p[d] * m BY <1>3, <2>3
    <3>2. QED BY <1>1, <1>5, <1>6, <2>1, <2>3, <3>1
  <2>4. CASE c.run = d.run /\ c.pc = d.pc /\ c.try = d.try
             /\ ((c.up /\ d.up /\ ~c.busy /\ d.busy) \/ (c.up /\ ~d.up /\ c.busy = d.busy))
    <3>1. p[c] * m = p[d] * m BY <1>3, <2>4
    <3>2. Beat(c) < Beat(d) BY <2>4 DEF Beat
    <3>3. QED BY <1>1, <1>5, <1>6, <2>1, <2>4, <3>1, <3>2
  <2>5. QED BY <1>8, <2>2, <2>3, <2>4 DEF Advance
<1>9. QED BY <1>7, <1>8

(* No child is retried for ever: every step that changes a child takes it  *)
(* further, to a bound that only the configured runs and tries determine,  *)
(* whatever fails, times out, restarts or is late and however often.       *)
RetriesEnd ==
    /\ []\A n \in Children : Progress(child[n]) <= MaxProgress
    /\ [][\A n \in Children : child'[n] = child[n] \/ Progress(child[n]) < Progress(child'[n])]_vars
THEOREM NothingIsRetriedForEver == Spec => RetriesEnd
<1>1. IInv => \A n \in Children : Progress(child[n]) <= MaxProgress
  BY ProgressIs DEF IInv, TypeOK
<1>2. IInv /\ IInv' /\ [Next]_vars =>
          [\A n \in Children : child'[n] = child[n] \/ Progress(child[n]) < Progress(child'[n])]_vars
  <2> SUFFICES ASSUME IInv, IInv', [Next]_vars, NEW n \in Children
               PROVE  child'[n] = child[n] \/ Progress(child[n]) < Progress(child'[n])
    OBVIOUS
  <2>1. child[n] \in Child /\ child'[n] \in Child BY DEF IInv, TypeOK
  <2>2. child'[n] = child[n] \/ Advance(child[n], child'[n]) BY StepAdvances
  <2>3. QED BY <2>1, <2>2, ProgressIs
<1>3. QED BY <1>1, <1>2, Invariance, PTL DEF Spec, RetriesEnd
=============================================================================
