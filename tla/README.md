# Version Guard in TLA+

Version Guard scans cloud inventories for outdated software versions. A scan
is a Temporal workflow that fans out over resource types, reads saved Wiz
reports and endoflife.date cycles, classifies every resource RED, YELLOW,
GREEN or UNKNOWN, and persists a snapshot of the findings.

This directory models the parts of it that are stateful: where activities are
retried, outlive their timeouts, share a worker's memory, race for one
workflow ID or overwrite each other's objects. Each module follows the source
(`PROJECT.json` maps each definition to its lines). TLC checks small
instances; TLAPS proves the invariants and action properties for every
instance.

## The system

```
 POST /scan ───┐
 CLI scan start┴ scan.Trigger ┐
                              ├─ OrchestratorWorkflow (ID version-guard-active-scan)
 schedule ── ScheduledScan ───┘        │ one child per resource type
             Workflow                  ▼
                              DetectionWorkflow (session on one worker)
                                FetchInventory ── wiz.Client (report cache) ── Wiz
                                FetchEOLData  ─── endoflife.Provider (cache, adapters)
                                DetectDrift   ─── DefaultPolicy
                                StoreFindings ─── findings store of the worker
                                EmitMetrics
                                       │
                              CreateSnapshot (any worker) ── snapshot.Store (S3 or memory)
                                       │
                              NotifyEmitter (webhook)
```

| Component | State | Operations | Talks to | Hard behaviour |
|---|---|---|---|---|
| Detection workflow and activities (`pkg/workflow/detection`) | history in Temporal; `resourceCache` in each worker | five activities in a session | caches, findings store | retries of activities that consume their input, late attempts, worker restarts |
| Orchestrator (`pkg/workflow/orchestrator`) | history in Temporal | fan-out, collect, CreateSnapshot, NotifyEmitter | children, findings store, snapshot store | partial failure, CreateSnapshot on another worker, lost replies |
| Findings store (`pkg/store/memory`) | map from resource ID to finding object | ReplaceFindings, SaveFindings, readers | detection, CreateSnapshot | one map for all types; shared objects stamped again by retries |
| S3 snapshot store (`pkg/snapshot/store.go`) | dated objects, `latest.json` | SaveSnapshot (two puts), three readers | S3 | failure between puts, late saves, paging, reused IDs |
| Memory snapshot store (`pkg/snapshot/memory_store.go`) | map and order of IDs | the same | | re-saved IDs |
| Trigger, handler and client (`pkg/scan`, `cmd/cli`) | none of its own | `POST /scan`, `scan start` | Temporal | one open scan, lost replies, request decoding |
| Schedule manager (`pkg/schedule`) | the schedule in Temporal | EnsureSchedule: create, describe, update | Temporal | replicas and rollouts racing, schedules of old versions |
| EOL adapters and policy (`pkg/eol`, `pkg/policy`) | flags in cached lifecycles | AdaptCycle, Classify | | stale flags, combinations of dates, day boundaries |
| EOL provider (`pkg/eol/endoflife/provider.go`) | entry and flight per product | loadVersions, GetVersionLifecycle | endoflife.date | a flight without a second look, 404s that are cached and errors that are not, three readings of one version |
| Wiz report cache (`pkg/inventory/wiz/client.go`) | entry and flight per report | GetReportData | Wiz | shared flights, per-caller columns, freshness |
| Inventory sources (`pkg/inventory/wiz/generic.go`, `helpers.go`, `transforms.go`) | none that outlives a call | ListResources | report cache | columns found by prefix and alias, rows of other types, versions inside JSON |
| Configuration, telemetry, emitters, deployment | none that outlives a call | wiring | | see "Not modelled" |

What makes each part correct:

- **Detection**: success is reported only after an acknowledged write; the
  count, the summary, the stored findings and the lifecycles describe one
  listing; types never mix; every child ends.
- **Orchestrator**: a full snapshot has every type; nothing names a snapshot
  that is not durable; a snapshot shows its own scan; every scan ends.
- **Findings store**: a scan replaces the listing of its type and no other.
- **Snapshot stores**: an acknowledged snapshot stays readable, the latest is
  the latest, listings are complete.
- **Starting scans**: one at a time, with the ScanID and the types that were
  asked for; the schedule has the configuration that was deployed.
- **Lifecycle and policy**: RED when support is over, not before; it stays
  RED; a YELLOW scan comes first.
- **EOL provider**: nobody is answered from an outdated listing or from an
  older one than before; a version is judged by the closest cycle that contains
  it, or its finding names the true reason why not.
- **Report cache and inventory sources**: every type lists exactly its own
  resources of a run that is fresh enough and was downloaded once, and every
  call is answered.

## Modules

| Module | Models | Composed with |
|---|---|---|
| `DetectionContract` | what the detection stage promises the orchestrator | implemented by `Detection`, instantiated by `ScanPipeline` |
| `Detection`, `DetectionProofs` | children, sessions, attempts, `resourceCache`, stores | |
| `ScanPipeline`, `ScanPipelineProofs` | successive scans from fan-out to webhook | `DetectionContract` |
| `TypeListings` | the findings store as one listing per type | implemented by `FindingStore` |
| `FindingStore`, `FindingStoreProofs` | the map and the shared finding objects | |
| `SnapshotStore`, `SnapshotStoreProofs` | both implementations of `snapshot.Store` | |
| `ScanTrigger`, `ScanTriggerProofs` | requests, command lines, schedule, launchers, EnsureSchedule, the singleton ID | |
| `Lifecycle`, `LifecycleProofs` | adapters, cached flags and policy over time | |
| `VersionMatching` | which cycle a version belongs to: FetchEOLData, provider and policy in turn | extended by `EolProvider` |
| `EolProvider`, `EolProviderProofs` | `Provider.loadVersions` with its cache and its flight | `VersionMatching` |
| `WizInventory` | how a source finds its columns, rows, IDs and versions | extended by `ReportCache` |
| `ReportCache`, `ReportCacheProofs` | `wiz.Client.GetReportData` and the HTTP client under it | `WizInventory` |
| `MC*` | instances for TLC | the module each extends |

### How the pieces fit

The chain of abstractions is `Detection` ⇒ `DetectionContract` ⇒ used by
`ScanPipeline`. In `Detection` a child is a Temporal workflow with runs,
attempts and a session; for the orchestrator it is only a future
(`status`) and the effect of its writes (`store`). The refinement maps
the `pc` of a type's last child to the future and says that `StoreFindings` is acknowledged from
the next step on. It is the property `ImplementsContract` of a run and the
theorem `Refinement`, and `ScanPipeline` takes its children's actions from the same module, so what is
shown of scans holds for the detailed children.

Both take the store of a worker to be a listing per type that is replaced as a
whole. `FindingStore` justifies that: its map keyed by resource ID implements
`TypeListings` (`ImplementsListings`, proved) as long as no resource is listed
for two types.

The two caches are composed with what is made of their contents:
`ReportCache` with the sources that parse the shared rows (`WizInventory`), so
that a listing is wrong if the columns, the rows or the sharing are;
`EolProvider` with the match of versions (`VersionMatching`), so that the cause
of an UNKNOWN is followed from the fetch that failed to the finding.
`Detection` takes both as a listing and its lifecycles with a version number.

`ScanPipeline` runs one orchestrator at a time, which `ScanTrigger` proves
(`SingleScan`), and its two puts are the ones `SnapshotStore` looks at in
detail.

### State and actions against the code

**Detection.** `child[t]` is the state of one `DetectionWorkflow`: the current
activity (`pc`), the run of the child's retry policy, the attempt of the
activity's retry policy, the session's `host` and whether it is still `up`.
`attempts` are executions on a worker. An activity is two steps, `Load` and
the step named after it, because other attempts run between its read of
`resourceCache` and its writes. `Reply` delivers the result, finds it too
late, or loses it. A listing is a version number per type (`inventory`), so
`lifecycles` can say for which listing the cycles were fetched. `Fault` is
spent by anything the environment does wrong. A child is named by its position
in the input, because nobody removes types that occur twice (`Inputs`): the
children of a repeated type work beside each other on the same batch IDs and
the orchestrator keeps the future of the last one (`Shows`). A repeated type
uses up one of the faults. `Coherent` and `CacheDrained` are stated for a type
that is alone: of its twin a child may find the batch deleted, which fails it.

**ScanPipeline.** `scan` is the orchestrator run that holds the singleton ID,
`writers` are CreateSnapshot attempts, `snapshots` the dated objects by ScanID,
`latest` the ScanID under `latest.json`. CreateSnapshot is `ListFindings` per
type, `Validate`, `PutDated`, `PutLatest`. A finding is represented by the scan
that made it.

**FindingStore.** `heap[s][i]` is the object scan `s` made for resource `i`,
`findings[i]` says whose object the map holds. A retry of StoreFindings writes
the same batch again.

**SnapshotStore.** A process uses one implementation, `backend`. A key is its
day and its ID; IDs are numbers in string order, and `EndsWith` says which
string ends with which. `saving` holds the SaveSnapshot calls in progress: a
late attempt of CreateSnapshot still saves while its retry begins. A listing is a
set, because what matters of its order is what a limit cuts off: `Firsts` are the
elements with fewer than so many before them, in the order of keys for a page of
S3 and of saves for the memory store (`Recency`). The history
variables `acked` and `overlapped` say which saves succeeded and whether any
two were in progress together.

**ScanTrigger.** `Run` is `Trigger.Run`, which the HTTP handler (`Post`) and the
command line client (`ScanStart`) share; only the handler decodes a body and
only a server has a configuration to fall back on. A request without a body is
decoded like one whose length is unknown. A workflow ID is open or not; Temporal refuses equal ones
only. `replica` holds each server's configuration and how far EnsureSchedule
got; `schedule` may start as one of an older version.

**Lifecycle.** The clock ticks in half days and dates are midnights, which
distinguishes "less than a day ahead" from "a day ahead". `cached` holds what
AdaptCycle made and when, `finding` what the latest scan showed; `daily` is a
history variable: has every scan come within a day of the one before? The
declarative schemas are those of the shipped `resources.yaml` (EKS, Lambda)
and three odd ones a user may write.

**VersionMatching.** A version is its dotted parts, with or without a `k8s-`
prefix and whitespace before them: what the three readers normalise
differently. A cycle is its name and whether its fields are accepted.

**EolProvider.** `calls` are concurrent `loadVersions` calls for one product,
`flight` its singleflight. A caller misses (`Lookup`) and joins or leads a flight
(`Do`) in separate steps; the flight does not look into the cache again.
`FetchFails` answers everyone with an error and caches nothing; a 404 is cached
like a listing. The histories `newest` and `floor` say which listing somebody
had been answered from when a call began.

**WizInventory.** A column's name is its dotted segments, a cell the pieces the
code tells apart (a native type's segments, prefix and rest of a version, field
and value of a JSON object). `buildColumnIndex` lets a full name win over an
unprefixed one.

**ReportCache.** `calls` are concurrent `GetReportData` calls, `flight` the
singleflight of the report, with its steps: `recheck` (the second look),
`token`, `report` (the metadata, and what the clock says to them), `backoff`
after a rate limit, `download`. A run of the report has a header, what each
column holds, and objects; the clock of Wiz may be ahead of ours by `Ahead`. A
download may break off between two rows. `FetchFails` is any other failure of
a request and the end of the leader's context, also within a pause.

## What the runs check

Bounds are constants of the modules and are set in the `.cfg` files. Deadlock
is checked in every run; most modules have a stutter step for the states in
which nothing is left to do (`Finished`, `AllScansEnded`, `Done`, `Idle`), and
`ReportCache` and `EolProvider` have none because callers can always ask again.
`TypeOK` is proved for every module; the runs of the modules with the most
intricate records (`Detection`, `SnapshotStore`, `ReportCache`, `Lifecycle`)
check it as well.

| Run | Instance | Shows |
|---|---|---|
| `detection_late` | 2 children, of two types or of one, 2 workers, 2 runs of 2 tries, 2 faults, late attempts | batches stay apart; success means stored; the children implement the contract |
| `detection_live` | 2 children, of two types (one without an EOL provider) or of one, 2 workers, 2 faults, a listing change | count, summary, findings and lifecycles agree; a summarised child left no batch behind; every child ends |
| `pipeline_late` | 2 types, 2 workers, 2 scans, late attempts, restarts | full snapshots are complete, readers find what is announced |
| `pipeline_live` | 2 types, 1 worker without restarts, 3 scans, 2 faults | a snapshot is of its scan; `latest.json` is the latest completed scan's; every scan ends |
| `store_saves` | both backends, 2 IDs of which one ends with the other, 2 days, 3 saves that may overlap, pages of 2 | acknowledged snapshots stay and are found, `latest.json` keeps up, listings are complete: as many readable snapshots as the limit allows, none lost at a page boundary |
| `findings_writes` | 3 resources of 2 types, 3 scans, 3 writes | the map is a listing per type; a replaced type shows what its scan found; times are set once and in order |
| `trigger_contend` | 2 replicas, 3 configurations, 2 firings, 2 requests over HTTP (with a body or none, or malformed) or from the command line, a restart, a failing call; four of these events in all | one scan at a time, each as it was asked for; the schedule ends up with the deployed configuration |
| `cache_calls` | the OpenSearch and Lambda sources of the shipped `resources.yaml` on one report with two schemas; TTL 2, interval 1, skew 1, 2 tries, clocks up to 2 apart, 3 ticks | each type lists exactly its own resources, fresh answers, no second download, every call answered |
| `versions` | 2 callers (a retry and a late attempt), 4 listings and a change, 8 versions, TTL 2, a fetch takes 1 of 4 ticks | no outdated or older listing, every version judged by its closest cycle or with its true cause, every call answered |
| `lifecycle_colours` | 4 days, 6 schemas, every combination of 3 values, any scan times | RED is right when fresh, late by one TTL at most, stays, and with daily scans comes after a YELLOW scan |

The bounds are small because the hazards are: two faults are enough to lose a
reply and then the worker (or to lose the reply of a retry), a repeated type beside one more, two runs of two
tries reach both exhaustion of tries and exhaustion of runs, two workers are
enough for "another worker", two types for "another type". `MaxTries` is 5 and
`MaxRuns` 3 in the code; more of them repeat the same states. In
`SnapshotStore` three saves over two days reach a reused ID on the same and on
another day and more keys than a page holds. In `ScanTrigger` the four events
(`MaxEvents`) are two requests and two firings, or fewer of them with a restart
or a failing call, on top of the two replicas' EnsureSchedule; the proofs of
`SingleScan` and `TypeOK` hold for any bound. In the two caches times are
longer than the TTL, so that an entry is hit, expires and is replaced, and a
clock that is 2 ahead with a skew of 1 falls on both sides of the check; the
proofs of `EolProvider` hold for any times. In `Lifecycle` the warning window
is two days instead of ninety and the TTL two ticks, so that each boundary of
each window falls inside the clock's range.

### Disagreements between code and documents

Two are runs that TLC refutes; `findings` in `PROJECT.json` quotes the lines.

| Run | The document says | The code |
|---|---|---|
| `pipeline_scaled` | configured families must appear in the snapshot; run several workers | CreateSnapshot lists the store of whichever worker runs it |
| `findings_first` | DetectedAt is the first detection | every scan makes a new object with a new time |

Others were met while modelling. They have no run of their own: the models
behave as the code does, and the properties state what holds all the same.

| Code | The document says | The code | Where the models show it |
|---|---|---|---|
| `detection/activities.go:310` | sessions make the in-memory cache safe (`workflow.go:44-45`) | a retry after a lost reply of DetectDrift finds its batch deleted, and the run starts over | `DetectDrift` without input fails; `Coherent` holds over such histories |
| `snapshot/store.go:122` | GetLatestSnapshot returns the most recent (`:44`) | a late save wins | the condition `~overlapped` of `LatestKeepsUp` |
| `snapshot/store.go:333` | GetSnapshot returns the snapshot of an ID (`:47`) | keys match by suffix | the `EndsWith` clause of `FoundByID` |
| `snapshot/store.go:222` | ListSnapshots lists recent snapshots (`:50`) | keys come in ascending order, so a limit keeps the oldest | `ListSnapshots` takes the first keys; `ListIsComplete` claims nothing of which ones S3 leaves out |
| `snapshot/memory_store.go:44` | the most recently saved snapshot (`:51`) | a re-saved ID keeps its place | `SaveInMemory` leaves `order` alone |
| `policy/default.go:130` | YELLOW when approaching EOL (`:37`) | GREEN in the last 24 hours before the boundary | the last clause of `NeverUnwarned` |
| `scan/handler.go:51` | `resource_types` limits the scan (`handler.go:27`, `scan.go:83-84`) | a chunked body is not read, and a full scan starts | `Decoded`; `AcceptedAsAsked` claims nothing of what such a body starts |
| `scan/scan.go:145` | the orchestrator rejects an empty list (a comment of `scan start`, `cmd/cli/main.go:213`) | `Trigger.Run` does, before it starts anything | the first disjunct of `Run` |
| `eol/endoflife/provider.go:129` | `k8s-` prefixes are stripped (`policy/default.go:270`) | by the policy only, so the provider finds no cycle for such a version | `TrueCause`; `JudgedByOwnCycle` speaks of plain versions |
| `eol/endoflife/adapters.go:140` | RED past EOL (`policy/default.go:36`) | not before the cached flags expire (24 h, `cmd/server/main.go:291`) | the TTL in `RedWithinTTL` |
| `cmd/server/main.go:291` | EOL data is cached for an hour (`ARCHITECTURE.md:879`) | for 24 hours | the bounds are in terms of `TTL`, whatever it is; `NeverUnwarned` needs a day or less |
| `workflow/orchestrator/workflow.go:168` | an empty list scans all supported types (`workflow.go:49`) | the workflow fails with ErrNoResourceTypes | `Orchestrator` begins no scan without types |

Some behaviour is not against any document, but a reader of the code may not
expect it: a version whose own cycle is malformed is judged by a cycle with a
shorter name; a report that says it ran in the future is accepted within
`MaxSkew` and its entry lives by that time; an inventory column required as
`externalId` is found in any dotted column ending so, if the header has no
column of that name itself (which is why the runs' headers have one); types that
occur twice pass the configuration and the request unnoticed.

### Fairness

- `Detection!FairSpec`: weak fairness of each child's workflow steps (Temporal
  keeps scheduling tasks and timers) and of the activity steps (a live worker
  finishes what it runs, and every activity has a StartToCloseTimeout).
  Nothing is assumed of the environment's faults, which are bounded.
- `ScanPipeline!FairSpec`: the same for the orchestrator and CreateSnapshot,
  and weak fairness of a child's end, which `ScanEnds` of `Detection` shows.
- `ReportCache!FairSpec`: goroutines are scheduled, and each request to Wiz
  ends because its context has the activity's deadline.
- `EolProvider!FairSpec`: goroutines are scheduled, and the HTTP client's
  timeout ends every request.

## What is proved

`tlapm` checks every step, for any sets of types, workers, replicas,
configurations, requests, reports, listings and dates and for any bounds. What
is assumed of the constants are the named ASSUMEs, which TLC evaluates on every
instance. Most of them give the types of the bounds and keep `None` apart from
values. The others say something of the program's input:

  - the children of a scan and the workers are finite sets, there is a worker
    and a replica;
  - a resource's version is in the form of `Strings` (an empty string has no
    prefix), and the well-formed cycles of a listing have names
    (`IsListing`; `ValidateProductCycle` rejects the others);
  - declarative schemas passed the configuration's validation, and the TTL of
    lifecycles is not zero (the provider's constructor replaces zero by 24 hours);
  - an ID ends with itself;
  - the types a request names are among the configured ones or unknown ones,
    all of them in `Types`.

Four theorems have hypotheses of their own, which are stated with them and
explained below: `StoreImplementsListings` (`Disjoint`), `Refinement`
(`LateAttempts \/ OnceEach`), `Warned` (`CacheTTL <= DayLength`) and
`SharingIsHarmless` (`ColumnsMeant`, `TypesTold`).

**`DetectionProofs`** — `Typed`, `OwnInventoryHolds`, `SuccessIsStored`,
`CoherentHolds`, `CacheDrainedHolds`, `Refinement`. The first three follow from
`IInv`: an attempt, on its way or late, runs for an existing child and carries
batches of the child's own type (`AttemptInv`), so does the cache (`CacheInv`),
and a child past `StoreFindings` has its type in the store of its worker, as
long as that is up (`StoredInv`). All of it holds with late attempts of any
child. `faults` is only a natural number in this type: that `Fault` keeps it
under its bound is its guard and nothing else.

`Coherent` is not like that: it needs to know what is in the cache at every
stage, and a late attempt may delete or replace it. Without late attempts
(`NoneLate`) a child's one attempt is the one it waits for, and `Flow` follows
the batch from activity to activity: which of the batches the child relies on
at its `pc` (`FlowOf`), that they are of the listing it counted and, once an
activity needed both, of one listing with each other, or are gone because the
worker restarted; `CarriedBy` says the same of what an attempt has loaded. A
step of one child leaves this true for the others because a child that is
`Alone` shares no key with them.

The refinement has a status per type, `Shows`, which is what the type's *last*
child shows, and `Acked`, which holds from the acknowledgement on; each step of
`Next` is one of the contract's actions or a stutter (`RInv` is the invariant it
needs). A write of an earlier twin appears in the contract as a write nobody
has acknowledged. Where late attempts are impossible the contract lets only a
running child write, so the input must then name each type once (`OnceEach`);
otherwise the earlier twin may write after the last one has ended. Nothing in
the code removes duplicates, so this is a limit of the contract that a run
without late attempts must respect.

`OneReplyCounts` and `NothingIsRetriedForEver` are the half of `ScanEnds` that
safety can state, and they hold with late attempts and restarts. Of a child that
waits, every attempt of an earlier run, activity or try is behind it, and no try
was made twice (`TriedOnce`), so only one reply can be accepted. `Progress`
numbers the places of a child by its run, activity (`Stage`), try and what
becomes of the try; each step that changes a child makes the number larger
(`StepAdvances` has a lemma per outcome of an attempt), and it cannot exceed
`MaxProgress`. A retry policy that forgot to count would break it.

**`ScanPipelineProofs`** — `TypeCorrect`, `FullSnapshotsAreComplete`,
`ReadersAlwaysFindSnapshot`, `CompletedScansAreLatest`,
`SnapshotsAreOfTheirScan`, `NoScanGoesInCircles`, `OutcomesAreFinal`,
`OneReplyIsAwaited`, `SnapshotsAreSettled`. None of the safety properties is inductive: that a
snapshot is complete depends on what the attempt that writes it carries, which
may be one nobody waits for any more. `IInv` (in `ScanPipeline`) adds
  - `ScanInv`: what the orchestrator knows: a full scan has all types, there is
    something to persist, it notifies only of what is durable, and no ScanID is
    ahead of the current one;
  - `WriterInv`: what every executing attempt carries, also a late one: an
    attempt past `Validate` has a complete snapshot, one past `PutDated` has a
    durable object;
  - `NoLateWriter`: without late attempts the only attempt is the one waited
    for, which is why `latest` cannot go back.

The proof that a step preserves `IInv` has a step per action; the moves of the
orchestrator (`Finish`, a failed attempt, a saved snapshot) are lemmas.
`SnapshotsAreOfTheirScan` is for a single worker without restarts and late
attempts (`Alone`) and needs two more parts: from a type's acknowledgement until
its scan has persisted it, what the worker has of it is this scan's
(`StoreInv`), and so is what the attempt has listed (`ListedInv`). The run
`pipeline_scaled` shows what becomes of it with a second worker.

The last four are about the orchestrator itself. `StepMoves` reduces every step
to three kinds (`RunMoves`): the next scan begins, the scan in progress gets to a
larger `Progress`, or nothing happens to it. From that alone follow that no scan
goes in circles, that exactly the scan in progress is running (`OutcomesFit`) and
so no outcome is revised, and that an attempt, which is started at a place of its
own (`StartedAt`), is the only one of its try (`OncePerTry`). `SnapshotsAreSettled` follows from
`NoLateWriter`: who writes is waited for, by the scan it writes for. The formulas of
this part were checked with TLC on the constants of `pipeline_late` and
`pipeline_live` before they were proved.

**`FindingStoreProofs`** — `StoreImplementsListings`, `TypeCorrect`,
`ListedStamped`, `DetectedStays`, `GoneEvicted`. The first says that each step
of the map is a replacement of one type's listing as a whole or changes no
listing, under the assumption `Disjoint` that no resource is listed for two
types. Its invariant `Inv` says that each stored reference points into a batch
that has the resource and that a batch has resources of its type only;
`OtherListings` is the heart: evicting a type and writing its batch leaves the
listings of all other types alone. The other three do not need `Disjoint`.
`StampedInv` adds the timestamps: of every object that was ever made, since any
of them may be stored again, they are in order and not ahead of the clock, and
what the map holds has been stamped.

**`ScanTriggerProofs`** — `TypeCorrect`, `OneScanAtATime`, `ScheduleFollows`,
`ScanIDsDiffer`, `AnswersAreTrue`. Temporal keeps equal workflow IDs apart and
nothing else, so the invariant adds `UnderSingletonID`: each open scan runs
under the singleton ID, because the orchestrator refuses any other. ScanIDs
differ because each has an origin (`Origin`) that cannot come again: the UUID of
one answered request, or a firing whose launcher has started its scan. `AnswerInv`
keeps that an accepted caller's scan is what it asked for (`Told`) and that no two
answers name the same scan. `ScheduleIsCurrent` is inductive as it stands:
whoever writes the schedule is not done yet or is done with what it wrote.
Requests and command lines share the lemmas about `Run`.

**`EolProviderProofs`** — `TypesHold`, `ListingsAreFresh`,
`ListingsNeverGoBack`, `OwnCyclesJudge`, `CausesAreTrue`, `EveryFlightLands`.
Two flights for one
product never overlap, but an entry that is still good may be replaced, so what
has to be kept is an order (`Ordered`): the cached entry was fetched no later
than it was cached and at most a fetch before that, the flight under way began
after the cached entry's did, nobody has been answered from a newer listing than
either, and without an entry nobody has been answered at all. `OwnCyclesJudge`
and `CausesAreTrue` are about the three readers of a version, for any listing and version.
A cycle with a name matches exactly if it contains the version (`MatchesIs`);
since no matching cycle has more parts than the version, one of them has the
most, and that is the one `bestMatch` returns (`BestIs`); what the provider
found for a plain version the policy accepts (`PolicyAgrees`).

**`ReportCacheProofs`** — `TypeCorrect`, `AnswersAreFresh`,
`NotDownloadedTwice`, `AnswersAreWhole`, `SharingIsHarmless`,
`EveryFlightLands`. Each of the answers
rests on what is true of a flight and of the entry when they are made:
`FlightFresh` and `CacheFresh` bound the age of the run in both, `MissInv` says
that the flight's second look at the cache stays true while the flight lasts
(time only makes entries worse, and only the flight replaces one), and
`CacheWhole` that an entry is a complete download. `AnswersAreWhole` is stated
in the proof module: every answered caller has all rows of one run with a header
that has the columns of its own source, not only of the flight's leader.

From it `SharingIsHarmless` concludes `ListsItsOwn`, under two hypotheses about
reports and configuration alone, which speak of no flight, cache, clock or
parser. `ColumnsMeant`: in a header that has the columns a source requires, every
column the source may take for one it reads holds what the source takes it for.
`TypesTold`: native type, ID and version tell the objects of a source's type from
all others. The code guarantees neither for every configuration (two columns may
match one prefix), so they are hypotheses and not assumptions of the module; TLC
evaluates them for the shipped sources (`RunsAreTold` in `MCReportCache`). The
lemmas follow the parser: which column the index it builds has for a name
(`ColumnRead`, by the least or the largest position among the candidates), what
the cells of a row then are (`CellsRead`), and what is listed of them
(`ReadsItsOwn`).

`EveryFlightLands`, here and in `EolProviderProofs`, is the half of `CallsReturn`
that safety can state: a flight is never replaced by another one, gets further
with each of its own steps up to a bound (`Place` counts the tries, so a rate
limit cannot hold it in a circle), keeps everyone waiting until it lands, and
answers them all when it does.

**`LifecycleProofs`** — `TypeCorrect`, `RedIsFinal`, `RedInTime`,
`FreshJudgement`, `Warned`, for any dates and any schemas the configuration's
validation admits. The invariant `Judged` says what every finding is: the
judgement of the cached lifecycle, which was adapted no later than the finding
and less than a TTL before. `RedGrows` (flags that are RED when they are adapted
stay RED, or the end of extended support makes up for them) gives `RedStays`.
`NeverUnwarned` needs more: while nothing but GREEN has been shown, all
boundaries were ahead when the lifecycle was adapted, the policy had nothing to
warn of, and if the first boundary is at hand the first scan came too late to
see it a day before (`GreenInv`, checked with TLC on the instance of
`lifecycle_colours` before it was proved). The theorem holds for a TTL of at
most a day. That hypothesis is needed: with a TTL of three half days TLC finds
a version that turns RED unannounced, because the stale flags hide the
deprecated window. The server sets the TTL to 24 hours (`cmd/server/main.go:291`),
exactly the limit; whoever makes it longer loses the warning.

**`SnapshotStoreProofs`** — `TypeCorrect`, `AckedIsKept`, `LatestIsLatest`,
`AckedIsFound`, `ListingsAreComplete`. Snapshots are numbered as they are built
(`NumberInv`), an object lies under the key of its own ID and day (`PlaceInv`),
without overlap the one save in progress is of the last snapshot (`AloneInv`), a
save that is at its second put has its dated object in place (`DatedInv`), and an
acknowledged one was put under both keys (`AckedInv`). That a save is found again
needs no more than that some key of a nonempty listing is its first.

`ListingsAreComplete` says that a listing has as many readable snapshots as the
limit allows and that a larger limit lists all a smaller one does; only of the
memory store it also says which ones a limit leaves out, the least recent. The
documents promise recent snapshots of S3 too, where the code lists the oldest,
so nothing is claimed there. The theorem is about a recursive function, so its value has to be found
without induction over data. An element's rank, the number of elements before it,
is a bijection from a finite set onto an initial segment of the numbers
(`Ranks`), so `Firsts` has as many elements as it may and none outside comes
before one of them (`FirstsAre`). The value of the paging loop is guessed
(`Remaining`: the first of the keys that are not passed over), and `Paging` shows
that one page and the guess for the rest make the guess for the whole. A function
with that property exists, and any function that satisfies the loop's equation
agrees with it: otherwise there would be a bucket of least size where the two
differ, and one turn of the loop (`TurnIs`) leads to a smaller one. `ListedInv`
adds to the invariant that the bucket is finite and that the memory store has a
place in its order for every snapshot it holds.

**Only model-checked.** Liveness (`ScanEnds`, `ScanReturns`, `CallsReturn`)
and the fairness it rests on, which is out of the prover's reach; what safety can
say of it is proved (`NothingIsRetriedForEver`, `NoScanGoesInCircles`,
`EveryFlightLands`), so what remains to TLC is that enabled steps are taken and
that some step is always enabled. `Refinement` is about safety as well: that
every child ends is `ScanEnds`.

## Not modelled

- Tags, service names, engine transforms and the extra fields of a Wiz row
  (`generic.go`, `transforms.go`): labels no decision depends on.
- Loading and validating the configuration: sequential, once at start.
- The decoding of endoflife.date's JSON, and `ListAllVersions`, which is
  `loadVersions` with another result and has no caller in the program.
- The other commands of the client (they print fixed texts), and `--wait`.
- `RecordResourceScanResult`, `EmitMetrics`' gauges and all of
  `pkg/telemetry`: written and never read.
- Messages and recommendations of the policy, statistics of the builder.
- Emitters, mocks, the endoflife.date override and the chart.
- A repeated type in the orchestrator's own collection (`ScanPipeline`'s types
  are a set; its children are in `Detection`), payload-carried resources of old
  workflow histories, and the unsynchronised marshalling of finding objects
  while a retry stamps them (`hazards` in `PROJECT.json` lists each at its line).

## Plan

The order is by importance: first the path from a scan to its snapshot, then
what feeds it, then the pure algorithms. Done so far: all the modules above,
their runs, and the proofs of every invariant and action property that holds.
Still to come:

1. A repeated type in `ScanPipeline`'s collection, as a list of types.
2. Configuration: what the loader accepts, against what adapters and sources
   assume of it; `ColumnsMeant` and `TypesTold` could be part of that.

## Running

```
tlc -workers 2 -config MCDetection_late.cfg MCDetection
tlc -workers 2 -config MCEolProvider_versions.cfg MCEolProvider
tlapm DetectionProofs.tla        # and the other seven *Proofs modules
tlapm --summary DetectionProofs.tla
```
