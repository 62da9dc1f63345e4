# KubeVision in TLA+

TLA+ models of the KubeVision backend (a Kubernetes dashboard: a Go server, Gin
handlers over services over repositories, a React frontend), checked with TLC
and, for the safety of most of its parts, proved with TLAPS. Source paths are
relative to the repository root; `src/` in `PROJECT.json` is that root.

## 1. Inventory

Several replicas of the server may run against one PostgreSQL database
(docs/docs/getting-started/configuration.md); with SQLite there is one. Every
replica keeps its own informers, hub, queues and locks. What they share is the
database, the clusters, and nothing else.

| Component | State | Operations | Talks to | What is hard | What makes it correct |
|---|---|---|---|---|---|
| Operation manager (`internal/operation`) | the `operations` table (shared); per replica a queue of 256 ids, two workers, a dispatch loop | Submit, Retry, execute, heartbeat, recoverStale, loadQueued, cleanupCompleted, Start, Stop | package and AI executors, users table | several replicas claim from one table; crashes, lost writes, heartbeats, dropped ids, shutdown between two statements | a change is applied at most once, ends, is shown truthfully, and is retried only when safe |
| Informer manager (`internal/kubernetes/informer`) | per cluster: factory, stop channel, sync flags, last sync; listeners | StartForCluster, StopForCluster, List, Get, notify, StopAll | cluster service, hub, webhooks, k8s repository | a runtime is replaced while the old one's goroutines still run; one goroutine per event | flags describe the runtime they are read for; a stopped runtime stays stopped |
| Cluster manager and service | client map (per replica), cluster rows (shared), informers | Add, Remove, InitClusters, RefreshHealth, ResolveClusterID | informer manager, database | multi-step changes that fail half way; replicas share the status column | row, client and informer agree when an operation ends |
| WebSocket hub (`internal/handler/ws/hub.go`) | client set, register/unregister/broadcast channels, a send buffer per client | HandleWatch, Run, OnResourceEvent, readPump, writePump, Stop | informer listeners, tickets | unbuffered channels, slow clients, closed channels, shutdown | no send after close, nobody blocks for ever, only subscribed events are delivered |
| Package service (`internal/packages`) | preview grants, locks of releases (per process), release sources, upgrade policies | Preview, PrepareChange, ExecutePreparedChange, Rollback, Remove, CheckUpgrade; upgrade manager Save, Delete, CheckNow, runDue | Helm, operation manager, audit | one-time grants, a digest that goes stale, concurrent changes across replicas | a change executes only as previewed and confirmed by its owner, once for that and for each retry |
| AI assistant (`internal/ai`) | sessions with one pending action each (15 minutes, 100, 5 per user) | Chat, ContinueAction, ApproveAction, ExecuteApprovedAction | model endpoint, operation manager, audit | double confirmation, eviction, hand-over that fails half way | a pending action is confirmed at most once, by its owner, and applied once for that and for each retry |
| Audit service | channel of 1000 entries, batch of 100 | Record, flush, purge, Start, Stop | middleware, package and AI audits | full channel, failing batches, shutdown while requests run | an accepted entry is written once |
| Webhook service | semaphore of ten deliveries | DispatchEvent, sendPayload, CRUD | informer listeners | goroutine per event, ordering | at most ten at a time, only matching hooks |
| Authentication (`auth_service.go`, `internal/auth`, middleware) | users table, token version, TOTP secret, recovery codes | Login, RefreshToken, Setup2FA, Enable2FA, Disable2FA, Verify2FA, UseRecoveryCode | database | whole-row saves of concurrent requests | a code or a token works as often as it may |
| Other sign-in methods, users | OAuth states, public-key challenges, directory, API keys | challenges, callbacks, CRUD | database | one-time states, the last administrator | a challenge is used once |
| Terminal, logs, HTTP access | a stream per connection, size queue, recording | HandleExec, readLoop | Pod exec | the reader outlives the executor | no lost wake-up, complete recording |
| Rate limit, RBAC | token buckets per address, roles | middleware | users, roles tables | eviction against counting; stale roles | never more than the bucket holds; a role that cannot be raised |
| Resource access and the views over it | none of their own; the informer cache | list, get, write, actions | informer, API server | a cache that is not yet synced | fall back to the API server |
| Favorites, templates, plugins, recordings, registry tags | single rows, small caches | CRUD, proxies | | nothing concurrent beyond one statement | |
| Start, shutdown, configuration, command line | process | main.go | everything | the order of shutdown | |
| Web frontend, charts, docs | | | | | |

`PROJECT.json` lists the files of every component, and under "hazards" what in
this code a test would hardly reach.

## 2. How the project is built

### Modules

| Module | Models | Section |
|---|---|---|
| `OperationLifecycle` | what a submitter of an operation relies on (abstract) | 3 |
| `OperationManager` | the replicated manager that implements it | 3 |
| `ClusterService` | registered clusters over several replicas | 4 |
| `InformerManager` | informer runtimes and the cached reads | 5 |
| `Hub` | WebSocket clients of resource events | 6 |
| `Terminal`, `LogStream` | one terminal session, one log stream | 7 |
| `Webhooks` | webhook rows, event matching, delivery slots | 8 |
| `PackageService` | Helm releases: previews, confirmations, locks, executions | 9 |
| `UpgradeManager` | automatic upgrades, on top of `PackageService` | 9 |
| `AISessions` | the assistant's turns and the changes that wait for approval | 10 |
| `Access` | RBAC by route, seeded roles, the assistant's authorizer | 11 |
| `AuthService` | accounts, tokens, two-factor authentication, users | 12 |
| `PublicKeys` | WebAuthn ceremonies and credentials | 13 |
| `Server` | audit log and the order of shutdown | 14 |
| `Resources` | requests that read and change cluster objects | 15 |

`OperationManager` implements `OperationLifecycle` under the mapping at its end
(`Lifecycle`). `UpgradeManager` extends `PackageService`: a check takes a
grant and executes with the same lock, digest and Helm steps as a user's change.
`PackageService` and `AISessions` contain the operation manager as what section 3
shows of it: a queued operation runs at most once, and a row that failed
retryably stays and may be retried any number of times (`Retry`).

No module has a RECURSIVE operator. Each has its parameters as CONSTANTS, one
action per statement, call or handler, and its type invariant.

### Instances

An `MC` module gives values to constants that a `.cfg` cannot express. Four of
them are *sums*: `MCWatching`, `MCStreams`, `MCRequests` and `MCSignIn` hold
components that share no state, and a variable `part`, chosen in the initial
state, says which one runs; the others stay as they were. A sum therefore has the
states of its parts added, not multiplied, and no interleaving between parts is
claimed. Each part keeps its own fairness, conditioned on being the part that
runs. A property of a part is stated of the whole sum: where the part does not
run, its variables keep their initial values.

| Run | Module | Instance | Shows |
|---|---|---|---|
| `OperationManager_timely` | `MCOperationManager` | section 3 | lease invariant, refinement, retention |
| `OperationManager_faults` | `MCOperationManager` | section 3 | at-most-once, safe retry, real success, stable verdicts |
| `OperationManager_live` | `MCOperationManager` | section 3 | every operation ends, `Stop` returns |
| `ClusterService_replicas` | `MCClusterService` | section 4 | unsaved credentials are used by nobody |
| `Watching` | `MCWatching` | informers, one replica of the cluster service, webhooks: sections 4, 5, 8 | watches run where they should, green clusters are watched, events are dispatched |
| `Streams` | `MCStreams` | hub, terminal, log stream: sections 6, 7 | no panic, no gap, no goroutine left behind |
| `UpgradeManager_packages` | `MCUpgradeManager` | section 9 | executed as previewed, once for each confirmation and retry; locks are freed, checks end |
| `Requests` | `MCRequests` | assistant, audit log, access control, objects: sections 10, 11, 14, 15 | applied as approved, shutdown stores and ends, no lost update |
| `SignIn` | `MCSignIn` | accounts, public keys: sections 12, 13 | second factor, sessions that ended, ceremonies |
| `ClusterService_resurrect` | `MCClusterService` | section 4 | violation: a removed cluster comes back |
| `AuthService_sessions` | `MCAuthService` | section 12 | violation: a session that was ended is accepted again |
| `Resources_rollback` | `MCResources` | section 15 | violation: a rollback that changes nothing |

### Configurations to run by hand

The configurations below are not among the runs of `PROJECT.json`. Each is
checked with `tlc -config <file> <module>`; all end within five minutes.

| File | Module | Result |
|---|---|---|
| `OperationManager_airetry.cfg` | `MCOperationManager` | violation: an AI change is retried without a new inspection (section 3) |
| `ClusterService_twogreen.cfg` | `MCClusterService` | violation: `GreenMeansConnected` with two replicas (section 4) |
| `InformerManager_runtimes.cfg` | `InformerManager` | pass: `TypeOK`, `StoppedWaiterEnds` and the properties of `Watching` on the informers alone |
| `InformerManager_fresh.cfg` | `InformerManager` | violation: `FreshIsComplete` (section 5) |
| `Hub_clients.cfg` | `Hub` | pass: `TypeOK`, `BatchIsPending`, `LeaversAreForgotten` and the properties of `Streams` on the hub alone |
| `Webhooks_events.cfg` | `MCWebhooks` | pass, two hooks: `TypeOK`, `OnlyInScope`, `EveryEventIsDispatched` |
| `UpgradeManager_more.cfg` | `MCUpgradeManager` | pass: `TypeOK`, `CriticalNeedsAdmin` |
| `UpgradeManager_automation.cfg` | `MCUpgradeManager` | violation: `AutomationBlocksCritical` (section 9) |
| `AISessions_approvals.cfg` | `AISessions` | pass: `TypeOK`, `RefusedOnlyWhenFull`, `EveryTurnEnds` |
| `PublicKeys_counters.cfg` | `PublicKeys` | violation: `CounterGrows` (section 13) |
| `PublicKeys_handles.cfg` | `PublicKeys` | violation: `PasskeysStayUsable` (section 13) |
| `Server_shutdown.cfg` | `Server` | pass: `TypeOK`, `FlushesWhileOpen`; with `EveryWriteIsRecorded` as the invariant a violation (section 14) |

Six statements of the code or its documentation are stated as properties that no
configuration names. Each is violated under the configuration given here, with the
property in place of the listed ones:

| Property | Configuration | What it shows |
|---|---|---|
| `InactiveMeansInactive` (action) | `OperationManager_airetry.cfg` | an active owner is called inactive (section 3) |
| `NothingStays` (temporal) | `Streams.cfg` | a log stream with a line too long stays for ever (section 7) |
| `ConfirmationUsedOnce` (action) | `UpgradeManager_packages.cfg`, `MaxRequests = 5` | two retries of one refused row start Helm under one confirmation (section 9) |
| `DeletedStaysDeleted` (action) | `UpgradeManager_packages.cfg` | a save brings a deleted policy back (section 9) |
| `AppliedOncePerApproval` (invariant) | `Requests.cfg` | two retries of one AI change are both applied (section 10) |
| `RevocationIsImmediate` (action) | `PublicKeys_counters.cfg` | a session is issued after its key was revoked (section 13) |

### Proofs

| Module | About | Theorems |
|---|---|---|
| `OperationManager_proofs` | operation manager (section 3) | `TypeCorrect`, `LeaseInvariant`, `AtMostOnce`, `RetrySafety`, `SuccessSafety`, `RetentionSafety`, `VerdictSafety`, `InterruptedIsTrue`, `EndIsSettled`, `Refinement` |
| `ClusterService_proofs` | registered clusters (4) | `TypeCorrect`, `UnsavedIsUnused`, `SavedWasValidated`, `RegistrationsStay`, `OneReplicaAgrees` |
| `Watching_proofs` | informers (5), webhooks (8), clusters in the sum (4) | `TypeCorrect`, `NoLeakedWatch`, `FlagSafety`; `HookTypeCorrect`, `DeliveredInScope`, `TriedOnce`; `WatchesAreSafe`, `SavedIsConnected` |
| `Streams_proofs` | hub (6), terminal and log stream (7) | `TypeCorrect`, `ClosedOnce`, `NothingMissed`, `WriterNeverWaits`; `TerminalTypeCorrect`, `RecordingIsTrue`, `SessionLeavesNothingOpen`; `LogTypeCorrect`, `LogsNeverStick`; `StreamsAreSafe` |
| `UpgradeManager_proofs` | packages and automatic upgrades (9) | `TypeCorrect`, `ConfirmedOnce`, `AppliedAsPreviewed`, `OneAtATime`, `CriticalWasAllowed`, `NoLockIsLeft` |
| `Requests_proofs` | assistant (10), access control (11), audit log (14) | `TypeCorrect`, `AppliedOnceAsApproved`, `EveryCallAnswered`, `RefusedWhenFull`; `AssistantIsNoMore`; `StoredWhenStopped`, `OpenDatabase`; `RequestsAreSafe` |
| `Resources_proofs` | cluster objects (15) | `ObjectsTypeCorrect`, `NothingOverwritten`, `BatchesAnswerEach`, `NothingOverwrittenInSum` |
| `SignIn_proofs` | accounts (12), passkeys (13) | `TypeCorrect`, `SecondFactor`, `ProvenFactors`, `EndedStaysEnded`; `SingleUse`, `RevocationHolds`; `SignInIsSafe` |

A module of proofs extends the module that the run checks, so that the theorem
names the definition the run checks. Of a sum, there are theorems about each part:
their hypothesis is the specification of the part (`Log!Spec`, say), whose constants
are arbitrary. Then there is a theorem about the sum itself (`MCSpec`):
`WatchesAreSafe`, `SavedIsConnected`, `StreamsAreSafe`, `RequestsAreSafe`,
`NothingOverwrittenInSum`, `SignInIsSafe`. A sum begins as each part does and its
steps are steps of one part and stutters of the others (`SumStarts`, `SumSteps`), so
an invariant of a part is one of the sum.

Every theorem assumes of the constants what the module of the
component assumes, under a name, and nothing else, but for five that say so:
`InterruptedIsTrue` and `EndIsSettled` (timely heartbeats); `OneReplicaAgrees`,
`SavedIsConnected` and `AppliedAsPreviewed` (one replica). Sections 3, 4 and 9 say
what goes wrong where the hypothesis does not hold.

All invariants of the passing runs are proved, and all their action properties.
Only model-checked everywhere: liveness under fairness, which TLAPS does not reach.

## 3. The operation manager

### Modules

- `OperationLifecycle`: what a submitter relies on. Two variables, the status
  column and how often the change took effect; the moves a row may make.
- `OperationManager`: the implementation, for any set of replicas.
  Its last part maps it to `OperationLifecycle`.
- `MCOperationManager`: instances for TLC.
- `OperationManager_proofs`: the theorems.

### State and actions

| Model | Code |
|---|---|
| `row[o]` | the row of `model.Operation`; `stage` stands for stage and progress, `stale` for the age of `heartbeat_at`, `completed` for the age of `completed_at` |
| `queue[m]` | `Manager.queue` of replica `m` |
| `job[m][w]` | where worker `w` stands in `execute` |
| `phase[m]` | `down`, `up`, or `stopping`: the context is cancelled and `Stop` waits |
| `applied`, `barred` | history: changes that reached the cluster; operations queued under an inactive owner who has not been active since |
| `Submit`, `Retry` | the two ways to create a row, with the `enqueue` that follows |
| `Claim` .. `WriteFailure` | `worker` and `execute`, one action per database statement, so that everything else may happen between two statements |
| `Heartbeat`, `HeartbeatExpires` | the heartbeat goroutine, and thirty seconds without it |
| `Dispatch` | a turn of `dispatchQueued`: `recoverStale`, then `loadQueued` |
| `CleanupCompleted`, `RetentionExpires` | `cleanupCompleted`, and thirty days |
| `Start`, `Stop`, `Exit`, `Crash` | a replica's life; `Exit` is the return of `wg.Wait` |
| `DeactivateOwner`, `ReactivateOwner` | an administrator's `UpdateUser` |

A database statement may fail (`MaxFaults`); a claim reported as failed may
nevertheless have been committed. A cancelled context fails every statement that
uses it; only `fail` has a context of its own.

Abstractions, each with its reason:

- The dequeue and the claim are one action: between them the id is in no
  variable that another goroutine reads.
- A dispatch turn is one action: its two statements touch disjoint rows.
- Ids are given in creation order, so `Order("created_at ASC")` is the order of
  ids.
- One owner stands for all, since nothing relates operations of different owners.
- The executors are `Outcomes`: success, a failure before or after the cluster
  changed, and for Helm a conflict. A conflict comes from the release lock or
  from Helm's name check, both before anything is changed
  (packages/service.go:413, 447). A failure that is neither retryable nor a
  success is `OPERATION_FAILED`.
- The events table is left out; an event is written after the row and only
  displayed.
- No executor runs for thirty days (chart timeouts are at most thirty minutes).

### Runs

| Configuration | Instance | Shows |
|---|---|---|
| `OperationManager_timely` | 2 replicas of 1 worker, 2 operations, queue of 2, 1 departure, `Timely` | the lease invariant the proofs use, retention, and that the manager implements `OperationLifecycle` |
| `OperationManager_faults` | 2 equal replicas, 2 operations, queue of 1, 1 fault, 1 departure, heartbeats expire at any time | at-most-once, safe retry, real success, stable verdicts |
| `OperationManager_live` | 1 replica of 2 workers, 2 operations, queue of 1, 1 fault, 1 departure | every operation ends; `Stop` returns |
| `OperationManager_airetry`, for `InactiveMeansInactive` | as below | violation: "The operation owner is no longer active" (manager.go:304-305) is said of an active one, whose lookup failed because the context was cancelled |
| `OperationManager_airetry` | 2 operations | violation: package-releases.md:130 says an AI change is never retried without a new inspection, but the row of an AI change that ended before its executor ran is retryable (manager.go:205, 298, 312) |

Two operations and two replicas are enough for the hazards: one operation for
the races on a row, a second for its retry and for a queue that is full, a
second replica for a concurrent claim or recovery. With one worker per replica
the two replicas give two concurrent workers; two workers on one queue are in
the live run. The departure is a crash or a stop at any point. The proofs have
no such bounds.

`Timely` states what the code relies on for a truthful status: a live worker
refreshes its heartbeat, and writes its verdict, within thirty seconds. Without
it `InterruptedMeansStopped` fails and a row can go from failed to succeeded
(`LateVerdicts` in the abstract specification), but a change is still never
applied twice: that is the `faults` run.

### Fairness

`FairSpec` assumes weak fairness of the steps of workers (goroutines run, and
executors return: Helm and tool calls have timeouts), of the dispatch ticker, of
`Start` (the deployment restarts a replica), of `Exit` and of the ageing of a
heartbeat nobody refreshes. There is none on requests, heartbeats, faults,
crashes, deactivation or retention.

### Proofs

`OperationManager_proofs` proves, for all constants that satisfy
`ConstantsAssumption` (any replicas, any workers, any bounds):

- `TypeCorrect`: `TypeOK`, with the queue's capacity.
- `LeaseInvariant`: the inductive invariant `LeaseInv`. At-most-once is not
  inductive: it needs that an operation has at most one holder (`OneHolder`),
  that a held row is running or was recovered under its holder (`HeldRows`), and
  what has been applied at each place of the holder (`HolderEffect`). The worker
  steps go through two lemmas, `PlaceStep` (the holder moves) and `ReleaseStep`
  (it writes its verdict or abandons the row), the statements of everyone else
  through `TableStep`.
- `AtMostOnce`, `RetrySafety`, `SuccessSafety`: consequences. So is that nothing is
  applied while its owner has been inactive ever since it was queued
  (`BarredNeverApplied`, a conjunct of `LeaseInv`); an owner who becomes active
  again has what waited executed, since only the worker looks (manager.go:304).
- `RetentionSafety` and `VerdictSafety`: the action properties
  `OnlyEndedArePurged` and `VerdictIsFinal`, from the same invariant. Neither
  needs `Timely`.
- `Refinement`: `Spec => ImplementsLifecycle`. Each step changes the mapped
  status and count of one operation as `OperationLifecycle` allows, or of none
  (`MapSame`, `MapMove`); a dispatch turn recovers several rows at once
  (`MapRecover`), as the abstract recovery does. What a worker may still do to a
  row it holds is what `LeaseInv` says of holders; that no verdict comes late
  under `Timely` is `TimelyInv`. It holds with and without `Timely`, since the
  abstract specification has late verdicts exactly where heartbeats may be late.
- `InterruptedIsTrue` and `EndIsSettled`, under `Timely`: `InterruptedMeansStopped`
  and `TerminalIsSettled`. `TimelyInv` adds to the lease invariant that a held row
  is running and fresh, and that an ended row is settled.

Only model-checked: liveness.

## 4. Registered clusters

`ClusterService` models `internal/service/cluster_service.go` with the map of
connections (`kubernetes/cluster`) and, of the informers, whether one runs and
with which credentials.

| Model | Code |
|---|---|
| `rows` | the `clusters` table, shared by the replicas |
| `client[r][n]`, `informer[r][n]` | `cluster.Manager.clusters` and `informer.Manager.clusters` of replica `r` |
| `job[r]` | what the holder of `ClusterService.mu` is doing; Add, Remove, InitClusters and RefreshHealth hold it throughout |
| `AddConnect`, `AddProbe`, `AddCreate` | Add: up to the probe, the probe, the row and the informer |
| `RemoveStop`, `RemoveDelete` | Remove: local state first, then the row |
| `InitClusters`, `RefreshHealth` | list the rows; then, for each, `ReconnectFails` or `ProbeRow`, and `SaveStatus` |
| `Outage`, `Recovery`, `Crash` | API servers and replicas |
| `probed`, `saved` | history: credentials that answered a probe, that were ever saved |

Abstractions: credentials are the number of the Add request that brought them,
which is also the id of its row, so that a lost or reused connection shows; a
name stands for the connection's id, as in the code. A statement may fail after
it committed. `Update` is GORM's `Save`, which inserts a row that is gone. A
changed version or address is the choice `upgraded`. A failure that changes
nothing (a taken name, a malformed kubeconfig, a failed List) is a stutter.

| Configuration | Instance | Shows |
|---|---|---|
| `Watching`, the service part | 1 replica, 2 names, 2 adds, 2 faults, 1 crash, 2 outages, `FairSpec` | table, connections and informers agree between jobs; a removed cluster is forgotten; a green cluster becomes watched if no statement fails |
| `ClusterService_replicas` | 2 replicas, 1 name, 2 adds, 1 fault, 1 crash, 1 outage | unsaved credentials are used by nobody |
| `ClusterService_resurrect` | 2 replicas | violation: a removed cluster comes back |
| `ClusterService_twogreen` | 2 replicas, 1 outage | violation: a green cluster without an informer, for ever (cluster-management.md:61 against cluster_service.go:313, 324) |

Two names and two adds are what a lost or exchanged connection needs: a name that
is removed and added again, beside another. Two outages let a status flap.

`GreenMeansConnected` also fails with one replica if the write of the unhealthy
status fails after the informer was stopped (cluster_service.go:303, 306): set
`Replicas = {r1}` and `MaxFaults = 1` in the `twogreen` instance. Two statements of the user guide
hold in one replica at most, or not at all: a replica that did not
handle a removal keeps its informer (`RemovedIsForgotten` with two replicas),
and the reads of a cluster with a red dot do not "fall back to cached data"
(docs/docs/user-guide/cluster-management.md:63), since a failed probe stops the
informer and drops its cache.

Fairness: the holder of the mutex goes on (requests and probes have timeouts),
the health ticker fires, and a replica is started again. Nothing is assumed of
the API servers.

`ClusterService_proofs` proves, for any replicas, names, faults, crashes and
outages:

- `UnsavedIsUnused` (`NothingUnsavedIsUsed`). Inductive is only more: an Add under
  way has credentials of its own that nobody saved (`AddsAreNew`), what is in the
  table was saved (`RowsAreSaved`), the rows a health check listed were saved, also
  if they have gone since (`JobKnown`), and each connection and informer uses saved
  credentials or those of its replica's Add (`Used`).
- `SavedWasValidated` and `RegistrationsStay`: `ValidatedBeforeSaved` and the action
  property `OnlyRemoveDeletes`, which no run checks.
- `OneReplicaAgrees`: with one replica, `ConnectedAsSaved`. `Agrees` says what
  table, connections and informers owe each other at each place of a job, what has
  been written and what is about to be. With two replicas it is false
  (`ClusterService_twogreen`), so the hypothesis `Replicas = {r}` is needed.

`Watching_proofs` instantiates that module and carries the last result over to the
composition that `Watching` checks, whose invariant `ConnectedAsSaved` is:
`SavedIsConnected`.

## 5. Informers and cached reads

`InformerManager` models `StartForCluster` in the two steps between which
`StopAll` may come (`StoreRuntime`, `StartFactory`), the goroutine that waits for
the first synchronisation (`WaitReturns`, `MarkSynced`), `StopForCluster`,
`StopAll`, and `List` and `Get` of a cached kind as the k8s repository calls
them. A runtime is numbered as it is created; `runtime[r].filled` says whether
client-go has filled its caches, which the code cannot see but a reader can.
`MutexFree` is the cluster service's mutex, under which every start and stop is.

A partial synchronisation (`result.failed`) is left out: `WaitForCacheSync`
returns either with every cache filled or with its context done, and the latter
is cancellation. What `notify` starts is in `Webhooks` and `Hub`.

| Configuration | Instance | Shows |
|---|---|---|
| `Watching`, the informer part | 2 clusters, 2 starts, 1 outage, `FairSpec` | what runs is what the map holds; a wrong flag needs a replaced runtime; a current runtime becomes synced |
| `InformerManager_runtimes` | 2 clusters, 3 starts, 1 outage | also the types, and that a stopped runtime's goroutine ends |
| `InformerManager_fresh` | 1 cluster, 2 starts | violation: an empty cache is reported as fresh (informer.go:198, against the flag that 151 and 167 set) |

Two starts are a replacement, or two clusters beside each other; three are two
replacements of one cluster, or one beside another cluster. Fairness: goroutines run, and client-go retries a list until it
succeeds.

`Watching_proofs` proves, for any clusters and any number of starts and
outages, `TypeCorrect`, `NoLeakedWatch` (`RunsIffCurrent`) and `FlagSafety`
(`WrongFlagNeedsReplacement`). Neither invariant is inductive. That only what
the map holds runs needs runtimes to be used in order (`InOrder`), so that a new
one has been neither cancelled nor held before. That a wrong flag needs a
replacement rests on two more facts: a goroutine about to mark has seen its own
runtime filled (`MarkersAreFilled`), and the map holds the newest runtime of a
cluster or none (`NewestIsCurrent`); if that is not the goroutine's own, its own
is older and, by `RunsIffCurrent`, cancelled. The one lemma per kind of step is
`StoreIInv`, `StopIInv` (both kinds of stop), `MarkIInv`, `LocalIInv` and
`QuietIInv`. Only model-checked: the two liveness properties.

Two observations without a run: `lastSync` is written once, at the first
synchronisation, so every read is reported stale five minutes later however
alive the watch; and a cache miss is an error (`Failure`), while
docs/docs/architecture/data-flow.md:52 has it fall back to the API server.

## 6. The hub

`Hub` models `internal/handler/ws/hub.go`: the event loop, `HandleWatch`, and a
reader and a writer per client.

| Model | Code |
|---|---|
| `clients`, `queued`, `send`, `chan` | `h.clients`, the fill of `h.broadcast`, each client's channel and whether it is open |
| `Register`, `Unregister` | a rendezvous on an unbuffered channel: the sender's and the loop's step in one |
| `Dispatch`, `Shutdown` | the broadcast and stop cases of the select |
| `Refuse`, `LeaveStopped` | the stop cases of the selects of the handler and the reader |
| `TakeFirst`, `TakePending`, `Flush` | the writer: first event, the batch, the end of the message |
| `WriterEnds`, `NextWriterFails`, `ReadFails` | a closed channel, a failing ping or write, a failing read |
| `seen` | history: the last event the writer took |

Events are numbered as they are dispatched and have no content; whether a client
has subscribed to one is a choice of `TakeFirst`, since a skipped event takes the
same way. The loop over the clients in `Dispatch` is one step, because its
non-blocking sends do not depend on each other. A peer that stalls is a `Flush` that does not succeed:
the write deadline ends it.

| Configuration | Instance | Shows |
|---|---|---|
| `Streams`, the hub part | 2 clients, channels of 1 and 2, 3 events, `FairSpec` | no channel is closed twice or sent on after; a kept client misses nothing dispatched; a reading client is sent what waits for it, to the end of its batch; after Stop every goroutine ends |
| `Hub_clients` | the same | also the types, that a batch never waits, and that a client who leaves or is dropped is forgotten |

A broadcast channel of one overflows with two events, a client's channel of two
with three; two clients meet in every pair of places. Fairness: goroutines run,
writes have deadlines, and Go's select chooses at random, so a case that stays
ready is taken. Stop, events and browsers owe nothing.

`Streams_proofs` proves, for any clients, capacities and number of events,
`ClosedOnce` (`NoPanic`), `NothingMissed` (`NoGap`), `WriterNeverWaits`
(`BatchIsPending`) and `TypeCorrect`, from one invariant. What they need of each
other: where handler, reader and writer of a client stand together, and that its
channel is open until it is forgotten (`Places`), that only a writer within a
message has a batch (`BatchesAreWritten`), and that what was queued and dispatched
has happened (`EventsAreCounted`, for the types). `NoGap` in `Dispatch` is the one
step where the order of the numbers matters (`SendFacts`); in the writer's steps
the channel's head moves to `seen` (`TakeFacts`).

## 7. Terminals and log streams

`Terminal` models `internal/handler/ws/terminal.go`: `HandleExec`, the goroutine
`readLoop`, and the goroutine with which client-go copies output through
`recordingWriter`.

| Model | Code |
|---|---|
| `handler`, `reader`, `copier` | where each of the three goroutines stands |
| `cancelled`, `stdin`, `queue`, `conn` | the context, the pipe's writer, the resize queue, the connection |
| `produced`, `sent`, `recorded`, `saved` | chunks the shell wrote, the browser got, the buffer holds, the saved row holds |
| `Refuse`, `Upgrade`, `NoShell`, `StartExec` | the checks before the upgrade, the probe for a shell, the start of Exec |
| `ExecReturns`, `CloseSent`, `SaveRecording`, `Deferred` | what follows Exec, with the deferred calls in their order |
| `Check`, `Input`, `InputTaken`, `Resize`, `ReadFails`, `Leave` | `readLoop` |
| `BeginWrite`, `WriteEnds`, `WriteRecord`, `TornDown` | `recordingWriter.Write` |

`LogStream` models `logs.go`: the scanning handler, the goroutine around
`StreamLogs` with its pipe, `pingLoop` with the shared write mutex, and the
goroutine that reads until the browser leaves.

Output is counted, its text left out. Shell, browser and client-go are the
environment: the shell may write or exit at any point, the browser may leave at
any point, Exec returns when its stream has ended or its context is done.

`Streams` runs both parts with three chunks and three messages, and three lines:
enough for a chunk in each place of the copier beside one delivered and one
waiting, and for a line in the pipe while one is sent and one is being read. A line
is within the scanner's buffer or longer than it. The run
shows that the recording holds nothing the browser was not sent and, when the
session ended with its shell, everything; and that no goroutine stays behind when
shell, browser or connection ends, but for one place that the property names
(`StuckOnLongLine`, below). Fairness: goroutines run, a read on a closed
connection fails, and the write mutex, which the ping loop takes again and again,
is handed to the handler in the end (strong fairness of `TakeMu`; Go's mutex
serves a starving waiter).

`Streams_proofs` also proves `RecordingIsTrue` (`RecordingIsWhatWasSent`) of the
terminal, for any number of chunks and messages. The copier records a chunk after
it sent it, so the recording lags by one chunk exactly while it stands between
the two (`RecordFollows`); that nothing is lost when the shell ended the session
needs that Exec then returned because the stream had ended and nothing was left
to copy (`NothingToCopy`), and that the saved recording is the buffer at that
moment (`SavedInPlace`).

`SessionLeavesNothingOpen` is the safety core of `SessionEnds`. Once the handler
has returned from a session it ran, the context is done and the pipe, the resize
queue and the connection are closed, whatever ended the session: so nothing that
`readLoop` may wait for is still open (`SessionIsClosed`). And the panic described
below has one window only, from the close of the queue to the close of the
connection (`PanicIsLate`).

Of the log stream, `LogsNeverStick` proves that nobody waits for one who waits
(`NobodyIsStuck`): the handler waits for `streamDone` only when the result is there
or a line was too long; once it has left its loop the copy finds the pipe closed;
the write mutex is held only by one who is writing. That the
goroutines then do go on is liveness, and model-checked.

What the models show beside their properties:

- A resize that arrives while the handler closes the queue is a send on a closed
  channel, which panics (terminal.go, `push`): `reader = "panicked"`. `SessionEnds`
  excepts it.
- Nothing sends pings on a terminal's connection while reads have a deadline of
  sixty seconds that only a pong extends: an idle session ends after a minute.
- The close message is written without the writer's mutex, so two goroutines may
  write at a time (`OneWriter`, not a property of any run, is violated), against
  logs.go's own comment.
- A line beyond the scanner's 256 KB ends the scan while the copy still writes
  into the pipe: the handler waits on `streamDone` and the copy on the pipe
  (logs.go:210), for ever if the browser stays, and also when it leaves.
  `StreamEndsWithClient` excepts exactly this place; without the exception
  (`NothingStays`) it is violated.

## 8. Webhooks

`Webhooks` models `internal/service/webhook_service.go`.

| Model | Code |
|---|---|
| `rows` | the table; a row is its switch and its three filters |
| `Create`, `BeginUpdate`, `SaveUpdate`, `Delete` | the requests; an update reads, changes and saves |
| `Happens` | `notify` starts a goroutine for the event |
| `ListHooks`, `Spawn`, `Dispatched` | `DispatchEvent`: one query, then a goroutine per matching hook, each behind the semaphore |
| `SendEnds` | `sendPayload` |
| `scope` | history: the hooks that matched at some time since the event |

`Watching` checks `EveryEventIsDispatched` with one hook, two overlapping editors,
three edits, two events and one slot, so that the second delivery waits for the
first. `Webhooks_events` has two hooks and checks also that an event is delivered
to no hook that did not match it at any time since it happened. Fairness: goroutines run, a POST ends by
its timeout, and goroutines that wait to send on the semaphore's channel are
served in turn (strong fairness of `Dispatch`).

`Watching_proofs` proves, for any hooks, filters, editors, events and slots,
`DeliveredInScope` (`OnlyInScope`), `TriedOnce` and `HookTypeCorrect`. The invariant
`HookInv` says that a slot is held by a delivery under way and by nothing else
(`SlotsAreFreed`), that what a dispatch has listed was in the event's scope
(`DispatchesEvent`), and that what is under way or tried was in scope and is not
listed again (`TriedInScope`): an edit may change the rows between the query and a
delivery, but scope only grows. The count of the slots is the one place where
cardinalities matter.

Observations: the code tries a delivery once and keeps no history, where the
documentation promises three tries and a history; deliveries of one object's
events may arrive in either order; an update that overlaps a deletion inserts the
row again; `TestWebhook` does not take a slot.

## 9. Packages and automatic upgrades

`PackageService` models `internal/packages/service.go`, the Helm adapter, the
catalog's uploads and sources, and the executor of queued tasks.
`UpgradeManager` adds `upgrades.go`.

| Model | Code |
|---|---|
| `content` | what a repository serves under a chart and version; it may change |
| `release`, `source` | Helm's releases in the cluster; the tracked source rows |
| `uploads[r]`, `grants[r]`, `active[r]` | per replica: `Catalog.uploads`, `Service.previews`, `Service.active` |
| `task` | executions that are open, from the queued operation to the saved source |
| `Preview`, `PreviewExpires`, `Confirm` | `Preview` with its grant; `PrepareChange` and `Submit` |
| `Begin`, `Verify`, `HelmStarts`, `HelmEnds`, `Unlock`, `SaveSource` | `ExecutePreparedChange`, `Rollback`, `Remove`: authorization and lock, a second render and the digest, Helm, the deferred unlock, the source |
| `refused`, `Refuse`, `Retry` | rows that failed with an error that may be retried (a lock or a name in use, a row that could not be loaded); a retry queues a copy and leaves the row |
| `QueueTask` | rollback and removal |
| `policy`, `edit`, `batch`, `check` | the policies table; a save that has read its row; the due policies a scheduler has loaded; the check that runs |
| `Create`, `BeginSave`, `EndSave`, `Delete` | `Save` without an id; `Save` with one, which reads the row and then upserts it; `Delete` |
| `RunDue`, `NextDue`, `CheckNow` | a tick of the scheduler, an administrator's request |
| `Compare`, `Inspect`, `Approve`, `Apply`, `Report` | `check`, one call at a time |
| `Publish`, `Revoke`, `Crash` | a chart that changes, a role that is taken away, a replica that dies |

A digest is what it depends on: the content that was rendered and those values in
use that a dry run shows. A value stands for the chart it was given with; `Masked`
are values that end in Secrets only, which `HideSecret` leaves out of the manifest
that is hashed (helm_adapter.go:239-260). A release may have been installed and
upgraded by another client before, with such values. A preview that grants
nothing changes nothing and is left out, as are downloads, diffs, manifests and
the CRUD of repositories. A removal that keeps the history is not modelled.

`UpgradeManager_packages`: one replica, an administrator and a user who uploads,
one release, one chart, four requests, one event, two executions at a time, two
grants, one value that is masked, and no content that is critical
(`UpgradeManager_more` has some). Four
requests are a preview, its confirmation and two that get between (another
confirmation, a rollback, a retry, a policy's check); the event is a chart that
changes, a failure of Helm or of a load, a lost role or a crash. It has 688,944
states and shows:

- `ExecutedAsPreviewed`: what Helm starts with shows as it was shown to its
  confirmer, for the change that was confirmed.
- `TokenUsedOnce`: a confirmation starts Helm at most once for itself, and once for
  each retry that was asked for.
- `EveryLockIsFreed`: no outcome leaves a release locked.
- `EveryCheckEnds`: a check ends, whatever becomes of the release, the preview, the
  policy and the upgrade; a check that does not would stop the scheduler, which
  runs one after the other. Fairness of both: workers and
  schedulers run while their process lives; Helm calls have timeouts.

What they do not promise fails, and is checked by hand. `ConfirmationUsedOnce`
(package-releases.md:64 calls the token a one-time confirmation): the payload of a
failed row holds the digest and no token, `Manager.Retry` copies the row and leaves
it retryable, so two retries of one row both start Helm. `DeletedStaysDeleted`: a save
that has read the row upserts it after a `Delete` (upgrades.go:86, 99). And values
that end in Secrets only may change between preview and execution: the digest is
the same, and `Shown` says so.

`UpgradeManager_proofs` proves the first two, `AppliedAsPreviewed` and
`ConfirmedOnce`, for any users, releases (finitely many, as a
cluster has), charts, executions and bounds, and for any number of replicas but
for `AppliedAsPreviewed`. That one assumes a single replica, because
`Service.active` belongs to a process; its other half, that the confirmer is the
one who was shown the preview, is an invariant of every execution (`GoodTask`).
`OneAtATime` says what the lock does give with several replicas: one process
runs Helm for a release once at a time. `NoLockIsLeft` says that a release in
`active` belongs to an execution that still is on its way to the unlock
(`LockHasOwner`), whatever fails, conflicts or crashes: the safety core of
`EveryLockIsFreed`. `CriticalWasAllowed` is `CriticalNeedsAdmin`: only the preview
asks for the right to a critical change, so a grant for critical content belongs to
an administrator or the automation (`Grant`), and what a verified execution has
loaded is the content of its grant (`GoodTask`), whatever was published since. A
change without content is not critical (`PackageAssumption`). The inductive
invariant `IInv` has, beside the types,

- `Tokens`: a token with the number of its retry (`Turn`) is in one place, a preview of
  one replica or one execution, and one that Helm was started with is in no preview
  and in no execution that still may start Helm (`Waits`). Each retry has a number of
  its own.
- `Locks`: whoever is between `mutate`'s lock and its unlock has its release in
  `active` of its replica, and no other execution there has that release.
- `Fits`: with one replica, an execution that has compared its render with the
  preview renders the same until Helm starts (`Steady`), since only the lock's
  holder writes the release and the loaded chart is a copy.
- `Policies`, `Edits`, `Batches`, `Checks`: whatever is loaded from a policy names a
  release and a chart.

Proving it corrected the model: with two replicas, the end of a Helm call for a
release that another replica had removed meanwhile brought it back without
revisions; it now fails, and leaves the release removed.

`UpgradeManager_automation` refutes package-releases.md:111, "automation always
blocks" critical findings: the inspection and the preview that grants are two
renders (upgrades.go:199-212), the chart may change between them, and the second
one's risks are not looked at, since its actor may execute critical changes.

Observations: locks and grants live in one process, so with two replicas Helm may
start on a release that another replica is changing (Helm's own pending check
remains); `SaveReleaseSource` follows the unlock, so the source of two changes in a
row may be the older one's; a check holds the policy it loaded, so a policy that
was disabled or pointed elsewhere meanwhile still upgrades; a critical change confirmed by an
administrator is executed after the administrator was demoted; `Stop` of the
upgrade manager cancels and does not wait.

## 10. The assistant

`AISessions` models the tool loop (`ai/agent.go`), the pending changes
(`session.go`) and the hand-over to the operation manager (`ai_handler.go`,
`operations.go`).

| Model | Code |
|---|---|
| `turn[t]` | a chat request in `runLoop`: iteration, empty answers, tool calls to go, calls of the conversation without a result |
| `session` | `sessionStore.sessions`: change, owner, unanswered calls, whether fifteen minutes have passed |
| `op` | operations of approved changes: queued, running, or failed and retryable |
| `Streamed`, `CallTool`, `CallsDone`, `SaveSession` | a turn |
| `Approve`, `Continue` | `ApproveAction` and `Submit`; `ContinueAction` |
| `Begin`, `Apply` | `execute` up to the executor, whose loads may fail retryably, and `ExecuteApprovedAction`, which authorizes again |
| `Retry` | `Manager.Retry`: a copy is queued, the failed row stays |
| `UpdateRole`, `Configure`, `Crash`, `SessionExpires` | what may change meanwhile |

A conversation is the number of its calls without a result: a model provider
refuses one in which that is not zero. Reads are allowed to all roles here; who may do what is
`Access`.

`Requests` runs two users, one turn at a time, one ordinary and one risky change,
two calls to a reply, at most two pending changes and one per user, two chats, two
retries of a change and one event (a role that changes, a configuration, a crash, a
failed submission). `AppliedAsApproved`: a change is approved by its own user only,
and applied at most once for the approval and once for each retry somebody asked
for. That is all the code gives: `AppliedOncePerApproval` (package-releases.md:129-130:
AI changes "require a new inspection before another attempt") is violated by hand,
since a row that failed before its executor ran (manager.go:298, 312) is retried any
number of times. `EveryCallIsAnswered`: whatever was
refused, skipped, approved or denied, the next request to the model is legal.
`AISessions_approvals`, with three chats and no retry, adds: a change is refused a
place only when places are really taken; every turn ends. Fairness: a stream ends,
a goroutine runs on.

`Requests_proofs` proves, for any users, changes, calls in a reply, limits, chats,
retries and events, `AppliedOnceAsApproved`, `EveryCallAnswered`, and of the
properties checked by hand `RefusedWhenFull`; from `AIAssumption`,
which names the constants' types and says that no change is `"none"`. The invariant
follows the number of a pending change through its life: a session has a number
of its own that nobody has approved (`SessionsAreNew`), what was applied and the
operations that may still be are paid for by the approval and the retries
(`OperationsAreApproved`, `Live`), and what was applied was approved
(`AppliedWasApproved`). A turn owes as many results as it has calls
to go, and one for the pending change (`CallsAreCounted`), which makes the next
request legal. Numbers suffice, because each chat brings at most one
(`Types`), and places are counted (`Places`).

A role may be taken away and given back while a change waits: it is looked at when
the change begins, and then only.

## 11. Access control

`Access` derives a permission from each route as `RBACMiddleware` does, over the
table of `server/router.go`, the roles `db.go` seeds at each start, the checks
handlers add and the authorizer of the assistant (`ai/authz.go`). `Request` and
`ToolCall` are one decision each; `EditRole` is an operator who edits the custom
role's row; `Restart` seeds again.

`WritesWithinOwnPrivileges`, in `Requests` with four edits of the custom role:
whatever an assistant may change for a user of any role, the user may change over
HTTP, also when the custom role is edited, unless it is given a permission on that
very kind (`NamesKind`), which RBAC never looks for. It is
authz.go:14-16 restricted to changes. Unrestricted (`WithinOwnPrivileges`, by
hand) it is violated: the assistant honours permissions on kinds that RBAC never
asks for, and reads that RBAC derives otherwise.

`Requests_proofs` proves it, `AssistantIsNoMore`, for any number of edits and
restarts and every list of permissions an operator may give the custom role: a
permission that the assistant honours names the kind, or is on `resources` or `*` and
then opens the route too. The seeded roles are
what the seeds say (`RolesAsSeeded`); of the others only the requests matter that
change something, which are finitely many routes (`Routes`, `SameRoute`). It is the
one theorem that rests on the table of routes and not on an order of events.

Observations: `ws/watch` is derived to be `watch:list`, which no seeded role below
the administrators has, so editors and viewers get no live updates; dry runs are
derived to be a permission `dry-run:create` or `dry-run:update` that the editor does not have; every
`test` route shares `test:create`; `favorites/reorder` needs an update permission
that db.go's editor, who "manages favorites", does not have
(`EditorManagesFavorites`, by hand, is violated); the seeds replace the
permissions of a custom role that was edited (db.go:251 against 281-300).

## 12. Accounts and sessions

`AuthService` models `auth_service.go`, `user_service.go`, `directory_service.go`,
`apikey_service.go`, the middleware and the commands that change users.

| Model | Code |
|---|---|
| `rows` | the users table |
| `request[r]` | a request that has read a row, with its copy and the answer it will give |
| `tokens` | tokens issued: type, user, version, whether the second factor was given |
| `Login`, `IssueLoginForUser`, `HandleCallback`, `LoginDirectory`, `UseRecoveryCode` | sign-ins up to their save |
| `Verify2FA`, `RefreshToken`, `RefreshDirectory`, `IdentityLost` | a second factor by code, and refreshes |
| `AdmitToken`, `AdmitKey`, `CreateTicket`, `AdmitTicket` | the middleware, tickets of WebSockets |
| `Setup2FA`, `Enable2FA`, `Disable2FA`, `Clear2FA` | two-factor authentication |
| `ResetPassword` .. `DeleteUser` | management, over HTTP and by command |
| `Finish` | the save of the whole copy, or its failure, and the answer |

Every operation reads a row, changes its copy and saves all of it
(`userRepo.Update` is GORM's `Save`); so a request is two steps, and what lies
between is the subject of the module. A request that carries the wrong password
or code is refused and changes nothing. History variables say which secrets were
proven, which sessions ended, who was disabled, and whose row was saved over a
change that was not read (`raced`).

`SignIn`: two accounts, of which one is an administrator with two-factor
authentication and one comes from a directory and begins with a session; two
overlapping requests; three requests that change a row; three secrets. Three are
what it takes, beside the session, to end it, race with that, and use it. The accounts are not exchanged by
symmetry, only requests and names of codes are.

- `SecondFactorGiven`: a token that stands for a password alone opens nothing.
- `EnabledWasProven`: two-factor authentication is never on with a secret its
  owner has not shown a code of.
- `EndedUnlessRaced`: sessions that ended, disabled users and used recovery codes
  stay so unless one save overwrote another. It names the cause precisely.
- `AuthService_sessions` is the violation without that condition: a sign-in that
  overlaps a password reset saves the old version back (auth_service.go:101).

`SignIn_proofs` proves the three, `SecondFactor`, `ProvenFactors` and
`EndedStaysEnded`, for any accounts, requests, secrets and tokens, with
`TypeCorrect`. The difficulty is the copies: a request holds the row it read and
the row it will save, and both may be older than the table. So the invariant
speaks of copies too (`GoodRow`, `GoodRequest` in `Types`): a copy is a row that was
legal when read, its version is not above the row's unless another request saved
over what it had not read (`VersionsGrow`), a secret it brings is its own
(`SetupsAreFresh`), and what it grants was earned (`TokensAreEarned`). That ended
sessions, disabled users and used codes stay so is `EndedAreOld`, `BarredAreOut`
and `UsedAreGone`, each with the exception of raced accounts. Only the save is
hard (`SavedIInv`): it replaces the row, ends what it ends and marks as raced what
it overwrites.

A refresh of a directory user goes on without asking the directory where the
directory is off or does not map roles at a refresh (`RefreshToken`), and asks it
otherwise (`RefreshDirectory`, `IdentityLost`).

Observations: deletion marks a row, and a save that overlaps it brings the user
back; the rule of the last administrator (user_service.go:151) counts before it
deletes and is broken by two deletions that overlap; an update of the role alone
enables a disabled user (user_handler.go:100-104); second-factor tokens and
tickets carry no version and survive a reset for their few minutes, and API keys
ignore versions; the OAuth callback gives a disabled account tokens nobody admits;
OAuth and passkeys stand for both factors; two callbacks for a new identity may
create two accounts, since no index is unique over provider and identity.

## 13. Passkeys

`PublicKeys` models `publickey_service.go` and its repository: `BeginRegistration`,
`BeginLogin`, the conditional update that consumes a ceremony, and then, for a
sign-in, the three reads and the compare-and-swap of the key's row one at a time
(`Validate`, `FindRecord`, `UpdateAfterLogin`, `IssueLogin`). `BeginRegistration`
is one step. Authenticators sign correctly and count; `BeginSave` and `EndSave`
are another service's whole-row save of the user. The WebAuthn library is external
and modelled by what the service relies on: handles and challenges are compared,
and a counter that does not grow warns of a clone.

`SignIn` runs one user, one key, three ceremonies, two attempts at a time, the
policy "deny", two signatures. `CeremonyTriedOnce`: a ceremony admits one attempt
however many arrive. `RevokedSignsNobodyIn`: a finish request that arrives after a key
was revoked opens no session with it, whatever sign-ins were under way at the
revocation and write the key's row later; the `UPDATE` names the columns it sets and
asks that the row is not revoked, where the services of accounts save the row they
read. A request that has recorded its counter before the revocation still signs its
owner in (publickey_service.go:275, 282): `RevocationIsImmediate`, by hand, is violated.

`SignIn_proofs` proves both, `SingleUse` and `RevocationHolds`, for any users,
keys, ceremonies and bounds, from `PublicKeysAssumption` (a user is not the
placeholder `"nobody"`). `SingleUse` needs that an open ceremony was not tried
(`TriedIsClosed`) and that an attempt was begun (`AttemptsAreBegun`),
`RevocationHolds` that a key in `revoked` has a row that says so
(`RevokedIsMarked`) and that the key of an attempt past `Validate` was not revoked
before the attempt came (`KeysWereValid`): together `KeyInv`.

By hand, two statements of the code that fail. `CounterGrows`: two sign-ins with
one key that overlap make the stored counter go back, since the row that the
compare-and-swap compares is read after the counter was checked
(publickey_service.go:265, 276; publickey_repo.go:113, 125). `PasskeysStayUsable`: a
save of a user's row that was read before `SetUserHandle` clears the handle, and
the passkey signs nobody in. Observation: the rule that the last sign-in method is
not revoked never applies, because each account the code creates has a password
hash or a provider.

## 14. The audit log and the shutdown

`Server` models `audit_service.go`, what records in it, and the order in which
main.go stops the parts.

| Model | Code |
|---|---|
| `job[e]` | a write request, an operation or an upgrade check, and with it its entry |
| `logCh`, `batch`, `loop` | the channel, the batch and `flushLoop` |
| `main` | the stages of the shutdown, in their order |
| `EndJob` with `Record` | the handler or executor returns and records: not at all, at once, or by a send that never blocks |
| `Receive`, `Tick`, `StopLoop`, `Flushed` | `flushLoop` |
| `Quit` .. `CloseDB` | main |
| `timely`, `excused` | history: recorded before the audit service was told to stop; dropped at a full channel or lost with a failed insert |

`Requests` runs all three modes with two requests, two operations, a check, a
channel of two and batches of two, so that the channel overflows and a batch
leaves entries behind. `StoppedMeansStored`: when the flush loop has ended, every
timely entry is stored or excused, and when the process exits every entry of an
operation is, since operations are stopped first. `ShutdownEnds`. Fairness: main
runs, an operation ends when its context is cancelled, an insert ends within ten
seconds, Go's select does not pass over a ready case for ever.

`Requests_proofs` proves `StoredWhenStopped`, the invariant above, and `OpenDatabase`
(`FlushesWhileOpen`) for any requests, operations, checks and sizes. The inductive
invariant says where a timely entry may be (`Kept`: stored, excused, in the batch
or in the channel; in the channel no longer once the loop drains), that an
operation's entry is timely (`OperationsAreTimely`), and what main's stage implies
(`StageFacts`).

By hand: with `EveryWriteIsRecorded` (docs/admin-guide/audit-logging.md: every
write is recorded) as the invariant, `Server_shutdown` is violated: HTTP requests
are answered for five seconds after the audit service has stopped, and their
entries stay in the channel. Observations: a handler that panics and a request
refused by RBAC are not audited; a failed batch is lost; the loops of the upgrade
manager are not waited for; the database is closed while handlers that outlast the
five seconds still run.

## 15. Cluster objects

`Resources` models `resource_handler.go` and `resource_action_handler.go` with
their services and the calls of `repository/k8s_repo.go`.

| Model | Code |
|---|---|
| `objects`, `sets`, `version` | the API server: objects with uid and version, ReplicaSets |
| `cache` | the informer's copy, which lags |
| `ask[c]` | a client's request: items to go, what was read, results so far |
| `CreateCall` .. `DeleteCall` | the API server's answers: refused, applied, or applied with the answer lost |
| `GetObject`, `ListObjects`, `Create`, `Update`, `Patch`, `Delete`, `DryRun...`, `BatchDelete` | `resource_handler.go` |
| `Scale`, `Restart`, `BatchRestart`, `RestartPodGet`, `RestartPodDelete` | the actions |
| `Rollback`, `RollbackGet`, `RollbackList`, `RollbackPatch` | a rollback, one call at a time |
| `Rollout`, `Collect`, `Recreate`, `Others`, `SyncCache` | controllers, other clients, the informer |

A manifest is its settings; `named` are those a request means to set. An update
whose manifest carries no version stands for every setting, as the API server takes
it.

`Requests` runs one client beside others and the controllers, a deployment that is read from the cache
and a pod, with three versions and a clock of two: what is read, changed by somebody else, then
written. `NoUnseenOverwrite`: a request changes no setting it does not name unless
its author had read the object as it is.

`Resources_proofs` proves it (`NothingOverwritten`), for any clients, names, batches
and bounds. The call and the request are apart in the argument: `SoundOutcome` and
`Spares` say of each kind of call what it may have done and which settings it leaves
alone (`PatchSound`, `DeleteSound`, `CreateSound`, `UpdateSound`), whatever the
objects became since the request began. A request whose calls spare the settings it
does not name loses no update (`AnsweredOK`): patches, scales, restarts, deletions and
rollbacks. A manifest names a version or stands for every setting; the version it
carries is that of the object its author was shown (`UpdateOK`). The inductive
invariant `ObjectsInv` supplies the rest: what is stored or cached has a version of the
past, a rollback that reached its patch holds a template, a request has as many results
as items behind it. From the last part follows `BatchesAnswerEach` too: a batch answers
each item, and truthfully (`BatchAnswersEach`). The assumption is that the settings'
values are numbers, batches list names of objects and the bounds are positive
(`ResourcesAssumption`).

`Resources_rollback` is a violation: the old template is sent as a strategic merge
patch (resource_action_service.go:303-305), which keeps every setting the old one
lacks, so a rollback past a restart restores nothing and is answered as a success.

Observations: "the previous revision" is taken from the deployment's annotation,
which lags behind a rollout in progress; two undos swap between two revisions; the
pod a restart deletes may be another of that name, without a controller
(`RestartPodGet`, `RestartPodDelete`); a second restart within a second changes
nothing and is a success; a read after a write may show the older object; a PUT
without a version overwrites; the two objects a dry run shows come from two calls.

## 16. Not modelled

- Views over resources (overview, topology, search, comparison, metrics): they
  aggregate lists and keep nothing but a cache of metrics.
- Favorites, templates, plugins, recordings, registry tags: one statement or one
  proxied call each.
- HTTP access to pods and services: a stateless reverse proxy.
- Rate limiter: a token bucket of golang.org/x/time/rate per client address, in
  one map under one mutex that the eviction holds too; a bucket unseen for five
  minutes is full again, so evicting it changes nothing.
- CRD discovery, chart download, rendering and diffs, prompts and model protocols:
  data, not state.
- OAuth states, account linking and user creation; passwords, TOTP codes, token
  expiry: a request that fails there changes nothing.
- Configuration, migration, other commands: sequential, at start.
- The frontend: its token refresh and reconnection are left to its own tests.
