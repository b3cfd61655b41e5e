# Verification of the Kubernetes agent orchestrator

The orchestrator keeps one Pod (and optionally one Service) for every `Agent` custom
resource, recreates Agents that are deleted from outside ("self-healing"), and offers a
REST API, an idle watcher, a cache and a history per agent. This directory holds TLA+
models of its core, the TLC runs that check them, and proofs that TLAPS checks.
Paths are relative to `../src`.

## The system

| Component | State | Operations | Interacts with |
|---|---|---|---|
| Reconcile loop, `internal/controller/agent_controller.go` | none of its own: the Agent, Pods and Service in the API server; what one `Reconcile` has read | `Reconcile`, `createPod`, `updateStatus`, `setCondition`, `reconcileService` | reads informer caches, writes the API server; history |
| Deletion and self-healing, same file | finalizer; one goroutine per deletion, in memory only | `handleDeletion`, `resurrectAgentAsync` | API server, history |
| History, `internal/history/history.go` | a list of events per agent, in Redis or in memory | `Append`, `List`, `Clear` | called by the controller, its goroutines and the REST handlers |
| Cache, `internal/cache/*.go` | entries per agent with an optional ttl, in Redis (strings and an index) or in memory | `Set`, `Get`, `GetEntry`, `Delete`, `List`, `ClearAgent`, collection loop | REST handlers, idle watcher |
| REST API, `internal/rest/handlers.go`, `server.go` | none of its own | create, update, delete, restart, stop, start, keepalive, enable and disable healing, env vars, cache, history, logs | reads the informer cache, patches the Agent; cache; history |
| Idle watcher, `internal/idle/watcher.go` | the field `_idle_last_activity` of the cache | `TouchActivity`, `check`, `pauseAgent` | cache, Agents |
| Wiring, `cmd/main.go`; UI; Helm chart; generated documentation | - | - | - |

What is hard here:

* every read is of an informer cache that lags the API server, and the Agent, Pod and
  Service caches lag independently; what is written may rest on a stale read;
* merge patches (`client.MergeFrom`) send the difference to the stale copy, without a check
  of the version; only the two `Update`s of the finalizer are checked;
* every call may be rejected, or applied without an answer; the process may restart between
  any two calls, and the goroutines of self-healing live in memory only;
* pipelines to Redis are no transactions, and their errors are dropped;
* the in-memory cache finds its object under one lock and uses it under another;
* REST servers and idle watchers run in every replica, while only the leader reconciles; the
  activity of an agent reaches the watchers through the cache store alone.

What makes each component correct: a Pod runs the spec it claims to run, drift is repaired
and nothing else is deleted, status and Service follow the spec (reconcile loop); a deleted
Agent comes back once, with its last spec, unless it opted out, and the history tells the
truth about it (self-healing); `List` returns the events in order and only the oldest are
evicted (history); a write is not lost and what is cleared is gone
(caches); a request changes the fields it asks for and leaves the others as others have
written them, and what is deleted for good stays deleted (REST API); only an idle agent is
paused, and one in a session runs (idle watcher).

## Modules

| Module | Models |
|---|---|
| `KubeApi` | Agent, Pod, Service and their statuses (`api/v1alpha1/agent_types.go`); generations, merge patches |
| `AgentController` | reconcile loop and self-healing for one Agent name, with the API server, caches, kubelet, garbage collector and clients around them |
| `AgentControllerProofs`, `AgentOrderProofs`, `AgentHealingProofs` | theorems about `AgentController` |
| `EventLog` | what a history store promises |
| `HistoryStore` | what the two stores of the history share: constants, events, the cap |
| `RedisHistory`, `InMemoryHistory` | the two stores, each shown to implement `EventLog` |
| `HistoryProofs` | theorems about both, as the choice of `MCStores` |
| `RedisCache`, `InMemoryCache` | the two caches of one agent |
| `CacheProofs` | theorems about both, as the choice of `MCCache` |
| `EnvVars` | the lists of variables the env handlers compute, and what they mean to the container |
| `RestApi` | every REST handler that writes the Agent, and the idle watcher's patch, as clients of `AgentController` (`EXTENDS AgentController, EnvVars`) |
| `EnvVarsProofs` | what the functions of `EnvVars` make of lists of every length |
| `RestApiProofs` | theorems about `RestApi`, which rest on those about `AgentController` and on `EnvVarsProofs` |
| `IdleWatcher` | the watchers of several replicas, the activity middleware and keepalive, for one Agent |
| `IdleWatcherProofs` | theorems about `IdleWatcher` |
| `MCAgentController`, `MCRestApi`, `MCCache`, `MCStores` | instances for TLC; `MCCache` also models the choice of the cache in `main`, and `MCStores` adds that of the history, which shares no state with the cache |

### AgentController

The stored objects are `agent`, `pods`, `service`. Each has a queue of versions on their
way to the informer (`agentEvents`, ...) and the version in its cache (`agentCache`, ...).
A delivery enqueues the Agent (`queued`), as the watches of `SetupWithManager` do.

`rec` is the `Reconcile` in progress: its copy of the Agent, the Pod it found, and the next
call that writes. Code between two such calls touches local state only, so each step ends
at a call, and everything else may happen between two calls. `Reconcile` reads both caches
and decides (`FirstCall`) which call comes first:

| `rec.call` | Code |
|---|---|
| `addFinalizer` | 67-79 |
| `pausePod`, `pauseStatus` | 87-101 |
| `createPod`, `createFailed` | 103-120 |
| `driftStatus`, `driftPod` | 122-134 |
| `syncStatus`, `service`, `serviceStatus` | 136-151, 455-541 |
| `deletionPod`, `removeFinalizer` | 153-210 |

`fresh` stands for the resourceVersion: the copy in `rec` is still the stored version, so an
`Update` is accepted. Patches ignore it, and send only the fields that differ from the copy
(`Merged`). `healers` are the goroutines, each before its `Create`, before the `Get` after
`AlreadyExists`, or between a `Create` that succeeded and the entry in the history, where a
restart loses the entry. `appendHistory` is best-effort: each append may be lost.
`healed` and `buried` record what the properties speak of.

Three outcomes of a call: `Answered`, `Rejected`, `Unanswered` (applied, answer lost).
Delays (`RequeueAfter`, back-off, sleeps) are left out: what is due later may happen at any
time. What the controller only copies into the Pod is one opaque payload. Events of the
`EventRecorder` are left out. `lastUpdated` in the status has a resolution of a second, so a
status patch that changes nothing else may or may not be a new version.

The clients of `AgentController` may write any spec at any time (`ClientCreate`,
`ClientPatch`, `ClientDelete`). Each is a choice among the operations `CreateAgent(s)`,
`WriteSpec(s)`, `DeleteAgent(cascade)`, which `RestApi` uses with what a request asks for.

### RestApi

`workload` is what each client sends, one request after the other; clients interleave.
`call[c]` is the handler at work for client `c`: the call it makes next and `copy`, the Agent
it has read; `same` stands for the resourceVersion of the copy.

| Step | Code in `handlers.go` |
|---|---|
| `handleCreateAgent` | 177-232 |
| `Get` | the read of the informer cache at the start of every other handler, and its early returns |
| `Modified`: `newPayload`, `newEnv`, `newPaused`, `newSelfHealingDisabled` | what each handler changes in its copy: 407-440, 900-1006, 575-630 and 661-672, 478-481 and 779-824 |
| `Write` | the `Patch` (or, for PUT, the `Update`): `Stored` is what it leaves behind, `Accepted` whether it is accepted |
| `Delete` | 492: by name, whatever is stored |

A merge patch sends the fields that differ from the copy (`MergedSpec`; the list of variables
is one field). It may send nothing at all: a request on a stale copy that already has the
wanted value is answered and lost. Handlers that also write the time into an annotation
(`Annotating`) store a new version even then, unless it is the same second. An Agent deleted
with the orchestrator's finalizer on it is then the controller's, whose steps (`OtherStep`)
are those of `AgentController` unchanged. `deleted` records the uid of whatever a DELETE
has deleted, with the uid of the Agent its handler had read or patched (`known`). The two
differ when a successor was created in between.

### IdleWatcher

Each replica has its informer cache (`cached`), its watcher and, without Redis, its own
timestamps. Timestamps are kept as ages, and those older than twice the timeout are alike.
`check` is three steps: the read of the list and of the clock, the read of the timestamp
with the comparison (`since` is the time between the two), and the patch. A keepalive is the
touch of the middleware, the read, the patch and the polls of `wakeAgent`. Of the reconcile
loop there is one step, `Reconciled`: the phase follows `spec.paused`, which
`StatusConverges` and `PausedDrains` show of the loop itself. `mode` says what clients do
from now on: whatever they like, a session of keepalives, or nothing. `Cache.Set` over Redis
drops its errors (redis_cache.go:74), so a touch may leave no timestamp, and a `Get` that
fails looks like a missing timestamp, which `check` seeds (`Unanswered`). `seen` is the time
since the last request that did leave one.

### Histories and caches

`RedisHistory` splits `Append` into the stamp, `RPUSH` and `LTRIM`, with any number of
writers and a connection that breaks. `List` is `LRANGE 0 -1`, the whole list, which may be
longer than the cap between `RPUSH` and `LTRIM` or after a broken pipeline; `EventLog` has
recording and eviction as steps of their own, which `InMemoryHistory` takes together. It
stamps before its critical section. `RedisCache` has one step per Redis command; expired
keys vanish with the tick of the clock. Three history variables say what the index owes:
`until`, up to when the last `Set` keeps it; `clean`, whether a `Set` at work overlaps with
no call that may remove its field; `hurt`, the fields that may be stored outside the index.
`InMemoryCache` has one step per critical section; each agentCache
object stays in `heap` after `ClearAgent` has dropped it, as slow callers still hold it.

## Runs

`CHECK_DEADLOCK FALSE` everywhere: clients, faults and the bounded number of calls may run
out, and a system at rest is no error.

| Run | Property | Shows |
|---|---|---|
| `failures` | `TypeOK`, `PodRunsItsGeneration`, `NothingForgotten`, `DriftDeletesOnlyOutdated` | with every operation and every kind of failure, a Pod with the current generation runs the current payload, drift deletes no such Pod, and when no event, queue entry or `Reconcile` is left there is nothing left to do |
| `heals` | `ResurrectsWhatWasDeleted`, `ResurrectedOnce`, `HistoryIsTrue`, `HealingCompletes` | a deleted Agent comes back, once, with its last spec; the history says `Resurrected` of no other |
| `converge` | `RunningConverges`, `PausedDrains` | a wanted Pod appears and stays; a paused Agent loses all its Pods |
| `status` | `StatusConverges`, `ServiceConverges` | with a call that may be rejected, the status of a running Agent and its Service follow the spec in the end; the status of a paused Agent does if no call was rejected |
| `rest` | `RestTypeOK`, `RequestsAreClients`, `NothingReverted`, `EnvWritesMeanIt`, `DeletedForGood` | six pairs of clients race each other, the reconcile loop and resurrections, with refusals and a restart: the API refines the clients of `AgentController`; no request changes a field it does not ask for; merged variables mean what was asked if the list is still the one that was read; DELETE of the Agent that was read is final unless self-healing is enabled |
| `idle` | `IdleTypeOK`, `PausesOnlyIdle`, `IdleStops`, `SessionRuns` | two replicas and a Redis that may fail unnoticed: only an Agent with no request on record for the timeout is chosen to be paused, a silent one ends up stopped, one in a session ends up and stays running |
| `stores` | `EntriesIndexed`, `WritesReach`, `EntriesStay`, `ClearedIsGone`, `ImplementsEventLog`, `ListBounded`, `ImplementsVolatileLog` | Redis cache, two goroutines, entries with and without a ttl: nothing but what `EntriesIndexed` names keeps a stored field out of the index; memory cache: writes are lost only to an overlapping `ClearAgent`; histories: both implement the log, and what is beyond the cap is what pipelines at work or broken ones have not trimmed |

The following runs check what a comment or the documentation says and the code does not
keep; TLC finds a counterexample to each.

| Run | Said | Done |
|---|---|---|
| `one_to_one` | "each Agent maps 1-to-1 to a Pod" (README.md:3) | a `Reconcile` with a stale list of Pods creates a second one (`GenerateName`), and no later one deletes it |
| `crash` | "automatically recreates it" (README.md:443) | a restart after the finalizer is removed loses the goroutine |
| `delete` | "Self-healing is disabled before deletion so the agent is not resurrected" (handlers.go:455) | the handler looks at a cached copy; if self-healing has been enabled since, the Agent is deleted with it enabled, and comes back |
| `index` | "Keep index alive at least as long as the longest TTL entry" (redis_cache.go:67) | each `Set` replaces the expiry of the index by twice its own ttl; after a shorter one the index expires first, `List` misses the longer-lived entry and `ClearAgent` leaves it |
| `restart` | "Forces pod recreation by bumping the orchestrator.dev/restart-at annotation" (handlers.go:509) | the annotation is one of the Agent, changes no generation, and the Pod stays |

Other divergences, seen in the code or with a change of the constants, that no run keeps:

* a resurrection can be missing in the history, of which README.md:452 says that it "always
  shows a complete audit trail": after a lost answer of `Create`, a restart between `Create`
  and the append (agent_controller.go:253-257), a failed append (history.go:70), an eviction;
* a paused Agent may never be reported as `Stopped` (README.md:95): the error of the status
  patch is dropped and a paused Agent is not requeued (agent_controller.go:99-100).
  `StatusConverges` fails in `status` without its hypothesis `[](budget.faults = 0)`;
* DELETE of a name deletes whatever is stored (handlers.go:492). A successor created after
  the handler read an Agent that had opted out is deleted with self-healing enabled, answered
  with success, and comes back;
* `List` of the Redis history may return more than the cap;
* `specChanged` compares generations only (agent_controller.go:381): a Pod left by a deleted
  Agent of the same name passes for one of its successor with the same generation;
* `setCondition` changes the object before the base of the patch is taken
  (agent_controller.go:109), so the condition `Failed` is never sent;
* `status.serviceName` stays if the Service is already gone when the port becomes 0;
  `handleListAgentServices` builds URLs from the Agent's name and not from `serviceNameFor`;
* `reconcileService` deletes, or gives another port to, any Service of that name, whoever owns it;
* the index of the Redis cache leaves after 24 hours without a `Set`, with what it lists of
  entries without a ttl; any error of `GET` makes `List` remove a live field from it
  (redis_cache.go:124); `ClearAgent`, `List` or `Delete` racing `Set` leaves an entry outside it;
* events need not be listed oldest first, as they are stamped before they are pushed;
* of two merges of variables that read the same copy one is lost, and so is a start (stop,
  enable, disable) that reads a copy older than the stop before it;
* an Agent that kubectl deletes in the foreground can be resurrected although a DELETE
  follows (the theorem excludes foreground deletion);
* a request whose `SET` of the timestamp fails does not count, and the watcher may pause the
  Agent in use; a `GET` that fails puts the pause off;
* keepalive answers `running` from a cached copy of an Agent that was just paused;
* agent_types.go:108 says that an `idleTimeout` of 0 disables idle tracking for the agent;
  the watcher (and README.md:382) falls back to the global timeout. README.md:381 says that
  the watcher pauses after more than the timeout; the code pauses from the timeout on;
* `ClearAgent`, called by DELETE and by a request of clients, also removes the activity
  timestamp; kubectl leaves the timestamp of a deleted Agent to its successor, and an Agent
  unpaused by kubectl is paused again by the next check;
* without Redis, with several replicas, a watcher pauses an Agent that is active at another
  replica (`PausesOnlyIdle` fails with `Shared = FALSE`).

### Bounds

One Agent name: the controller runs one `Reconcile` per name at a time, and names share
nothing but what "Not modelled" lists. Two Pod names where duplicates matter (`failures`,
`converge`), else one: with all names in use a Pod is not admitted. `MaxOps` is 2 or 3
operations of clients: create, and delete, change or pause in any order, which is what it
takes to outdate every copy once. `MaxLag = 1`: one version on its way per kind of object;
several operations and the copy in `rec` still make a `Reconcile` work on an Agent two
versions old. The theorems do not depend on any of these bounds. Two goroutines
of self-healing (two deletions), two attempts each instead of 15: the loop body does not
depend on the number. Faults, lost answers, restarts: one each in `failures`; `heals`
allows one rejected call, as many attempts as goroutines have left to spare; `status` allows
one, which is enough to lose any one of its patches. The history has a cap of 2 and 4
appends, so that eviction happens with two writers in progress. The Redis cache has two
goroutines, 4 calls, one broken connection, and ttls of none and 1 in 4 units of time, with
a day of 4: entries and index expire and are set again, and a shorter expiry of the index
follows a longer one. The memory cache has 4 calls of two goroutines, enough to make an
object, drop it and make another while a third call holds the first.

`rest` has the requests that can undo each other in six workloads, two or three requests per
client: a DELETE against a resurrection after kubectl's, DELETE against enable, a
stop against a PUT, merges and removals of variables against each other and against disable,
keepalive against the watcher's patch and a replaced list, start against restart. The Agent
is created with a variable that occurs twice. Two goroutines, one restart, refusals of any
request; kubectl deletes in the background only. There is one informer cache, that of the
replica which leads; the handlers of another one would read a copy as old as they like, and
so do these, as a delivery may come at any time. `idle` has two replicas, a timeout of 2
units, a keepalive per unit, and two troubles (failed patches, Redis calls that are not answered, restarts, kubectl) in
any combination.

`StatusConverges` is asked of a running Agent with at most one live Pod. With two of them,
which `one_to_one` shows to be possible, the status tells of whichever Pod the cache lists
first, and may change for ever. `status` has one Pod name, so nothing is excluded there.

### Fairness

`FairSpec` assumes that watch streams deliver, that the worker goes on with a queued or
started `Reconcile`, that goroutines get to run, and that the kubelet and the garbage
collector remove what is deleted: weak fairness of each, which is what the Go scheduler,
the work queue (a failed `Reconcile` is always requeued) and the cluster provide. Clients,
faults, restarts and phase changes are never forced. Fairness of the goroutines is of
`HealerStep` as a whole, as none of them can be disabled by another for ever.
`AgentController` bounds faults, so a call that is repeated succeeds in the end;
`HealingCompletes` therefore speaks of fewer failures than the goroutine has attempts.

`RestFairSpec` adds that handlers at work run to their end (weak fairness per client), and
requests that are due are sent.

`IdleWatcher`'s `FairSpec`: time passes, informers deliver, the ticker lets each watcher go
on, requests go on, and the client of a session sends its keepalives; `Tick` waits for a
keepalive that is due, and for a watcher that has read the clock a timeout ago. Fairness is
strong for the steps that store the Agent (`Watch`, `Unpause`, `Reconciled`): `Put` waits
until the last version has reached every informer, so it may be disabled again and again,
while the API server accepts writes whether informers lag or not.

## Proofs

TLAPS checks every leaf of the following, for every value of the constants that satisfies
the named assumptions of the modules (specs have the type of specs, the "no object" values
are no objects, the bounds are numbers, there are finitely many writers).

* `TypeCorrect`: `Spec => []TypeOK`. The inductive invariant `BaseInv` adds three facts that
  the step lemmas need: `FreshIsStored` (a copy due for an `Update` that is still fresh is
  the stored version), `CacheCurrent` (with nothing on its way, a cache holds what is
  stored), `RecCalls` (what each call has read).
* `GenerationIdentifiesSpec`: `Spec => []PodRunsItsGeneration`, and `DriftIsReal`:
  `Spec => DriftDeletesOnlyOutdated`. Neither is inductive: the Pod is built from `rec.agent`,
  which comes from the cache, and the cache from the queue. `OrderInv` therefore orders all
  versions of the Agent that are known anywhere by uid and generation: what a `Reconcile`
  holds is not after what the cache holds, that not after what is on its way, and that not
  after what is stored; a Pod is not after any of them; and the stored generation has one
  spec. `PodInv` says that all views of a Pod agree on its owner and generation, so that what
  was compared is what is deleted.
* `HealingIsFaithful`: without foreground deletion, `Spec => ResurrectsWhatWasDeleted`, and
  `HealingHappensOnce`: without lost answers as well, `Spec => ResurrectedOnce`. `HealInv`
  says that a deleted Agent is kept by the orchestrator's finalizer alone, that every
  goroutine stands for an Agent that is gone, with its last spec, and that did not opt out,
  that no uid is used twice, and, without lost answers, that no two goroutines have the same
  uid and none stands for an Agent that was already healed; it rests on the version check of the `Update` that removes the finalizer (`FreshIsStored`).
  The two hypotheses are needed: in the foreground the Agent outlives its finalizer and
  `handleDeletion` runs again, and a lost answer of `Create` makes a goroutine retry what it
  has done.

* `HistoryTellsNoTales`: without foreground deletion, `Spec => []HistoryIsTrue`, with lost
  answers and restarts. The append comes a step after the `Create`, and in between the Agent
  may be changed, deleted or resurrected once more. `HealInv` says of whom a goroutine speaks,
  and `RecordersHealed` that one about to append has recreated the Agent. The converse, a
  complete audit trail, is false (see above).
* `NoWorkIsForgotten`: `Spec => []NothingForgotten`. A `Reconcile` of an Agent that is up and
  not paused always asks to be called again. One of a paused Agent, or of one that is being
  deleted, may return for good, on the word of caches that lag. `SettledInv` says why that
  is safe: as long as nothing has queued the Agent again, such a `Reconcile` works on the
  versions that are in the caches (`LastCallsCurrent`); the Pod that it deletes for a pause is
  live in the cache, so either the deletion changes the store or the store has changed
  before, and an event of the Pods is due in both cases (`PodCacheCurrent`); an `Update` that
  stores something brings an event of the Agent, and one that finds the Agent gone finds
  the event of that still on its way (`CacheCurrent`). When no event is on its way the
  caches are what is stored. That such a state is reached is a matter of liveness, which
  `PausedDrains` and `HealingCompletes` check.

About `RestApi`, for any clients, requests, workloads, lags and failures:

* `RestTypeCorrect`: `RestSpec => []RestTypeOK`, and `ApiIsClient`: `RestSpec =>
  RequestsAreClients`, which is `Spec` of `AgentController`. Every step of the API is a step
  of a client or stutters, since what a handler writes has the type of a spec; therefore
  every theorem about `Spec` holds under the API, as `ApiKeepsGenerations` shows of
  `PodRunsItsGeneration`.
* `NothingIsReverted`: `RestSpec => NothingReverted`. `RestInv` is `BaseInv` with
  `RestTypeOK` and `SameIsStored`: a copy that is still the `same` is what is stored. For a
  merge patch the property follows from `Merged`; for PUT, which sends back every field,
  it rests on `SameIsStored` and the refusal of any other version. It is a property of fields:
  the list of variables is one field, and a stale merge of variables does replace what another
  merge has put there.
* `EnvWritesAreMeant`: `RestSpec => EnvWritesMeanIt`, for lists of every length, which may hold
  a name twice. `mergeEnvVars` and the filter are recursive functions. `RecursionDefines`
  shows that such a definition defines a function, and what holds after each round of the
  loop (`MergedUpTo`, `KeptOf`) is shown by the smallest round for which it would not hold
  (`Smallest`): a set of numbers has a least element, which stands in for induction.
  `MergeUpserts` and `DeleteDeletes` are the results. The write stores what the handler has
  computed, since the list that was read is still there. The assumption is that the bodies of
  requests hold lists.
* `DeletedStaysDeleted`: without foreground deletion, `RestSpec => DeletedForGood`:
  an Agent that DELETE deleted is resurrected only if it is a successor of the one the handler
  knew. The property is far from inductive: DELETE may find self-healing disabled in a stale copy and
  delete whatever is stored by then. `DeleteInv` says, if nobody enables self-healing
  (`OptInv`): an Agent that has opted out in a version that is cached or on its way has done so
  in the stored one; a DELETE past its first call deletes, if it is still the Agent it has
  read, one that has opted out; and everything in `deleted` that is no successor has opted
  out, in what is stored and in what was removed. A resurrection is of an Agent that did not (`HealInv`), which rests
  on the order of versions (`OrderInv`) and the version
  check of the `Update` that removes the finalizer. `AgentHealingProofs` gives the fact that
  the controller writes no spec (`SpecKept`). `delete` shows that the
  hypothesis about enable is needed; a foreground deletion lets `handleDeletion` run again
  with an older copy.

About `IdleWatcher`, for any number of replicas, any timeout and any bound:

* `IdleTypeCorrect`: `Spec => []IdleTypeOK`.
* `PausesAreIdle`: if all replicas share one store, or there is one replica (`OneStore`),
  `Spec => PausesOnlyIdle`: the timeout has passed without a request, at any replica, whose
  timestamp was stored. The invariant `TouchedSince` says that no timestamp is older than the
  last such request: one that is stored is renewed for all replicas (`Alike`), and seeding or
  losing one makes none older. Nothing can be said of a request whose `SET` was dropped. What `check` compares is less than the age of the timestamp, as it has read the
  clock first. Without `OneStore` the property is false.

About the histories, for any number of goroutines and agents, and any cap:

* `RedisImplementsLog`: `StoresSpec => ImplementsEventLog`. The log of an agent is what `List`
  returns, the whole list. `RPUSH` records its event, and `LTRIM`, whoever sends it and however
  late, evicts the oldest beyond the cap or nothing, so each step of a pipeline is a step of
  `EventLog` or a stutter, and a pipeline that breaks in the middle does no harm.
* `ListsAreBounded`: `StoresSpec => []ListBounded`. The invariant is an account: whoever
  pushes an event beyond the cap will trim, or has broken and is counted (`Accounted`,
  `Trimmers`).
* `MemoryImplementsLog`: `StoresSpec => ImplementsVolatileLog`, the log that a restart empties.

About the caches, for any number of goroutines, fields, objects and units of time:

* `ClearedStaysGone`, `WritesReachTheMap`, `EntriesStayVisible`, from one invariant of the
  memory cache, `MemoryInv`: the map holds the agentCache object made last or none; a call
  holds the object of the map unless a `ClearAgent` overlapped it (`CallsHoldObjects`), which
  rests on the second look that creating an object takes under the lock; and no entry of an
  object is older than the last `ClearAgent` which a call that holds the object has seen
  (`EntriesInEpoch`).
* `IndexIsComplete`: `StoreSpec => []EntriesIndexed`, for any goroutines, ttls and faults. A
  call breaks the cover of the index between its commands, so `IndexInv` says what holds
  there: the index lives as long as the last `Set` keeps it (`IndexLives`); it covers all but
  what is missing, hurt or being set (`IndexCovers`); a clean `Set` past `SADD` is in the index
  (`CleanSetsAdd`) and no other call may remove its field (`CleanSetsAlone`); and what `List`
  or `Delete` is about to remove, and what `ClearAgent` is not going to delete, is missing,
  hurt or being set (`RemovalsAreSafe`). Each way into `hurt` is a divergence listed above.

Only model-checked: all liveness properties (they need fairness and `ENABLED`). `OneToOne`,
`HealingCompletes` with a restart, and the others of the second table are false and have
counterexamples instead.

## Not modelled

Not modelled for good: log streaming and read-only handlers (they change nothing), UI, Helm
chart and CRDs, deep copies, generated documentation, JSON encoding, flags, CORS and logging.

Not modelled: two agents whose names give one Service (`serviceNameFor`), labels and
annotations of the spec that overwrite those of the controller, Services of others: they need
a second Agent, or a payload that is not opaque, in `AgentController`, and the code has no
check there whose workings a model could show. Events and history entries of the REST
handlers: no handler decides anything by them.
