# Verification of the keda-kaito-scaler

TLA+ models of the scaler, the metric cache, the aggregators, the provisioned
scaling formula, the auto-provision controller and the start-up and certificates of
this repository, checked with TLC on small instances, and theorems about them proved
with TLAPS for every value of the constants. Line numbers refer to the files named beside them.

## 1. The system

The program is an external scaler for KEDA plus a controller. A user annotates a
KAITO `InferenceSet`; the controller writes a KEDA `ScaledObject` for it; KEDA and
the HPA ask the scaler, one trigger at a time, for the metrics the formula of the
`ScaledObject` combines; the scaler answers from a cache a background poller fills.

| component | code | state it keeps | operations |
|---|---|---|---|
| metric cache | `pkg/scaler/metric_cache.go` | a map from scrape target to entry (snapshots, window, last access), one mutex | `Current`, `Aggregate`, `ensure`, `refresh`, `poll`, `Start`, pruning, baseline, coverage gate |
| scaler | `pkg/scaler/scaler.go` | none of its own | `GetMetrics` (zero-replica rules, readiness gate, replica count), `IsActive`, `GetMetricSpec`, `StreamIsActive`, `parseScalerMetadata` |
| aggregators | `pkg/aggregator` | none | sum and average over replicas, with compensation for missing ones |
| metric sources | `pkg/metricsource`, `pkg/util/promscrape` | none | scrape model pods or the EPP (router) |
| provisioner | `pkg/scaledobject/provisioner.go` | none | validate the annotations, build the formula, the triggers and the `ScaledObject` |
| auto-provision controller | `pkg/controllers/autoprovision` | the cluster's objects, seen through informers; a work queue | `Reconcile`, predicates, watch of `ScaledObject`s |
| gRPC servers, health | `pkg/scaler/runner.go`, `health.go`, `interceptors.go`, `pkg/util/runnable` | serving state, TLS configuration | start, readiness |
| certificate loaders | `pkg/util/cert` | the last certificate, by resourceVersion | handshake callbacks |
| manager | `cmd` | none | flags, wait for CRDs, wiring |

Interactions: the controller and the scaler share nothing in memory; they meet in
the `ScaledObject` (the controller writes the trigger metadata the scaler parses)
and in the `InferenceSet` (KEDA scales it, the scaler reads its counts and gates on
them, and its node counts decide the controller's maximum). gRPC handlers and the
poller share the cache's map. Every scaler replica polls; only the leader reconciles.

### What is hard, and what makes each component correct

* **Metric cache.** Handlers and the poller interleave between locked sections; API
  reads and scrapes run with the lock released; an entry may be evicted, widened or
  re-created between any two steps. Correct means: a snapshot served is the newest
  (almost: see findings), a windowed average covers its window and is not stretched
  by an outage, pruning never changes an answer, history in use is never dropped,
  and nothing is kept for ever.
* **Formula.** Scale to zero combines OR-activation, AND-deactivation, bands and two
  synthetic triggers. Correct means: whatever is accepted neither flaps, nor parks
  what the backend still serves, nor is a trap.
* **Scaler in the loop.** KEDA samples triggers at different moments, status lags,
  scrapes fail, the poller serves old values. Correct means: no parking of a busy
  workload, no stacking of replicas that warm up, and no way to get stuck at zero.
* **Controller.** Informers lag, calls fail half way, the process restarts, users
  edit the same objects. Correct means: the desired `ScaledObject` comes true in the
  end, objects of users are left alone, scaling is not taken away by accident.
* **Aggregators and sources.** A snapshot is taken service by service while the fleet
  changes; some services do not answer. Correct means: what is made of it is true of
  the fleet, and what is missing neither shrinks nor wakes it.
* **Start-up, certificates, health.** Rotation while handshakes are under way, channels
  that close before the lister shows what they announce, a process that fails and
  starts again. Correct means: the server comes up in the end, serves the certificate
  of the version it read, and the newest one when rotation rests.

The hazards are listed with their lines in `PROJECT.json`.

## 2. Modules

| module | models | extends |
|---|---|---|
| `MetricWindow` | pruning, baseline and coverage gate as operators on a sequence of times | |
| `TargetTable` | what the cache promises the handlers: one table, one step per answer | |
| `MetricCache` | the cache under concurrency; implements `TargetTable` | `MetricWindow` |
| `SampleHistory` | one entry over time, next to the unpruned history | `MetricWindow` |
| `Aggregators` | sum, average and windowed average as operators on snapshots | |
| `FleetMetrics` | a changing fleet, the snapshots taken of it and what is made of them | `Aggregators` |
| `ScalerAnswers` | one `GetMetrics` call, from a trigger the provisioner rendered to its answer | `Aggregators` |
| `ScalingFormula` | validation of thresholds and the formula | |
| `AcceptedFormula` | every accepted configuration under every reading | `ScalingFormula` |
| `ScaleLoop` | the answers in the loop with KEDA, HPA, KAITO and the poller | `ScalingFormula` |
| `AutoProvision` | `Reconcile`, its calls, predicates, watch, queue and informers | |
| `Serving` | start-up, readiness, certificates and handshakes of a process | |
| `MC*` | the instances for TLC | each its module |
| `WindowLemmas`, `*Proofs` | the theorems | each its module, `TLAPS` |

Definitions headed `Faulty:` are plausible mistakes. No action uses them; replacing
the definition after them by one makes TLC refute the property named in
`PROJECT.json`, which shows that the property depends on that code.

### MetricCache and TargetTable

One action per locked section, and one per call made without the lock.

| action | code |
|---|---|
| `Ensure` | `ensure` 141-168, up to the unlock; a new entry goes on to the seed refresh |
| `Current` | the rest of `Current` 175-197 |
| `Aggregate` | `Aggregate`, with the windowed average gated by `WindowCovered` |
| `RefreshLookup`, `GetInferenceSet`, `RefreshFails`, `Evict`, `Scrape`, `AppendSample` | the steps of `refresh` 354-397, for a handler's seed or for the poller |
| `StartPoll`, `NextKey`, `EndPoll` | `poll`: evict the idle, then refresh serially |
| `Tick`, `DeleteInferenceSet`, `CreateInferenceSet` | the clock and the cluster |

`Scrape` reads the clock and `AppendSample` takes the lock: another refresh of the
same target may come between. `AppendDelay` bounds how long, and the clock does not
pass it: a goroutine that is descheduled between two adjacent statements. A snapshot
is only the time it was taken at; its contents are the topic of `FleetMetrics`.

`TargetTable` is the contract of the cache with its callers: a query renews its target
and, in one step, is served from a snapshot at most `staleAfter` old or refused; a
target gets a snapshot at most `Delay` old; it is forgotten only when abandoned or when
its InferenceSet was deleted. The refinement (`Table` in `MetricCache`) keeps of an entry
its window, its last access and the time of its last snapshot, and maps `pc`, stamps,
the poller's queue and the history away: lookups, API reads and scrapes are stuttering
steps. `ImplementsTargetTable` is checked in the run `race` and proved.

### SampleHistory

The entry next to the history the code throws away, which makes the statement of
`PruningIsInvisible` possible. Snapshots arrive in the order of their times, which
is what happens unless a refresh is overtaken; the disorder is `MetricCache`'s topic.

### Aggregators and FleetMetrics

A snapshot maps a service to `Failed` or to a reading (a scalar, a histogram's sum and
count; either may be absent). An average is a fraction. `FleetMetrics` lets replicas
serve requests, join, leave and restart (`Serve` ... `Restart`, external) while a scrape
lists the workspaces (`BeginScrape`, `ModelPodSource.Scrape` 65-75) and asks one
after the other (`ScrapeService`, 77-89). Next to each snapshot the model keeps when each
service was asked and what its load was then, so that `AverageIsExact` can speak of
exactly the requests of a window. A removed workspace's name is not used again (KAITO
generates names). `EPPSource.Scrape` has the same loop over pods.

### ScalerAnswers

`GetMetrics` read by read: `Begin` (parse, refuse, or go on), `AnswerFromStatus`,
`ReadDesired`, `ListWorkspaces` and one `LookUp` per Workspace (`hasModelService`
330-347), `AnswerFromCache` and `ReadFails`. Between two reads the InferenceSet, its
Workspaces and Services change. What the cache holds is any entry of the instance;
which entries are possible is what the cache's own modules say. The triggers are those
`buildTriggers` renders for every combination of type, source, aggregation and window
that `parseMetricsConfig` accepts, and some hand-written ones, so that provisioner and
parser are checked against each other. The InferenceSet and its Workspaces are what the
scaler's informers show (their changes are deliveries, which may be late); Services are
read uncached. `Words` are the names a hand-written trigger may
use where the code expects one of its own.

### ScalingFormula and AcceptedFormula

A configuration is a minimum, a maximum and four optional thresholds per metric. The
formula's text is not built: `Signal` is what evaluating it yields, in halves
(`ScaleUp` 2.0 is 4). Floats are integers, since the formula only compares.
`AcceptedFormula` chooses a configuration `ConfigValid` accepts and lets every trigger
report anything from 0 up (no aggregator reports a negative number,
`service_sum_aggregator.go` 108-111, `service_avg_aggregator.go` 112-116) in any order.
`ConfigValid` is what both validations let through: `parseMetricsConfig` and
`validateActivationRules`, and the controller's own check of the bounds (`BoundsValid`).
An accepted configuration may have a `deactivation` above its `up`; the properties hold
for those too. Every trigger answers here: that the trigger of an accepted model pod
gauge with `sum` never does is `ScalerAnswers`' topic. A threshold may be negative, and
a negative deactivation threshold is never reached: `CanWakeAndPark` says that it is the
only thing that keeps an answering configuration from parking (see findings).

### ScaleLoop

`Ask` is one `GetMetrics` call of an evaluation, so an evaluation mixes answers of
different moments; an error abandons it. `Decide` is KEDA's scale executor, `HPA` and
`HPABounds` the autoscaler. `MetricValue`, `ReadinessGate` and `Answer` are the
scaler's code. KEDA, HPA and KAITO are external and are as free as the comments of the
repository allow: stabilisation windows, policy periods and tolerances only delay
moves, so the HPA here may move at once or not at all; `Cooldown` counts inactive
evaluations. Ready replicas do not crash.

The scaler reads the InferenceSet (`getInferenceSet` 478-487) and the list of its
Workspaces from its manager's informers (`manager.go` 220-221; only Services are read
from the API server, 123-128). `lag` holds the versions of the InferenceSet the informer
has still to replace, `Shown` is the one it shows, `Publish` adds the one a step
supersedes, `Deliver` moves the informer on; `MaxLag` bounds how far it is behind.
`service` is true once a Workspace that the informer shows has its Service, which may be
after the replica is ready. KEDA and the HPA read the count they change from the API
server. One pod of the scaler answers; of several, each has informers and snapshots of
its own.

What that costs: the gate may still show the count before the HPA's last write, so every
version the informer is behind may add a replica, and `OneReplicaAtATime` allows
`1 + MaxLag` missing. An evaluation that asks an informer which still shows the workload
at zero, or none of the Workspaces with a Service, although there is a backend, may park
a busy workload; `BusyIsNotParked` excepts it (`misled`), as it does one during which
a user scales by hand (to a count in `ByHand`), after which KEDA may act on answers
about the old count. Several replicas set by hand are missing at once: `OneReplicaAtATime`
is proved for counts of at most 1 (and minimums of at most 1), and checked for 0.

A metric in `Windowed` is a windowed average: `Blank`, a snapshot whose scrapes all
failed, reads 0 there and is an error for an average over replicas. The main run has
none; the run `outage` shows what one does.

### AutoProvision

One `InferenceSet`, the `ScaledObject`s that target it under two names, and the
informers.

| action | code (`auto_provision_controller.go`) |
|---|---|
| `DeliverSet`, `DeliverObject` | an informer event: the cache moves on, and the predicates 378-421 or the watch 510-521 decide whether the key is queued |
| `Begin` | `Reconcile` up to its first call 83-131: not requested, invalid, requeue for an unknown node count, or go on |
| `List` | `listManagedScaledObjects` from the informer and the choice in `syncDesired` and `cleanupManagedScaledObjects` |
| `CleanUp`, `Deduplicate` | one `Delete` call: NotFound is fine at 236 and an error at 262 |
| `Create` | 252: AlreadyExists is an error |
| `Update` | `reconcileTo`: only if something differs, rejected when the object was written or replaced since it was listed |
| `CallFails`, `Restart` | any call fails and the key comes back rate limited; the process restarts and lists everything |
| `Finalize`, `Collect`, `ReportNodes`, `Park`, `User` | KEDA's finalizer, the garbage collector, KAITO's node counts, users |

The feeds hold the versions that were stored and not yet delivered. With `MaySkip` a
delivery may skip some, as a relist does, and an informer `MaxLag` behind misses the
oldest. An informer read never fails here, and Events, KEDA's status updates (they
only make updates conflict) and KEDA's admission webhook are left out. The bounds and
the metrics list stand for all the fields `reconcileTo` compares; `Accepted` says
which `ValidateConfig` accepts.

### Serving

| action | code |
|---|---|
| `WaitForRequiredCRDs`, `EnsureClusterTriggerAuthentication`, `PrepareResourcesLister` | `Run` 148-170 of `cmd/app/manager.go` |
| `WaitReady` | `waitReady` for the two channels, `runner.go` 65-70 |
| `LoadRootCAs` | `runner.go` 78-115: the client CAs, then listen; an error ends the manager, and the process is started again |
| `Announce`, `SyncCache`, `Probe` | the rotators close the channels; the manager's cache; the health server's `Check` |
| `Hello`, `GetServerCertificate` | `cert/loader.go` 46-78: the lister is read before the lock, the memo under it |
| `ChangeSecret`, `Deliver`, `Crash`, `InstallCRDs` | the cluster |

A certificate is the resourceVersion it came with; a version of a Secret either has
everything a loader reads or not.

## 3. Checks

| run | question | result |
|---|---|---|
| `race` | two overlapping queries with two windows and the poller on one target whose InferenceSet comes and goes; does it implement the table? | holds |
| `live` | does a fair poller get rid of what is deleted or abandoned? | holds |
| `history` | does pruning ever show, and does the gate close again? | holds |
| `formula` | does an accepted configuration flap, park blindly, contradict itself or trap? | holds |
| `loop` | behind a late informer: replicas one at a time, no parking of busy workloads; waking, restoring the minimum, parking | holds |
| `outage` | are replicas that cannot be scraped held? (comments of `Aggregate` and `GetMetrics`) | refuted |
| `provision` | what Reconcile must never do, with stale reads and failures | holds |
| `provision_live` | does the desired state come true after an edit and a failure? | holds |
| `fleet` | is what the aggregations say of a snapshot true of the fleet? | holds |
| `churn` | does replica churn never trip scale-up? (comment of `Aggregate`) | refuted |
| `answers` | is every unscraped 0 earned, every parked workload answered, every accepted trigger served? | holds |
| `serving` | does the server come up, and serve the newest certificate? | holds |

### Bounds, and why they are enough

* Cache: two handlers and the poller cover the pairs of overlapping refreshes, one key
  and two windows the sharing of an entry; the properties speak of pairs of samples
  and of single keys. The clock runs far enough for a window to fill, an entry to
  outlive the TTL and an outage longer than `staleAfter` (1 unit).
* History: up to six snapshots at times 0..9 and windows 1, 3 and 5 give every shape:
  boundary missing, exact, too old, two samples at one time.
* Formula: thresholds 0 and 2 with readings 0..3 give below, at, between and above the
  thresholds and both orders of two thresholds, and -1 one that no reading is below; two
  metrics give every mix of AND and OR.
* Loop: an informer one version behind, and up to three replicas, so that three could be
  missing where two may. A configuration that parks and one that keeps a replica, between
  which the user switches; a cooldown of one evaluation, any number of outages, somebody
  setting 0 by hand. Loads of 0 and 2 lie on either side of every threshold (0 and 1), so
  that growing, shrinking and parking all happen.
* Controller: two names are a duplicate; two user actions can replace an object
  behind the controller's back; one failure hits every call; two uids are a
  recreation. The declarations include two that differ in `nodeCountLimit` alone. All
  Workspaces report the same node count. Liveness is checked with one action and one
  failure.
* Fleet: two replicas are an uneven load, one that joins between two snapshots and one
  that does not answer; three requests of two latencies tell the mean of a window from
  the mean of everything; two snapshots are a baseline and the newest.
* Answers: two Workspaces are one look-up that finds nothing before one that does; six
  snapshots (empty, all failed, nothing exposed, idle, one of two missing, busy beside
  one that exposes nothing); three changes let one Service come and another go during
  a call.
* Serving: two handshakes overlap; five changes let both Secrets be filled, and one of
  them be emptied or removed and filled again; one crash hits every step.

`MaxTime`, `MaxScrapes`, `MaxDeletes`, `MaxSnapshots`, `MaxEdits`,
`MaxFailures`, `MaxUid`, `MaxLag`, `MaxRequests`, `MaxDisturbances`, `MaxChanges`,
`MaxWrites` and `MaxCrashes` bound counters in the guards. Deadlock is off where
everything may come to rest: the full history, the last snapshot of a fleet, the
controller with an empty queue, a process that waits for CRDs nobody installs.

### Fairness

* `MetricCache`: the poller is a goroutine with a ticker (`Start` 313-325) and is
  scheduled; an API read it retries at every poll does not fail for ever (strong
  fairness of `GetInferenceSet` per key). Handlers are not fair.
* `ScaleLoop`: KEDA evaluates, the poller scrapes, and the informer's watch delivers,
  again and again; scrape outages end (`OutagesEnd`), which nobody can do without. The
  HPA, KAITO and the users are not fair; that an informer ever shows a new Workspace is
  not promised either.
* `AutoProvision`: the worker, the deliveries, KEDA's finalizer and the garbage
  collector do not stop; failures and users do (their bounds run out), which is what
  "in the end" means for a controller. Node counts are never promised.
* `Serving`: the process, its informers, the rotators' look at their directories, the
  kubelet's probes and KEDA's calls go on; nobody has to install the CRDs, write a
  Secret or crash.

### Findings

Two statements of comments that the code does not keep, shown by runs and quoted with
their lines in `PROJECT.json`:

* `outage`: `Aggregate` says it returns an error when "scraping has been failing", so
  that KEDA holds. A snapshot all of whose scrapes failed is stored like any other and
  exposes the histogram on no service: the windowed average is then 0 (`metric_cache.go`
  259), and running work may be parked on it.
* `churn`: `Aggregate` says a cumulative reset from churn is 0 and never trips scale-up.
  Count and sum are guarded separately (262-270), so a restart inside the window can
  leave a difference of sums that belongs to more requests than the difference of
  counts: an average above everything observed.

Others met while modelling, without a run of their own:

* The comment of `validateActivationRules` (`provisioner.go` 548-550) says the
  configuration must be able to both wake and park the workload. `finiteThreshold`
  (580-589) accepts a negative deactivation threshold, and no aggregator reports less than
  0: the workload never parks. `CanWakeAndPark` states exactly this exception, and the
  instance has the threshold -1.
* `README.md` 172 derives the maximum from `spec.nodeCountLimit`. A limit that is edited
  while the annotations stay is not noticed (409 compares annotations only): a
  configuration rejected for lack of a maximum stays rejected after it got one.
  `Converges` excepts such an edit (`unheard`), which the instance has.
* `refresh` reads the clock (`metric_cache.go` 387) before it takes the lock, so an
  overtaken refresh leaves an older snapshot last, which `Current` ("its newest fresh
  snapshot", 170-171) serves. `SamplesNearlyOrdered` bounds by how much.
* The watch of ScaledObjects reconciles a child of a MultiRoleInference that the
  predicates filter out (`auto_provision_controller.go` 510); `README.md` 136-138 says
  children are skipped.
* With `nodeCountLimit` set, `max-replicas` is ignored (162); `README.md` 172 and the
  comment at 454 call the limit its default.
* Nor is a node count noticed that changes (`status.targetNodeCount`, 171-181): the
  maximum stays the one of the old count until something else reconciles.
* A gauge of the model pods with `aggregation: sum` is accepted (`provisioner.go`
  241-270) and its trigger refused, "threshold must be specified" (`scaler.go` 397):
  `AcceptedIsServed` excepts it.
* The recovery interceptor is the outermost (`runner.go` 103-106), so the metrics
  interceptor is left by a panic before it counts it, contrary to the comment at 101.
* Readiness does not wait for the listener: the pod may be an endpoint before the
  server listens, or while it is about to end over its CAs (`manager.go` 241-242 says
  "only enters the Service endpoints once KEDA can actually reach us").

Further behaviours the models have and no property forbids:

* `refresh` acts on NotFound after the lock was released, and may evict a target whose
  InferenceSet was created again and which a query just registered; the next query
  seeds it anew.
* A Delete carries no precondition: decided on an old list, it takes a user's object
  that has the name by then. Updates carry the resourceVersion, which is why
  `ByHandIsNotOverwritten` holds.
* `Converges` needs every event: with `MaySkip` it fails when a ScaledObject is created
  and deleted while the watch is broken, since the periodic resync is filtered out by
  the predicate.
* Managed objects created within one second are ordered by the cache's random order, so
  two deduplications on stale reads may delete both (`LastIsKept` assumes different
  ages); the object is created again.
* `hasModelService` is not atomic: a Workspace replaced by another between the list and
  the look-ups reads as no backend although there was one at every moment.
  `ZeroIsEarned` says what does hold.
* Above the threshold a sum counts missing replicas as idle, which may shrink the fleet
  (documented at `service_sum_aggregator.go` 33-34); `MissingIsNotIdle` is about loads
  below it. A replica missing from the baseline alone inflates a windowed average like
  a restart does, which is why `AverageIsExact` is stated for complete snapshots.
* While no replica of the older snapshot exposes the histogram (an empty fleet, or one
  before its first request), a windowed average is 0 whatever was observed since
  (`metric_cache.go` 257-261); `AverageIsExact` says so.
* A histogram that is exposed lazily, and a windowed metric of a router without pods,
  read 0 rather than unavailable.
* The pool of client CAs is loaded once, and the ClusterTriggerAuthentication is written
  once, at the start.

## 4. Proofs

Assumptions are the named ASSUMEs of the modules (types of constants, distinctness of
markers); TLC evaluates them in every run. Every listed theorem is for all values of
the constants.

* **`WindowLemmas`**: what pruning leaves and where a baseline lies, for any sequence
  of times, sorted or not. Cited by the next two.
* **`MetricCacheProofs`**: `TypeOK`; `SamplesNearlyOrdered`; `AverageSpansItsWindow`;
  `KeptWhileInUse`; `OnlyQueriesRegister`; `ImplementsTargetTable`. The inductive
  invariant adds that no sample and no stamp in flight is from the future, that the
  clock is at most `AppendDelay` ahead of a stamp in flight (so what is appended is at
  most that much older than anything present), and that a process about to evict saw
  its InferenceSet deleted (`EvictionsJustified`), which is what makes an eviction a
  `Forget` of the table. The refinement has one step per action.
* **`SampleHistoryProofs`**: `TypeOK`, `PruningIsInvisible`, `KeptIsBounded`,
  `CoverageIsStable`. The invariant says that the samples kept are a tail of the sorted
  history and that everything dropped, and the sample after it, is at or before the
  boundary of every window the entry ever had.
* **`AcceptedFormulaProofs`**: `TypeOK`, which says that the configuration in force is
  one that validation accepts, and the four properties, for any number of metrics,
  thresholds and readings. Flapping is excluded because an activation threshold is never
  below its metric's deactivation threshold. `CanWakeAndPark` is proved for metrics that
  may have any value from 0 up: a value above every activation threshold wakes, and the
  reading of all zeros parks unless a deactivation threshold is negative.
* **`ScaleLoopProofs`**: `TypeOK`; `OneReplicaAtATime`, for minimums of at most 1 (a
  larger minimum starts that many at once), 0 or 1 set by hand, and any lag of the
  informer. The invariant (`Behind`) compares what is missing now with what was missing
  in each version the informer has still to show: since then at most one replica per
  version was added. An open gate shows a version with none missing, so at most `MaxLag`
  are missing when the HPA adds one. `BusyIsNotParked`, from an invariant about what the
  answers already collected say of the count and of the metrics that were idle, unless the
  evaluation was misled. Its assumption is that no metric that parks is windowed; the
  run `outage` is the counterexample without it.
* **`AutoProvisionProofs`**: `TypeOK`, which includes that every object the controller
  writes has a legal maximum; `ByHandIsNotOverwritten`; `LastIsKept`. The invariant of the
  second (`Latest`, `KeptIsOurs`) says that an informer with nothing to be delivered has
  the stored version, hence that the object an Update is about to replace is the
  controller's own unless it was written since the list, in which case the update is
  rejected. The invariant of the third (`PeaceInv`) says that while auto-provisioning is
  on and nobody deletes, the InferenceSet is the same for everybody and is switched on,
  and either only one name was ever managed (`Sole`) or there is an object that lasts
  (`Keeps`): every version of it, stored, cached or still in the feed, is managed, is
  not being deleted and has the same age, and every managed version of the other name
  is younger. Whatever mixture of versions `List` reads, it sees the lasting object or
  nothing older than it, and so never chooses it for deletion.
* **`ServingProofs`**: `TypeOK`, which includes that a server that listens has client
  CAs; `ServesWhatItRead`, from the invariant that the memo's certificate is the one of
  the version it is marked with.
* **`AggregationProofs`**: what is computed of a fleet, and what a call answers.
  * Sums over finite sets. `SetInduction` is induction over a finite set, stated with a
    set of subsets instead of a predicate, from the well-foundedness of the strict
    subset relation. From it: the fold behind `SumFunctionOnSet` exists and does not
    depend on the order of its `CHOOSE`s, it splits over disjoint sets, it is monotone,
    and it is bounded by bounds of its terms.
  * Aggregators: the service average lies between two loads, the compensated sum covers
    the real load when every service's load is below the threshold, a sum without
    compensation adds nothing for what is missing.
  * Fleet: `FleetTypeOK`, `AverageIsExact`, `AverageIsReal`, `MissingIsNotIdle`. The
    invariant (`FInv`) ties every snapshot to the log of all requests: a service's
    histogram is the sum and the count of exactly the requests made to it since its
    process started and before it was asked (`Answers`), and between two complete
    snapshots without a leave or a restart every process of the older one is a process
    of the newer one with the same start, while a process that only the newer one has
    served nothing before the older one was taken (`Linked`). The two sums then differ
    by the requests in between, once the older snapshot exposes the histogram at all.
  * Answers: `ParkedIsAnswered` and `ZeroIsEarned`, from an invariant (`IInv`) that ties
    the history of the call to the cluster as it is: a Workspace that had its Service all
    the time and was not looked up yet is still in the list, and beyond the first read
    some count other than 0 was seen. `TypeOK`, `NoPhantomDemand` and `AcceptedIsServed`,
    from an invariant (`AInv`) that the metric asked for is a parsed trigger, that a
    metric answered from the status alone never gets to the later reads, and that a call
    returns one answer; and from the lemma that the parser accepts every trigger
    `buildTriggers` writes for an accepted entry, but for the sum of a model pod gauge,
    as one the scaler can reduce.

Every safety property the passing runs check is stated by a theorem. Only model-checked
are the liveness properties (`DeletedIsForgotten`, `AbandonedIsForgotten`,
`DemandIsServed`, `MinimumIsRestored`, `IdleIsParked`, `Converges`, `EventuallyServes`,
`RotationIsServed`), which are out of the prover's reach, and the refutations.

## 5. Not modelled, and the plan

Done: cache, formula, loop, controller; the cache's abstract specification and its
refinement; aggregators and fleet; the answers; start-up and certificates; a theorem for
every safety property. Next:

1. `PollCadence`: serial refreshes with durations; how long a slow target delays the
   others against `staleAfter`.
2. An abstract specification of the controller (desired and actual) that
   `AutoProvision` implements.

Not modelled, and why:

* `IsActive`, `GetMetricSpec` and `StreamIsActive` (`scaler.go`): no state; they answer
  from the metadata alone.
* The interceptors (`interceptors.go`): counters of Prometheus and translation of
  panics; nothing else reads them.
* HTTP, the Prometheus text format, discovery of router pods, URLs: I/O. A reading is
  what the parser leaves of it: summed scalars and merged histograms.
* How a sum of many services is rounded, infinities and NaN: numbers are integers.
* Parsing of numbers, durations and names in annotations and metadata.
* HPA durations, policies and tolerances, rendering of the formula's text, Events,
  logging, flags, profiling, the chart and the build: wording or I/O with no state a
  model would tell apart.
