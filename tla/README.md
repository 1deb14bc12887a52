# Verification of the Vector sandbox

This directory holds TLA+ models of the programs in
`src/stackit-mock-implementation` and of the reference pipeline whose
configurations stand in `src/study/stackit-architecture-interactive/nodes.js`,
the TLC runs that check them on small instances, and theorems about them that
TLAPS proves for every value of their constants. Paths below are relative to
`src/stackit-mock-implementation` unless they start with `src/`; `nodes.js` is
the file named above.

1. [The system](#1-the-system): components, state, operations, what is hard
2. [The modules](#2-the-modules): what is modelled and how it corresponds to the code
3. [The runs](#3-the-runs): what TLC checks, the bounds, the fairness
4. [What the code does not do](#4-what-the-code-does-not-do): the counterexamples
5. [The theorems](#5-the-theorems): what is proved, from what, along which argument
6. [Not modelled](#6-not-modelled)
7. [Plan](#7-plan)
8. [How to run it](#8-how-to-run-it)

## 1. The system

A user describes a telemetry pipeline in a custom resource, a `TelemetryRouter`.
The operator renders it to a Vector configuration and keeps a ConfigMap, a
Deployment and a Service in line with it. A new configuration is on trial for
20 s (`reconciler.go:41`); when the Vector pods crash-loop at the end of it, the operator restores
the configuration before. A REST API offers the same resource to clients that
do not speak to Kubernetes, and a monitor polls Vector's health for it. A toy
price service sends telemetry through the pipeline.

What such a pipeline looks like at full size is in `nodes.js`: the Go code that sets
up an SDK, the collector on every node, and the sources, VRL programs, routes,
buffers and sinks of Vector. An event passes SDK, collector, source, transforms, a
buffer per sink, and a batch per sink. `nodes.js` speaks of end-to-end acknowledgements
(454, 704), but none of its configurations, and none of the rendered ones, turns them on, so
the source acknowledges an event as soon as it has taken it
(`src/study/jansen-call-deep-dive.md:341`).

| Component | State it keeps | Operations | Hard behaviour |
|---|---|---|---|
| Reconciler (`operator/internal/controller/reconciler.go`) | none in memory: the CR's status (phase, deployed hash, last-known-good hash, bad hash, start of the window), the CR's finalizer, and the ConfigMap's annotation that holds the previous configuration | `Reconcile` (finalizer, render, skip, validate, promote, roll back, apply children, status), `handleDeletion` | many calls in a pass, each may fail or be followed by a crash, with the pods going on while the operator is down; reads come from caches that lag; passes are triggered by watch events, including those of the operator's own writes; two operators during a rolling update; a validation window that must be neither cut short nor started again |
| Operator process (`operator/main.go`, `StartAPIServer`) | a context, a wait group, the manager | signals, start and end of three goroutines, exit codes | shutdown order; who cancels whom; a wait group that must cover what it is said to cover |
| Health cache (`VectorHealthCache` of `operator/internal/api/server.go`) | three fields under an `RWMutex` | `Set` by the monitor, `Get` by the handlers | a handler between two of the writer's assignments |
| REST API (`operator/internal/api/server.go`) | none | list, get, create, update (PUT), patch, delete | read from a lagging cache, then write; requests side by side and beside the operator |
| Rendering (`operator/internal/vector`) | none | `Render`, `Hash`, `sanitize`, `prometheusBase` | names that collide after `sanitize`; which specs change the hash |
| Price service (`customer-app/app.py`) | the order book, the price table, two counters | prices, orders, simulated traffic | random ids that collide; a gauge that must return to zero |
| SDK and collector (`nodes.js` 32-122, 252-309) | spans of undecided traces, verdicts, batches, all in memory | sample, refuse, hold, decide, batch, export, retry, give up | late spans; a verdict that must hold for all of a trace; a limit over all that is held; a deadline that races the router; crashes |
| Transforms and routes (`nodes.js` 151-177, 371-391, 460-564, 593-678) | none | the VRL programs, two routers | programs that abort or fail half-way; the order of checks, replacements and derivations; routes that overlap |
| Source, buffers and sinks (`nodes.js` 460-477, 713-738, 802-830, 947-977, 1019-1046) | a queue, two stages per sink, the part of the disk stage that is not flushed, the batch that is being sent | take and acknowledge, fan-out, overflow, drop, block, flush, send, retry, give up | one full buffer beside others; a crash that loses what is not on disk; clients that send again; lost answers |
| CRD, manifests, observability stack, Makefile, scripts, study notes, queries and dashboards in `nodes.js` | static | - | - |

Interactions. The reconciler and the REST API never call each other: they share
the `TelemetryRouter` on the API server, which arbitrates by resource version.
The reconciler reads through controller-runtime's informer cache and is woken by
watch events on the router and the three owned kinds, and by `RequeueAfter`. The
pods read the ConfigMap, so the configuration changes under a running pod, and a
crash-looping pod picks up whatever the ConfigMap holds when it restarts. The
REST server, the monitor and the manager run in one process and share the
context of the signal handler and the health cache.

What makes each of them correct:

- reconciler: a verdict only after a full window, and no window started twice for
  one rollout; what is promoted is healthy and what is flagged crashes; the
  snapshot that a rollback restores is the last-known-good configuration; what
  the status reports is what is deployed; a flagged spec is skipped only because
  the good one is deployed; no edit of the user is undone; no child without a
  finalizer that drains it; every healthy spec is deployed in the end, every
  crashing one rolled back, every deleted router gone with its children;
- process: an answer about health describes one check; an exit with 0 leaves
  nothing half done; a signal ends the process, and so does a failed manager;
- REST API: the finalizer survives a PUT made from an old copy; two writes side by
  side do not undo each other; an answer shows what was written;
- SDK and collector: only traces with a reason are forwarded; a collector treats the
  spans of a trace alike; it holds no more than it may; an error that comes in
  time gets out; nothing stays for ever;
- transforms: what is stored is scrubbed and from the EU; the SIEM gets the errors and
  only them, the archive everything; no event from outside the EU is tagged for the SIEM;
- delivery: an event that is taken stays on its way to every sink that wants it, unless a policy or
  a crash takes it; a crash takes nothing that is on disk; the sinks that keep everything get all the
  rest, whatever the others do;
- rendering: distinct destinations remain distinct; equal specs render equally;
- price service: counters, order book and answers agree.

The hazards, each at its line with the properties that cover it, are in
`PROJECT.json`.

## 2. The modules

| Module | Lines | What it is |
|---|---|---|
| `Reconciler` | 707 | the reconciler, the cluster around it, the user |
| `ReconcilerProperties` | 407 | its type invariant, properties, inductive invariants, refinement mapping |
| `RolloutProtocol` | 83 | the abstract specification of the status: trial, verdict, window |
| `MCReconciler` | 5 | the module TLC runs |
| `OperatorProcess` | 373 | signals, manager, wait group, REST server's life, monitor, health cache |
| `RestApi` | 276 | the handlers, beside the operator and the informer |
| `MCRestApi` | 7 | adds the symmetry set |
| `SignalRouting` | 347 | sources, transforms, routes and what each sink reads |
| `Delivery` | 333 | source, queue, fan-out, buffers, sinks, clients, destinations |
| `Custody` | 67 | the abstract specification of delivery |
| `SinkConfig` | 27 | the settings of the five sinks with buffers |
| `MCDelivery` | 36 | `Delivery` with the sinks of `SinkConfig` and the transforms of `SignalRouting` |
| `TailSampling` | 281 | SDK, collectors, the way to the router |
| `MCTailSampling` | 14 | a trace, a metric, a node |
| `Reconciler_proofs`, `ReconcilerSafety_proofs`, `ReconcilerRollback_proofs`, `OperatorProcess_proofs`, `RestApi_proofs`, `SignalRouting_proofs`, `Delivery_proofs`, `TailSampling_proofs` | | theorems |

`RolloutProtocol` is instantiated by `ReconcilerProperties` under a refinement
mapping. `RestApi` and `Reconciler` overlap on the router: `RestApi` reduces
the operator to what it may do to a router at any time (`AddFinalizer`,
`WriteStatus`, `RemoveFinalizer`), and `Reconciler` reduces the REST API to the
edits it can make (`CreateRouter`, `EditSpec`, `DeleteRouter`). `OperatorProcess`
reduces a pass to its beginning and end. Nothing in the code couples them more
tightly than that.

`TailSampling`, `SignalRouting` and `Delivery` follow one another along the pipeline.
`Delivery` instantiates `Custody` under a refinement mapping, and `MCDelivery`
joins three modules: which sinks an event is meant for (`Wanted`) is computed with the
VRL program of `SignalRouting`, and capacities and policies come from `SinkConfig`.

### Reconciler

One router name. A configuration is the rendered TOML, identified with its hash;
`Crashing` are those that put Vector into a crash loop.

A pass is cut at its calls to the API server, because anything else may happen
between two of them. `worker[o].pc` names the next call:

| `pc` | action | code |
|---|---|---|
| `idle` | `StartPass`: `Get`, and all that follows up to the first call | `Reconcile`, 68-133 |
| `addFinalizer` | `AddFinalizer` | 79-85 |
| `drain` | `DrainCheck` three times, then `RemoveFinalizer` | `handleDeletion` |
| `check` | `CheckPods`: list the pods, promote (in the copy in hand) or roll back | 135-165, `isVectorCrashLooping` |
| `rollback` | `RollbackConfig` | `rollbackConfig` |
| `rollbackDeployment`, `deployment` | `ApplyDeployment` | `reconcileDeployment`, called from two places |
| `rollbackStatus` | `WriteRolledBack` | 152-160 |
| `configMap` | `ApplyConfigMap`: snapshot and overwrite | `reconcileConfigMap` |
| `service` | `ApplyService` | `reconcileService` |
| `status` | `WriteStatus` | 183-232 |
| `fail` | `SetStatus`, whose result is the result of the pass | `setStatus` |

Calls. `Call(accepted, applied, ok)` separates what the server could serve, what
it did and what the caller heard: a fault can lose the request or only the
answer. A write is `accepted` if the copy it was made from is the current
version; `fresh` and `worker.current` keep track of that in place of version
numbers. Creating an object that exists is refused. `Return` says whether an
error puts the router back in the queue and whether a `RequeueAfter` is armed.

Reads come from `cache[o]`, the informers' copies. `Deliver` brings one kind up
to date and enqueues the router, as the watch does. Informers jump to the latest
version and skip the ones in between (an event queue that compresses): what the
operator can see in between, it can also see by reading late. Lagging copies are
only read when `StaleReads` is on.

`left` stands for `validatingStartedAt`: the ticks until the window closes. It
ages in every copy at once, since it is a point in time and not a stored counter.
RFC 3339 cuts the start to a second, so the real window may be up to a second
short of 20; a tick is longer than that.

Pods: `pods` is the set of configurations that running Vector containers have
loaded. `CheckPods` sees a crash loop if a pod of it is there; unless the pods
are settled it may also miss it, because a container shows `CrashLoopBackOff`
only between two attempts (`Sightings`). The garbage collector removes children
whose owner is gone; a deleted Deployment takes its pods with it.

The environment is limited by named switches and bounds:

- `Prompt`: the clock and the pods move only when no operator that runs has anything to do
  (`Quiet`), and the last tick of a window only when the pods have loaded the
  configuration. It says that passes, retries of failed calls included, take milliseconds, pod
  restarts seconds and the window 20 s. An API server that stays away for long in the
  middle of a pass is outside of it.
- `SettledEdits`: the user edits only a router that is `Ready` or `RolledBack` while every
  operator is at rest, and creates one only when the children of an earlier one are gone.
- `Deletions`, `MaxCreates`, `MaxEdits`, `MaxFaults`, `MaxRestarts` bound what the
  user and the failures may do.

An operator stops with `Crash`, by a crash or by a signal, at any step of a pass, and starts again with
`Boot`. In between it is `down` for as long as it takes: the clock runs, pods start, crash and
retire, the garbage collector works, and `Prompt` does not hold any of them up, since the operator
that is down is not about to do anything. A crash forgets the pass, the caches, the queue and the
timers; a boot lists the cluster and queues the router. `torn` remembers whether an operator has stopped after a
rollback had written the ConfigMap and before its status: then the pods restart on the restored
configuration, and the next operator takes their health for that of the spec (section 4).

A spec that does not render is not modelled: the template is fixed and executes
on every spec that the CRD's schema admits, so `ConfigError` is unreachable in
practice.

### RolloutProtocol

The status as its reader sees it: `trial`, `good`, `bad` and `left`. A trial
starts with its full window and only for a configuration that is neither
promoted, nor flagged, nor on trial; it ends in a verdict only when the window is
over; or it is abandoned. `FollowsProtocol` says that every step of the reconciler
is one of these or changes none of the four.

### OperatorProcess

`main` is in `mgr.Start`, then in `wg.Wait`, then exited. The REST server is two
goroutines: the one of the wait group, in `ListenAndServe` (`api`), and the one
that waits for the context and calls `Shutdown` (`shutdown`). The monitor is in
`select`, in a check, or in one of the four steps of `Set` (lock, then three
assignments, the last one with the unlock). Handlers take the read lock and copy.
`results` records what each check found so that an answer can be compared with
the check it is said to describe. Exit ends every goroutine, so every action has
`Alive` as a guard.

### RestApi

A request slot is `idle`, `received`, at its `write`, or `answered`. PUT and DELETE
are cut in two (`ReadCopy`, then the write), because they read first; POST and
PATCH are one call. `Store` lets the answer of a successful write be lost. A
PUT sends the whole copy that the `Get` returned, finalizers included, with its
resource version; a PATCH is merged into the spec on the server; a DELETE carries no
precondition. The spec is a function from `Fields` to `Values`; a patch is one on
a subset of the fields.

### SignalRouting

`emitted` is what went through each port, `handled` what each transform has read;
actions and operators have the names of the sources, transforms and sinks. A VRL
program is an operator from an event to the set of what it leaves: `{}` if it
aborts. An operator that can fail says so with `OnError`: Vector forwards the event
unchanged unless `drop_on_error` is set, and no configuration sets it. A log body is
the set of its words that some program tells apart: an IPv4 address, hints of a level, and mail
addresses at a domain, at a numeric host and at a host without a dot (`localhost`), each with and without
"error" before the `@`. Regular expressions are modelled by what they do to these words: 600 replaces an
address at a domain, 603 only the host of one at a numeric host, and neither touches the third kind.

One event at a time is in the pipeline, since the transforms keep no state between
events; what runs side by side are the branches behind a port with several readers.

### Delivery and Custody

A request is an event and the number of a copy. `Send` is a client's request that the source takes
and answers at once; the answer may be lost, and then the client sends another copy while the first may
still be on its way. The queue, the fan-out (`current` and `todo`, the sinks that have
not taken it yet), both stages of each buffer, the batch in flight and its failed tries
are as configured. `HandOver` gives the request to every sink that can take it at once;
with `block` the fan-out stays where it is. An event stays on disk until its batch has
ended, and leaves memory when it is sent. What is written to a disk stage is `unflushed` until
`Flush`, every 500 ms (`jansen-call-deep-dive.md:256-259`). `Crash` empties the queue, the fan-out, the memory stages and the
batches, and takes what is unflushed from the disk stages. Vector is back at once: while it is down nobody
can do more than fail to reach it, so the time in between needs no state.

Abstractions: buffers are sets, so batches are taken in any order; capacities are cut down
to one event; `retry_max_duration_secs` is covered by the number of tries. What a sink has
delivered leaves the disk stage for good at once, whereas Vector may read it again
after a crash; the destination would get a copy.

`Custody` is about the sinks that block and never give up (`Keeping`). It has what such a sink is
owed, what is kept for it on disk and what is stored; an event is accepted, then kept, then stored,
or stored right away; a crash takes what is owed and nothing that is kept; and what is owed or
kept is stored in the end if it is not lost. `KeepsItsPromise` is the refinement.

### TailSampling

`place` follows each span, metric and log record through the application, the stages of the
collector on its node, and to its end. `Accept` is `memory_limiter` and then `tail_sampling`,
for spans; `Decide` judges what is held `decision_wait` after the first span; later spans follow
the verdict (`PlaceFor`). Each pipeline has a batch of its own; the exporter sends one at a
time, is retried until `max_elapsed_time`, and the answer may be lost (`LostAnswer`). `Crash`
loses what the collector holds and its verdicts. The limiter counts items in place of
bytes, and the verdicts are kept for ever in place of the cache of recent ones.

## 3. The runs

| Run | Question | Instance |
|---|---|---|
| `rollout_faults` | Does the status follow the protocol, is no edit undone and no child unprotected, with an edit and a deletion at any moment, pods and a clock that wait for nobody, a failed call and a crash with any downtime? | 1 operator, 1 healthy and 1 crashing configuration, window of 1 tick (791 000 states) |
| `rollback_faults` | Is what is promoted healthy (unless a crash tears a rollback), what is flagged crashing, the snapshot the good configuration and the report true; do healthy specs converge, crashing ones roll back (with the same exception), deleted routers go away; with a failed call and a crash with any downtime anywhere? | 1 operator, 1 healthy and 1 crashing, window of 2 ticks, 2 edits, deletion (59 000) |
| `rollback_lag` | Does `RolloutSound` hold with caches that lag and a crash? | 1 operator, 2 healthy and 1 crashing, window of 1 tick, 2 edits, deletion, no failed call (435 000) |
| `rollback_overlap` | And with two operators, one of which may go down? | 2 operators, 2 healthy and 1 crashing, 2 edits, 1 crash (485 000) |
| `operator_process` | Is an answer about one check, an exit with 0 clean, a signal final? | 2 requests, 2 checks |
| `rest_api` | Do finalizer and fields survive writes side by side; do answers show writes? | 2 requests at a time, without end; 2 fields of 2 values |
| `signal_routing` | Is what is stored scrubbed and from the EU, do SIEM and archive get what is theirs? | every event of every kind, bodies of up to 2 words |
| `delivery` | Does nothing vanish but by a policy or in a crash before it is on disk; does the archive get all the rest while SIEMs are down? | 2 events, 3 sinks with buffers of 1, 2 copies, 1 fault: a crash, a lost answer or an outage (103 000) |
| `tail_sampling` | Is only what is notable forwarded, is a trace treated alike, is the memory bounded, do errors and everything else get out? | 1 node, 1 trace of 3 spans, 1 unsampled span, 1 metric, limit 2, batches of 2, 1 crash |
| `crash_in_rollback`, `edit_during_validation`, `requests_cut_off` | the counterexamples of section 4 | as small as shows them |

Why the bounds are enough. The interesting histories of a rollout are: nothing
deployed, good deployed, good after good, bad after good, bad at first, an edit of a
rolled-back router, an edit back to the flagged one. Two edits reach all of them, with two
configurations or, where a second good one makes a difference (`rollback_lag`, `rollback_overlap`), with
three; a third edit only repeats one. One fault and one crash fall
on every call, in both its forms (request lost, answer lost) and between every two calls, and every
crash is followed by all that pods, clock and garbage collector can do meanwhile. A
window of one tick separates "open" from "over"; `rollback_faults` has two, so
that a window can also be half over. Two checks are the least with a torn
answer, two requests the least with a lock held by readers. Two fields are
the least for a patch that does not name the other writer's field. What the
bounds cut off, the theorems of section 5 cover for the properties that
hold in every environment.

For the pipeline: two words are the least for two hints, or a hint beside an address. Buffers
of one event and two events make one wait or be dropped, and a second copy of an
event meets the first in the same buffer; the three sinks are one per kind (drop,
block with retries for ever, block with a last retry), and `s3_archive` and `logme_opensearch`
are like the second. `TypeOK`, `NothingVanishes` and the safety part of `KeepsItsPromise` were also
checked with two faults (827 000 states). Three spans are the least for a trace that is notable by an error, by two
spans that are slow only together, or not yet; a limit of two refuses while a trace
is held.

`CHECK_DEADLOCK FALSE` in the runs of `Reconciler`, `OperatorProcess` and the pipeline: once the
user has used up the edits, the process has exited, or all events are through, there is
nothing left to do.
`rest_api` never stops and is checked for deadlock.

Fairness. `Reconciler`: a worker that can go on does, events and timers arrive, the
garbage collector works, and an operator that is down is started again, which is what its Deployment
is for (weak fairness of each); users, faults and crashes need not happen. The clock and the pods have strong fairness, because under `Prompt` they
wait for an operator at ease, and a pass may disable them again and again; in the
cluster they do not wait for it, so they must not be starved by it. Informers
resync every 10 hours by default and would restart a stuck router; nobody waits for
that, and the model leaves it out. `OperatorProcess`: every goroutine that can go
on does; `MonitorStops` has strong fairness because `select` picks at random
between a tick and the end of the context, so that it takes each in the end.
Signals, failures and requests need not come. `SignalRouting`: the transforms run.
`Delivery`: fan-out and sinks do what they can, and the destinations in `Reliable` come back; of the
clients nothing is asked, nor of a `Flush`. `TailSampling`: the clock runs
and a collector does what is due; the exporter has strong fairness because its batch may
disappear in a crash and the router may come and go; nothing makes the router come
back.

## 4. What the code does not do

Each of these is a run that ends in a counterexample, and a finding of `PROJECT.json`.

- `crash_in_rollback`. A rollback writes ConfigMap and Deployment (143-149) and only then the
  status (159). Stop the operator in between, by a crash or by an ordinary restart. While it is away
  the crash-looping pods restart on the restored configuration. The next operator finds the phase
  `Validating` with its window over, looks at the pods (135), finds them healthy, promotes the
  configuration that crashed (164) and deploys it again. From then on it counts as the last-known-good one, and nothing
  takes it back. This is the `torn` of `PromotedIsHealthy` and `CrashingRollsBack`; both hold when an
  operator stops anywhere else.
- `edit_during_validation`. `reconcileConfigMap` snapshots what the ConfigMap holds
  before it overwrites it, whether that was validated or not. Edit the spec while a
  configuration is on trial, and the unvalidated one becomes the rollback target,
  where `reconciler.go:30-32` promises the last that passed validation.
- `requests_cut_off`. The wait group covers the goroutine in `ListenAndServe`, which returns
  as soon as `Shutdown` is called; `Shutdown` itself, which waits for the requests in
  flight, runs in a goroutine nobody waits for.

Counterexamples that TLC also finds, with the instance that shows them, but that no
run keeps:

- Swallowed errors (`HealthyConverges` with one configuration, two failed calls, no edits,
  restarts or deletions). A failed step returns what `setStatus` returns, not the error.
  What retries is the watch event of that status write. Two failures with the same message
  and no status change in between: the second write changes nothing, has no event, and
  the router stays as it is.
- A first configuration that crashes (`CrashingIsFlagged` with one operator, one crashing
  configuration, no edits, no faults). There is no snapshot, so the rollback fails, the
  phase becomes `RollbackFailed`, the hash is not flagged, and the next pass starts a new
  window, for ever.
- A manager that fails by itself (`FailedManagerExits` with one request and one check).
  Nothing cancels the context that the two goroutines wait for. In a cluster the liveness
  probe fails once the manager's probe server is gone and the kubelet stops the process,
  which is the signal that the model does not oblige to come.
- Two operators with lagging caches (`rollback_overlap` with `StaleReads`): `RollbackTarget` fails;
  the second operator snapshots the configuration that the first has just
  written.
- Two operators and a failed call: `ReportsDeployed` fails.
- A failed call beside lagging caches (`rollback_lag` with `MaxFaults = 1`, one edit):
  `PromotedIsHealthy` fails: the error status takes a router out of its trial, and a
  pass that still sees the old one promotes on pods that do not run the new configuration.
- An edit back to the flagged spec while another is on trial: the pass ends at
  the bad-hash check (line 101) and leaves the unvalidated configuration deployed.
- A GET, PUT or DELETE right after a POST reads the informer cache and may answer 404;
  `scripts/test.sh:107` issues that GET and expects 200.

They are why the second group of properties is checked with one disturbance at a
time: failed calls (`rollback_faults`), lag (`rollback_lag`), overlap (`rollback_overlap`), each
beside a crash. `Prompt` is an assumption here, too: an API server that fails for as long as it takes the pods to
restart, in the middle of a rollback, would have the effect of `crash_in_rollback`.

In `nodes.js`, the following is in the models as it is configured; no property forbids it:

- A log whose body is no string fails `pii_and_enrich` at line 599, before anything
  is scrubbed and before the region is checked, and is forwarded as it came; likewise
  an audit event from outside the EU at the failed `assert!` of `normalise_audit` (560). Line 585
  says of such an error that "event is dropped", which takes `drop_on_error`.
- Attributes such as `actor.email` and `actor.ip` (351-352) are not scrubbed, and of an address at a
  numeric host the part before the `@` stays (600: letters are wanted after the last dot).
- An address at a host without a dot (`user@localhost`) is not replaced at all and is stored as it
  came. Where the part before the `@` stays and contains "error", the log counts as an error (622) and
  goes to the SIEM. `SiemOnlyErrors` and `OnlyCleanLogsStored` are stated accordingly.
- Debug logs are dropped for every sink, the cheap archive included (632-634, where 654 and
  772 want everything there).
- `audit_filter` reads `source_audit`, which nobody declares, and the three `argus_*` sinks read
  outputs that `route_by_severity` does not have. No sink reads `process_logs`,
  `process_metrics`, `process_traces`, `enrich_metrics`, `drop_on_pressure`, `k8s_enrich`, `normalise_audit` or
  `audit_filter`: metrics, traces, container logs and audit events reach no sink at all.
- `customer_siem` and `logme_opensearch` overflow to a disk stage without `when_full`, which blocks:
  when one of them is down long enough, the fan-out stops for every sink, where line 703 says
  that "one slow sink doesn't block others". `customer_siem` goes on when it gives a batch up after
  its last retry; `logme_opensearch` never does, so its destination may stop the archive for good.
- End-to-end acknowledgements are promised (454, "source won't ACK until sink confirms delivery", and
  704) and not configured: that takes `acknowledgements.enabled` on source and sinks
  (`jansen-call-deep-dive.md:386-397`). As it is, an event that was acknowledged is lost when Vector crashes
  before the event is on disk, in the queue, in a memory stage or in the half second before a flush; so
  the disk buffer of `compliance_archive` does not keep the promise that "compliance data must not be
  lost" (973). TLC finds it in three states (`Send`, `Crash`) as a counterexample to
  `e \in acked ~> e \in delivered["compliance_archive"]`, with one event and that sink alone. What remains true is
  `KeepsItsPromise`: nothing that is on disk is lost, and nothing without a crash.
- `customer_siem` reads everything (804); the CRD that should yield it says `severityMin: ERROR`
  (847). `delivery` takes the latter.
- The SDK samples a tenth of the traces by their id (57, 120-122) before the collector can see
  an error, and a collector per node (252) judges its part of a trace only, where line 246
  promises complete ones.

## 5. The theorems

All proofs are for every value of the constants that the named assumptions admit: finitely
many operators, any configurations, any `Replicas` within 1..5, any window, any
bounds; for `OperatorProcess`, any number of requests and of checks; for `RestApi`, any
number of requests, of values, and finitely many fields; for the pipeline, any number of
events, sinks, capacities, copies and faults, and any nodes, traces, spans, times and limits.

| Theorem | States |
|---|---|
| `Reconciler_proofs!Typing` | `TypeOK` |
| `ReconcilerSafety_proofs!Invariance` | the inductive invariant `IInv` |
| `ReconcilerSafety_proofs!Protection` | `ChildrenProtected` |
| `ReconcilerSafety_proofs!EditsSurvive` | `SpecOnlyByUser` |
| `ReconcilerSafety_proofs!Refinement` | `FollowsProtocol` |
| `ReconcilerSafety_proofs!VerdictsHold` | `Verdicts` |
| `ReconcilerRollback_proofs!OrderlyInvariance` | the inductive invariant of an orderly cluster, `OInv` with `Gone` |
| `ReconcilerRollback_proofs!PromotionsAreHealthy`, `FlagsAreEarned` | `PromotedIsHealthy`, `FlaggedIsCrashing` in an orderly cluster |
| `ReconcilerRollback_proofs!TrialsCanBeUndone`, `SkippedIsRolledBack`, `ReportsAreTrue`, `RolloutIsSound` | `RollbackTarget`, `FlaggedHoldsGood`, `ReportsDeployed`, `RolloutSound` in an orderly cluster |
| `OperatorProcess_proofs!Typing`, `AnswersDescribeOneCheck`, `ExitIsClean` | `TypeOK`, `HealthIsOneCheck`, `CleanExit` |
| `RestApi_proofs!Typing`, `FinalizerStays`, `NoLostFields`, `RepliesShowWrites` | `TypeOK`, `FinalizerKept`, `FieldsByTheirWriters`, `ReplyShowsTheWrite` |
| `SignalRouting_proofs!Typed`, `Scrubs`, `Errors`, `Sovereign` | `TypeOK`, `OnlyCleanLogsStored`, `SiemOnlyErrors`, `SovereignAudit` |
| `Delivery_proofs!Typed`, `Conserved` | `TypeOK`, `NothingVanishes` |
| `Delivery_proofs!Implements` | `Promise!Safety`, the safety part of `KeepsItsPromise` |
| `TailSampling_proofs!Typed`, `Notable`, `Consistent`, `Limited` | `TypeOK`, `OnlyNotableTraces`, `OneVerdict`, `MemoryBounded` |

Reconciler, whatever happens. None of the three properties is inductive: that a write does no harm
depends on what its copy is worth. `IInv` says so:

- `Numbering`: uids are not used twice, so a child of an earlier router is never mistaken
  for one of this router;
- `Copy`: a copy in a cache or in hand that shows the finalizer is of a router that
  still has it, or of another router;
- `UpToDate`: an informer said to be up to date holds the server's object;
- `Knows`: what the guards at the start of a pass have established still holds of its copy
  at each later step. In particular a pass that applies or validates works on a
  copy with the finalizer, and a pass at its verdict on one whose window is over;
- `InHand`: a copy that optimistic locking accepts is the router itself, or the
  router with the promotion that the pass is about to write.

`ChildrenProtected` follows because a child is only written by a pass that `Knows` its
copy has the finalizer, and `Copy` carries that to the server. `SpecOnlyByUser`
follows because an accepted write is of a copy that is the router (`InHand`); so the spec it
carries is the current one. For the refinement, `RouterSteps` classifies every step by
what it does to the router, and `StepRefines` maps each class to a step of
`RolloutProtocol`: a verdict comes from a pass that `Knows` its window is over, of a
copy that is `InHand`. `Verdicts` is then a fact about the protocol, proved from its steps through
the refinement mapping.

Reconciler, in an orderly cluster. The second group of properties is false of the code
without assumptions (section 4), so the theorems have the form `Orderly => (Spec => []P)`.
`Orderly` is about the constants only, the instances of `rollback_faults` and `rollback_lag` satisfy it,
and each of its parts is needed:

- `Prompt` and `SettledEdits`, the assumptions on time and on the user of section 2: with a clock that
  waits for nobody a window closes before the pods have loaded the configuration, which breaks
  `PromotedIsHealthy`; an edit during a trial breaks `RollbackTarget` (`edit_during_validation`);
- one operator: two whose caches lag break `RollbackTarget`, two and a failed call
  break `ReportsDeployed`;
- no failed calls where caches lag (`StaleReads => MaxFaults = 0`): the two together break
  `PromotedIsHealthy`. Either of them alone is covered.

Any number of crashes beside them, each with a downtime of any length in which the cluster goes on, is
part of `Spec`. They leave all of `RolloutSound` intact but one thing: the exception that
`PromotedIsHealthy` makes for `torn`, which section 4 shows to be necessary.

Configurations, replicas, the length of the window, and the numbers of edits, routers, crashes and
failed calls remain arbitrary. The properties speak of rest (`AtEase`) and of the status, but what
makes them true happens in passes that may be cut short or work on an old copy. `OInv`
therefore has, besides `PromotedIsHealthy` and `FlaggedIsCrashing` themselves:

- `Gone`: an operator that is down has no cache, no queue and no timer;
- `Family`: the children are those of this router, so what they hold was put there in its life;
- `Told`: which phases go with which verdicts, and that a trial is of the spec;
- `Backed`: the ConfigMap holds the spec or the good configuration, and in the first case the good one
  is the snapshot. `RollbackTarget` is its restriction to an operator at rest. (`Misled` is what a torn rollback
  may leave instead, for as long as the phase is an error);
- `Reported`: what is reported is deployed, *or* a pass is on its way that will change that (`Pending`).
  The second case is what a failed call between two writes leaves behind, or what a crash does
  (`Undecided`: a rollback is half done, and either its pods still crash and the operator runs, or it is
  torn); at rest nothing is pending, which gives `FlaggedHoldsGood` and `ReportsDeployed`
  (`AtEaseReported`);
- `Observed`: when a window closes, the spec runs in some pod, unless a rollback is torn, and what
  crashes is nothing but the spec. It is what turns the operator's look at the pods into a verdict about the spec (`PromotionEarned`);
- `Holds`, `Reached`: what a pass with the current copy has written so far, and what it saw of the pods;
- `Trails`, `Lags`: what the caches may show when they lag. No cache shows a router that is gone as one
  to reconcile. An outdated copy, in the cache (`CacheHarmless`) or in the hand of a pass
  (`PassHarmless`), is `Harmless`: applying it repeats what is deployed, or what the next pass will
  apply. `FreshInTrial` and the two about the children say that a verdict is never reached on an
  old copy, and that a write of a child is skipped because of an outdated cache only where it makes no
  difference.

`OrderlyInductive` has one lemma per action. Those of the pass rest on a few about what ends or
goes on (`PassWrites`, `PassTurns`, `PassRetries`, `StatusWritten`, `CurrentLags`, `StaleLags`), each of which
says once which conjuncts a kind of step can disturb. Before it was proved, TLC checked `OInv` on instances of
both kinds (up to 435 000 states).

OperatorProcess. `HealthIsOneCheck` needs the lock (`Locked`: writer and readers
exclude each other) and how far the writer has got (`Written`: which fields
already hold the new check); `CleanExit` needs what is over once `mgr.Start` has returned (`Ended`).

RestApi. `InHand` again: a current copy is the router, so the PUT that is accepted carries
the finalizers that the router has. The three theorems are action properties and follow
from lemmas about what a step does to the router and to an answer
(`StoreEffect`, `HandlerEffect`, `StepEffect`).

SignalRouting. `IInv` says what fits on each port (`Fits`), from which event on which port it
comes (`ComesFrom`), and that one event came in. `Scrubbed`, `Enriched` and `LetThrough` are the
facts about the VRL program: no address survives both replacements, and what it lets
through is clean. `Scrubs` and `Errors` follow the way back from a sink to `otlp_in`.

Delivery. `NothingVanishes` is an action property that needs only the types (`Vanishing`, one case per
action); the work is in what a retry, an end of a batch, a hand-over and a crash take from a stage and
where they put it. The refinement rests on `Apart`: a request that the fan-out has not handed to a sink is in no
stage of that sink's buffer, so what enters a disk stage is not there, flushed, already.
`Implements` maps `Send` to `Accept`, a flush to `Keep`, an arrival to `Store`, a crash to `Crash`, and
all else to a stutter; the bookkeeping is that other copies of the same event may still be owed or kept.

TailSampling. `Treated` relates the place of a span to the verdict on its trace, which is why
`OneVerdict` holds although late spans, batches and crashes interleave. `Justified` says that
behind a span that is kept and behind a verdict to keep there are accepted spans that
satisfy a policy; `PolicyGrows` (a policy satisfied by some spans is satisfied by more) carries it
over later arrivals and crashes. `Bounded` counts with the theorems of `FiniteSetTheorems`: only
`Accept` adds an item, and its guard leaves room for one.

Only model-checked: the liveness properties (`HealthyConverges`, `CrashingRollsBack`, `DeletionCompletes`,
`SignalEnds`, `ErrorsReachSiem`, `ArchiveGetsAll`, `ErrorsArrive`, `AllSettle`) and the liveness
part of `KeepsItsPromise`, because fairness and `ENABLED` are beyond the prover; and `RolloutSound`
with two operators (`rollback_overlap`), because `OInv` is about one. Every other invariant and
action property of the runs is a theorem.

## 6. Not modelled

- `Render`, `Hash`, `sanitize`, `prometheusBase`: a configuration is its hash. Data of the ConfigMap
  that was edited by hand under an unchanged hash annotation is therefore not in
  the model.
- A second router: the worker that it shares with the first (`handleDeletion` blocks
  it for 15 s), and the Service `vector` that every router shares.
- The price service: a load generator without a promise to keep.
- CRD validation, apart from the range of `replicas`; the manifests, the observability
  stack, the Makefile, the scripts, the study notes: static data, smoke tests and text.
- Of `nodes.js`: the skeleton of the operator and the curl examples (1081-1301), which the
  programs that `Reconciler` and `RestApi` model supersede; queries, dashboards,
  ServiceMonitor, Fluent Bit, retention policies, Kubernetes manifests, links and prose.
- End-to-end acknowledgements, which no configuration turns on.
- Sizes in bytes, compression, encodings, credentials and TLS of the pipeline; the order of the events in a
  buffer; disks that fill up or fail.
- Kubernetes, controller-runtime, `net/http`, Vector, the SDK and the collector as such: their definitions in the
  modules are those that the code relies on, and are marked external in `PROJECT.json`.

## 7. Plan

Done, in this order: `Reconciler` with `RolloutProtocol`; its inductive invariant and
proofs (`IInv` first, `OInv` last); `OperatorProcess` and proofs; `RestApi` and proofs; `SignalRouting`, `Delivery` with
`Custody` and `SinkConfig`, `TailSampling`, and their proofs.

Left for whoever goes on:

1. `TwoRouters`: two routers of one operator, with the shared worker and the Service
   `vector`; abstract specification "a router has the children of its own", and what
   a deletion of one does to the other.
2. `Render`: names and their `sanitize`d forms, which destinations collide and what
   the rendered configuration then does; the hash apart from the data, and drift.
3. The pipeline end to end: `TailSampling` as the client of `Delivery`, so that a collector
   that gives a batch up and a router that holds it are in one model; spans of a trace on
   two nodes.
4. Proofs: `RolloutSound` for any number of operators that neither lag nor fail. A second operator
   outdates the copy in hand of the first as a lagging cache does, so `Harmless` is the place to begin;
   `OneOperator` is where the proofs use that there is one.

## 8. How to run it

In this directory: `tlasany M.tla` parses a module, `tlc -workers 2 -config R.cfg M` runs the
configuration `R.cfg` of the module that `PROJECT.json` names for it, and `tlapm M_proofs.tla`
checks the proofs of a module.
