# Verification of Climatik

TLA+ models of the parts of Climatik that decide how much power a workload may
draw, TLC runs that check them on small instances, and TLAPS proofs of their
main safety properties for every instance. Paths below are relative to the
repository.

- [1. The system](#1-the-system): components, state, interactions, hazards
- [2. The models](#2-the-models): what each module is, and how it maps to the code
- [3. The runs](#3-the-runs): what TLC checks, bounds, fairness, divergences found
- [4. The proofs](#4-the-proofs): what holds for every instance, and why
- [5. What is not modelled](#5-what-is-not-modelled)
- [6. Plan](#6-plan)

Everything runs in this directory: `tlc -config MonitorLoop_one.cfg MCMonitorLoop`
checks a run (the pairs of module and cfg are in `PROJECT.json`),
`tlapm MonitorLoopProofs.tla`, and likewise for the other `*Proofs` modules,
checks the proofs.

## 1. The system

Climatik holds two controllers that share the name of a custom resource,
`PowerCappingConfig`, but neither its schema nor any state, and around them a
set of channels and tools.

| Component | Source | State | Operations |
|---|---|---|---|
| Capping loop (Python, kopf) | `python/climatik_operator/operator.py`, `strategies/`, `crd.py` | none in the process but gauges; it rewrites `spec.maxReplicaCount` of KEDA ScaledObjects and the status of configs | `create_power_capping_config` (create handler), `monitor_power_usage` (timer, 10 s), the two strategies, `validate_crd` |
| Metrics exporter | `python/climatik_operator/prom_metrics.py` | the metrics port, Prometheus gauges | `start_server` and `update_metrics` (a one-shot copy of Kepler's metrics), called by the start-up handler; setters for the timer |
| Pod watch (Go, controller-runtime) | `internal/controller/powercappingconfig_controller.go`, `cmd/controller/main.go` | informer cache, Prometheus client, one goroutine per labelled pod event | `SetupWithManager`, `handlePodAdd/Update/Delete`, `watchPodPowerUsage`, `createAlert`, `Reconcile` (logs only) |
| Alert fan-out | `internal/alert/` | subscribers of a topic; the GitOps adapter's map of alerts | `Subscribe`, `Publish` (a goroutine per subscriber), `CreateAlert` of the Prometheus, Slack and GitOps adapters |
| Alert webhook | `internal/webhook/webhook.go`, `factory/`, `handlers/` | none | `AlertHandler` on `/alert` |
| Slack commands | `internal/webhook/slack_webhook.go`, `handlers/slack_handler.go` | none; rewrites a `PowerCappingConfig` | `CommandHandler`, `InteractionHandler`, `UpdatePowerCappingConfig` |
| Job runners | `internal/webhook/runners/` | none; replaces a Kubernetes Job | `KubernetesRunner.Run`, `AnsibleRunner.Run` |
| API types, CRDs | `api/v1alpha1/`, `config/crd/` | data | - |
| Planner, k8s helpers | `python/planner/`, `python/climatik_operator/k8s_utils.py` | - | a gRPC stub and helpers that nothing calls |

**Interactions.** The Python operator reads configs (through kopf) and writes
ScaledObjects through the API server; KEDA, users and GitOps tools write the
same ScaledObjects. It reads power from Prometheus by deployment. The Go
controller reads pods and configs, queries Prometheus, and hands an alert to the
fan-out, which calls every adapter in a goroutine of its own; an alert reaches
the webhook from outside, over Alertmanager or Slack. The runners are meant to
be called by the webhook, but that call is commented out (`webhook.go:35`). The
watches and the alert channels of a Go replica share one process: what ends one
ends the other. Slack's dialog is meant to edit the Go controller's config.

**What is hard.**

- *Concurrency.* kopf runs the create handler and the timer of a config, and
  those of all configs, in a thread pool: they patch the same ScaledObjects and
  write the same gauges. Every API call is a point at which others act. In the
  Go controller informer handlers, watches and start-up run side by side, in
  every replica.
- *Optimistic locking.* A handler reads a whole object, changes one field and
  writes the whole copy back with its `resourceVersion`; a conflict raises and
  kopf starts the handler again.
- *Ordering.* Pod events are handled before the Prometheus client is set and
  before the manager's cache is started.
- *Failure.* Calls raise before or after they took effect; the process dies
  between a patch and kopf's record of the success; a query has no answer; a
  start-up handler that raised is called again in the same process; a panic in
  one goroutine ends the work of all.
- *Retries.* kopf calls handlers again, users submit a Slack modal again while
  the first request still runs, callers of a runner call again.
- *Numbers.* Bounds come from a division by a reading that may be zero, and
  Python's `int` rounds towards zero, also for negative limits.

`PROJECT.json` lists each hazard at its line with the properties that cover it.

**What makes each component correct.** Loop: it never undoes another writer's
change, each bound belongs to the limit of its pass and the current target, the
status and gauges are of one pass, limits come into force, creation and deletion
settle; seen from outside, a bound is set in one step. Start: the operator comes
to serve, and what it exports is of one pass. Pod watch: no query without a
client, a pod or config does not bring the controller down for ever, one active
replica. Fan-out: every subscriber gets every alert, no channel goes back to an
alert that was replaced, no channel waits for another. The two together: an
event ends on every channel that answers, and of what is pending when the process
ends only requests that have left still show. Runner: after `Run` the job is the
one of this run, and two jobs never tune at the same time. Slack: every
submission is answered.

## 2. The models

| Module | Models |
|---|---|
| `CappingStrategy` | the arithmetic of the strategies, forecasts and the create handler's placeholder, as operators |
| `MonitorLoop` | the capping loop: handlers, API server, faults, users |
| `CapStore` | what the loop promises the owners of ScaledObjects, as an abstract specification that `MonitorLoop` implements |
| `MonitorLoopProofs` | proofs about the loop |
| `CapStoreProofs` | the proof of the refinement |
| `OperatorStartup` | the start of the operator: the start-up handler, the metrics port and the copy of Kepler's metrics |
| `OperatorStartupProofs` | proofs about it |
| `PodWatch` | the Go controller's pod watch |
| `PodWatchProofs` | proofs about it |
| `AlertFanout` | the alert fan-out and its three channels |
| `AlertFanoutProofs` | proofs about it |
| `AlertPipeline` | `PodWatch` and `AlertFanout` composed: a whole replica |
| `AlertBoard` | what a replica promises those who read the alert channels, as an abstract specification that `AlertPipeline` implements |
| `AlertPipelineProofs` | proofs about the composition, and the proof of that refinement |
| `SlackCommands` | the Slack dialog that edits a config |
| `SlackCommandsProofs` | proofs about it |
| `JobRunner` | the Kubernetes job runner, and the job's life in the cluster |
| `JobRunnerProofs` | proofs about it |
| `MCMonitorLoop`, `MCPodWatch`, `MCAlertFanout`, `MCAlertPipeline`, `MCJobRunner` | the values that the runs give the constants |

An operator named `Op_Variant` (`Patched_Rebuilt`, `CapFor_Zero`, ...) is `Op`
with a plausible bug. No definition uses it. `PROJECT.json` pairs each checked
property with one of them: with `Op` so replaced, TLC finds the property
violated, which shows that the property depends on that line of the code and
that the run's bounds reach the case.

### MonitorLoop

*State.* `life`, `spec`, `created`, `status` are the configs in the API server
(`life = "deleting"` while kopf's finalizer holds a deleted config; `created` is
kopf's record of the create handler). `so` holds the ScaledObjects: the
deployment each scales and its `maxReplicaCount`. `gauge` is what
`prom_metrics` exports. A handler is a process: `pc` is the call it is about to
make, `local` its Python variables.

| `pc` | the handler is about to | code |
|---|---|---|
| `sample` | read an object and ask its target's power | `operator.py:114-136` |
| `compute` | run the strategy | `operator.py:138-151` |
| `get`, `patch` | read an object, write the copy back | `operator.py:80-99`, `155-184` |
| `report`, `forecast` | set the gauges of a pass, in two loops | `operator.py:189-201` |
| `status` | return the status to kopf | `operator.py:203-211` |
| `returned` | have its success recorded by kopf | create handler's end |

*Optimistic locking.* A `resourceVersion` is only ever compared for equality
with the object's current one, so the model keeps that bit instead of a
counter: `fresh` is the set of handlers whose copy has the current version. A
read adds the handler; any write by anybody to the object removes all holders
of older copies. The API server drops a patch that changes nothing without a
new version, so `Outdated` is empty then; writes of users always count as new
versions, even when they change nothing that is modelled. That a fresh copy
*equals* the object is not built in: it is the invariant `SnapshotFresh`.

*Missing deployments.* A ScaledObject may name a deployment that does not exist
(`Present`): the read at `operator.py:134` is then a 404, in every pass, as long
as the object names it. `Found` joins it with the 404 of a ScaledObject that is
gone. The create handler does not read deployments.

*Environment.* Users create, edit and delete configs; users and other
controllers create, retarget, rewrite and delete ScaledObjects. `CallFails` is a
call that raises without effect, `AnswerLost` a patch that takes effect although
the call raises, `Crash` the operator's death: kopf keeps what is in the API
server, every local variable and gauge is lost.

*What a reading is.* `get_power_consumption` asks for the sum over all containers
of the deployment (`operator.py:228`), with however many replicas it has at the
moment, and the strategies divide the limit by it as if it were the power of one
replica. `Bounded`, and with it `PatchWithinCap` and `CapEventuallyInForce`, speak
of that quotient: which limit and which reading a bound comes from. They do not
say that the deployment, with that many replicas, stays within the limit.

*Abstraction.* Watts are integers of one small unit. The strategies differ in
the order in which they iterate, not in what they compute, so one operator
stands for both. The status and forecast sums are kept as the maps they add up.
Replica counts and counts of objects, which are only exported, are left out, as
is logging. A pass takes the config's `spec` as it was at its start, as kopf
does. `sum(...) > 0` over readings is "some reading is positive".

### CapStore

The abstract loop has configs, ScaledObjects and users, and no handlers. Apart
from the users' steps (`UserStep`) a config that exists is settled once
(`Settle`: done, or rejected if its spec is not valid), goes when it is deleted
(`Remove`), or sets the bound of an object (`SetBound`): in one step, to a value
that one spec naming the object and one reading of its *current* target explain
(`Bounds`). `MonitorLoop` has the same variables for these, so the refinement
mapping is the identity (`Promised == INSTANCE CapStore`) and
`ImplementsCapStore` says that every behaviour of the loop, with its other
variables hidden, is one of `CapStore`. Handlers, copies, conflicts, faults,
gauges and the status are stuttering steps. What it rules out: a bound of an old
target or an outdated copy, a write on behalf of a config that is gone, a
creation that is settled twice or recorded in the config's next life.

### OperatorStartup

*State.* `phase` of the process, `port` (it is bound until the process dies),
`next`, the metric that `update_metrics` asks for next (0 outside of the
handler), `raised`, and `copied`, the series of the gauges that were set.

*Actions.* `StartServer` is `start_server` at each call by kopf, which calls a
start-up handler that raised again and handles no resource before it has
returned. `UpdateMetric`, `RequestFails` and `Refused` are the outcomes of one
request: an answer (with any pods, none, or cut short by a value that is no
number), one of the two caught exceptions, and the client library's own
exception for any other status, which nothing catches. `Series` keeps
which gauge an answer reaches: the code's comparisons know `core_joules`, which is never
asked for, and not `other_joules` and others, which are.

### PodWatch

*State.* `phase` is how far each replica is in `main` and `SetupWithManager`;
`prom` the replicas that assigned `PrometheusClient`; `queue` the pod events an
informer has not handed to `handlePodAdd` yet; `watch` the goroutines of
`watchPodPowerUsage` with their variables; `alerts` what reached
`AlertService.SendAlert`; `leader` the lease.

*Actions.* `Boot`, `Sync`, `Connect`, `StartManager` follow the order of
`SetupWithManager` (lines 92-144) and `main`. `HandlePodAdd` (170-216) drops the
event when there is no label, when the manager's cache is not started
(controller-runtime's `ErrCacheNotStarted`), when the config is missing or is
not relative. `StartTicker`, `QueryPeak`, `Notify` are the goroutine:
`time.NewTicker` panics for a window that is not positive, and a panic in a
goroutine ends the process (`Exit`); one query without data or with an error
ends the watch; the device queries may fail without stopping the alert.
A deleted pod's event has a handler that does nothing and is not queued.
Resyncs are off in this informer (period 0), so no event comes twice.

*Abstraction.* The config that goes with an alert is left out: the code
sends a constant one (`mockConfig`). A cap is
an integer percentage of the peak. The window's length matters only as
"positive or not".

### AlertFanout

*State.* `call` is where `CreateAlert` of each alert on each channel is: its
goroutine is a process of its own. `wire` holds the requests that have left and
that their endpoint has not looked at; they outlive their goroutine and their
process. `shows` is what a channel shows for a pod: the alert that its endpoint
took last, or the entry of the GitOps map. `up` says that the process runs.

*Actions.* `Subscribe` is `CreateAlertService`, over before anybody can send.
`SendAlert` is `Publish`: one goroutine per subscriber, with nothing in between
that others could see. `Post` is a request that leaves, at `client.Do`
(`prom_alert.go:82`) or `http.Post` (`slack.go:100`); from then on the goroutine
waits, and `Take` (the endpoint shows the alert) may come at any time: before the
answer, after the caller has given up, after the process has died, after a later
alert, or never. `Answered` is the return of the call; what the answer says does
not matter, as the result of `CreateAlert` is dropped. `PostFails` is a call that
returns with an error: without a connection, with the request lost, or with only
the answer lost, while the request was taken or still will be.
`BeginWrite` and `EndWrite` are the assignment to the GitOps map: writing a Go
map from two goroutines is undefined, and the outcomes are that the runtime
ends the process (`Exit`), that both writes succeed, or that one is lost.
Fairness is assumed only for the requests in `Answering`, and only while their
goroutine waits for them: the HTTP clients have no timeout, so a request that
hangs holds its goroutine for ever.

### AlertPipeline

Extends `AlertFanout` and instantiates `PodWatch` for one replica; each action is
an action of one part with the other unchanged, except where the code joins
them. `Start` is `main`: the channels are subscribed before the informer is
started. `Notify` is the end of a watch: `SendAlert` starts the channels'
goroutines and the watch is over. A panic in a watch (`Tick`), the race in the
GitOps map (`Deliver`) and a kill end both parts, and leave `wire` as it is. The
fan-out counts its calls of
`SendAlert` in `Alerts`; when those of a pod are used up its later alerts are not
followed (`Unsent`), which limits what is observed and nothing the code does.

### AlertBoard

The reader's view: changes of pods are noticed (or missed, while the informer
has not listed the pods), a noticed pod is watched when the config of its label
asks for it at that moment, a watched pod is alerted about, and an alert that was
sent appears on each channel at most once, under its pod. On a channel other than
GitOps it is first a request (`Post`, `wire`), which the end of the process does
not take back. `End` forgets all else that is pending, and the GitOps channel's
part of what was shown. The mapping hides start-up, clients, leases, windows,
peaks and the goroutines: `Queued`, `Watched` and `Open` are the sets of queued
events, of the pods that are watched with their labels, and of the calls of
`CreateAlert` that have not posted or written yet; `wire` and `shows` are the
fan-out's own. The steps of start-up, of tickers, of a write to the GitOps map that
has only begun and of an answer stutter; a panic, the race and a kill are all
`End`, so that whichever goroutine ends the process ends both parts.

### SlackCommands

*State.* `config` is the one config the handler edits: its efficiency level, or
`bare` without a spec, or `absent`. `dialog` is what each user has on the screen,
`told` what the last submission was answered, or the request that is waited for.
`req` are the requests under way: each a goroutine between its `Get` and its
`Update`, with the copy's new value.

*Actions.* `Command`, `ChooseParameter`, `Submit` are the three kinds of request
that pass the checks, `Get` and `Update` the two calls of
`UpdatePowerCappingConfig`, `Answer` its end. `Panics` are the type assertions;
net/http recovers such a panic and closes the connection, so the user sees a
failure. `SameNamespace` compares the two namespaces in the code: the API server
refuses an object whose namespace is not that of the request, so no request ever
ends as `updated` (see the divergences below). `TimeOut` is
Slack's: the request goes on. A server that is killed comes back without any
state.

### JobRunner

*State.* The one job that the manifest names (`run` is the call of `Run` that
created it), the pods at work, and where each call of `Run` is.

*Actions.* `Load`, `DeleteJob`, `CreateJob` are `Run`; an error of the deletion
is printed only, an error of the creation panics (`failed`, as is an error
before them). The cluster's part is external: foreground deletion marks the
job, its pods end, then the job goes and its name is free. A client that was
made for the empty namespace refuses both calls (`Namespaced`). `Retry` is a
caller that calls again; nothing in the repository calls `Run` today
(`webhook.go:35`), so it is a constant of the run which callers do.

## 3. The runs

Every action and disjunct of the next-state relations fires in a passing run.
`CHECK_DEADLOCK FALSE` is set because a run may really end: all configs deleted
and all changes of the bound made, or all replicas up and idle. (`slack` checks
deadlock: its users can always go on.)

| Run | Instance | Shows |
|---|---|---|
| `loop_one_config` | 1 config, 2 objects, 2 deployments; limits 240 and 400, none and a negative one; both objects, one of them, none; one reading that is 0 at times; 3 edits, 1 fault | `TypeOK`, `SnapshotFresh`, `GaugesOfOnePass`, `NoLostUpdate`, `PatchWithinCap`, `StatusWithinShares` |
| `loop_liveness` | 1 config, 2 objects, 3 deployments of which one is missing; two specs with different limits and references, fair handlers, steady readings, 3 edits, 1 fault | `CapEventuallyInForce`, `CreationSettles`, `DeletionCompletes`, `ImplementsCapStore` |
| `startup` | 1 pod, 14 metrics, 2 kills | `TypeOK`, `RaisedNeverServes`, `CopiedInOnePass`, `ServesUnlessRaised` |
| `watch_startup` | 2 replicas, 2 labels, windows of 0 and 30, 3 edits, 1 fault | `TypeOK`, `ClientBeforeQuery`, `StaysUp` |
| `pipeline` | 1 replica, 2 pods, two alerts followed for one of them, 2 watches, an HTTP channel and GitOps, one of the two requests may hang, windows of 0 and 30, a config of another kind, 3 edits, 1 fault | `PipelineTypeOK`, `ShownOnce`, `ChannelsIndependent`, `ImplementsAlertBoard`, `EventReachesChannels` |
| `slack` | 2 users, 2 requests at a time, 2 levels, 2 edits, 1 fault | `TypeOK`, `SubmissionsAnswered` |
| `runner_retries` | 4 runs that are called again, one without a namespace, 2 failed calls | `OneTuner`, `JobInTheEnd` |

*Why the bounds suffice.* The numbers are chosen so that the possible sources of
a bound differ: 240 and 400 divided by the readings 80 and 35 give 3, 6 and 5,
11, with remainders; the placeholder (limit / 100) gives 2 and 4; the default is 1; an object
starts at 10. A bound taken from the wrong object, pass, limit or handler is
seen. Two objects let a pass stop between two patches, and the config's two
handlers, the user and a fault all act on both. An edit can fall between any
two calls; three of them create a config, change the limit and retarget or
replace an object. One fault at each of the places where it may happen, in all
orders with the edits, covers raised calls, lost answers and a restart. Handlers have no memory across
passes (`Leave` clears `local`), so longer runs repeat these shapes; the safety
properties are moreover proved without any bound (section 4; the gauges
for one config, as in the run).

In `loop_liveness` the missing deployment is reached by an edit that retargets an
object, and left by another. The timer then raises in every pass while the create
handler and the finalizer go on.

In `pipeline` two alerts about one pod are enough for the race in the GitOps map,
for one request to overtake the other, and for one to be lost, hang or come late
while the other is shown; the second pod's panic can end both. The Prometheus and
the Slack channel are the same process here, and one of them is in the run. An
event that comes after the pod's alerts were sent is followed in `PodWatch` only.
The peak is always 100 here, since only the watch's own run depends on it. The
answer without data (`powercappingconfig_controller.go:295`) ends a watch as
`QueryFails` does and is explored as that: `EventReachesChannels` counts it as a
call that fails. `watch_startup` has it as an answer. In `slack` two requests let a
user's resubmission overlap the request that was given up, and the other user's.
In `startup` two kills give three processes, one to fail, one to die while it
serves and one to go on; pods do not interact, one is enough.

*Fairness.* Weak fairness of each config's create handler, timer and removal:
kopf calls a timer every interval and a raising create handler again after its
backoff, and the thread pool schedules a running handler. In `PodWatch`:
restarts of a replica by its Deployment, the informer's and goroutines'
progress. In `AlertFanout`: the goroutines of the requests in `Answering`, and their
endpoints while somebody waits; nothing of the requests of dead processes. In
`AlertPipeline`: both, for the joined steps. In `OperatorStartup`: the process
is started again, kopf calls the handler again, and a request ends (the client
has a timeout for each of its retries); nothing is assumed of how it ends. In
`SlackCommands`: a request's goroutine goes on and a call ends. In
`JobRunner`: calls return, pods end, Kubernetes removes a deleted job, and the
callers in `Retrying` call again. Nothing is assumed of users, Prometheus,
leader election, or a pod being started.

*Why the liveness run has steady readings and one config.* Weak fairness alone
lets the timer write a changed bound between each read and patch of the create
handler, for ever, when readings change every time: then the create handler is
never done. Real timing (10 s against 60 s) makes this improbable, not
impossible; TLC shows the starvation at once. With steady readings the timer's
writes end up changing nothing, and that the handlers settle is checked without
any assumption on speed. Two configs that disagree on a shared
object rewrite each other's bound for ever, by design of the code, and no limit
is finally in force; so the run has one config.

### Divergences and bugs

Each is a run in which TLC violates what a document, a comment or a test of the
repository says, by what the code does.

- `loop_idle_deployment` / `CapEventuallyInForce`: one deployment at power 0
  beside a busy one makes every pass raise `ZeroDivisionError` before its first
  patch, so no bound is ever applied (`doc/crd.md:128`).
- `startup_refused` / `OperatorServes`: an answer with a status like 401 or 404
  raises an exception that `update_metrics` does not catch; kopf calls the
  start-up handler again, which now fails at the port that is still open, every
  time. The operator handles no config until its process is killed
  (`prom_metrics.py:204`, `doc/crd.md:128`).
- `watch_standby` / `OnlyLeaderAlerts`: the pod informer is started outside the
  manager's leader-only runnables; a standby replica alerts too
  (`cmd/controller/main.go:65`).
- `fanout_race` / `EverySubscriberGetsIt`: two alerts at once make the GitOps
  channel write its map from two goroutines; the Go runtime may end the process,
  and the alerts never reach Prometheus and Slack
  (`internal/alert/tests/alert_test.go:227`).
- `runner_once` / `JobAfterRuns`: a run deletes the job of the run before it and
  cannot create its own as the deletion is not over; no job is left
  (`internal/webhook/runners/kubernetes_runner.go:86`).

Read in the code and not worth a run, as one step shows them:

- The percentage of an alert's cap comes from the config's *name* (90, 80, 50
  for high, medium, low, 0 for others: `Percentage`); `powerCapPercentage` of the
  config (`api/v1alpha1/powercappingconfig_types.go:39`) is never read.
- The repository's job manifest names no namespace, so the client refuses both
  calls of `Run` (`Namespaced`).
- A sample window of 0, the default of the field, panics; after each restart the
  informer lists the pod again. `StaysUp` says that this lasts only as long as
  such a config is there.
- The limit is applied to each deployment on its own, so the forecast for two
  deployments may be twice the limit of a config, although `doc/crd.md:33` promises
  the total; what does hold is `StatusWithinShares`.
- The timer applies a config that the create handler refused (`crd.py:7`,
  `operator.py:58`): a negative limit writes a negative bound.
- The Slack dialog never changes a config, although
  `README-slack-webhook-server.md:3-7` and 76-79 say that users modify it there:
  the copy read from `operator-powercapping-system` is sent to `default`
  (`slack_handler.go:242`, 262), which the API server refuses, and a percentage
  panics before that (255), for no config has the key
  `relativePowerCapInPercentageSpec`. Each submission meets it, in its first
  request. No run states it, and none says anything of what the dialog writes:
  `SubmissionsAnswered` is about being answered, by whatever outcome.
- `core_joules` and `cpu_time` gauges never get a series, and six of the metrics
  that are asked for reach no gauge (`prom_metrics.py:28-42`, 170-201).

## 4. The proofs

TLAPS proves these for all configs, objects, deployments, replicas, pods, specs,
readings, edits and faults that the named assumptions admit
(`NoneAssumption`, `DeploymentsAssumption`, `LoopAssumption`, `StartupAssumption`,
`WatchAssumption`, `FanoutAssumption`, `PipelineAssumption`, `SlackAssumption`,
`RunnerAssumption`: `None` is not a value of the sets it is added to, specs and
readings have their types, pods and deployments are finitely many).

| Theorem | States |
|---|---|
| `MonitorLoopProofs!TypeCorrect` | `Spec => []TypeOK` |
| `MonitorLoopProofs!LoopInvariant` | `Spec => []LoopInv` |
| `MonitorLoopProofs!FreshCopies` | `Spec => []SnapshotFresh` |
| `MonitorLoopProofs!NoUpdateLost` | `Spec => NoLostUpdate` |
| `MonitorLoopProofs!PatchesWithinCap` | `Spec => PatchWithinCap` |
| `MonitorLoopProofs!GaugesTogether` | `Spec /\ OneConfig => []GaugesOfOnePass` |
| `MonitorLoopProofs!SharesKept` | `Spec => StatusWithinShares` |
| `MonitorLoopProofs!SumUnfolds`, `SumBound` | the sum over a finite set unfolds as its recursion says, and is bounded by its terms' bound times their number |
| `MonitorLoopProofs!TruncateLargest` | `int(a / b)` is the largest number of times `b` fits into `a >= 0` |
| `CapStoreProofs!StoreInvariant` | `Spec => [](BusyInv /\ ReadInv)` |
| `CapStoreProofs!LoopImplementsStore` | `Spec => ImplementsCapStore` |
| `OperatorStartupProofs!TypeCorrect` | `Spec => []TypeOK` |
| `OperatorStartupProofs!RetryNeverHelps` | `Spec => []RaisedNeverServes` |
| `OperatorStartupProofs!OnePassCopied` | `Spec => []CopiedInOnePass` |
| `PodWatchProofs!TypeCorrect` | `Spec => []TypeOK` |
| `PodWatchProofs!NoQueryWithoutClient` | `Spec => []ClientBeforeQuery` |
| `AlertFanoutProofs!FanoutInvariant` | `Spec => []FanoutInv` |
| `AlertFanoutProofs!NeverShownAgain` | `Spec => ShownOnce` |
| `AlertPipelineProofs!PipelineInvariant` | `PipelineSpec => []PipelineInv` |
| `AlertPipelineProofs!PipelineTypeCorrect` | `PipelineSpec => []PipelineTypeOK` |
| `AlertPipelineProofs!PipelineNeverShownAgain` | `PipelineSpec => ShownOnce` |
| `AlertPipelineProofs!PipelineIsBoard` | `PipelineSpec => ImplementsAlertBoard` |
| `SlackCommandsProofs!TypeCorrect` | `Spec => []TypeOK` |
| `JobRunnerProofs!OneJobTunes` | `Spec => []OneTuner` |

*The loop.* `TypeOK` is not inductive: that a patch writes a number, or that
`Object(p)` is an object, depends on where a handler is. `HandlerOK(p, at, l)`
says what the local variables of handler `p` are at each point: past the start
the spec is there and `ref` is within its references, at `patch` a copy is held,
the create handler has a valid spec, and (`CapsOf`) from the end of `compute` on
a timer's bounds are those the strategy gives for *its own* readings and limit.
`LoopInv` is the conjunction over handlers with the types of the shared state.
There is one lemma per action.

*`SnapshotFresh`* is inductive on top of `LoopInv`: `FreshKept` says that it is
enough that the copies that remain fresh keep their handler's variables and
that their object does not change. For a patch by another handler this is
`Outdated`; for a user's write it is that `WriteObject` removes all holders.

*`NoLostUpdate`* and *`PatchWithinCap`* follow: a step that changes an object
at the hand of `p` is `Store(p)` with `p` fresh (`WroteStores`), so the new object
is the *current* one with only `max` replaced (`WroteOverCurrent`), and for a
timer that `max` is the bound of its pass for the current target, which
`CapsBounded` and `TruncateLargest` show to be the quotient of its limit and reading.

*The gauges.* `GaugesOfOnePass` is proved from `GaugeInv`: while a timer stands
between its two loops, it has set the power gauge of what it sampled, to its own
reading, and has left the gauges of the others whole; otherwise all are whole.
Then the second loop makes the pairs whole, as it goes over the same samples.
`OneConfig` is needed: the timers of two configs that share a deployment can set
its power in one order and its forecast in the other.

*The status.* `SharesKept` bounds a sum over the sampled deployments. Each share
is within the limit (`ShareWithin`, from `CapsOf` and `CapsBounded`). The sum
itself is the community modules' fold, a `CHOOSE` of a function on all subsets:
`SumUnfolds` first shows that there is one, by building it for the subsets of at
most `n` elements, `n = 0, 1, ...`; `SumBound` then follows the recursion. The
provers cannot instantiate an induction theorem, so both inductions are put as
"the least exception does not exist" (`NatMin`). Only finite sets have a sum:
`DeploymentsAssumption`. `StatusWritten` adds that nothing but `WriteStatus` writes
a status while its timer is about to.

*The refinement of the loop.* `NextPromise` shows that each step of the loop is a step of
`CapStore` or a stutter. A bound that is stored is explained for the current
target, since the copy is fresh (`SnapshotFresh`) and `HandlerOK` ties a timer's
bounds to its own readings; that these are answers `Prometheus` may give for
that deployment is `ReadInv`. That a handler which settles a creation or sets a
bound does so for a config that is still there, and was pending when it settles it, is
`BusyInv`: it is kept because a deleted config goes only when none of its
handlers runs (`Quiet`); without the finalizer it fails.

*The start.* A handler that raised leaves the port open and `next` at 0, so each
further call ends at the port (`PortInv`): that is why `RaisedNeverServes` is an
invariant. For `CopiedInOnePass` the same part says that nothing is copied while
the port is closed.

*The pod watch.* `StartupOrder` strengthens `ClientBeforeQuery`: a replica that
is connected or running has its client, and only a running replica has watches,
because a handler drops its event while the cache is not started. That is what
keeps the nil client of the early events from being used.

*The fan-out.* `ShownOnce` rests on what it takes for an alert to be shown: a
goroutine that has not posted or written yet, or a request in `wire`. `Spent`
says that neither is left. `ShownSpent` (part of `FanoutInv`) says that an alert
that a channel shows is spent there; it needs that calls never start twice
(`CallsSent`: a call that was started belongs to a sent alert, and
`SendAlert` takes only others) and that a request in `wire` belongs to a call that
has posted (`WirePosted`). An alert that was shown and replaced stays spent by
each step, and a spent alert that is not showing cannot come to show. With a client
that posts again after a lost answer (`PostFails_Retried`) the invariant fails, and
so does the property.

*A whole replica.* The lemmas of the two parts are reused as they are, those of
the fan-out by extension and those of the watch through the instance `WP`
(`SameManage`, `SameWatch`, `SameCluster` identify the actions of the two
instances). `PipelineInv` joins their invariants with `OneProcess`, the fan-out is
up exactly when the replica is not down: without it a panic of a watch could
leave a channel's goroutines running, and the lemmas on `Exit` would not apply to
the other part. Each action of the composition is then one lemma of a part and
one frame lemma (`FanoutIdle`, `WatchIdle`), or `Exit` of both.

*The refinement of the replica.* One lemma for each action shows that it is a
step of the board or a stutter (`BoardStep`). That the first listing notices
exactly the pods that are there is `PodWatchProofs!ListingIsAll`, by counting: an
injective sequence as long as a finite set has all of its elements. That an alert
which appears is one that was still open or on its way is the guard of `Take` and
`CallsSent`; that it is sent for a pod that is watched is the guard of `Notify`;
that nothing pending but a request outlives the process is `BothEnd`, which holds for
a panic since only a running replica has watches (`StartupOrder`).

*The runner.* `OneTuner` follows from `PodsHaveJob`: only the job that is in the
cluster has pods at work. It is kept because a job is created only when there is
none, and a job goes only after its pods, which is what foreground propagation
says; with background propagation (`Removable_Background`) it fails.

*Only model-checked.* Liveness (`CapEventuallyInForce`, `CreationSettles`,
`DeletionCompletes`, `StaysUp`, `ChannelsIndependent`, `EventReachesChannels`,
`ServesUnlessRaised`, `SubmissionsAnswered`, `JobInTheEnd`), as fairness is out of
TLAPS's reach; and the divergences, which are counterexamples. Every invariant,
action property and refinement that a passing run checks is proved.

## 5. What is not modelled

- The alert webhook accepts the source `slack` only, for which it prints the
  body; its call of a runner is commented out, so no request changes any state.
- `AnsibleRunner`, which starts an external program and keeps no state.
- `Reconcile` of the Go controller, which only logs; metrics that only report.
- The numbers that the one-shot copy of Kepler's metrics sets: the system reads
  none of them; which series exist is modelled.
- Slack requests that are rejected for their signature, type or form.
- Planner and `k8s_utils`: called by nothing. Generated deep copies and gRPC
  stubs: no state of their own.
- KEDA, Prometheus and the API server appear as they are used: any foreign write
  to a ScaledObject, any answer of `Readings`, optimistic locking.

## 6. Plan

Done: the loop, the pod watch, the fan-out, the runner, the composition of watch
and fan-out, the operator's start, the Slack dialog, the abstract loop and the
abstract alert board with their refinements, and the proofs of all of these.
Left:

1. The closed loop: KEDA scales the deployment within the bound and Prometheus
   measures it, so that the bound of one pass changes the reading of the next.
