# A TLA+ model of the ibeam core library

The library sits between *clients* (gRPC callers that set and subscribe to parameters) and a
*core* (the driver of some device family). Its heart is the **parameter manager**: it keeps a
buffer per parameter, turns client sets into paced, retried commands, reconciles them with what
the device reports, and tells the clients. Around it are the worker pool that runs its handlers,
the subscriptions that carry its messages to the clients, the registry that says which parameters
there are, and the machinery that restarts a core. This directory models these parts, model-checks
them with TLC on small instances and proves their main properties with TLAPS for all of them.

| file | what it is |
|---|---|
| `ParameterBuffer.tla` | the value buffer of one element, its configuration, and the operators on it |
| `ReevaluationTimer.tla` | the re-evaluation timer of one buffer, with its two-step callback |
| `ParameterManager.tla` | all handlers, timers and the clock over a set of elements |
| `CommandLog.tla` | the manager with a record of the commands the core gets, and what must hold of it |
| `WorkerPool.tla` | dispatchers, workers, the helper towards the core, every channel between them |
| `DeviceOrder.tla` | what the pool promises per device, implemented by `WorkerPool` |
| `Subscription.tla` | `Subscribe`, resubscription, the distributor, the status cache |
| `Feed.tla` | what a client is promised, implemented by `Subscription` |
| `Registry.tla` | declarations, options, name tables, and the devices registered at run time |
| `Validation.tla`, `Dimensions.tla`, `ValueHelpers.tla` | pure algorithms and their reference definitions |
| `RegistryInputs.tla` | the inputs these algorithms are asked about, and what must hold of each |
| `Reload.tla` | signals, fork, exec, and the configuration they put into use |
| `MC*.tla`, `*.cfg` | the instances TLC checks |
| `*Proofs.tla` | the theorems and their proofs |
| `PROJECT.json` | components, runs, mutants, the map to the source, findings, hazards, theorems |

`tlc -config Registry.cfg MCRegistry` checks an instance (the module of each run is in
`PROJECT.json`); `tlapm RegistryProofs.tla` checks a module's proofs.

## 1. Inventory

### Components

**Value buffer** (`parameter-buffer.go`). Per dimension element: current value (what the device
reported), target value (what clients want), the assumed mark, availability, try count, last
update, smoothing state, the timer, and dynamic limits, options and default. Operations:
comparison (`currentEquals`), handing out a copy (`getParameterValue`, which also *writes* the
mark), increments and decrements of the count. Correct if the mark agrees with the two values.

**Parameter manager** (`parameter-manager-*.go`). `ingestTargetParameter` takes client sets,
`ingestCurrentParameter` takes device reports, `processParameter` takes re-evaluation events and
decides whether to accept, delay, send, retry or give up. Per device it shares one rate limit
(`lastEvent`). Correct if a client's value is sent, confirmed or given up, never silently lost;
if commands keep their pace; if the retry count is honoured; if what clients were last told is
what the buffer settled on.

**Re-evaluation timer** (`reevaluateIn`, `reEvaluate` in `parameter-manager-process.go`). One
`time.AfterFunc` per buffer and its `.end`; the callback runs on its own goroutine with no device
lock. Correct if a pending buffer always has a wake-up on its way.

**Worker pool and dispatch** (`parameter-manager.go`). Three dispatchers route sets, reports and
events by device id to workers with three bounded queues each; a helper forwards `m.out` to the
core and drops after a second. Correct if one device's messages of one kind stay in order and are
handled one at a time, and full queues never block everyone for good.

**Subscriptions and distributor** (`ibeam-corelib.go`: `Subscribe`, the distributor goroutine).
Each subscriber has a filter, a bounded channel and a closed mark; the distributor offers each
message to each subscriber with a timeout and closes the channels of slow ones. Correct if a
subscriber that stays connected gets everything that passes its filter, and nobody sends on a
closed channel.

**Get and information calls** (`ibeam-corelib.go`). Copies of buffers and registry data. `Get`
takes the device lock for reading, though the getter it uses writes the mark.

**Status cache** (`errorcache.go`). A map from status key to message; statuses are added, resolved
by prefix, and replayed to new subscribers. Correct if clients end up showing what is active.

**Registry** (`parameter-registry.go`, the option files). Models, parameter details and devices;
declared in that order by the core's `main`, then devices by any goroutine under four locks.
Correct if a parameter's name has one id, all getters know the same parameters, and registering a
device disturbs no other.

**Parameter validation** (`parameter-registry-validate.go`). Ends the core on illegal
combinations of styles, delays, retry counts, types and defaults. Correct if what passes is what
the manager can manage.

**Parameter dimensions** (`parameter-dimension.go`). The tree from a dimension id to a buffer.

**Process reload** (`reload.go`, `RestartCore`, `SetCoreConfig`). A signal forks a child, the
child signals back, the parent executes itself. Correct if one process serves, the core survives,
and a changed configuration comes into use.

**Server creation**, **helpers**, **protocol** (generated).

### How they interact

```
clients --Set--> clientsSetterStream --\                       /--> m.out --> helper --> core --> device
core ---report--> m.in ------------------> dispatch -> worker --
timers --event--> parameterEvent -------/                      \--> serverClientsStream
                                                                       |
                                             distributor --> subscriber channels --> clients
```

A worker holds its device's lock for a whole handler. Timer callbacks hold none. `Get`,
`Subscribe` and the registry's getters hold it for reading. `muDistributor` orders the distributor
and the Subscribe calls; `muDetail` and `muInfo` guard the registry's maps, which the handlers
read in part without them.

### What is hard

* timer callbacks interleave with handlers and touch the same timer pointer;
* a report, a timeout and a new set race for the same target;
* the try count, the mark and the smoothing sequence are reset in many places;
* messages with several values leave their loop early on some paths;
* one rate limit and one queue are shared by all elements of a device;
* commands may be lost without the manager knowing;
* snapshots and registrations are separate steps; channels are closed by two parties;
* everything blocks on bounded channels in a cycle that includes the core's own thread;
* registration takes and releases several locks in one call;
* the state of a restart lives in environment variables that three code paths write.

`PROJECT.json` lists each of these under `hazards`, at its line.

## 2. The model

### ParameterBuffer, ReevaluationTimer, ParameterManager

`ParameterBuffer` has one operator per change the code makes to a buffer: `Reflag` (the write in
`getParameterValue`), `Retarget` (a set), `Increment`, `FallBack` (the current value becomes the
target), `Settle` and `Withdraw` (NoFeedback), `SmoothingStep`. `Equal` is `currentEquals`: a value
without payload equals nothing, not even itself. `ConfigAssumption` is what `validateParameter` and
`RegisterDevice` enforce; the run `registry` checks that they do.

`ReevaluationTimer` keeps the two deadlines apart that the code keeps apart: `end`, which
`reevaluateIn` compares with, and `left`, when the runtime timer fires; `Reset` moves only the
second. A callback is two steps, `Fired` (it posts the event) and `Forgotten` (it sets the
pointer to nil, whatever timer it points to by then). A timer that is armed but no longer pointed
to is a *stray*.

`ParameterManager` composes them. One action per way out of each handler:

| code | actions |
|---|---|
| `ingestTargetParameter` | `SetUnavailable`, `SetValueIgnored`, `SetValuePassthrough`, `SetValue`, `StepsRefused`, `StepsForwarded`, `StepsApplied`, `SetCommand` |
| `ingestCurrentParameter` | `Report` / `IngestCurrent`: a whole message, several elements in any order, with the loop that posts or reschedules them afterwards |
| `processParameter`, `handleSingleParameterBuffer` | `NothingPending`, `AcceptCurrent`, `Delay`, `GiveUp`, `SendStep`, `SendTarget`, `SendIncremental`, `Withhold` |
| the timer callback | `ExpireTimer`, `FinishCallback` |
| `Get`, `Subscribe`, registry getters | `Read` |
| passing time | `Tick` |

`out` is the command the last step handed to `m.out`; `told` is the last message about each
element on `serverClientsStream`; `attempts` is a history variable that counts the commands sent
since a client last moved the target. `attempts` is read by properties only.

`CommandLog` adds two more history variables, what a core could write down: `unanswered`, the
commands that carried an element's target since a client moved it, the device confirmed it or it
was given up, and `sinceSent`, the ticks since the worker's last command for any element. They are
kept apart from `tryCount` and `lastEvent`, by which the manager decides: four handlers reset the
first and every send must stamp the second, so that what the core really gets may differ from what
the manager counts. All runs of the manager check `LoggedSpec` or `LoggedLiveSpec`, which are `Spec`
and `LiveSpec` with this record. Commands a handler passes on for a client (Cmds, passed-through
values, increments out of range) take no event and are not the worker's.

Abstractions:

* Time is in ticks; ages saturate at `Horizon`, the longest delay they are compared with. The
  100 microseconds that `reevaluateIn` uses for a delay of zero are one tick.
* A handler is one step: it holds the device's lock from first access to last, and one worker
  serves a device, which is the theorem `KeepsDeviceOrderHolds` of the pool. `parameterEvent` and
  the worker's event queue are one bounded FIFO (`events`) that drops what does not fit.
* The worker takes sets, reports and events in any order, as its `select` may. A client message
  with several values is several steps. The code's tests of unknown ids, dimensions and types
  refuse a message without touching a buffer; they are the action `Refuse`.
* A device report is one value per element and message; `other` stands for every report that
  stops the timer but changes nothing modelled (limits, option list, default, rejected values).
* A stray timer may fire at any moment, which includes the moment it was armed for.
* Values are integers without width, or nothing at all (`paramhelpers.Invalid()`).

### WorkerPool and DeviceOrder

Every goroutine that `Start` launches and every channel between them: `ClientSets`, `TimerPosts`
and `CoreReports` enter a source channel; `DispatcherReads` and `HandOver` are a dispatcher, which
holds a message while its worker's queue is full; `Begin`, `SendCommand`, `TellClients`,
`PostEvent` and `Finish` are a worker; `HelperReads`, `HelperPasses`, `HelperDrops` the helper;
`DistributorTakes` the other end of `serverClientsStream`. A handler is what it sends, in order
(`Effects`); each send may block it. The core is one thread that reads a command or writes a
report, and reads nothing while it waits to write; it need never read at all. Messages carry their
number among those of their device and kind.

`DeviceOrder` is the abstract promise: per device, `begun` follows `accepted` kind by kind, one
handler at a time. `KeepsDeviceOrder == Order!Spec` maps `running[d]` to the handlers of whatever
worker runs them.

### Subscription and Feed

`Subscribe` is `Call`, then `Resubscribe` or `NewStream` under the write lock, `ReadUnit` once per
device (`Get` takes one device's lock after the other), then `Register` under the lock and
`Replay` (snapshot, then all active statuses), then `Receive` until `Disconnect` or
`EndOfStream`, `Unregister`, `Close`. A resubscription goes on with `Forward`, which sends to the
other stream's channel *without* the lock; when it is closed by then, `crashed` stops everything.
A call carries the identifier metadata or not (`header`), and the metadata may be the empty string,
under which a call without it is stored too (`Identifier`): such a call may take over the stream of
any client that sent none.
The distributor is `TakeMessage`, one `Offer` per subscriber (`Skip`, `Put` or `TimeOut`),
`EndRound` and `Cleanup`; it holds the read lock from the first to `EndRound`. `Raise` and
`Resolve` change the status cache; `Post` puts the message on the stream later, as
`handleStatusParam` does.

A value is its version. `view` is what a client saw last, `heard` the last version that came
through the distributor, `since` the version when the client began to be fed with a parameter,
`refilled` the clients whose filter a second call replaced; the last three are read by properties
only. A filter that a second call brings is asked for what is `Added` to the old one. `Workers`
includes the devices of all statuses: a status is passed on before the manager looks for the device
(`parameter-manager-ingest-current.go:17`).

A status key is a sequence of parts, of which `IsPrefix` is the code's `strings.HasPrefix`; this
stands for keys in which no id is the beginning of another one's digits. The prefixes of
`errorcache.go:27` keep the keys of two devices apart, but a global status has no prefix, and
resolving one whose name is the beginning of a device's key would clear that device's statuses in
the cache while clients are told of the global one only. `Apart` leaves out the statuses that such
a global one exists for.

`Feed` says what a client can rely on: a snapshot of versions that were current, then updates of
each parameter that strictly advance and none invented; only a client with a replaced filter may
see an old value in between (`Reread`). `FeedsClients == Promise!Spec` maps `latest` to `value`.

### Registry, Validation, Dimensions, ValueHelpers

`Registry` takes the declarations of `main` (`RegisterModel`, `RegisterParameter`, `Unregister`) as
one step each, and the calls that goroutines make later at every lock they release. A
`RegisterDevice` call is `Begin` (the load of `parametersDone`); if it is a first one `Connect`,
`AutoRegister` and `AutoAdd` (the automatic connection parameter: the read of `connectionExists`,
the checks of `RegisterParameter`, its locked write), `CacheIDMaps` and `Complete`; then `Check`,
`Publish` (`deviceInfos`), `Store` (`parameterValue`). `ReRegisterDevice` comes before with `Clear`
and `Erase`. Any goroutine may call for any device at any time: several first calls, two calls for
one device and assigned ids that are in use included. `log.Fatal` is `fatal`, after which nothing
happens. Options are merged for a model's parameter as the code merges them (`Merged`: all generic
flags if the model has none, otherwise up to the first that is there).

Where such calls do harm the properties say so. `contested` holds the devices that two calls were
about at once while they were not registered, and those with an assigned id that was in use or
asked for; `disturbed` the ones among them that a `ReRegisterDevice` was clearing. Both are history
variables. `GettersAgree` and `NothingReplaced` leave out the first, `StatesHaveInfo` only the
second; `TypeOK`, `OneIdPerName`, `CacheFresh`, `ConnectionDeclared` and `DetailsFrozen` know no
exception. One thing is assumed of the core: it declares before it registers devices, so that no
declaration runs beside a call that is ending them (`Declare`); one that comes later is refused.
`IdsAssumption`: names have distinct ids.

`Validation` is the conjunction of the checks. `Manageable` asks that `ConfigAssumption` of
`ParameterBuffer`, instantiated with the parameter, holds; `FineStepsMove` that a fine step leaves
the acceptance threshold. `Dimensions` builds the tree and compares what it addresses with the set
of declared addresses: what `generateDimensions` returns for the dimensions that are left is what
is below the path it has gone so far, so the recursion is a function of paths. `multiIndex` is a
function of how far it has got in the address, and `getValues` goes down three levels, which is as
far as `RegisterDevice` lets a tree go. `SplitRight` and `NormalisesWithin` are the references for
bracket splitting and range conversion. The parts of a balanced text are numbered by the outer
brackets that open them.

These parts compute rather than act. `RegistryInputs` gives each its inputs as constants
(`Configs`, `Sent`, `Details`, `Texts`, `Ranges`), of which `InputsAssumption` says no more than the
types of the code and the limit of three dimensions, and adds an initial state per input, in which
the registry stands still. `MCRegistry` has the bounded inputs TLC takes.

### Reload

One process whose phases are those of `CreateServer`, `ReloadHook`, `wait`, `forkExec`, the stop
of the server and `execReload`; the channel of `wait` with its two places; `CORERELOAD_PID` and
`CORERELOAD_CHILD` (`env`); the goroutines of `RestartCore`, which prepare the environment in one
step and execute in the next; forked children, which create a server, then signal and exit or
serve. SIGINT is SIGTERM. Before `wait` has called `signal.Notify` (`Deaf`) the Go runtime decides
what a signal does: SIGTERM ends the process ("terminated"), SIGHUP does too ("hangup"), SIGUSR1
and SIGUSR2 are ignored. Afterwards SIGHUP and SIGUSR1 are taken and do nothing. `RestartCore` may
be called at any time, also by the core's own code while it starts or forks; `ForkAborts` is a fork
that ends before it touches the environment, `ForkFails` one that ends after. `sent`, the kinds of
signals sent from outside, is read by properties only. Memory is lost with an exec (`Restarted`),
the environment and the files are not. The window between an exec and the start of the Go runtime of
the new image is not modelled.

## 3. What is checked

### Runs that pass

| run | instance | what it shows |
|---|---|---|
| `retry` | one smoothed Normal parameter with feedback; all sets, reports, Cmds, overlapping callbacks | `AssumedCoherent`: the mark agrees with the values, so hidden writes by readers are harmless; `SettledIsTold`: a settled element was last announced as it is; `CommandsBounded`: the core gets a target at most `RetryCount` times, whatever resets the count; `GiveUpSound`: no MaxRetrys before `RetryCount` real commands and the end of the quarantine; `CommandedTargetHolds`: stale reports do not displace a commanded target |
| `shared_limit` | two elements, one rate limit, callbacks not overtaken, channel not full, with fairness | `NeverStranded`: a pending target has a wake-up on its way; `Settles`: it is confirmed, replaced or given up once the environment is silent, so sharing the limit starves nobody; `CommandsSpaced`: the commands the core gets for the two are as far apart as the limit asks |
| `smoothing` | a smoothed NoFeedback parameter, targets two and three steps away | `SmoothMoves`: no command moves the device by more than the step, up or down, whatever it reports in the middle; `AssumedCoherent` when a step or a target settles at once |
| `increments` | an Incremental parameter with delayed feedback, a threshold and a rate limit; increments are managed, absolute values and Cmds pass the manager | `SettledIsTold` across increments and accepted near misses; `CommandsSpaced` while values and increments that bypass the limit come in between |
| `oneshot` | two elements of a Oneshot NoFeedback parameter, reports with a value for each | `SettledIsTold`: what nothing is sent for is taken back to a value the clients know, also when a report leaves its loop early |
| `subscription` | two calls, one parameter, an empty identifier or none, channels of one | `RegisteredIsOpen`: the distributor never meets a closed channel; `NothingLost`; `FeedsClients`: refinement of `Feed`; `Delivers`: everything arrives or the client is disconnected, so a slow client cannot starve another |
| `filters` | two calls, the second with any identifier or none, with all forms of filters over two devices; statuses that are prefixes of one another; statuses that change severity: three scenes, each a part of `Subscription`'s behaviours | `NothingLost`, also when a second call replaces the filter; `StatusesAgree`: with nothing on its way, a client shows exactly what is active |
| `worker_pool` | two devices, two workers, every channel of one place | `KeepsDeviceOrder`: refinement of `DeviceOrder`; `Drains`: again and again everything accepted is handled, although the core need not read |
| `registry` | two goroutines with unrestricted calls, device 2 and devices with assigned ids, the generic model and up to two more, up to two declarations of five; all bounded inputs of the pure parts | `OneIdPerName`, `CacheFresh`, `ConnectionDeclared`, `DetailsFrozen`, `StatesHaveInfo`, `GettersAgree`, `NothingReplaced`; `AcceptedIsManageable`, `FineStepsAreSent`, `AddressesAreExact`, `TextsSplitRight`, `RangesFit` |
| `reload` | two configurations, three signals, two restart calls, three children | `OneServer`; `CoreSurvives`: only a SIGTERM that was sent to the core, or a SIGHUP before it listens, ends it; `ReloadTakesEffect`: a restart that was asked for puts the newest configuration into use, unless the core calls for its own restart every time it starts (`StartsUndisturbed`) |

Deadlock is checked where time passes (all runs of `MCParameterManager`). The other
models may stop: every call has ended, every bound is used up, or the process has.

### Runs that find the code at odds with its documentation

| run | what happens |
|---|---|
| `lost_wakeup` | The callback posts its event before it forgets its timer. A worker that retries in between finds the expired timer and schedules nothing; the target is never looked at again. |
| `missed_update` | A value published between a call's snapshot and its registration reaches its client neither way. |

### Differences met that no run states

`PROJECT.json` quotes each under `findings`, with an empty run. In the manager: a report that
changes no value stops the retry timer for good; the loop after a report abandons the elements
after the first early one; a report between a set and its first command replaces the set, which is
never sent; in-range increments never reach the core; a device's echo of a
smoothing step ends the sequence. (These behaviours are in the model. `NeverStranded` is therefore
checked for inputs without the first two.) In the subscriptions: the resubscription's send on a
closed channel and its stale snapshot, the empty resubscription, the empty identifier that takes a
stranger's stream over, the dropped global status, the
status a filtered client never hears resolved. In the registry: an automatic device id that is
taken and the races of two calls for one new device (`contested`), of a re-registration with
another call (`disturbed`) and of two first calls (`AutoRegister`, `AutoAdd`), the ended merge of flags,
`RegisterDeviceWithModelName`, `ReRegisterDevice`, the connection declared for a model only, the
unlocked lookups. In the helpers: `SplitByBrackets`, `Normalise`. In the reload: a parent id of 0,
the environment race, the lost `.forceconfig` notice, SIGHUP (it ends a core that starts, and does
nothing to one that serves), SIGQUIT. Cmd values, passed-through values and out-of-range increments
skip the model's global rate limit, which `manual/src/advanced.md:509` describes without exception.
Smaller ones:

* `manual/src/parameters.md:298` calls `QuarantineDelayMs` the delay before retrying; the code
  retries after `ControlDelayMs + 1` (`parameter-manager-process.go:241`).
* An increment moves a target that is being retried and keeps the count, so MaxRetrys may follow
  after fewer commands of the new target (the reason for `NoStepAccepted` below).
* A `NoControl` parameter accepts sets and then has nothing to send. A withheld Oneshot value that
  an availability report announced as assumed stays with the clients.
* `GetParameterOptions`, `GetParameterMinMax` and `GetParameterDefault` answer for a device that
  does not exist from the generic model; `validateParameter` accepts a minimum above the maximum.
* A device status that is raised again with another severity is not sent again, only one of a
  parameter is (`errorcache.go:52`), which is why `Raise` asks for an inactive device status.
* A failed exec after the server has stopped ends the core; signals that find the channel of
  `wait` full are lost. (`ExecMayFail = TRUE` or `ParentPid = 0` refute `CoreSurvives`,
  `Overlaps = TRUE` refutes `OneServer`, `Burst = 1` refutes `ReloadTakesEffect`.)

### Bounds

`ParameterManager`: `MaxFiring` and `MaxStrays` bound overlapping callbacks and stray timers of one
element (2 and 1: enough for a callback to be overtaken by a second one and for a stray to exist
next to a tracked timer). `MaxStrays = 0` in `SharedLimit`, where callbacks are not overtaken and
strays cannot arise. `QueueCap` 2 lets the channel overflow under `Spec`; 4 under `PromptSpec`
never fills. `MaxBatch` bounds the elements of one message. `attempts` saturates at
`RetryCount + 1`, one more than any property compares it with. Delays of 1 and 2 ticks are the
smallest that keep control delay and quarantine apart. Values are 2 to 6 integers; smoothing has
distances of more than two steps in both directions.

`Subscription`: a slot of `Sessions` is used once; two calls suffice for one to take over, wait
for, or slow down the other. In `Subscription.cfg` every identifier is the empty one, which
calls share most; `Filters.cfg` has another, which the second call may carry. `MaxVersion` 3 lets a value change before, during and after a
snapshot, and fill a channel of one place, so that timeouts happen. `WorkerPool`: capacities of one
block earliest; one message of each kind and a second set (`MaxMessages`) let a dispatcher hold a
message for a busy worker while another waits behind it. `Registry`: two goroutines, because only pairs of calls share a
lock's gap; two declarations let a model override, be overridden, and lose a parameter
(`MaxModels`, `MaxDeclarations`); with the ids 0 and 2 and `MaxDevices` 2 an assigned id is free, in
use or asked for at the same time. Dimension trees have up to two levels of up to three elements,
texts up to six characters, ranges widths of 1 to 6. `Reload`: `MaxSignals` 3 and `MaxRestarts` 2
let a fork, its child's signal, a second signal and a call overlap; `MaxVersion` 2 lets a
configuration change between them. `MaxChildren` 3 is never the limit: a fork needs a signal from
outside or one from a child that is gone.

### Fairness

* `ParameterManager!LiveSpec`: weak fairness of `Process(d)`, `ExpireTimer(d)`,
  `FinishCallback(d)`, `Tick`. Go runs every ready goroutine; the worker's `select` chooses fairly
  among ready channels and the queue is a FIFO. Nothing is assumed about clients, device or
  readers; `Settles` adds the hypothesis that the environment eventually falls silent.
  `LiveSpec` extends `PromptSpec`, in which a callback finishes before anything else happens and
  the channel never fills: without that, `lost_wakeup` refutes it. `LoggedLiveSpec` is `LiveSpec`
  with the record of commands.
* `Subscription!LiveSpec`: weak fairness of the distributor; strong fairness of `Post` and of the
  calls, which wait for a channel or for the write lock again and again: a Go channel serves
  blocked senders in turn, and a waiting writer keeps new readers from a `sync.RWMutex`. Clients
  read what is sent to them, but nobody must subscribe or disconnect. A client that reads slowly
  is one that reads after a timeout, which is not fair to anybody and happens.
* `WorkerPool!LiveSpec`: weak fairness of each dispatcher, each worker, the helper, the
  distributor, and of the core finishing a report it has begun to write; not of it reading.
* `Reload!Spec`: weak fairness of the core, its restart goroutines and its children. A core whose
  own code restarts it every time before it serves is excluded by `StartsUndisturbed`.

## 4. What is proved

| module | theorem | property | further assumptions |
|---|---|---|---|
| `ParameterManagerProofs` | `TypeCorrect` | `TypeOK` | |
| | `MarkIsCoherent` | `AssumedCoherent` | |
| | `ClientsSeeSettled` | `SettledIsTold` | `PendingIsQuiet`: for a Oneshot NoFeedback parameter, no increment by nothing and no availability report |
| | `GivingUpIsSound` | `GiveUpSound` | `NoStepAccepted`: no increment within the step limits |
| | `CommandedTargetIsHeld` | `CommandedTargetHolds` | feedback, no acceptance threshold |
| | `PassthroughFollowsDevice` | `FollowsDevice` | `FullPassthrough`: both options, no Invalid reports |
| `PacingProofs` | `CommandsBoundedHolds` | `CommandsBounded`, of `LoggedSpec` | |
| | `CommandsSpacedHolds` | `CommandsSpaced`, of `LoggedSpec` | |
| | `SmoothMovesHolds` | `SmoothMoves` | `SmoothedParameter`: Normal control, NoFeedback, a step, only sets and reports of numbers or availability |
| | `NeverStrandedHolds` | `NeverStranded`, of `PromptSpec` | `PlainInputs`: Normal or Incremental control, no increments the manager keeps, reports of numbers, with feedback one element a message |
| `WorkerPoolProofs` | `TypeOKHolds` | `TypeOK` | |
| | `KeepsDeviceOrderHolds` | `KeepsDeviceOrder` (refinement) | |
| `SubscriptionProofs` | `RegisteredIsOpenHolds` | `RegisteredIsOpen` | |
| | `NothingLostHolds` | `NothingLost` | |
| | `FeedsClientsHolds` | `FeedsClients` (refinement) | |
| `StatusProofs` | `TypeOKHolds` | `TypeOK` of `Subscription` | |
| | `StatusesAgreeHolds` | `StatusesAgree` | |
| `RegistryProofs` | `TypeOKHolds` | `TypeOK` | |
| | `OneIdPerNameHolds` | `OneIdPerName` | |
| | `CacheFreshHolds` | `CacheFresh` | |
| | `ConnectionDeclaredHolds` | `ConnectionDeclared` | |
| | `DetailsFrozenHolds` | `DetailsFrozen` | |
| | `StatesHaveInfoHolds` | `StatesHaveInfo` | |
| | `GettersAgreeHolds` | `GettersAgree` | |
| | `NothingReplacedHolds` | `NothingReplaced` | |
| `InputProofs` | `AddressesAreExactHolds` | `AddressesAreExact` | |
| | `AcceptedIsManageableHolds` | `AcceptedIsManageable` | |
| | `FineStepsAreSentHolds` | `FineStepsAreSent` | |
| | `TextsSplitRightHolds` | `TextsSplitRight` | |
| | `RangesFitHolds` | `RangesFit` | |
| `ReloadProofs` | `OneServerHolds` | `OneServer` | `Conditions` |
| | `CoreSurvivesHolds` | `CoreSurvives` | `Conditions`: no restart call inside a fork, the binary can be executed, the parent's id is neither 0 nor the child's |

All hold for every value of the constants that the named assumptions of the modules admit.

**ParameterManager.** `TypeCorrect` goes action by action. `ElementStep` then says what a single
step can do to a single element: leave it alone, one of ten changes, or absorb one report. Each
further invariant is shown per element over these. `AssumedCoherent` is inductive as `MarkFits` of each buffer: for a
Oneshot parameter without feedback `Withdraw` moves the target and leaves the mark, so only an
unmarked buffer is known to be settled there. `SettledIsTold` needs it: an announced view says
`Pending`, the property speaks of the stored mark. Where values are taken back (`TakesBack`) another
argument is needed, because nothing is announced then: the clients have all along been told the
value that is fallen back to (`AlwaysTold`). An availability report, or an increment by
nothing of a value that never was valid, announces the pending value before that, and TLC refutes
the property with either. `GiveUpSound` needs `TriesWereSent` (the count never exceeds the commands counted), which
needs the type of `attempts` and, for its saturation, the lemma `CountBounded`: `tryCount` never
exceeds `RetryCount`. `CommandedTargetHolds` needs that lemma too: at give-up the count is
`RetryCount` exactly. `FollowsDevice` needs `Idle`: nothing
pending, nothing tried, last update at the horizon, so that every report is adopted.

`CommandsBounded` compares the record with the manager's count (`Answering`): a command nothing has
answered is a try that was counted and not taken back, because whatever resets `tryCount` also moves,
settles or gives up the target, except for the steps of a smoothing sequence, which carry no target,
and after whose last step the count runs. `CommandsSpaced` compares the record with the stamp
(`Stamped`): the last event is never older than the worker's last command, since each of its commands
stamps it and passing time ages both.

`SmoothMoves` needs `OnPath`: an element that is or would be marked has a smoothing sequence, and
the sequence stands where the device is believed to be; an invalidated value would break it, since
it is pending without a sequence. `NeverStranded` is not inductive: an event is consumed by a
worker that leaves an earlier deadline in place, so that deadline must still be one that will fire.
`Waking` adds this (`Ready`: a tracked timer whose callback does not run is armed), and that
values have a payload, without which a read could mark an element nobody attends to. The first
half of a callback breaks `Ready` until the second, which is why the theorem is about `PromptSpec`,
where nothing comes in between; `lost_wakeup` shows what does under `Spec`.

**Subscription.** `Open` relates a call's place to the distributor's map: whoever is registered,
or in the distributor's hand and not yet served, has not closed its channel. `AllOrdered` follows
one parameter through the places between a worker and a client: the versions in the client's
channel, in the distributor's hand and in the watcher rise in this order, all above what the client
has heard, none above the value; what a call has read by itself is bounded by the value
(`AllAnswered`), and reaches a client that is already fed only through a resubscription, which is
marked. `NothingLost` then says of each step where the newest version moves to, and every step is a
step of `Feed` or a stutter.

`StatusesAgree` speaks of a system at rest; what is inductive speaks of one status on its way.
`Traced` looks for the last message about a key between the cache and a client, from the poster
back through the watcher and the distributor's hand to the client's channel: whichever it is, it
says what the cache holds, and if there is none the client shows what the cache holds. It rests on
`Held`, a worker holds statuses of its own device only, so that no two disagree, and `Still`, a
call that has not registered yet has nothing in its channel. The hard steps are a resolve that
covers several keys, which needs `KeysTell` (whatever says something about a device's status comes
from that device: keys one of which is a prefix of the other have the same device), and a snapshot
of statuses that a message in the channel has overtaken: the message says what the snapshot says,
or something newer. At rest nothing is on the way, so the client shows the cache. `TypeOK` of
`Subscription` is proved before, since `Traced` needs every channel to hold messages.

**WorkerPool.** Order says nothing about channels, so the invariant numbers them: for each device
and kind the messages waiting (in the worker's queue, the dispatcher's hand and the source, in that
order) carry the numbers from `begun + 1` to `accepted`, and each message is where `WorkerFor`
sends its device. Then a step of the pool is a step of `DeviceOrder` or a stutter: only the device's
own worker can begin its next message, and it is idle.

**Registry.** `DeclarationsInv` says that all models map ids to names the same way, the generic one
having every id, and that every id is one of its name's. `ClosingInv` follows the calls that end the
declarations, any number of them at once: once one has cached the tables they equal the
declarations and there is a connection, and a second call that found none before is either ended by
the duplicate name or writes what is there already (`ConnectionAdded`). `CallsInv` says what each
goroutine may rely on at each step of its call: the model exists, and the device it is about to
publish or to clear is not registered, unless another call is about that device too; then `Apart`
has it in `contested`, and in `disturbed` if one of them is clearing it. It also says that the
values of every other device are those of its model's parameters. The four properties of the
declarations follow from the first two, the three of the devices from `CallsInv`. `TypeOK` adds what
they leave open (`DeclaredTypes`, `CallTypes`): that ids stay numbers when the code takes a hash, a
free id or the one of the generic parameter.

**Inputs.** The five theorems of `InputProofs` are about every input that `InputsAssumption`
admits; an input never changes, so each rests on a lemma about the operators. The recursions go
over numbers and paths. `CountedUp` is the induction they need, stated of a set rather than of a
predicate (a set that has 0 and with each number the next has all numbers) and proved from the
well-foundedness of the numbers; with it `TreeExists`, `WalkExists` and `SplittingExists` show that
the recursive functions are there at all, that is, satisfy their equations. `FindsTree`: walking
along an address ends at the tree below it if the address is a path, and at nothing otherwise; so
there is a value exactly at the full paths (`AddressesExactly`). `GoesDown` says what one level of
`getValues` does, and three are enough. For brackets, the loop counts the depth (`SplitsAlong`), and
while the text is balanced it knows two things (`PartsGrow`): where the part began that it is
inside of, which is the last outer bracket (`Inside`), and every part that is closed, at its place
(`Before`). `AcceptedIsManageable` discharges `ConfigAssumption` of `ParameterBuffer`, the assumption
under which all theorems about the manager are stated: they hold of every parameter the checks
accept.

**Reload.** `EnvironmentInv` ties the phase of the core and of each child to what the environment
said when they started: a child that has not passed the hook was forked with `CORERELOAD_CHILD=1`,
and the core carries that mark only between fork and exec, so its image after an exec does not take
itself for the child. `Heard` adds that a SIGTERM that waits in the channel of `wait` was sent from
outside, since children send SIGUSR2; so of all the ways for the core to end only the two that
`CoreSurvives` names are left.

## 5. What is only checked, and what is not modelled

Liveness under fairness (`Settles`, `Delivers`, `Drains`, `ReloadTakesEffect`) is beyond the proof
system and stays with TLC. Every invariant and every other action property of the runs is stated by
a theorem, under the assumptions of the table.
`NeverStranded` holds under `PromptSpec` only for parameters that are commanded and for inputs
without the causes above.

Not modelled:

* dynamic limits, options and defaults of a buffer; meta values; Opt increments; the width of
  `int32`; several values for one element in one message; the payload checks of the other value
  types;
* what the registry's getters copy, the details' contents beyond what validation reads, image
  and model information, the option list helpers and other constructors of `paramhelpers`, the
  device id filter (`did-filter.go`), the typed map (`syncmap`);
* generated protocol code, file and network access, logging, `reload-win.go`: I/O around the
  state above. The generated code is two fifths of the repository's lines and has no logic of its
  own; the enumerations the model uses are mapped to it.

The pool, the manager and the subscriptions are composed by contract rather than in one state
space: `ParameterManager` assumes one handler at a time per device, which `DeviceOrder` promises,
and `Subscription` takes published values in the order the device's lock gives them.

## 6. Plan

1. What the manager promises a client as an abstract specification that `ParameterManager`
   implements, as `Feed` is for the subscriptions.
2. Dynamic limits and `int32` arithmetic in `ParameterBuffer`, Opt increments.
3. A device that answers, closing the loop of `ParameterManager`; end-to-end confirmation.
