# A TLA+ verification of vinculum

vinculum is a configuration-driven integration server: a configuration names
clients, servers, buses, triggers, conditions and state machines, and the
process wires them together and runs them. This directory holds TLA+ models of
the parts whose correctness depends on time, concurrency, failure or order, the
TLC configurations that check them, and TLAPS proofs about the conditions, the
triggers, deliveries and the lifecycle, the clients and servers, the build of a
configuration, health, metrics, buses and files.

## 1. The system

| Part | State it keeps | Operations | What makes it hard |
|---|---|---|---|
| condition state machine, `conditions/state.go` | four states, tracked input, latch, inhibit, cooldown, three timer handles, retentive accumulator | `SetRawInput`, `SetInhibited`, `Clear`, four timer callbacks, notification | `Stop()` cannot recall a callback that waits for the lock; notification happens after the unlock |
| condition timer, counter, threshold, flipflop | inputs, counts, windows, wires, a debounce or expiry timer | `set`, `toggle`, `increment`, samples, edges, `reset`, `clear` | a second lock in front of the machine's, whose view of the machine may be stale |
| triggers | a goroutine, a timer, tokens on one-slot channels | `set`, `reset`, watch, the action, `Stop` | fields and token change in separate steps; Stop meets a running action |
| fsm block, `config/fsm.go` | last truth of each reactive event, mailbox | edge detection, enqueue, step | an edge claimed and given back after a refusal |
| health, `config/health.go` | process state, cached report, evaluation in flight, dates | `Status`, `report`, `SetBooted`, `BeginDrain` | one shared evaluation, reports that arrive while it runs, callers that hang up |
| views of health, `config/healthhttp.go`, `healthmetrics.go`, ... | paths served, registered meters | mount, probe, scrape, wait | one report, many ways to look at it, cached or not |
| variables and checks, `types/variable.go`, `config/check.go` | a value, its type, the last result | `set`, `increment`, `toggle`, evaluate | told after the unlock; an evaluation given up on goes on |
| a delivery, `config/settle.go`, `ack.go`, `subs.go` | settlement, deadline | receive, queue, act, ack, nack, expiry | several places may settle; the deadline races them |
| lifecycle, `cmd/serve.go`, `cmd/startup.go`, `config/discard.go` | lists of components by phase | build, discard, start, drain, quiesce, stop | failure half-way, one time budget, sampled quiescence |
| bus, subscriptions, partitions | bus channel, queues, counters | send, match, select a partition, work, drop | order per key, overflow at either queue |
| configuration build, `config/config.go`, `dep.go` | functions, constants, processed blocks | extract, sort, process, discard | order of declarations, shared names, what a refused build leaves behind |
| expression checks, `config/exprcheck.go`, `schema.go` | schema document | walk every deferred expression | judged long before it is evaluated |
| git blocks, line editor | files on disk, temporary files, a lock | fetch, clear, copy; read, rewrite, rename | a kill between two steps, overlapping edits |
| metrics, `config/metrics.go`, `types/metric.go` | a number per series and an instrument that only adds | set, increment, poll | number and instrument change in separate steps |
| procedure language | scopes, frames | compile, bind, interpret | signals through nested loops and branches |
| http client | token cache under a mutex, failure count | request, retry, auth hook, redirect | the hook may call its own client; hook, backoff and counters interact |
| messaging clients | connections, receivers, senders, in-flight counts | process, `Start`, callbacks, `Stop` | failure half-way, callbacks after Stop |
| server authentication | resolved policy, keys, answer cache | resolve, authenticate, discover, introspect | one shared discovery, retries, cached answers |
| http and websocket servers | requests, connections, their queues | serve, upgrade, read, write, shutdown | connections leave while Shutdown closes them |
| protobuf format, durations | descriptor tables, none | encode, decode, parse | widths, absent against zero, nested wrappers |

How they interact: a client delivers a message to the chain of subscribers its
receiver built, which acts, publishes to a bus, or hands it to another client;
actions `set()` variables and conditions; watchables notify reactive
expressions, conditions, triggers and state machines synchronously, on the
goroutine that made the change. Conditions and triggers also run callbacks of
the Go runtime's timers. Clients push connection state into health, and HTTP
probes, metrics and expressions read it. The lifecycle builds everything in
dependency order, starts it, and takes it down in phases.

## 2. Modules

A module models one component: its VARIABLES are the component's fields and the
goroutines that stand between two of its critical sections, each stretch that
holds a lock (or runs alone) is one action, and everything the code does between
an unlock and the next lock may be overtaken. Callers, readers and slots are
goroutines that may call at any time. Libraries, brokers and peers are free
choices, limited to what the code relies on. `PROJECT.json` maps each
definition to its lines.

| Module | Code | Notes |
|---|---|---|
| `ConditionStateMachine` | `conditions/state.go`, `hooks.go` | `sm` is the struct with its timers; each `*Locked` helper is an operator on such records. A timer is armed, then launched, then its callback enters, and `Stop()` affects only an armed one. `Concurrent` chooses between the production clock and the unit tests' single goroutine. `hist` is auxiliary. |
| `TimerCondition` | `conditions/timer.go`, `config/reactive.go` | extends the machine; a call stands before its next critical section |
| `CounterCondition`, `ThresholdCondition`, `FlipflopCondition` | `conditions/*.go` | keep of the machine only the input it was last given |
| `Watchdog`, `IntervalTrigger`, `AtTrigger`, `FileTrigger`, `WatchTrigger`, `OneShotTriggers` | `triggers/*` | the goroutine's place in its select, tokens, timers, stop |
| `FsmBlock` | `config/fsm.go` | reactive edges and the mailbox; the machine is external |
| `Delivery`, `SettlePromise` | `config/settle.go`, `ack.go`, `subs.go`, `functions/inbound.go` | one delivery through every chain; the abstract specification it implements |
| `Lifecycle` | `cmd/serve.go`, `startup.go`, `config/discard.go`, `config.go` | Build to exit, with messages on the way, a ticking trigger and a shutdown trigger whose actions have no deadline |
| `Subscriptions` | `config/bus.go`, `subs.go`, `partition.go` | bus, queues, keys, drops |
| `ConfigBuild` | `config/config.go`, `dep.go`, `const.go`, `vinit.go`, ... | the whole build as phases |
| `ConnectorBlocks` | the `process` functions of all clients and servers | each is its list of steps; a step checks, or leaves something that must be released |
| `ClientRuntime` | kafka, rabbitmq, mqtt, redis and SQS `Start` and `Stop` | the steps of Start in order, with what each leaves running; rabbitmq and mqtt connect in the background, at any time or never |
| `HttpClient`, `HttpExchange` | `functions/http.go`, `clients/http` | retries and the auth hook; one exchange with its redirects |
| `Reconnect` | `config/util.go` | durations as integers of a fixed width, and the reconnect schedule |
| `ServerAuth`, `ServerRuntime` | `config/auth*.go`, `servers/auth`, `servers/http`, `servers/websocket` | a connection's writer is a goroutine of its own: closing the subscriber waits for it, and `bounded` says whether its writes have a timeout; `UnsubscribeAll` may fail |
| `Health` | `config/health.go` | a report corrects the cached slice in place while readers copy it without the lock: whether a reader sees it is a free choice |
| `HealthViews` | `config/healthhttp.go`, `healthmetrics.go`, `servers/http/health.go`, `cmd/health.go`, `functions/health*.go` | Status answers anew or from the cache; a body is whether it passes and whom it names |
| `WatchedValue` | `types/variable.go`, `config/variable.go`, `config/check.go` | a value is a type and a number; a check's input gives any of a few answers |
| `GitFetch`, `LineEditor` | `config/git*.go`, `editors/line` | with kills of the process; what is on disk survives |
| `Metrics`, `Procedure`, `DeferredCheck`, `ProtoWire` | `config/metrics.go`, `types/metric.go`, `procedure`, `config/schema.go`, `exprcheck.go`, `wireformats/protobuf` | conditions of a program come out either way; a number is an integer of a small width |

`MCPipeline`, `MCReactive` and `MCPlatform` put several modules into one run. A
behaviour is that of one module: `unit` says which, chosen in the initial state,
and the module is an INSTANCE over variables that are lent to it. They take the
instances through the modules that hold the proofs, so that the theorems come
with them. A property of such a run is the conjunction, over the units, of
properties defined in their modules. `PlatformUnits` has the twelve units of
`MCPlatform` that theorems are proved of, in the specification `Units`, and the
properties that are about them alone; `MCPlatform` extends it by the units that
are only model-checked. `MCInputs` holds the blocks, calls, files and messages
those units start from. `MCLifecycle`, `MCHttpClient` and `MCConfigBuild` give the
inputs of single runs.

The proofs are in modules of their own:

| Module | Proves about |
|---|---|
| `ConditionProofs` | `ConditionStateMachine`, `TimerCondition` |
| `ReactiveProofs` | counter, threshold, flipflop, the triggers with `Watchdog`, `FsmBlock` |
| `PipelineProofs` | `Delivery`, `SettlePromise`, `Lifecycle` |
| `ServiceProofs` | `HttpExchange`, `ServerAuth`, `ServerRuntime`, `ConnectorBlocks`, `ClientRuntime`, `GitFetch` |
| `PlatformProofs` | `ConfigBuild`, `Health`, `HealthViews`, `Metrics`, `Subscriptions`, `LineEditor` |
| `MCPipeline`, `MCReactive`, `PlatformUnits` | the composite properties of three runs |

`ReactiveProofs`, `ServiceProofs` and `PlatformProofs` take each component as an
instance in a section of its own; variables and constants of one name are shared
between the sections, which no theorem depends on.

Operators commented "Broken form" are deliberate mistakes, each of the kind a
change of the code could introduce, kept beside the definition they replace.
Substituting one makes TLC report a property of the run; `PROJECT.json` lists
one for each property. They are used by no specification.

## 3. What the runs check

Condition state machine:

- `condition_concurrent` — all four delays of one tick, `start_active` and
  `invert`, four timers, so that every kind of timer can coexist with a stale
  one. Nothing deferred is stranded (`NoLostWakeup`), state and input agree
  (`InputAgrees`), hooks balance (`HooksBalance`), inhibit blocks late
  activations (`InhibitBlocks`).
- `condition_latch` — latch with retentive delay: the latch has no timer, stale
  or not, that could end it, and falls only in `Clear`.
- `condition_sequential` — the documented delays, exact to the tick, when
  callbacks run on time; each delay has a length of its own. Under weak fairness
  the output settles to what input and latch demand once callers are quiet.

`watchdog_fed` — two feeders against the countdown: `Stop` returns. The safety of
the same watchdog, with its grace period, cap and two feeders, is checked as unit
`fed` of `reactive`.

`pipeline` — one delivery through every chain that ack mode, `settle_timeout`,
queues, buses, transforms and targets make: nothing is acknowledged before its
work is done (`NoEarlyAck`), the log says who settled (`LogTellsTruth`), a
refused settlement leaves the deadline running (`DeadlineHeld`), a manual
delivery is settled or reported in the end (`ManualBounded`), and `Delivery`
implements `SettlePromise` (`SettlesAsPromised`). The refinement maps `work`,
`outcome`, `by` and `logs` to themselves and the timers of the settle points to
one `clock`; the promise is that the framework acks what is done and nacks what
failed, that the configuration settles only while its action runs, and that a
deadline, once armed, ends with a settlement or with an expiry that settles or
reports. That nothing is settled twice is the transport's doing
(its settler is external, `Attempt`), and no property is about it. The process from Build to exit: a settlement refused by a closed
transport was warned of (`RefusedOnlyWarned`), queues are empty when transports
stop unless the budget ran out (`QueuesEmptyAtStop`), a discarded build and a
shutdown leave nothing running (`NothingLeftRunning`), and shutdown ends
(`ShutdownEnds`), whatever any queue's or bus's action does, unless one of the
two actions it waits for without a budget never returns (`Held`, section 4).

`reactive` — condition filters, triggers and the fsm block:

| Property | Parts, by module |
|---|---|
| `NothingStranded` | an edge, window, event, delay or override put off has a timer or token: `WindowArmed`, `EdgeNotStranded`, `DelayCurrent`, `OverrideKept`, `EventNotStranded`, `EdgeNotSwallowed`, `NoLostFeed` |
| `LoneCallDecides` | a call that overlaps nothing takes effect, whatever raced before: `LoneCallTracks`, `LoneEdgeCommits`, `DesiredCommits`, `TracksInput`, `LoneCallCommits`, `LoneCallDecides` |
| `NothingTwice` | `RolloverReleases`, `Hysteresis`, `LatchTransparent`, `FiresOncePerFeed`, `MissesCapped`, `StopWaits`, `StopQuiet`, `OneResult`, `NothingAfterStop`, `OneEventPerEdge` |
| `StepsInTime` | the watchdog fires only after an unfed window (`FiresUnfed`), a closed gate changes nothing (`GateCloses`) |

`platform` — the rest:

| Property | What it says, by module |
|---|---|
| `NothingLeftOver` | what was refused, stopped or killed leaves nothing running, registered or on disk, but for the subscription of a connection the bus did not let go: `ConnectorBlocks`, `ClientRuntime`, `ServerRuntime`, `ConfigBuild`, `GitFetch`, `LineEditor` |
| `RequestsVetted` | a request is admitted, and a credential sent, only as configured; a revoked token lapses; an endpoint without authentication stays terse: `ServerAuth`, `HttpExchange`, `GitFetch`, `HealthViews` |
| `OrderKept` | references first, sort complete and circles found exactly, messages of one key in order, a name, a path and a meter have one owner: `ConfigBuild`, `Metrics`, `Subscriptions`, `HealthViews` |
| `ContentKept` | fetched trees are whole, locked edits lose nothing, a kill leaves old or new file, a backup is what was edited: `GitFetch`, `LineEditor` |
| `ReportsTrue` | in-flight counts, drains, acknowledgements, states and failures that are reported are what happened, and every view of health tells of one report: `ClientRuntime`, `Metrics`, `HealthViews` |
| `WithinBounds` | type invariants, redirects, one evaluation at a time, no waiter without an attempt under way: `HttpExchange`, `ServerAuth`, `Health` and eight more |
| `CountsHonest` | drops, exported numbers, edits and the lists a block was entered in are counted right; a watcher is told of every change, the ready handle of every flip; numbers, names and relayed messages arrive as they were: `ConnectorBlocks`, `Health`, `Metrics`, `Subscriptions`, `LineEditor`, `WatchedValue`, `ProtoWire` |
| `Bounded` | sends, waits and re-authentication stay in their bounds, nobody waits for himself: `HttpClient`, `HttpExchange`, `Reconnect`, `Health` and, for `$undeliverable`, `Subscriptions`; the remaining type invariants |
| `LanguageSound` | loops catch their signals and only theirs, a procedure that must return does, arguments land; a deferred expression is refused exactly if its evaluation would fail on a name; a variable keeps its type: `Procedure`, `DeferredCheck`, `WatchedValue` |
| `StepsAllowed` | no step touches a foreign file, lowers a counter, drops a message unseen by `queue_ratio`, or hides a pushed state: `GitFetch`, `Metrics`, `Subscriptions`, `Health` |
| `AnswersComeBack` | under fairness every call, request, question and build ends, and every connection Shutdown saw is closed, unless its writer may wait for ever: `HttpClient`, `ServerAuth`, `ServerRuntime`, `ConfigBuild`, `Health` |

The first six and `StepsAllowed` are about the units of `PlatformUnits` and are
proved (section 5); the other four have at least one part that is only checked.

A circle of references is stated without recursion, as a set of blocks each of
which waits for another of the set (`HasCircle`); the sort of `ConfigBuild` is
Kahn's, one block a step, so that "found exactly" compares two different things.

`SeriesAgree` is stated for each probe of a scrape alone. `config/healthmetrics.go`
says that "one refresh covers everything"; `observeHealth` asks `Status` once for
each probe, and the cache may lapse or a report arrive between the two.

Bounds. `TimerIds` limits the timers alive at a time: four allow one stale
callback beside a complete set; `DebIds` does the same for debounce timers.
`MaxNotices` limits notifications under way. `MaxCount`, `MaxRuns`, `MaxCalls`,
`MaxEvents`, `MaxChanges`, `MaxSends`, `MaxFlips`, `MaxPolls`, `MaxTicks` bound
how often the environment acts; each allows one more than the shortest race
needs. Two callers, readers or slots are enough for every race found between two
critical sections. The liveness property of `MCPlatform` is stated of one slot,
since what two may do is the same. `MaxNow` ends time in `Health`; `MaxCrashes`
is one kill of a fetch and one of an edit. `W32`, `W64`, `MaxInt` and `Second`
scale integer widths so that small numbers reach the edges. Delays are 1 to 5
ticks: they have to differ, not to be long. `MCReactive` has one timer of the
machine itself, whose stale callbacks are the subject of the condition runs, and
two debounce timers. Its callers and timers are interchangeable, and its run,
which has no liveness property, uses that symmetry.
`CHECK_DEADLOCK FALSE` stands where a unit really ends: a process that has
exited, a call that was answered, a budget of events that is used up.

Fairness. Go runs every runnable goroutine, time passes, and the runtime starts
the callbacks of due timers; so each such step is weakly fair. The watchdog's
exit is strongly fair because a Go select picks among ready cases at random. In
`MCPlatform` a caller's, request's or connection's own next step is weakly fair,
and a discovery attempt ends (it has a timeout, `servers/auth/oidc.go`). In
`Lifecycle` the main goroutine, the shutdown deadline and the closing goroutine
are; a trigger's action, a queue's and a bus's are not. In `ServerRuntime` a
write is fair only where `write_timeout` is above 0 or the socket is gone: with
0 a peer that does not read holds it. Nobody is obliged to call anything, to
deliver a message, to read or leave a connection, nor to give up waiting.

## 4. Where code and documentation disagree

Five runs end in a violation, each with a trace of the code's own behaviour:

| Run | What happens |
|---|---|
| `stale_activation` | A late activation callback serves a newer pending activation: `activate_after` is cut short (`conditions/state.go:310`). |
| `health_stale` | A report pushed during an evaluation is overwritten by it (`config/health.go:529`). |
| `quiesce_slip` | A message taken from a bus whose action still runs is counted by nobody; with no broker behind it, it is lost without a warning (`cmd/serve.go:314`). |
| `retry_resends` | After an `on_response` delay the loop sends, ignores the answer and sends again, even after a success (`functions/http.go:372`). |
| `declaration_order` | Of two blocks of one name, one disabled, the last declared orders the build; a referring block may be processed before the enabled one (`config/dep.go:189`). |

Seen while modelling, without a run of their own:

Conditions and triggers.
- A late cooldown callback ends a newer cooldown, and one for a paused retentive
  condition activates it with a false input: the cause is that of
  `stale_activation`. Setting `Concurrent = TRUE` and `SPECIFICATION Spec` in
  `MC_ConditionSequential.cfg` shows it for `CooldownObserved`.
- A falling input abandons the `activate_after` window of a condition that is
  not retentive; `doc/condition.md:86` and `:347` say that it does not restart.
- Overlapping samples of a threshold can leave its stable value apart from the
  derived one until the next sample; a toggle of a flipflop that overlaps a
  clear can be lost; of two overlapping evaluations of a timer's input the older
  can be applied last.
- An action that fails skips the `max_misses` check (`watchdog.go:185`, against
  `doc/trigger.md:1483`).
- An interval trigger whose delay cannot be computed ends its goroutine for good;
  a `reset()` during an action is undone by the action's result.
- A debounce timer of a file trigger that is Reset while its callback waits runs
  it twice, and Stop does not stop these timers; a watch trigger's `OnChange`
  between the check of the flag and `wg.Add` runs an action after Stop.
- A failed evaluation of an fsm event while it is false swallows the next edge.

Health. A liveness read during shutdown can turn `sys.ready` true again
(`health.go:544`, against `doc/health.md:981`). A reader that hangs up before the
first evaluation ends is served an empty list, which passes (`health.go:505`).

HTTP. Calls rejected together re-evaluate the auth expression once each, since
each rejection drops the token another has just made (`auth.go:337`, against
`doc/client-http.md:600`). An `expires_at` in the past is cached without expiry.
A 401 and its repeat count as two failures. `max_redirects` alone turns
following on. `auth = []` on a route admits everybody.

Servers. A connection upgraded but not yet tracked when Shutdown takes its
snapshot is never closed (`websocket/listener.go:70`, `:137`); an introspection
answer delayed past a newer one replaces it in the cache.

With `write_timeout = 0` a peer that does not read hangs its connection's cleanup
for good: `cleanup` closes the subscriber first (`websocket/connection.go:191`),
which waits for the writer, and only then the socket, which would release it.
Shutdown gives up on it at its deadline; `ShutdownCloses` excepts it
(`Hanging`). A failed `UnsubscribeAll` is logged and the connection forgotten
(`websocket/listener.go:105`), its subscription left on the bus with a queue that
takes nothing; `ShutdownTrue` and `HandlerLeavesNothing` except it (`Forsaken`).

Shutdown. `cmd/serve.go:351` says that "an action that never returns must not be
able to hang the process", and gives closing the queues a budget for that. The
shutdown trigger's action runs inline with none (`serve.go:213`,
`triggers/shutdown/shutdown.go:87`), and `Stop` of an interval or watchdog
trigger waits for its running action with none (`interval.go:167`,
`watchdog.go:145`): either can hang the process. `ShutdownEnds` names these two
(`Held`), and TLC finds the behaviour when that disjunct is dropped.

Build and clients. A reference such as `client.x.sender.y` names no block and
orders nothing (`dep.go:208`); an editor or procedure replaces a function of the
same name without a diagnostic; a receiver-only kafka client is never ready; a
failed kafka Start leaves its senders wired; the queue goroutines of a block that
is refused later are not closed.

Files and languages. A copy that fails half-way without `overwrite` leaves a
destination that every later start refuses. The `before` of a line editor loses
mode and owner. An empty `else {}` or `default {}` is compiled as none; two
`params` blocks let a required parameter follow an optional one. A labelled
counter reads 0. Enum numbers, 32-bit map keys and large floats are narrowed
unchecked by the protobuf encoder; an `Any` around a well-known type decodes to a
value that cannot be encoded again. `max_delay = 0` is accepted.

## 5. What is proved

Every theorem is proved for all values of its module's constants, bounds
included: the bounds of section 3 are TLC's, not the proofs'. Assumptions on
constants are types and the distinctness of names. Where a theorem needs to know
what a block may hold, that is a hypothesis with a name:

| Hypothesis | What it says | Why the code justifies it |
|---|---|---|
| `TargetsOK` | a subscription's target is one of the five kinds | `GetSubscriberFromExpression` knows no other |
| `ConfigOK` | receivers have names of their own | a name is taken once per kind of block |
| `~Concurrent` | one goroutine, callbacks on time | the fake clock of the unit tests; without it the delays are not exact (run `stale_activation`) |
| `CounterOK`, `ThresholdOK`, `FlipflopOK`, `WatchdogOK` | attributes are integers and times, wires read sources | decoding refuses anything else |
| `TimerOK` | the window is a time, identities differ | the model's names only |
| `OneCaller` | an input expression, no debounce, no timeout, one goroutine that changes what the expression reads | two may leave the machine with the older value |
| `Prompt` | a ready goroutine runs before time passes | delays are judged by it; the other watchdog theorems do without |
| `~ActionFails` | the watchdog's action does not fail | section 4 says what happens if it does |
| `ExchangeOK` | headers are among those the model follows, a URL's key says whether the base or the call gave it, limits are numbers | the model's way to write data down |
| `AuthOK` | no block is called `anonymous`, a route lists names that are declared, kinds are the five there are | `config/authblock.go:81` reserves the name; a route that names no block is refused when it is decoded |
| `ServerOK`, `ConnectorOK`, `ClientOK` | kinds are the registered ones, bounds are numbers | the type label of a block selects among them |
| `BuildOK`, `MetricsOK`, `BusOK` | blocks are a sequence; sizes and partition counts are numbers, keys of the kinds `partition.go` knows | decoding refuses anything else |
| `HealthOK`, `ViewsOK`, `EditorOK` | goroutines and components have names of their own, editor calls are finitely many, a listener has no routes of its own | the model's names; the `--health-listen` listener (`config/healthhttp.go`) mounts nothing else |
| `HealthSerial` | one call at a time, `Ready()` answers what was last pushed | needed for `HealthServesPushed` and `HealthSinceStands` only; run `health_stale` shows the first fails without it |
| `GitOK` | destinations and attributes exist, none without an `auth` block; no file of the tree is called what a stranger's is | decoding of the block; the model's names |

### Condition state machine: `ConditionProofs`

`TypeCorrect`, `LatchIsSafe`, `WakeupNeverLost`, `InputAlwaysAgrees`,
`LatchOnlyCleared`, `InhibitAlwaysBlocks`, `HooksNeverDrift`, with late callbacks
and the production clock included. The first four rest on `Invariance`: `IndInv`
is `TypeOK` and `Sound(sm)`, where `Sound` adds to the properties what makes them
inductive:

- each handle names a timer of its own kind or one that has run, so that
  stopping "the pending timer" never stops a cooldown timer;
- an unexpired cooldown has a cooldown callback outstanding, so that an input
  suppressed by cooldown is taken up again;
- a pending activation with a false input is a paused retentive one, with no
  pending handle, so that the next rise resumes it;
- with `latch`, no timeout or deactivation timer exists at all, armed or
  launched.

`Core` is the part that also holds inside a critical section; every helper has a
lemma that it keeps `Core` and says which fields and timers it leaves alone, and
each action is proved from the lemmas of the helpers it calls.

Under `~Concurrent`: `WatchersAlwaysAgree`,
`ActivationAlwaysDelayed`, `CooldownAlwaysObserved`, `TimeoutAlwaysExact`,
`HoldAlwaysExact`. `DelayInv` adds to `IndInv` that events come one at a time
(`OneEvent`: one callback is launched at most, and none while a notification is
on its way) and `Timely`, which ties what each timer has left, the cooldown and
the retentive accumulator to what the history variable has observed. A delay is
exact because both count the same ticks.

### Timer condition: `ConditionProofs`

`TimerImplementsMachine` is a refinement: whatever calls, debounce callbacks and
a reactive input do between the two locks, the machine beneath sees one of its
own steps or none, so that the theorems above hold of it. `EdgeNeverStranded`
follows from an invariant that says of every running callback whether it still
owns the handle. `LoneCallAlwaysCommits` needs `Alone`: after a call that nothing
overlapped, either its debounce waits or the call itself carries the value.
`InputAlwaysTracked` needs `Tracking`, where the one caller stands and what it
then knows of the input.

### Filters, triggers, fsm: `ReactiveProofs`, `MCReactive`

One inductive invariant per component. They have a common shape: a value that
was decided is in the machine, or a goroutine between two critical sections
carries it, or a timer or token that brings it is outstanding. What each adds:

- counter: a running expiry timer is the oldest event's, and with `rollover`
  whoever brought the count to the preset is still on its way to the reset or to
  the release after it;
- threshold: the levels of an accepted block are apart, and the goroutine under
  way carries the derived or the stable value, whichever it is about to commit;
- flipflop: a level gate is open as its last seen value says, and the latch has
  the input's value unless the input, or a gate that closes, has still to be
  heard;
- interval, at: from the moment a call has changed the fields until the
  goroutine takes it, a token is under way, and one is dropped on the channel
  only because an equal one is there;
- file: which of loop, timers and callbacks may still run at each stage of Stop;
- watch: once the flag is up a notifier turns back, and only one that was past
  it when the wait ended starts anything;
- once, start, after: whoever runs the action is alone and has not stored yet;
- fsm: an edge that was claimed is held by one notifier, or has been sent;
- watchdog: `WatchdogFeedInv` says of a running action what `NoLostFeed` says of a
  waiting goroutine, `WatchdogCapInv` where a count below the cap is guaranteed,
  `WatchdogPromptInv` that a countdown that ran out has met no feed and that what is left
  and what has passed make a window.

`MCReactive` takes them together: its run's four properties are the theorems
`NothingEverStranded`, `LoneCallsDecide`, `NothingHappensTwice` and
`StepsAlwaysInTime`, for every value of the run's constants (the two timer
conditions and the two watchdogs in it have fixed delays). A lemma for each unit says
that a behaviour of the run is one of the component from beginning to end, and
the component's theorem does the rest.

### Delivery and lifecycle: `PipelineProofs`, `MCPipeline`

`DeliversAsPromised` is the refinement: every step of a delivery is a step of
`SettlePromise` or leaves settlement, work and clock alone; the clock is on while
a settle point's timer is armed or its callback has still to look, and the
invariant says that no other place can put it off. `NeverAckedEarly`, `LogIsTrue` and
`DeadlineAlwaysHeld` rest on an invariant in four parts: how a chain is built
(every subscriber but the last passes on or takes over, so that what
`DispositionOf` finds behind any number of wrappers is what will happen), who has
settled and what was logged of it, which deadline is armed for which settle
point, and what the work's state says of the outcome.

`NoSilentRefusal`, `QueuesDrained` and `AllStopped` hold for any number of
receivers. The invariant follows the process through its phases: what is built
is registered (`BuildInv`), a message is where its holder says (`MessageInv`),
nothing enters a receiver that was drained (`DrainInv`), what two readings of the
holders, taken one after the other while messages move, tell about what is left
(`QuiesceInv`), and which queues and transports are down already (`CloseInv`,
`StopInv`). `QuiesceInv` is the hard one: no single reading proves the pipeline
empty, since a message may move from a holder not yet read to one already read;
the invariant says what an unchanged sum excludes. The model keeps the lists of
registered components as the variable `config`, which the shutdown walks.

`MCPipeline` carries these over to the run's properties of the same names.

### Clients, servers, authentication, git: `ServiceProofs`

- `HttpExchange` (`ExchangeInv`): once sent, a request carries the headers that
  the layers of the client, the call and the auth hook make; a query key of the
  base URL is there only if the call's own URL does not give it (`ExchangeUrl`);
  credentials go to another origin only if the client says so, and redirects are
  counted.
- `ServerAuth` (`AuthInv`): until the route is resolved, a name that is bound is
  bound by its one enabled declaration, and the last declaration of a name comes
  after the others (`AuthBound`), which gives `AuthRouteGuarded` in any order of
  processing; where a request stands says which mechanism took it up and that it
  is the first that could (`AuthTaken`); an answer that is cached or on its way
  was asked for before the revocation, or is marked (`AuthDropped`);
  `WaitersCovered` carries itself.
- `ServerRuntime` (`ServerInv`): which of the map of connections, the
  subscriptions, the sockets, the writers and the closers a handler at each of
  its places may still have, and that a cleanup is past its subscriber only when
  the queue is written; a clean Shutdown then leaves none to those it saw, but a
  subscription the bus did not let go.
- `ConnectorBlocks` (`ConnectorInv`): the steps of every kind of block are in an
  order (`ConnectorOrder`: what Discard must find is entered after the last
  check), and what is left is a count of the steps made so far.
- `ClientRuntime` (`ClientInv`, `ClientEventInv`): by the position in Start, what
  is running, published, open and still connecting; a hook that is outstanding
  brings the last state (`ClientHeard`); a connection is launched only when the
  fields are published (`ClientLast`), so that one made while Drain or Stop runs
  is closed and reported (`ClientClosed`); an event that was answered saw the senders it needed.
- `GitFetch` (`GitInv`): what a destination holds at each step of a copy
  (`GitCopying`), what of the earlier fetches stands (`GitStands`), and that past
  the clone the block is a valid one (`GitCloned`). A path is cleaned by a
  recursive function, so `GitPathsAgree` goes by induction over the positions of a
  path, done with the set of the positions for which the claim holds (`UpTo`):
  every path that validation lets pass names a place inside the clone.

### Build, health, metrics, buses, editor: `PlatformProofs`

- `ConfigBuild` (`BuildInv`): the order built so far is a set without repetition
  each of whose blocks stands behind what it waits for (`BuildOrdered`), and what
  is left waits only for what is left; a block with nothing left before it is
  missing exactly if the rest holds a circle. `BuildNoSpuriousCircle` shows that
  the implicit references to backends close none.
- `Health` (`HealthInv`, `HealthAlone`): an evaluation in flight has one owner,
  and whoever waits waits for it. With `HealthSerial` the cached answer about a
  notifier is its state, or its report is about to be made.
- `HealthViews` (`ViewsInv`): mounted paths, meters and bodies against the one
  report; its properties are inductive together.
- `Metrics` (`MetricsInv`): the names recorded are those of the blocks passed,
  distinct by name and by key, and what a call still owes a counter's instrument
  is not negative, whatever other calls do to the value in between.
- `Subscriptions` (`BusInv`): what a subscription has done, works on and has
  queued are positions of messages sent, each in the lane of its key and in
  increasing order, and the bus holds later ones (`BusFlow`). `BusKeyOrder` is for
  any hash of keys.
- `LineEditor` (`EditorShape`): with locks, what a call that holds the lock has read
  is what the file is (`EditorBase`), and the file's version is the number of
  calls that answered true (`EditorCount`).

`PlatformUnits` takes them together. Its seven theorems say of every behaviour of
`Units`, for the sizes of the run and all blocks, calls and messages the
hypotheses admit, what the run checks. The assumption `BlocksOK` is the
conjunction of the hypotheses above for the inputs of `MCInputs`; TLC evaluates
it at the start of the run.

### Only model-checked

- liveness (`EventuallyActive`, `StopReturns`, `ManualBounded`, `ShutdownEnds`,
  `AnswersComeBack`): the prover treats neither fairness nor `ENABLED`;
- `Procedure`, `DeferredCheck`: their `RECURSIVE` operators cost a module that
  reaches them the SMT backend; `EditsJustified` of the line editor: what a
  recursion over the lines of a file computes needs induction over data, which the
  provers cannot instantiate;
- `BackoffSane`, `Reconnect`: the delays are powers, and the SMT backend has no
  `^`;
- `ProtoWire`: bounded integers with modulus and shifts, checked over all numbers
  of the scaled widths;
- `HttpClient`, `WatchedValue`, `Health` with overlapping calls (`FlipsBalance`),
  `ExportAgrees`, `CountsTrue`, `Accounted`: no theorem was attempted;
- the specification `Spec` of `MCPlatform`: it adds to `Units` the units above and
  fairness. No property of `PlatformUnits` speaks of the added units.

## 6. Not modelled, and the plan

Not modelled: the function library and the other value types, the remaining wire formats,
documentation and decoding of single blocks, the MCP protocol, the REPL and the
command line: pure conversions, user interface, or protocol I/O over external
libraries. `PROJECT.json` gives the reason for each, and says of a part that is
only partly modelled what is left out.

Next:

1. `SendsBounded` and `NoSelfWait` of `HttpClient`, `ToldAll` of `WatchedValue`,
   `FlipsBalance` of `Health`, `CountsTrue` of `Subscriptions` as theorems.
2. The SQL client's transactions.
3. An abstract condition (output follows input, eventually) implemented by the
   state machine.
