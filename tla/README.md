# Models and proofs for kubikles

kubikles is a desktop application (Go backend, React frontend, Wails between
them; optionally a web server in place of Wails) that browses and operates
Kubernetes clusters. Most of its code is a thin layer over the Kubernetes API.
What is hard in it is concurrency: goroutines per watch, per log and per port
forward, timers that race with the calls that stop them, requests that are
replaced while they run, and a frontend that must end up showing what the
cluster holds. This directory models those parts in TLA+, checks them with TLC
and proves the most important safety properties with TLAPS.

Run things here with `tlc -config X.cfg M` (X and M as in the table of runs) and
`tlapm M_proofs.tla`. `PROJECT.json` holds the map from every definition to its
source lines, the mutants that show that each property can fail, the hazards
and the theorems.

## 1. Inventory

Components that carry state across calls, most important first. Paths are
relative to `src/`.

| component | state | operations | hard behaviour | correct when |
|---|---|---|---|---|
| Event coalescer (`eventcoalescer.go`) | newest event per key, pending flag, timer, frame interval, batch size | Emit, flush (timer), FlushNow, Clear, the two setters | a timer callback that already waits for the mutex cannot be stopped; capped flushes; DELETED bypasses the buffer | events of an object arrive in order, none is stranded |
| Resource feed (`app_watchers.go`, `useResource.tsx`, `useResourceEventHandler.tsx`, `K8sContext.tsx`) | resource version and back-off per watch loop; rows, journal, current list request per view | watch, resume, ERROR and back-off, list with pages, batch reducer, reconcile after a restart | list and watch are unordered; history is lost after Expired or Gone; requests are replaced while they run | the rows converge to the cluster |
| Watcher manager (`app_watchermgr.go`, `useResourceWatcher.tsx`) | watcher, reference count and cleanup timer per key | Subscribe, Unsubscribe, cleanup (after 5 s), StopAll, RestartAll | effects torn down before their answer came; late cleanups; calls of before a StopAll | whoever subscribed is watched, no loop leaks, unused ones stop |
| Port forwards (`portforward.go`) | saved configurations, port index, active forwards and their goroutines | Add, Update, Delete, Start, Stop, StopAll, StopAllForContext, retry loop | Stop waits without the mutex and gives up after 5 s | ports unique, every goroutine reachable, statuses true |
| Request managers (`listrequests.go`, `metricsrequests.go` and the hooks that call them) | request per ID, counters, the flag that allows cancellation | Start, Complete, Cancel, timeout | replaced, cancelled and late requests; one ID used again | counters exact, the newest answer is shown |
| Log streaming (`app_logs.go`, `logcoalescer.go`, `podlogs.go`, `useLogStream.ts`, `logUtils.ts`) | a stream per viewer, a line buffer and timer per stream; lines, cursors and flags of the viewer | Start, Stop, read, reconnect, batch, done, error; first page, older and newer chunks, polls, jumps | Start is answered after the viewer left; batches leave the mutex before they are emitted; the API tells times in whole seconds; several containers are merged | the log is shown exactly, without gaps; streams that were left stop |
| Context session (`K8sContext.tsx`, `contextSwitch.ts`, `app_context.go`) | current context on both sides, namespace options, selection, what is saved of it, indicators | switch, commit, load, refresh, retry, namespace events, restart | lists and events of a context that was left arrive later; loads share requests; setters are batched; two switches may overlap | options and selection belong to the current context, indicators go off |
| Connection monitor (`K8sContext.tsx`, `streamingCompatibility.ts`) | last status per type, failures per watch, connection mode | handleWatcherError, handleWatcherStatus, setConnectionMode, reconcile timer | several watches of a type share one status; an event ERROR reconnects without a status; failures age out of a window | a restarted watch makes the views list, a failing one makes them poll |
| Polling and its budget (`completionPolling.ts`, `useCompletionPolling.ts`, `pollingBudget.ts`) | clock, registered polls, active count, queue | start, tick, register, refresh, acquire, release | a wake-up happens after the release; polls are cancelled while they wait | no slot is lost, no round stalls, at most four run |
| Views with fetches of their own (twenty panels) | target, fetches under way, data, loading | effect, poll, refetch, answer | answers come late and in any order | the newest answer is shown |
| AI assistant (`pkg/ai`, `AIChatContext.tsx`) | sessions, generations and cancelable requests in the backend; messages, streaming flag and a generation of its own in the frontend | open, send, cancel, new, load and delete chat, disconnect | late events of a cancelled message; two generations that must agree; batched updaters; a session that is closed while a message to it is registered; calls that fail | an answer belongs to its question and ends |
| Ingress forwarding (`ingressforward.go`, `pkg/hosts`) | one state record, its forwards, the hosts file | Start, Stop, RefreshHostnames, clean-up | each step of Start may fail; the hosts file may be written by a command that then fails; Stop does not wait for a Start; a crash, and what it leaves in other contexts | up as a whole or down as a whole |
| Exec credential guard (`pkg/k8s/execauth.go`) | the attempt in flight, last error, cool-down | check | callers cancelled while the plugin runs | one plugin process at a time, rest after a failure |
| Terminals (`pkg/terminal`) | sessions by ID and client | Start, Close, disconnect | a client that leaves while its session starts | a session ends with its client |
| Server mode (`pkg/server`, `runtime.ts`) | clients, broadcast channel, the browser's connection | emit, broadcast, register, shutdown, reconnect | a full queue, a closed channel, a client removed from two sides, events lost while reconnecting | no gap within a connection, nobody blocked at shutdown |
| Dependency graph (`pkg/k8s/deps_*.go`, `DependencyGraph.tsx`) | the graph of one request; what the view shows, an offset per expanded summary | get, aggregate, expand | parents are chosen in the order of a Go map; answers are merged into the last render | what the cut hides is counted, and can be had by expanding |
| Bulk actions (`useBulkActions.tsx`, `BulkActionModal.tsx`) | progress, the pause flag, who waits to be resumed, a backup that can be aborted | open, back up, confirm, pause, resume, close | closing stops neither the loop nor the backup | the dialog shows the action it confirmed, a pause ends, no action during its backup |

Components without state worth a model (formatting, single API calls, pure
functions of one request, files) are in `PROJECT.json` with the reason: issue
detector, metrics and Prometheus, Helm, resource actions,
diagnostics, file transfer, certificates, embedded browser, themes, crash log,
assets, the generated dispatcher, MCP server and tools, views.

### How they interact

    cluster --watch--> watch loop --Emit--> EventCoalescer --batch--> handleEvents --> rows
                 ^         |                                             ^
     Subscribe ->| WatcherManager (one loop per key)                     | journal, list
                           '--status--> K8sContext --refresh--> list --> RequestManager --> cluster
    cluster --log--> StreamPodLogs --EmitLine--> LogCoalescer --> handleLogEvent --> viewer
    SwitchContext: StopAllForContext (PortForward), Clear (EventCoalescer),
                   StopAll (WatcherManager); then ContextSession commits and loads
    watch status and errors --> ConnectionMonitor --mode--> Polling --poll--> views
    Ingress Start/Stop --> PortForward, hosts file
    events in server mode: EmitEvent --> ServerEvents --WebSocket--> browser

Backend calls of the frontend are asynchronous RPCs: each runs in its own
goroutine, so two calls may be served in either order. Events go the other way
through one queue and are handled in order. Backend components protect their
state with a mutex each and call each other directly.

## 2. Modules

| module | models | role |
|---|---|---|
| `FrameBuffer` | | abstract specification of the coalescer |
| `EventCoalescer` | `eventcoalescer.go` | implements `FrameBuffer` |
| `ClusterLog` | the API server (external) | log of changes, lists, watches from a position |
| `ResourceFeed`, `_proofs` | watch loop, reducer, list and journal, reconcile trigger | uses `FrameBuffer` and `ClusterLog` |
| `SharedWatch` | | abstract specification of the watcher manager |
| `WatcherManager`, `_proofs` | `app_watchermgr.go`, `useResourceWatcher.tsx` | implements `SharedWatch` |
| `PortForward`, `_proofs` | `portforward.go` | |
| `RequestManager` | `listrequests.go`, `metricsrequests.go`, the effects that call them | |
| `LogStream` | log coalescer, stream goroutine, viewer | |
| `MergedStream` | the stream of several containers (`podlogs.go`, `useLogStream.ts`) | |
| `LogPaging` | pages, chunks and polls of the viewer | |
| `ContextSession`, `_proofs` | the cluster session of the frontend and the backend's current context | |
| `ConnectionMonitor` | what the frontend makes of statuses and errors of watches | loops of `ResourceFeed`, reduced to what they tell |
| `Polling` | the polling clock, the polls, the budget | |
| `Panels` | effects that fetch, by kind of guard | |
| `AIChat` | chat of the frontend, sessions of the backend | |
| `ExecAuth` | the guard of an exec credential plugin | |
| `IngressForward` | ingress forwarding | operations of `PortForward` as steps |
| `ServerEvents` | server mode, clients, terminals | |
| `DependencyGraph` | the walks of all kinds, the cut, the expansions of the view | |
| `SmallClusters` | | six clusters for `DependencyGraph`, values for TLC |
| `BulkActions` | the loop over a selection, its dialog and backup | |
| `MCFrontend` | | `AIChat`, `Polling`, `Panels`, `ConnectionMonitor`, `LogPaging`, `MergedStream` in one run |
| `MCServices` | | `ExecAuth`, `IngressForward`, `ServerEvents`, `DependencyGraph`, `BulkActions` in one run |
| `FrontendInvariants` | | the inductive invariants of the parts of `MCFrontend` |
| `Lines_proofs` | | proofs about `LogPaging` and `MergedStream` |
| `Frontend_proofs` | | proofs about the other parts of `MCFrontend`, and all together |
| `Calls_proofs` | | proofs about `RequestManager` and `LogStream` |
| `Services_proofs` | | proofs about the parts of `MCServices` and about `EventCoalescer` |
| other `MC...` | | values of constants for TLC, nothing else |

`MCFrontend` and `MCServices` hold small parts that share no state. A behaviour
is one of the parts, chosen in its initial state, so the states of the parts add
up and do not multiply; the variables of the others do not change. Each
property there speaks of one part.

An action is one critical section: what happens between a Lock and its Unlock
in Go, or between two awaits in TypeScript, is one step, and whatever may come
between two of them is an interleaving. Where a module joins two of them, section 6
says so. `Mutant:` definitions are wrong
versions of the definition below them; nothing uses them in the runs.
Properties that belong together are named conjuncts of one invariant:
`BufferSound`, `WatchesExact`, `ForwardsExact`, `AccountsExact`,
`AnswersCurrent`, `LogExact`, `NothingLeftBehind`, `SelectionSound`,
`BudgetExact`, `ChatSound`, `ExecAuthSound`, `ServersSound`
(`IngressSound` and `ServerSound` of the modules), `GraphSound`, `BulkSound`,
`StepsSound` (steps of `Panels` and of `ConnectionMonitor`), `RowsExact` (`SyncedConverges`, `AnnouncedRestartIsReconciled`), `LinesExact`
(`PagesSound` and `MergeSound`).

**EventCoalescer.** An event is a key, a type and its number in the watch
stream of its key. `events`, `pending`, `timer`, `interval` and `maxBatch` are
the fields of the struct; `orphans` are armed timers that `c.timer` no longer
names, `fired` are callbacks that wait for the mutex. `given` and `handled` are
history. A flush that exceeds `maxBatch` takes any subset of that size (Go's
map order). FlushNow is three sections, as in the code.

**ResourceFeed.** The cluster is a log of changes. A loop (`loop[s]`) has a
position in it and connects, reads, fails and backs off; `Deliver` includes the
call of Emit. The frontend's queue `wire` holds batches and statuses. The list
request `fetch` is read at some moment (`ListRead`), arrives in pages and is
merged with the journal of the events handled since (`ListDone`). History:
`synced` holds the scopes for which a list was read after the present watch had begun and
nothing older was on its way; `silent` those whose restart was not announced.

**WatcherManager.** A client is a run of the subscribing effect: it asks, is
told its key, unsubscribes when it is torn down, also when the key comes after
that. `stray` counts cleanup callbacks that passed the point where Stop works.

**PortForward.** `run[r]` is the program counter of runWithReconnect with its
copy of the configuration and its stop channel; `call[t]` is a Stop, StopAll,
StopAllForContext or DeleteConfig between its sections. `Restart` ends the
process and reloads the saved configurations.

**RequestManager.** A request is sent, runs, returns and is handled. Metrics
tabs use one ID for all their requests, lists a new one for each. A given-up
request ends in the state that `cancellationEnabled` prescribes.

**LogStream.** A line is its position in the log, which is also its timestamp.
A stream is used once (IDs contain a time). `taken` are batches that callbacks
hold between Unlock and emit; `own` are those of EmitDone and EmitError.

**MergedStream.** A reader per container, the channel they share, and the loop
that sorts what came within a tick. A reader that fails leaves an error line and
ends; the others go on. The viewer keeps a line only if it is not older than the
last it shows, which is part of `Receive`'s effect on `shown`: `ShownInOrder` says
what that leaves, `NoneLost` speaks of what the backend emitted.

**LogPaging.** The lines are given by `log`, of which those until `now` are
written. `calls` are the page reads on their way; an answer is read from the log
when it arrives. `SinceSecond` is what the API does with a time (whole seconds),
`ReadMerged` what GetAll... makes of several sources. `seen` and `failed` are
history: what the newest page could have held, and which chunks failed.

**ContextSession.** The component is modelled as React runs it: setters change
`set`, `Render` makes it `seen` and runs the effects that depend on what changed
(load, save, watch), in one step because nothing comes between them. `ref` and
`options` are refs, which callbacks read when they run, not when they were made.
`slot` is the namespace request that others share; `load` the one that the
newest load waits for. An option carries the context it came from, which is
what `OptionsBelong` speaks of. The backend is its current context and whose
namespaces it watches for the frontend.

**ConnectionMonitor.** `loop[w]` is a watch loop: open, waiting or connecting,
the version it connects from (`rv`), and whether it connects again without having
said so (`quiet`). A stream that ends or cannot be opened says `reconnecting`
(`Break`); an event ERROR does not, and clears the version if it says Expired or
Gone (`ErrorEvent`). `gap` tells of each watch whether it began again from "now" and
was not listed since: after it was announced, or silently, of which nothing is claimed
(finding 1). `failures` and `openedAt` are
WatchFailureWindow, with time in ticks and the comparisons of the code: the
failures it keeps are named by their places in `history`, which has all of them,
to say what the window should have counted.

**Polling.** A poll is gone, idle, waits for a slot, was woken, or runs. The
continuation of a woken `acquire` is a step of its own (`Continue`), since the
release that woke it has returned by then. `racy` says that others may ask in
between, which a microtask can and a timer or a click cannot.

**Panels.** The twenty views differ in how they find out that an answer was
overtaken. Each is a record read off its source (its guard, whether cleanup advances
the id, whether it is polled, refetched, blanked or emptied); the steps are shared.
Seven do not guard every fetch, and late answers are not excluded for them (`StepsSound`):
EventMarkers of `PodMetricsTab.tsx:398`, `useNodeMetrics.tsx`,
`FlowTimeline.tsx`, `HelmUpgradeDialog.tsx` and `YamlEditor.tsx` have no guard;
the refetch after an action of `useHelmReleases.tsx` and
`HelmReleaseHistoryTab.tsx` passes by the one they have.

**AIChat.** A request is sent; SendMessage finds its session (`Lookup`), lets go of
the lock, and registers it (`Register`), where it replaces the last request of the
session; it runs, is told to stop, is over. Between the two the session may be closed;
`joined` remembers what it was. Chunks, errors on the way (`warning`: the provider
goes on after it) and the end are events on `wire`. `sessions` holds what the Manager counts and can
cancel, `generation` what the frontend counts. An updater given to setMessages
runs at once if nothing waits to be rendered, or in the next render: `Show` may
do either, `queue` holds those that wait. A session that is closed, by its
replacement, by the effect that leaves it or by a disconnect (which closes all of
the client), cancels its request. `faults` names at most one
disturbance per behaviour, and each part of `ChatSound` excepts those under
which the code does not keep it:

| disturbance | not claimed under it |
|---|---|
| the backend refuses a message | `NewestIsHeard`, `QuietIsIdle` |
| a call fails, on its way or on the way back | `NewestIsHeard`, `AnswersBelong`, `QuietIsIdle` |
| an answer ends with an error, or has one on the way | `QuietIsIdle` |
| the reply of a call comes after later events | `QuietIsIdle` |
| handlers run before the last one was rendered | all but `RunningIsCancelable` |
| the user sends before the last answer has ended | `NewestIsHeard`, `AnswersApart`, `QuietIsIdle` |
| a chat that is being answered is deleted | `AnswersBelong` |
| the connection to the server is lost | `QuietIsIdle` |

`RunningIsCancelable` excepts no disturbance: whatever happens, a request that runs is
the one its session would cancel, and the session can be found, unless it was closed
while SendMessage stood between its two critical sections.

**ExecAuth.** `attempts` is the list of all runs of the plugin with their begin
and end, `inFlight` and `err`, `retryAt` are the fields of the guard; a request
remembers which attempt it waits for. The attempt in flight is looked up and made under the
mutex, in one step; giving up is a step of the caller alone.

**IngressForward.** `call[c]` is the place of Start, Stop or RefreshHostnames
between two sections under the mutex or two operations of PortForward. A Start
that fails runs Stop from where it is (`fails`). A Start belongs to the context that
was current, and so do its forwards; the clean-up at its beginning removes what was
left in that context only. The hosts file is a flag:
whether it holds entries of ours. `faults` names at most one kind of trouble
(calls that overlap, a kill, a hosts file that cannot be cleaned, a redirection of ports
that fails after the same command has written the file) besides the steps of
Start that fail, which may happen in every behaviour. `StoppedIsClean` and
`EntriesAreKnown` say under which of them nothing is claimed; `RunningIsWhole` excepts
overlapping calls only.

**ServerEvents.** Emitters, the broadcast goroutine (which holds the lock of
the clients while it writes), one reader per connection, the browser and its
terminals. A connection that broke may accept writes for a while. A send on a
closed channel is modelled as the code has it: `select` may take it, and then
the emitter has panicked.

**DependencyGraph.** Nodes are numbers in the order in which the API lists
them; an edge is [source, relation, target]. `Walk` is the sequence of additions
a request makes, edge by edge, and `Collected` the graph that addNode and addEdge
make of it. `aggregateGraph` is split where an order is open: parents are set one
by one in any order (`SetPrimaryParent`, the Go map), levels are cut at once.
`screen` is the state of the view, `current` what its references held at the
last render, which is what an answer is merged into. `hurried` says that an
answer came before the one before it was rendered.

**BulkActions.** A loop is named by the opening of the dialog that confirmed it
and a backup by a number. A paused loop is `blocked`, and `resumeResolver` is the
one that a resume releases. `stray` says that the dialog was opened while
something of an earlier opening went on.

## 3. Runs

`TypeOK` (`RequestsTyped` in `requests`, `PartsTyped` and `ServicesTyped` of the composed runs) is checked in `coalescer`,
`feed_sync`, `watchers`, `forwards`, `requests`, `logs`, `session`, `frontend` and `services`, and not repeated
here.

| run | checks | bounds and why they are enough |
|---|---|---|
| `coalescer` | `BufferSound`, `BufferDrains`, refinement `ImplementsFrameBuffer` | two keys, three events each, batches of one or two so that a flush leaves a remainder, two callbacks waiting (one stale, one current), two messages on the way; intervals 0, 0.5 ms and 16 ms cover the default, the direct path and the buffered one |
| `feed_sync` | `RowsExact` | an object and its successor of the same name, which share a key in the coalescer and not a uid; three changes, two faults of any kind: enough for a deletion in a gap and a second failure while the first is repaired |
| `feed_settle` | `Reconciles` (liveness) | one object, two changes, two faults, one refresh by the user |
| `feed_gone` | violation of `RestartIsReconciled` | finding 1 |
| `watchers` | `WatchesExact`, `StopsWhenUnused`, refinement `ImplementsSharedWatch` | two clients that move between two keys; three loops; one StopAll and one RestartAll; one stale callback per key |
| `forwards` | `ForwardsExact`, `StatusHonest`, `CallsReturn` | two configurations (a pod that may be slow, a service that survives switches), two ports, two goroutines, two calls at a time, one retry |
| `requests` | `AccountsExact`, `AnswersCurrent`, `CallsReturn` | a view and a metrics tab, three requests: one replaced, one that replaces it, one late |
| `requests_timeout` | violation of `FailureIsNoEmptyList` | finding 2 |
| `logs` | `LogExact`, `NothingLeftBehind` | two containers, the first with two lines and callbacks in time, the second with one line and callbacks that race; one broken connection; the first fetched line may overlap |
| `session` | `SelectionSound`, `QuietIsLive`, `IndicatorsEnd` | two contexts, so that a switch back finds requests and events of before; one namespace, which comes and goes; two requests (one of the context that was left, one of the current), one switch at a time, restarts |
| `frontend` | `ChatSound`; `BudgetExact`, `RoundsEnd`; `QuietIsCurrent`, `StepsSound`; `LinesExact` | chat: two sessions and two messages, one to be overtaken and one to overtake, one chunk each and an error beside it, every disturbance in turn. Polling: four polls for two slots, so that two wait. Panels: two targets, three fetches, all twenty kinds. Monitor: a window of two ticks in a time of two, a threshold of two, two breaks, event ERRORs or choices; one watch, two of a type, two of different types. Paging: pages of two lines, three times to the second, six lines in five logs with more of them in a second than a page holds, as many, and fewer, two pages per poll. Merge: two containers, four lines split in every way, a channel of two |
| `services` | `ExecAuthSound`; `ServersSound`; `GraphSound`; `BulkSound` | guard: three requests, four ticks, cool-down of two, so that the plugin runs again after it. Ingress: two callers and two contexts, so that a crash leaves something in the other one; three forwards, two of a Start and one left behind; forwards and contexts are symmetric. Server: two connections one after the other, two emitters, a queue of one, two events, one terminal; emitters and connections are symmetric. Graph: six clusters of 7 to 11 nodes that hold every relation and every kind but DaemonSet (walked like a StatefulSet), every node as root, limits of two so that five children need two expansions, two calls under way. Bulk: two openings, of two and three resources, two backups |

Deadlock is not checked: every one of these systems may rest.
Every property of a passing run has a mutant of a mapped definition, a
plausible bug, that TLC finds under the same cfg.

### Assumptions that are constants

Some guarantees hold only for orders of events that nothing in the code
enforces. The assumption is then a constant, and the passing run and the theorem
say under which value. What happens without it is told in section 5, with the change of
the cfg that shows it where there is one:

- `Orderly` (WatcherManager, RequestManager): calls the frontend makes for
  something it no longer wants are served before the next one it wants. The
  frontend does not await them, but RPCs are almost always served in order.
- `Racy` (PortForward): configurations that are started, edited or deleted
  while a Stop or DeleteConfig of their own is waiting.
- `Slow` (PortForward): configurations whose API calls outlast the five
  seconds of Stop. `StatusHonest` excludes them, `NoOrphan` does not.
- `Prompt` (LogStream): streams whose timer callbacks emit before anything else
  happens to the stream. Order is claimed for them only; `NothingLost`,
  `NothingWaits` and `OthersStop` hold for all.
- `Settled` (LogStream): StartLogStream is answered before the viewer moves on
  and before events of the stream are handled.
- `Orderly` (ContextSession): the user does not switch before the last switch has
  ended. Only
  `QuietIsLive` needs it; `SelectionSound` holds and is proved without.
- `Orderly` (LogPaging): a first page is fetched alone, and polls and newer
  chunks take turns, as they do unless the user acts while a call is under way.
  The run is for `TRUE`.
- `Disturbances` (AIChat), `Troubles` (IngressForward): what may happen beyond
  the orderly course. It happens in the runs; the properties say what they
  except. In the same way `racy` (Polling), `Alone` (ConnectionMonitor),
  `Guarded` (Panels), `calm` (IngressForward), `orphan` (ServerEvents), `hurried`
  (DependencyGraph) and `stray` (BulkActions) mark
  in the state what a property is not claimed for.

### Fairness

Weak fairness only, of what the Go scheduler, the Go timers and the JavaScript
event loop guarantee: an armed timer fires, a goroutine that waits for a mutex
gets it, a call that was sent is served, a queued event is handled, a cancelled
context ends the call that carries it. Never of the environment: the cluster
need not change or answer, users need not act, connections need not break or
end, faults need not happen. `ResourceFeed` does assume that the API server
answers a list and accepts a watch in the end; otherwise nothing converges. `CallsReturn` of PortForward
therefore assumes nothing about slow API calls, and holds because Stop gives up
waiting. `CallsReturn` of RequestManager rests on the timeouts.
`IndicatorsEnd` of ContextSession assumes that React renders, that a switch is served
or refused and then committed, and that namespace requests end, for which they have a
deadline. `RoundsEnd` of Polling assumes that requests end (deadline again),
that microtasks run and that a round whose polls have all settled sets its
timer; it does not assume that a poll is asked for.

## 4. Theorems

Proved by TLAPS for every value of the constants that satisfies the named
assumptions of the modules, which TLC evaluates in the runs too. They type the
constants and tell model values apart; those that say more are

- `ClusterAssumption` (ResourceFeed): objects of the same name are of the same
  namespace, as a name of the model is the key `namespace/name` of the code;
- `PollingAssumption`, `MonitorAssumption`, `IngressAssumption` and others: sets that are
  counted are finite (the watches of a view, polls, forwards);
- `PagingAssumption` (LogPaging): a selection that is not merged is one container,
  and every container of a selection has a log;
- `RowsAlwaysExact` alone assumes that a view has one watch
  (`\A s, t \in Scopes : s = t`), because the frontend keeps one status per resource
  type. Its half about lists, `SyncedAlwaysConverges`, is proved for any number.

The invariants below are inductive; TLC had checked each on the states of its run
before it was proved.

| module | theorem | argument |
|---|---|---|
| `Services_proofs` | `TypeCorrect`; `NoStranded`; `StreamOrder`; both: `BufferAlwaysSound`; `Implementation` | `LiveInv`: before shutdown a non-empty buffer implies pending, and pending implies a timer or a callback on its way; neither half is inductive without the other. `OrderInv`: numbers on the wire lie between `handled` and the buffer, and with an interval below a millisecond the buffer is empty; without the second part the direct path could overtake the buffer, and it holds because SetFrameInterval clamps to at least one millisecond: a shorter interval can only be the one of the construction, under which nothing is ever buffered. The refinement follows from `OrderInv`. |
| `WatcherManager_proofs` | `TypeCorrect`; `NoLeak`; under `Orderly`: `Counts`, `Watched`, `Idle`, all: `WatchesAlwaysExact`; `Shared` (the refinement) | `LoopInv`: the map and the running loops refer to each other, for all orders. `CountInv`: every client counted has a live record, a key with a record has no call of before a StopAll on its way, and the count is the cardinality of the counted clients. |
| `PortForward_proofs` | `TypeCorrect`; for `Racy = {}`: `PortsAlwaysExact`, `NeverOrphan`, `ActiveAlwaysConfigured`, all: `ForwardsAlwaysExact`; `StatusAlwaysHonest` | one invariant for the first three: index, map and configurations agree, and every call in progress matches what it read before it waited (`WaitsMatch`, `DeletesMatch`, `OneDelete`). The last part is what breaks when a configuration is touched meanwhile. For the status: the only live goroutine of an ID that is not `Slow` is the one of the record, and one that no call concerns has not been told to stop (`OneRun`, `NotTold`), so no other writes the record. |
| `Calls_proofs` (RequestManager) | `RequestsAlwaysTyped`; `StatsAlwaysExact`; `EntryAlwaysExact`; both: `AccountsAlwaysExact`; `AnswersAlwaysCurrent` | each map entry is a request of that ID that runs and was not given up; counters change by one with the map, for every order of calls. For the answers: the request of a running effect is its own and wanted by nobody else (`Owned`, `Alone`), and under `Orderly`, once it was served, no other call for its ID is on its way (`LastServed`), so neither a replacement nor a late cancel finds it. |
| `ResourceFeed_proofs` | `TypeCorrect`; `SyncedAlwaysConverges`; for one watch: `RowsAlwaysExact` | `FeedInv` follows each object by the number of its watch's start. Where its events are (buffer, wire, journal), the last one is the latest as soon as the loop has read it, and a first sight comes before all others (`Traffic`): the reducer drops a first sight of what it has. So, when only first sights are still to come (`Settled`), the row of a listed object is decided, and it is right (`RowsFresh`); so is what the list under way would make of it with its journal (`ListFresh`, which is why the invariant needs the list's `readAt`: a list read for an earlier start says nothing). What the API server guarantees of the log is proved of `ClusterLog` (`LogLegal`). For restarts `Announced`: a second start of the loop is told on the wire, remembered in `reconcile`, or a list that will be read after it is under way (`Pending`), and a loop that will say "connected" has said "reconnecting" with nothing buffered behind it (`LoopSays`). |
| `Calls_proofs` (LogStream) | `LinesTyped`; `LogAlwaysExact`; `LinesScheduled`; under `Settled`: `OthersAlwaysStop`; both: `NothingIsLeftBehind` | `TimerInv`: a buffer with lines is pending, and pending says that its timer is armed or a callback waits for the mutex. `LeftInv`: the stream asked for is the one the viewer wants; once answered and until its end is handled, the reference names it; and a stream that still reads has no end among its events, so the viewer cannot have forgotten it. `CarriedInv`: the lines emitted are those sent and those that callbacks, the goroutine and the buffer hold, in number, and for a `Prompt` stream in order (`Counted`, `Ordered`); a batch is a run of lines, and nothing but the end follows an error (`Runs`, `Ending`). `WatchInv`: before each batch on its way to a followed stream every line up to it is on the screen or in an earlier batch (`Gapless`), which is what keeps the viewer free of gaps when a reconnection repeats lines. |
| `ContextSession_proofs` | `TypeCorrect` (a selection is never empty); `OptionsAlwaysBelong`; `SelectionAlwaysOffered`; `SavedIsAlwaysSelected`; all: `SelectionAlwaysSound`; `QuietAlwaysLive` | for every number of contexts, names, switches and requests, all but the last without `Orderly`. Options belong to `ref` because a list and an event are compared with it in the step that applies them, and a commit clears them in the step that changes it; `ref` and the context that is set part only before a commit is rendered. What is saved equals what was last rendered as soon as nothing loads: the invariant follows `set`, `seen` and `saved` through the renders in which the effect does not run. For the rest: a switch under way is the only one and goes to another context than the one that is shown (`OneSwitch`), so its commit makes the next render renew the watch, and outside of a switch that was served a render that shows the context that was set has it watched or has asked for it (`Followed`). |
| `Services_proofs` | `GuardTyped`; `GuardSound` (ExecAuth) | runs are ordered in time and only the last may be under way; `retryAt` covers the last failure until a run succeeds; a request waits for an attempt that ended not before it came. For any number of requests and any cool-down. |
| `Frontend_proofs` | `TypeCorrect`; `BudgetAlwaysExact` (Polling) | the queue holds the waiting polls once each and the counter is the number of running ones; without `racy` at most one poll is woken at a time and its slot is still free, which is why the bound needs it. Steps over sets of polls rest on the cardinality lemmas of the library. |
| `Services_proofs` | `ServicesAlwaysTyped`; `ServersAlwaysSound`; `BulkAlwaysSound` (of `ServicesSpec`) | `IngressInv` says of each place of a call what is saved and started there: as long as the call is alone since the last Start began, what its context holds (`CalmOK`), with calls that never overlap and no crash (`OrderOK`), and when besides the hosts file can be cleaned and is not written by a call that fails (`BlockOK`). `ServerInv` numbers the events: the channel holds those after `Taken`, the writer holds `Taken`, and what was written to a registered client ends with it, or with the one before as long as the writer has not come to that client; hence no gap. A live terminal has an owner whose connection is not over, unless it was asked for by one that was. `BulkInv`: while nothing of an earlier opening goes on, the dialog shows the results of its own loop, a blocked loop is the one a resume releases, and the backup under way is the only one and can be aborted. |
| `Services_proofs` | `CutAlwaysSound` (`HiddenAreCounted` and `LimitKept` of DependencyGraph, of `ServicesSpec`) | `CutInv`: children of one parent are looked at in one level (`Together`), so a group is cut once and never grows; hence what is kept of it is what its own cut kept (`KeptOfGroup`: those with fewer than r before them are at most r), and its summary goes on counting what that cut hid (`Counts`). From each hidden node a way of fewer steps than there are nodes looked at leads up through hidden nodes to one whose parent is kept (`Hangs`), so the recursion of `Above` reaches it. For any cluster, limit and order in which parents are set; it is stated where `Listed` holds (what was collected is a list of nodes with the queried resource), which is checked as part of the type invariant. |
| `Frontend_proofs` | `QuietIsAlwaysCurrent`; `StepsAlwaysSound` (of `FrontendSpec`) | `PanelInv`: a current fetch of a guarded panel is for the present target, and one is under way as long as the screen does not show that target or the panel is loading. `MonitorInv`: of a watch that is alone with its type, a loop that begins from "now" was last heard to say "reconnecting" (on the wire, or handled and in `prev`), unless it connects without having said so, and an announced gap not listed has the timer set or the "connected" that sets it on its way; the window holds every failure of a watch that is not older than it, for none is dropped while it counts: a watch that stayed open for the whole window has none within it. From the last, the number compared with the threshold is the number of recent failures, exactly. |
| `Frontend_proofs` | `ChatAlwaysSound` (of `FrontendSpec`) | `ChatInv` has a part for each disturbance that a promise excepts. In any case a request belongs to a session that was started, and what it sends carries that session (`Rooted`); a request registered in a live session that runs is the one the session would cancel, and whatever closes the session tells it to stop. With handlers that run one after the other, a session that is put to use finds nothing of the one before it (`Exchanged`). When the user waits for an answer, a session has one request that is not answered (`OneAtATime`), so the streaming message is that of the only one that still speaks, whose end is still to come (`Speaker`); when the backend refuses nothing and no call is lost either, the frontend's generation is at most one ahead, and only while a request is on its way (`Counting`). While no call is lost and no chat is deleted that is being answered, whoever speaks in the session was asked in the conversation on the screen (`Belonging`). For any sessions, requests and chunks. |
| `Lines_proofs`, `Frontend_proofs` | for `Orderly` (LogPaging): `LinesAlwaysExact`; `PartsAlwaysTyped` (of `FrontendSpec`) | `MergeInv`: what the readers have read is in one place, once: the channel, the buffer or the window (`Apart`), the rest is left to be read (`Left`); the loop that says "done" has seen all readers end with the channel and the buffer empty (`Ended`), and what the viewer drops is older than something it keeps (`InSight`). `PagingInv`: the view is a run of the lines of its selection (`Whole`), for several sources closed towards the second of its end, whose lines the next page repeats; a call names the end of the view it was made for, and that end is still where it was (`CallsKept`), which is what `Orderly` is needed for. What a poll has read so far continues the run (`Polled`), and each further page continues it (`NextPage`). At each end, what the viewer says of older or newer lines is what the last page that came from there showed (`TopKnown`, `BottomKnown`). That a poll gets on is a count: the lines of the cursor's second do not fill a page. For any logs, page size, pages per poll and channel. |

The proof of `PartsAlwaysTyped` types the two lists of a chat also when answers of a
batch are applied at once, by the recursive function `Applied`.

Only model-checked: every liveness property and `ENABLED` (out of the prover's
reach); of `DependencyGraph`'s `GraphSound` the parts `OnlyCyclesAreLost` and
`RestIsReachable`, and the types of the graph, `Listed` among them; and
`LinesExact` and `PartsTyped` for `Orderly` = `FALSE`, for which
`LinesExact` does not hold. What is left of `GraphSound` is not true of every value
of `Clusters`: it says what the walks collect, and what expanding reaches, in
clusters whose objects refer to each other the way a cluster's do (a pod that mounts a claim is in the claim's namespace, owners
form a forest). To state that of a constant would take a theory of Kubernetes
objects that the source does not contain. What a recursive function computes cannot
be proved by induction, for the induction theorems take an operator as a parameter; where
the proofs above needed it (the lines of batches in `Calls_proofs`, the rows
after a journal in `ResourceFeed_proofs`, the pages of a poll and the updates of
a chat in `Frontend_proofs`), they argue with the least place at which a
statement about a set of places would fail.

## 5. Findings

1. **A Gone watch restarts silently** (`feed_gone`, `app_watchers.go:269`). After
   an ERROR event with reason Expired or Gone the loop clears its version and
   reconnects at once without the status `reconnecting`, which is what makes the
   frontend list again. Objects deleted in the gap stay on screen. ConnectionMonitor has
   this restart too (`ErrorEvent`), and `GapsAreListed` promises nothing of it.
2. **A timeout is shown as an empty list** (`requests_timeout`,
   `pkg/k8s/client.go:32`). It is treated like a cancellation, and a cancelled
   list is a successful answer without items.

Observations made while modelling. Those with a recipe are counterexamples that
TLC finds when a constant of the passing run is changed and the property is
made an INVARIANT or PROPERTY of its cfg:

- Unsubscribe is not bound to a subscription (`app_watchermgr.go:154`): one that
  is served after a StopAll and the subscription of another view takes that
  view's reference, and its watch stops five seconds later (`watchers` with
  Keys = {k1}, Orderly = FALSE, MaxStray = 2: `SubscribedIsWatched`);
- overlapping Stops orphan a forward (`portforward.go:351`): the second removes
  the record of a forward started after the first returned; it keeps its port
  and no call reaches it (`forwards` with Racy = {a}: `NoOrphan`);
- a stream started for a viewer that has left runs until its pod ends
  (`useLogStream.ts:473`): cleanup stops only the stream whose ID has arrived
  (`logs` with Settled = FALSE: `NoLeakedStream`);
- a switch overwrites the selection that was saved for the context it goes to
  with "all" (`K8sContext.tsx:671`, `:771`): the commit resets selection and loading
  in one batch, and of the effects of that render the one that saves does not see yet that
  the load has begun (`session`: property `SwitchKeepsSaved`);
- two switches that overlap can leave a current context whose watches were
  stopped (`contextSwitch.ts:20`) (`session` with Orderly = FALSE,
  Switches = {s1, s2}: `SwitchKeepsWatch`);
- the frontend counts a generation for a message that the backend refuses
  without counting, and drops the answers to all later messages of that session
  (`AIChatContext.tsx:545`) (`frontend` with Disturbances = {"refusal"} and the
  exception of `NewestIsHeardUnlessRefused` removed); so it does for a call that does not
  reach the backend (`AIChatContext.tsx:578`) (with {"loss"});
- SendMessage gives up the lock between finding the session and storing its cancel function in
  it (`pkg/ai/manager.go:192`, `:335`). A session that is closed in between, by the user
  who starts a new chat or by a disconnect, takes the request with it: it runs to its
  end or its deadline, and nobody can cancel it (`frontend` with
  Disturbances = {} and `RunningIsCancelable` without `joined = "closed"`);
- if ClearAISession fails, or its answer is lost, the chat on the screen is emptied
  and the session stays in use (`AIChatContext.tsx:626`): alive, with what was
  being answered, which then shows up in the empty chat, or closed in the backend, which
  refuses every later message;
- a poll that asks between a release and the continuation it woke makes one
  more request run than allowed (`pollingBudget.ts:13`);
- the five views and two refetches listed under Panels may show the data of an
  object that was left;
- a Stop while Start still collects host names finds no forwards to stop and
  resets the state; Start goes on and reports running (`ingressforward.go:417`);
- on macOS one command writes the hosts file and redirects the ports
  (`pkg/hosts/hosts_darwin.go:55`). When the redirection fails, the entries are there and
  `HostsFileUpdated` is false (`ingressforward.go:384`), so Stop does not remove them
  (`services` with Troubles = {"redirect"}, and `faults = {}` of `EntriesAreKnown` removed);
- forwards that a crash leaves are removed by the next Start in their own context only
  (`portforward.go:384`); in another one they stay among the saved configurations
  (`services` with `RunningIsWhole` for all of `Saved`);
- at shutdown of the server EmitEvent may choose to send on the closed channel,
  which panics (`pkg/server/server.go:134`);
- a terminal asked for with the ID of a connection that has gone since is never
  ended by a disconnect (`pkg/terminal/manager.go:74`);
- events of the two seconds before the browser reconnects are lost and nothing
  lists again (`runtime.ts:89`);
- the status of the previous reconnection is kept per resource type, not per namespace
  (`K8sContext.tsx:846`): with two namespaces reconnecting at once one of the two restarts may trigger no
  list;
- at mount, list and watch start side by side (`useResource.tsx:234`); a change
  between the two moments is in neither;
- the version stored after initial ADDED events may be older than the stream's
  start, so a resume repeats events (`app_watchers.go:287`); the reducer copes;
- an object created and marked for deletion within a frame is dropped by the
  reducer (`useResourceEventHandler.tsx:42`);
- after an ERROR event the loop reconnects without back-off
  (`app_watchers.go:276`, unlike line 155);
- FlushNow leaves `pending` set when the buffer is empty
  (`eventcoalescer.go:186`); it is called at shutdown only;
- a flush that lost the race with Clear makes a later Emit start a second timer
  (`eventcoalescer.go:131`);
- Done can overtake the last lines of a log (`logcoalescer.go:137`, against the
  comment at `app_logs.go:360`), and a reconnection repeats lines, because the
  API reads SinceTime in whole seconds (`podlogs.go:324`);
- polls stand still when a container wrote more lines in the second of the cursor
  than a page holds, because the page is read from the start of that second
  (`podlogs.go:210`, against the comment at `podlogs.go:197`) (`frontend` with
  `PollsAdvance` of LogPaging without `NoBurst`); of several containers, whose page
  repeats the cursor's second (`podlogs.go:704`), as many lines as a page holds
  are enough (with `NoBurst` for `NoFullPage`). Then the viewer that follows is
  not told that there is more, either;
- for several sources a newer chunk repeats the lines of the cursor's second
  (`podlogs.go:704` drops nothing, and `loadNewerLogs` appends what comes);
- for one source GetPodLogsAfter may say that there is no more when two lines of
  the cursor's second were read (`podlogs.go:179`); scrolling asks again;
- "Jump to start" at the start empties the view, and nothing fetches again
  (`LogViewer.tsx:551`); at the end of a log read from its start the empty page
  leaves a cursor that blocks later loads until a refresh (`useLogStream.ts:324`);
- late answers of a selection that was left are applied (`frontend` with
  Orderly = FALSE: `PagesSound`);
- a source that fails in a merged page leaves a silent gap, and its error line is
  stamped with local time, so that it sorts anywhere (`podlogs.go:459`, `:565`);
- the viewer drops streamed lines older than the last it shows, so that lines of a
  slower container are lost (`useLogStream.ts:499`);
- two nodes of a dependency graph may become parents of each other, against the
  comment "Avoid cycles" (`deps_graph.go:131`), which looks only at parents set
  before: then they and all below them are neither shown nor counted, depending on the
  order of a Go map (`services` with `service = "graph" => Graph!NoParentCycle`);
- an answer to an expansion that comes before the last one is rendered replaces
  it, and the offset has advanced, so its nodes are out of reach
  (`DependencyGraph.tsx:644`) (`services` with `RestIsReachable` without
  `hurried`);
- the offset of an expansion counts all children, and the cut keeps connectors
  first, so that with connectors some hidden nodes are never revealed
  (`dependencies.go:268`, the reason for `Plain`); connectors below a hidden
  parent are hidden, unlike `deps_graph.go:49` says; the summary of nodes without a parent
  has no edge (`deps_graph.go:295`) and its expansion finds nothing;
- closing the dialog of a bulk action stops neither the loop nor the backup
  (`useBulkActions.tsx:166`). Opened again, it shows the old loop's progress as
  its own, a second confirmation leaves a paused old loop waiting forever, and the end
  of the old backup lets the action be confirmed while its YAML is being
  fetched (`services` with `BulkSound` without `stray`);
- after RestartAll the cancelled loop and the new one share the watcher record, so
  a last event of the first is stored as the version of the second
  (`app_watchers.go:289`);
- StopAllWatchers is not awaited on a context change (`K8sContext.tsx:366`), and
  statuses name the context of the moment they are emitted
  (`app_watchers.go:106`).

## 6. What is left out of the modelled parts

- Times are orders: a timer fires at some moment after it was armed. Back-off,
  frames and cool-downs have no length.
- ResourceFeed: namespace filters, polling mode, the snapshot cache, printer
  columns. Statuses are kept per type, as in the code, and the run has one
  namespace.
- PortForward: failed writes of the file, the choice of a free port, and forwards
  started by ingress forwarding, which use the same operations.
- RequestManager: the managers' getters and which API call a request wraps.
- LogStream: the counter of failed reconnections, a Start that is refused.
- LogPaging, MergedStream: `loadAllLogs`, logs of the previous container, a refresh
  that resolves to another pod, a single source that fails, the limit of 4 MiB.
- ContextSession: access times of contexts, the text of errors, CRDs (a panel),
  the start of port forwards after a load (`StartAutoStart` of PortForward).
- ConnectionMonitor: errors of credentials, which show a banner, and events of
  another context, which are dropped; the delay of the reconcile timer. Every view
  lists in the step in which the timer fires.
- Polling: the fan-out of a query over namespaces, manual mode (no clock), the
  length of intervals.
- Panels: rendering, zoom, charts, saving of YAML.
- AIChat: providers that keep sessions of their own (`sendMessagePersistent`),
  blocks of tools within a message, conversations in localStorage, prompts. The calls
  CancelAIRequest, CloseAISession and ClearAISession have their effect on the backend in the step that
  makes them, and CancelRequest looks the session up and reads its cancel function in one
  step (`manager.go:420`); a lost CloseAISession is left out, because the session that an effect
  leaves is closed already. A provider says nothing after its `done`, and then the
  request is over. CloseAllSessions (at shutdown) is left out.
- ExecAuth: which credentials share a guard (`execGuardFor`), and requests with
  a credential of their own, which pass by it.
- IngressForward: detection of the controller, collection of host names, other
  writers of the hosts file, the redirection itself. Only one trouble happens in a
  behaviour. The operations of PortForward take one step each.
- ServerEvents: the HTTP routes, several browsers, processes of terminals and
  their output.
- DependencyGraph: owners of custom kinds, the default service account, lists
  that fail, the cache of one request, status, metadata and layout; the
  cluster does not change between the calls of a view.
- BulkActions: items without a name, how much of a delay has passed, a backup that
  cannot be saved.

### Not modelled

Of the source files most lines are views, generated bindings, tests and thin
calls of the Kubernetes, Helm and Prometheus APIs. They keep no state from one
call to the next, and their correctness is what a function returns for one
input. `PROJECT.json` lists them with the reason, one by one.

## 7. Plan

Done: the watch pipeline, port forwards, requests, logs, the session with a
cluster, connection monitor, polling, views with fetches, chat, credential guard,
ingress forwarding, server mode, dependency graph, bulk actions. Left:

1. The composition of SwitchContext with `SharedWatch`, `FrameBuffer` and the
   abstract part of PortForward, with loops that looked at their context before
   they were cancelled (`app_watchers.go:302`).
2. Proofs: `Listed`, `OnlyCyclesAreLost` and `RestIsReachable` of DependencyGraph, from a
   statement of what a cluster's objects may refer to.
3. The snapshot cache of lists (`resourceSnapshots.ts`) as part of the mount in
   ResourceFeed.
