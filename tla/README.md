# Verification of Project Commander

Project Commander keeps the processes of a fleet of hosts as a user listed them. This directory holds
TLA+ modules translated from its source, TLC configurations that model-check them, and theorems about
them that TLAPS checks. Paths below are relative to the repository; `pc-slave` stands for
`packages/agent-slave/cmd/pc-slave`, `master` for `packages/agent-master/internal/master`, `server` for
`packages/server/src`, `web` for `packages/web/src`.

## 1. The system

A user edits *desired process definitions* through the **server** (Node, GraphQL, PostgreSQL or SQLite). The
server mirrors them to the **master** (Go, gRPC, all state in memory). On each host a **slave** (Go) polls the
master for its desired list, starts, adopts, replaces and stops processes until the host matches, and
reports what happened to each run. Commands (kill, checkout) travel from the server to the slave's queue in
the master, leave with a heartbeat response, and their results come back. The server hears the master's events
over a gRPC stream and passes its own to **browsers** over WebSockets. **pcctl** and an **MCP server** use the
same GraphQL interface as the page.

```
 web page, pcctl, MCP --GraphQL--> server --gRPC--> master <--gRPC polls-- slave --fork, signal, wait--> processes
      ^                             |  ^              |                     |
      +------WebSocket: events------+  +--event stream+                     +--state files (one per key)
                                    |
                                    +--ssh--> deployment scripts and terminals on the hosts
```

### Inventory

| Part | State it keeps | Hard behaviour | What makes it correct | Modules |
|---|---|---|---|---|
| slave: process manager `pc-slave/process_manager.go` | `processes`, `completedNever` (memory), one state file per key, the OS processes | exits race every operation; the slave crashes, restarts and adopts; torn files; reboots; processes that ignore SIGTERM | one live process per key; never lose hold of one; report each run's end once; signal nobody else's process; end up as listed | ProcessManager, OneInstance |
| slave: command worker `pc-slave/main.go` 675-875; master: slave commands `master/slave_commands.go` | bounded queue, ids seen; list of pending commands per slave, record per command | full queue, lost responses, late calls, restarts, drain | at most once, in order; a published result is that of the command; the records agree with the list | CommandDelivery, CommandPromise |
| server: process registry `server/runtime/processRegistry.js` | desired definitions and run records (database) | calls to the master inside a transaction; repeated and stale reports | the master's list follows the database; records are honest about their runs | DesiredPropagation, RunRecords |
| server: runtime wait `server/runtimeWait.js` | a deadline and a list of checks | older reports overwrite newer rows while it reads them | it ends, and not for an older run | RunRecords |
| clients `packages/commander-client`, `pcctl`, `commander-mcp` | one name shared by all tool calls | retries of reads, requests that fail after they took effect, calls beside each other | no kill is sent twice; what is told done was done | Clients |
| server: master backend `server/runtime/backends/goMasterRuntimeBackend.js` | stream handle, timers, what it was told of slaves | the end of an old stream clears the new handle; answers older than events | one stream at a time, always another attempt; events in order; right in the end | MasterFeed, GapFeed |
| server: events, logs and entry point `server/index.js` | event buffer, sockets, log queries | reconnects, a session read before listening, slow sockets | nothing missed, nothing twice; a log window without holes | BrowserFeed, LogWindow |
| web: event feed and log window `web/store/index.js`, `useLogsPanelController.js` | the page's socket, timers, last id, windows | the page goes and comes back; answers alternate with events | as above | BrowserFeed, LogWindow |
| server: host agents and deployment `server/hostCatalog.js`, `hostAgentLifecycle.js`, `hostDeployment.js` | table of hosts, deployment jobs, requests for passwords | listings merge at once, upgrades retried by each of them, browsers answer at once | a slave keeps its row; one deployment of it at a time; an accepted password is the one used | HostRows, HostCatalog |
| server: terminal sessions `server/terminalSessionManager.js` | sessions by id and by host | a child's end races input and close | a host has one terminal; what was closed ends | Terminals |
| server: auth `server/auth/*` | automation tokens (database) | use races revocation and expiry | a limited token stays within its limits | AccessRules, ServerApi |
| server: GraphQL, templates, discovery and catalogs `server/graphql/index.js`, `processTemplates.js`, `hostPathMappings.js`, `projectCatalog.js` | templates, mappings, directories, projects (database) | read then write without a transaction; the audit after the act | an upsert takes effect; a path leads to its project; the audit is true | PathRules, TemplateRules, ProjectRules, ServerApi |
| web: hosts, terminals, runtime and projects `web/features/home` | what the page shows, its flags, loads under way | closures with old state write it back; answers of a host or a project that is selected no more | flags fall; the page shows what the server has | HostPage, RuntimePane, ProjectPane |
| slave: run reporting, main loop, log shipper, workload supervisor, checkout, discovery, telemetry | pending changes, registration, cursors, workers | two goroutines flush; reconnection; cursors move before delivery | nothing reported is lost | none (section 13) |
| master: slave registry, runtime registry, runtime control, event stream, gRPC server | records of slaves, lists, log buffers, services of its own host, channels | heartbeat races sweep; the exit waiter races stop and restart; full channels | a slave that beats is not shown lost | none (section 13); seen as inputs of others |
| server: runtime manager, models and migrations; generated code; packaging | | | | none (section 13) |

`PROJECT.json` lists the same parts with their status, and under `hazards` the places in this code where a
test would hardly reach, with the properties that cover them.

## 2. Plan

The modules were written in the order of the sections below: what keeps and reports processes first, then
what feeds it (commands, definitions), what shows it (events, records, pages), and the catalogs around it.
Modules that compose: CommandDelivery uses OneInstance as the host its kills aim at; Clients extends
RunRecords; ProjectPane extends RuntimePane, which extends DesiredPropagation; LogWindow extends BrowserFeed;
HostPage extends Terminals, which extends HostCatalog on HostRows; ServerApi extends the four modules of rules.
Abstract specifications: OneInstance, CommandPromise, GapFeed.

Proofs are in modules of their own (section 12). Every invariant and action property of a run is a theorem; what is left
is out of the prover's reach.

## 3. ProcessManager

### State

| Variable | Code |
|---|---|
| `os` | process table of the host: per pid its state (`live`, `zombie` until its parent waits, `dead`), the run, key and fingerprint it was launched with, the strongest signal pending and how it ended |
| `waiters`, `captured` | goroutines of `captureProcessExit`: those in `cmd.Wait`, and those that have a result and wait for the mutex |
| `boot` | boot id of the host |
| `file` | state file per file name: a record, `Torn`, or `None` |
| `up`, `loaded` | the slave runs; a reconcile has loaded the files since it started |
| `processes`, `completedNever` | the fields of `processManager` of these names |
| `list` | desired list of the latest reconcile (after the empty list is replaced by the bootstrap list) |
| `op`, `step`, `todo`, `cur`, `nxt` | who holds the mutex and how far it has come: the keys its loop has still to visit, the key it is stopping or starting and what it starts after the stop |
| `history` | changes appended for each run |
| `launches` | observer: launches of a key by the slave's own decision since the last reason to launch |

### Actions

One mutex serialises the operations, so an operation is a sequence of steps of its holder, and what
interleaves with them is the host: `ProcessEnds`, `Reap`, `ForeignStarts`, `SlaveCrash`, `Reboot`.
A step ends where the outside can see or disturb the operation: at the two halves of `os.WriteFile`
(truncate, fill), at a signal, during the wait for an exit, between the keys of a loop.

* `SlaveStart` is `newProcessManager`: it removes unreadable files, files of another boot and files of
  processes that are gone.
* `BeginReconcile`, `LoadPersisted`, `Visit...`, `EndOp` are `ReconcileDesiredProcesses`: one `Visit` action
  for each branch of its two loops.
* `BeginTick`, `TickEnded`, `TickRefresh`, `TickRefreshed`, `TickPackageChange` are `Tick`.
* `KillCommand`, `LaunchCommand` are the two commands.
* `SendSignal`, `AwaitExit`, `AwaitTimeout`, `RemoveStopped` are `stopManagedProcessLocked`; `Spawn`,
  `StartFails`, `WriteStarted` are `startDesiredProcessLocked`.
* `CaptureProcessExit` is the part of the goroutine that takes the mutex.

`Hazards` selects what the environment may do: `crash_mid_op` (the slave dies between two steps of an
operation, otherwise only between operations), `disk_error` (a write fails and leaves a torn file),
`early_launch` (a launch command is run before the first reconcile), `foreign` (other people's processes
take pids, so a pid of a former boot may be theirs).

### Abstractions

* A process is one pid; process groups and children are not told apart.
* The host hands out pids in increasing order, each once per boot.
* A definition is a launch fingerprint, a restart policy and a desired state. What the fingerprint is a
  hash of is left out: two definitions are equal in it or not.
* A kill command names a key. The code also accepts a run id or a pid; matching them is left to
  CommandDelivery.
* That the packages directory has changed is an input. The scan that detects it is left out.
* The sorted order of a reconcile's loops is any order, the listed keys before the others. The order of
  Tick's loop is any order in Go too; it may or may not come to an entry it has just added.
* Errors of `ReadDir`, the log directory of a boot, and the text of errors are left out.

## 4. CommandDelivery

One slave and the master. The master keeps all of this per slave, so several slaves would not interact.

### State

| Variable | Code |
|---|---|
| `issued`, `command` | the commands queued so far, numbered in the order in which they entered the list, and what they ask (a run, a key, or neither: a checkout) |
| `slave`, `pending`, `known` | the master: `s.slaves` (its status), `s.slavePendingCommands`, `s.slaveCommandsByID` with whether `DispatchedAt` is set |
| `answers` | results published per command |
| `registered`, `beat`, `response` | the main loop: its variable `registered`, how far its heartbeat has come, the commands of the answer it has not yet queued |
| `late` | heartbeats the slave has given up on that may still reach the master |
| `seen`, `queue` | `seenCommandAt`, `commandQueue` |
| `work`, `result`, `attempt` | the worker: its command, the result once executed, failed reports |
| `executed`, `hit` | observers: commands in the order of their execution, the run each has stopped |
| `instance`, `used` | the processes of the host, as OneInstance has them |

### Actions

* `QueueSlaveKill`, `CheckoutProjectOnSlave`, `Sweep`, `Drain`, `Register`, `Heartbeat` or
  `HeartbeatRefused`, and `ResultReported` are the handlers of the master; each holds its mutex throughout.
* `SendHeartbeat`, `ReceiveCommands`, `QueueSlaveCommand` (one command of the answer) are the main loop;
  `TakeCommand`, `Execute`, `ReportResult` are the worker. The two goroutines interleave at these steps.
* `RegisterFails`, `HeartbeatFails`, `ReportFails` are calls that fail: the call was lost, or its answer, or
  (`LateHeartbeat`) it arrives after the slave has given up.
* `SlaveRestart` and `MasterRestart` lose what each side keeps, which is all of it.
* `ProcessesChange` are the steps of OneInstance that the process manager takes.

### Abstractions

* A pid in a kill command names the run that has it. A call names what it has observed: a run that has been,
  its key, or both.
* That `commandSeenTTL` has passed is a choice, for any of the ids seen.
* A checkout completes or fails; what it does to the disk is left out. A kill stops its target in one step
  (ProcessManager has the steps).
* Ids are positions in the list; the code's ids are unique. Pending changes, telemetry and logs that
  travel with a heartbeat are left out.

## 5. RunRecords and Clients

RunRecords: a slave's report lists the runs it holds; the master keeps the last one (`known`) and streams it
(`stream`) to the server. `ReceiveEvent` starts a transaction for each report and does not wait for the one
before; `applies` holds those under way, `NextOf`, `FindRun`, `WriteRun` and `CommitApply` are
`applySlaveRuntimeState`: it reads and writes run after run, then commits into `rows`. `AskMaster` and `AnswerArrives` are the
refresh at bootstrap. `StartWait`, `LoadState`, `Evaluate`, `Wake` are `waitForRuntime`: it loads the rows,
tries its checks one after another and sleeps until the next round or its deadline. `host` is an observer:
when the slave held each run.

Clients: a command of pcctl or of the MCP server is a list of requests (`RequestsOf`), sent one at a time
(`Send`, `CarriedOut`, `Answer`, `Fail`, `Refuse`, `DelayOver`). A read that fails as a network does is sent
again, the others never. `toolName` is the name on the requests of the client that all tool calls of an MCP
server share. `DeliverKill` is a kill that reaches the slave.

Abstractions: answers of remote services and contents of logs are arbitrary; a transaction's reads and writes
of one run are two steps. At most one command that waits runs in a setting. The loop that follows a log, and the
parsing of arguments, are left out. Every run has a time when it was seen (a report without one is stored with the server's own,
`processRegistry.js` 1325), and every run of a report can be resolved to its process (1298-1304 skips the others).

## 6. DesiredPropagation, RuntimePane and ProjectPane

DesiredPropagation: each request (`ensureDesiredProcess`, `deleteDesiredProcessDefinition`,
`upsertDeploymentInstance`, `deleteDeploymentInstance`, `setHostRuntimeEnv`) is a transaction `tx[r]` that writes
rows and, before it commits, sends each change to the master (`wire`) and waits for the answer.
A transaction sees the committed rows and its own writes (READ COMMITTED), and a write waits for whoever has
the row (`Free`, `DeadlockVictim`). `CallFails` is a call that is lost, or whose answer is, or that is handled after the
server has given it up (`late`); `CommitFails`, `ServerCrash`, `MasterRestart` are what their names say. `db` is what
is committed, `master` what the slave's next poll gets.

RuntimePane: the panel of a host. A full load asks for lists at once and shows them when the last is there; a
poll asks for the runs alone. `ReadList` is the moment a query reads, `Arrive` that at which its load ends. The user's
changes (`Press`) are the requests above, and a full load follows each.

ProjectPane: the selected project. Every asynchronous function is a job, a sequence of steps that each ask the
server once (`Answers` reads, `ShowAnswer` shows); nothing ends a job when another project is selected.

Abstractions: one host; definitions and deployments are read as one list; a deployment is looked up and written in one step (the code
awaits between them, `processRegistry.js` 708, and a second insertion then fails on the unique key); forms are left out, and the values
that buttons send are enumerated; two loads and three jobs at once, one poll among them, one toggle at a time.
The list of projects is fixed and one is selected from the start. `lags` and `mixed` remember that full loads
have overlapped, or jobs that show the same thing: then a late answer may come last and stays, and the
properties do not speak of what is shown (section 14).

## 7. MasterFeed and GapFeed

`streams` are the calls of `SubscribeEvents` with what is queued in them, `eventStream` the handle.
`handleMasterEvent` handles an event; `OnError` and `OnEnd` are the callbacks of a stream that ends, `Callback` one of
them; `ReconnectTimer`, `Probe` (timer, success, failure, giving up) and `Stop` are the rest of the
connection. `calls` are answers that the master has given and the server has not handled yet: lists of
hosts and runtimes, which may be older than events handled before them. `told` and `cachedRuntime` are what
the event sink got last. The callbacks of one stream are queued with `process.nextTick`, ahead of every timer and every
answer: nothing comes between them.

GapFeed is what a hop of the feed promises: numbers taken in increasing order, none before it was sent, some
perhaps missed.

Abstraction: facts are the standing of each slave and a version number of one project's runtime; the mapping
of protocol fields is left out.

## 8. BrowserFeed and LogWindow

BrowserFeed: `publishEvent` numbers an event, keeps the newest in `eventBuffer` and sends it to the sockets that have
subscribed. A socket has two ends and two queues (`sockets[s].up`, `.down`). `Accept`, `SessionRead`, `Subscribe`,
`ServerCloses` are the server; `OnOpen`, `OnMessage`, `OnClose`, `Flush`, `ReconnectTimer`, `DisconnectTimer`,
`Mount`, `Unmount` are `store/index.js`. With authentication the server reads the session before it listens, and a
message that arrives meanwhile is lost. `excused` are the events that the code gives up: kept from a slow socket, pushed out
of the buffer, thrown away when the page went, or hidden: after a restart of the server the page
subscribes with an id of the last run, and what the new run has already numbered up to it is not replayed (`HiddenBy`).

LogWindow: the panel asks for the last lines of a process log over the same socket (`Request`, `ReceiveQuery`,
`ReadLog`, `Answer`, `OnAnswer`), and every further line comes as an event (`StoreLine`, `EventArrives`). A query over a socket
whose session the server is still reading is lost like a subscription (`ReceiveQuery`; `index.js` 1773-1816), and `unsent` remembers a request that
nobody answers, for this reason or because its socket was not open. `window`
holds the lines of the last answer and those appended since. `overtaken` are lines whose event was shown before an answer
that was read earlier and removes them.

Abstractions: one context, one line in each chunk. Line n of the run is that of the event numbered n; therefore the server does
not restart in settings with lines (`BrowserAssumption`).

## 9. HostRows, HostCatalog, Terminals and HostPage

HostRows is the merge of the master's list of slaves into the table of hosts: a row is found by slave id, then by
the machine's name, then by its address; names are allocated; rows of slaves that are gone are removed or
marked. HostCatalog has the operations around it: `ReadRegistry` and `Sync` (the list may be old when it is
merged), `considerRuntimeHost` (each listing upgrades what is out of date), `AddHost`, `BeginUpgrade`,
`StartUpgrade`, the deployment jobs and their scripts (`ScriptInstalls`, `ScriptSucceeds`, `ScriptFails`,
`ScriptWantsPassword`), the requests for passwords (`ShowPrompt`, `Answer`, `ChallengeTimesOut`, `Disconnect`), and
`Crash`: the rejection of a deployment started by hand is unhandled and ends the server.

Terminals adds the sessions: `startSession`, `closeSessionById` with its kill timer, and the three moments of a child's
end (`ShellDies`, `Reap`, `CloseArrives`). HostPage adds the page: an operation holds the maps of the render
it was made in (`ops[s].entry`) and writes them back whole; `loadHosts` holds the empty maps of the first render.

Abstractions: a merge is one transaction; the master lists by name, then id. A deployment script is seen by its ends only. The page
starts with its hosts listed; effects run before any other event of the page; `crossed` remembers that operations of two hosts
have overlapped. Global flags of adding, deleting and upgrading, and the text of output, are left out.

## 10. AccessRules, PathRules, TemplateRules, ProjectRules and ServerApi

The four modules of rules are pure operators: what a token may do (`Operation`, `expandScopesForAccessMode`), where a
path leads (`matchingMapping`, `assertApprovedHostPath`), which template goes before which
(`selectHighestPrecedenceTemplates`), how reported projects are merged (`syncDiscoveredProjects`). ServerApi runs calls
through them, from the bearer token (`Authenticate`, `Authorize`) over the steps of the operation, between which other
calls run, to the record in the audit (`Audit`) and the answer.

A call of `ensureProcessFromTemplate` names its process by three paths, and the code uses each for something else: the rules see
only the first of `projectPath`, `codexPath` and `cwd` that is given (`graphql/index.js` 2330); the project is found by
`codexPath` through the mappings of the host, or else by `projectPath` as it is written (`processTemplates.js` 561-568); the process runs at
`cwd`, or the template's, or else the path that was found (613). `NamedPath`, `TargetOf`, `projectHostPath` and `compileProcessTemplate` are
these. The check against a token's prefixes does not resolve `..` (`lifecycleAccess.js` 59-66), the mappings do. So a
token with prefixes does not bound where a process runs in general, and `WithinToken` says so: hosts, projects and the right
to a command of the caller's own always hold; the place holds where the caller gave one path of the host, without `..`.

What a call did and what its caller is told are two things. `performed` says that something was changed, `answer` what the caller hears.
`Ended` is an operation that throws or returns; `Unheard` one whose call of the master or the host was carried out and failed nevertheless,
because the answer was lost or the commit after it failed (`processRegistry.js` 1081-1090), in `Register`, `Act` and
`ReadDirectories`. `ToldTruly` therefore says: nothing is done for who may not; "done" was done; an error of an operation that only writes to
tables did nothing (of the others it may have); the audit has the call at most once, with what the caller was told.

Abstractions: a path is a sequence of names; hosts are fixed; deployments, the root of logs, the template of the process key and the
environment are left out of a compilation; arguments of the caller's own count with the command they come with; all reads of one
`resolveHostPath` happen at one moment; `lastUsedAt`, the filter of mappings by agent, and the order of rows are left out; a discovery is
written in any order (in the code: by path, then as the slaves became known). `Sync` writes a discovery in one step; in the code it is a READ COMMITTED
transaction with awaits (`projectCatalog.js` 40-229), two of which may each create a row for one path. Only `SteadyProjectsStay` speaks of
such rows: that a path keeps the rows it has, and no row is removed of one that is reported always, which a second row would not change. Operations
whose steps are not modelled here act in one step that only counts as done.

## 11. Runs

| Run | Instance | Question | Distinct states |
|---|---|---|---|
| `manager` | 2 keys, 3 pids and runs, 1 crash, 1 exit, 2 inputs | `LiveIsTracked`, `OneLivePerKey`, `ImplementsOneInstance`: does the slave keep hold of all it launched, with one process per key? `HistoryRight`, `ExitResultIsOwn`, `OneShotOnce`: are the changes reported of each run a legal history and whole, is no result another run's, is a one-shot launched once? | 1,207,553 |
| `faults` | 1 key, all hazards, 2 boots, 2 inputs | `SignalsOnlyOwn`: does it signal only its own processes when anything may fail? | 2,524,472 |
| `converges` | 1 key, 4 pids and runs, 1 crash, fair | `Converges`: does the host end up as listed? | 77,598 |
| `oneshot` | 1 key | `OneShotRuns`: violated, see section 14 | |
| `order` | 2 commands, 1 key, 1 run, queue of 1, 2 lost calls, 2 restarts or drains, 2 attempts | `RunInOrderOnce`, `MasterIsRight`: is each command run at most once and in order, and is the master right about its list and its results? | 1,231,451 |
| `answered` | 2 commands, 1 key, 2 runs, queue of 2, 2 lost reports, 3 attempts, fair | `EachIsAnswered`: is each command answered and forgotten when only reports get lost? | 148,988 |
| `records` | 4 settings: 2 runs and 2 reports at once; a wait alone with all checks and late timers; 2 commands beside runs, twice | `RecordsHonest`, `NewestPicked`; `CommandsKept`: no kill twice, done means done, the audit has the right name; `CallersEnd` | 451,726 |
| `desired` | 11 settings: 2 requests in turn, with faults, at once with locks, beside a restart of the master; the host's panel; projects selected in turn | `MirrorFresh`, `DeploymentsExist`, `SuccessMirrors`: does the master's list follow the database? `PageTrue`, `PageEnds`: does the page show it? | 363,116 |
| `stream` | 2 settings: 1 slave, 3 changes, 1 fault, answers and events; nobody lists the hosts, shutdown | `Attended`, `ImplementsFeed`, `Recovers` | 388,130 |
| `browser` | 8 settings: sockets that break, a restart, slow sockets; a page that comes back; sessions; three logs, one also behind a session | `FeedRight`, `CatchesUp`, `WindowHolds`, `WindowArrives` | 490,314 |
| `hosts` | 14 settings: 3 slaves, 2 addresses, 2 listings at once, upgrades, passwords, terminals | `RowsDiffer`, `SyncKeepsIdentity`, `AddedHostsStay`, `OneDeployment`, `AcceptedIsUsed`, `DeploymentsEnd`, `PageHonest`, `PanelEnds` | 116,219 |
| `access` | every operation, and every way to name a process, by each kind of token, with failing calls; 17 settings, most of 2 or 3 calls at once | `WithinToken`, `UpsertTakesEffect`, `PathOfProject`, `ToldTruly`, `SteadyProjectsStay` | 48,209 |

A *setting* is a record of bounds and of what may happen; the initial state chooses one, so one run looks at
several instances that would be too large together. The MC modules list them, each with what it is for.

Bounds. *ProcessManager*: two inputs are enough for a list, its change and a change back or a command between
them, which is what every branch of the reconcile distinguishes: absent, same, different, removed. Three or
four pids and runs leave room for a launch, its replacement, and what replaces that after a crash; inputs, exits
and crashes run out first, or the last launch fails as in the code. One crash separates two lives of the slave, and
nothing is carried over that a second could add to. *CommandDelivery*: order is a relation of two
commands, and a queue of one is full when the second comes while the first waits; two losses allow a lost
heartbeat answer and a lost report, or two late heartbeats; two restarts allow slave and master one
each. In `answered` one report fewer is lost than may be tried, since the code gives up otherwise. *RunRecords*: overwriting
takes two reports, "an older run" two runs of a key. *DesiredPropagation*: locks, deadlocks and overwritten reads take two
requests, and a request that fails half-way, followed by one that succeeds, two in turn. *MasterFeed*: an
answer overtaken by events and overtaking them takes three changes; after one fault the state is that after any. *BrowserFeed*: three events fill
a buffer of two; two breaks make a reconnect fail or be followed by another. *LogWindow*: two requests let an answer
overtake the window's growth, and one be lost before the server listens. *HostCatalog*: two slaves behind one address and a third; two calls, two browsers.
*ServerApi*: lost updates take two writers, and a third call sees what they left. The theorems have none of these bounds.

Deadlock is checked in the runs of ProcessManager, CommandDelivery and MasterFeed: a slave that is up can always reconcile
or beat, and a probe is always due (or the server has stopped, and the master goes on). In the others the inputs run out and
the system rests, so it is not.

### Fairness

ProcessManager, `FairSpec`:

* `SlaveStart`: a service manager starts the slave again.
* `BeginReconcile` strongly: the main loop (`pc-slave/main.go` 966-1009) reconciles and ticks in turn, so
  ticks and commands taking the mutex do not starve it.
* `HolderStep`: a goroutine that holds the mutex goes on; no step of it waits for anything but time.
* `Spawn` strongly: a launch that is tried again and again does not fail for ever.
* `Reap`: Go's runtime schedules the waiter.
* `ProcessEnds` of a process that has been sent SIGKILL: the kernel delivers it.

Nothing is assumed of processes that get SIGTERM, of commands or of lists.

CommandDelivery: the main loop goes on (`MainLoop`: a ticker drives it and each of its calls has a timeout), the
worker does (`Worker`), and the master answers a heartbeat (`Heartbeat`: its handler waits for a mutex that no handler holds
across a call).

MasterFeed: timers fire, answers are handled, slaves beat, and the master returns after an outage. The page polls the
statistics of a project every 1.5 s (`HomePageContainer.js` 955-975), which asks for its runtime; the hosts are listed again and
again only in the setting that says so (`watched`).

The rest: timers fire, messages and answers arrive or fail, children's events come, effects run, and transactions go on
until they end. A deployment script is assumed to end, or to end with its server. Nothing is assumed of users, of the slave's
reports, of shells, or of sockets and servers that may break.

## 12. Proofs

All theorems hold for every value of the constants that the named assumptions allow; no bound is used. Each
proof follows the same argument: an inductive invariant, shown to hold at first and to be kept by each action in a step (or
lemma) of its own, and PTL at the end.

**ProcessManagerProofs** (all hazards).

* `TypeCorrect`: `Spec => []TypeOK`. `TypeOK` is not inductive, since `SendSignal` and others look up
  `processes[cur]`; `CurOK` adds that whenever the step uses `cur` there is such a key (and a process
  under it, or something to start), and `TypeInv == TypeOK /\ CurOK` is.
* `SignalsOwned`: `Spec => SignalsOnlyOwn`. A signal goes to the pid in `processes`, which may have come
  from a file of an earlier life of the slave. `OwnInv` says of each pid that a managed process or a
  readable file of this boot names that, if it is in use at all, it was launched with the run and key named
  there. The boot id in the file is what makes it inductive over a reboot.

Part two assumes `Reliable`: the only hazard is foreign processes, and distinct keys have
distinct files. Both conditions are needed: a crash between `command.Start` and the end of the write of the state file
leaves a process that nobody knows, and colliding names make one file stand for two keys.

* `AlwaysTracked`: `Spec => []LiveIsTracked`. `TrackInv` adds what links the phases: at what steps a file may
  be torn and for which key (`PhaseOK`), that every managed process has a file when no write is under way
  (`HasFile`), that every running process is managed or named in a readable file before the first load
  (`Tracked`), that what `RemoveStopped` forgets is dead or has been sent SIGKILL (`RemoveOK`), that a
  recorded exit means the process is dead (`ExitOK`), and that runs are numbered without reuse (`RunsOK`).
* `NeverTwo`: `Spec => []OneLivePerKey` follows from `TrackInv`, since two running processes of one key would
  be tracked at the same place.
* `KeepsPromise`: `Spec => ImplementsOneInstance`. Each action maps to a launch, an end or a stop of OneInstance or
  changes nothing there; that a launch finds its key free is `NeverTwo`'s invariant.

Part three: all hazards again, and also when two keys share a state file.

* `ResultsOwned`: `Spec => []ExitResultIsOwn`. `RunInv` adds that runs are numbered without reuse, that a file is the one
  of the key it names, and that a result waits for the mutex only when its process is gone.
* `HistoriesRight`: `Spec => []HistoryRight`. `PastInv` adds where each run is in its life: nothing is reported before its
  launch, and a file of this boot names a run whose end has not been reported.
* `OneShotsOnce`: `Spec => []OneShotOnce`, from `ShotInv`: a one-shot that was launched since the last reason to launch it is managed, in a
  file, or remembered as completed.

**CommandDeliveryProofs** (all hazards).

* `TypeCorrect`: `Spec => []TypeOK`.
* `DeliversInOrder`: `Spec => RunInOrderOnce`, that is, CommandDelivery implements CommandPromise under the identity
  on `issued` and `executed`. The promise's guard of `Run(c)` is that all commands run so far were queued before
  `c`. To have that when a command is executed, the invariant says it of the whole way: the commands in
  `pending`, `response`, `queue`, `work` and `executed` are increasing within each (`Lines`), all that is further on is
  smaller than all that is further back (`InLine`, `AtWork`), and nothing exceeds `issued` (`Queued`). `QueueingOK`
  links `response` to the state of the main loop. Losing things on the way, by a lost answer, a full queue or
  a restart, keeps such an order; nothing is ever put back. So the code's ids seen are not what makes
  delivery at most once: the argument does not use them.
* `MasterKnowsRight`: `Spec => []MasterIsRight`. It rests on the order above (a command that the worker has
  taken is in no list any more and has not been executed before) and adds `Published` (only what was executed has answers, all the same
  one), `WorkerRight` (the worker's result is that of its command) and that a record says "queued" exactly of what is in the list.

**MasterFeedProofs** (any slaves, faults, calls, events).

* `AlwaysAttended`: `Spec => []Attended`. `OneStream` says that one stream at a time is alive and has the handle while it is open,
  `OneProbe` that one probe is scheduled or under way. The old stream's end cannot clear the new handle because it calls back before any
  timer.
* `KeepsOrder`: `Spec => ImplementsFeed`. `Queues`: what is queued in the open stream is increasing, later than `last` and
  no later than `sent`.

**RunRecordsProofs** about `ClientsSpec` (any runs, reports, transactions, callers).

* `RecordsAreHonest`: `ClientsSpec => []RecordsHonest`. Honesty is said of the report wherever it is on its way (`AllHonest`).
* `PicksNewest`: `ClientsSpec => []NewestPicked`. `OneAfterAnother` says that runs of a key follow one another, so of two that are seen the
  one seen later is the later run, whatever reports have been applied since; `Settles` that a wait picks the last
  seen of the rows it has read. That a finite view has a greatest row is `Greatest`, by a well-founded ordering.
* `CommandsStayKept`: `ClientsSpec => []CommandsKept`. `CommandOK` relates, for each command, what it has still to send, what the server has taken
  and what it was told. What is left of a plan of kills is in a row (`KillsAt`), and what was taken is the first part of that plan in
  order (`Told`). A kill is a mutation and so never sent again: at most the last one is in doubt. The plan of a restart is made once, when
  its list of runs is there, and names each run once, because `LastSeenFirst` of a finite set is an ordering without repetition (`FoundOnce`).

**DesiredPropagationProofs** about `PageSpec` (any definitions, deployments, environments, requests, faults, pages).

* `DeploymentsStay`: `PageSpec => []DeploymentsExist`. `Sound` says of the committed database and of what all open transactions have written: one
  transaction at a time has an item (`Apart`); a row that is written has the deployment of the committed row, or for a new row one
  that exists (`Kept`); who deletes a deployment sees no row of it, and nobody else is inserting one (`Emptied`, which is what the shared lock of the
  foreign key is for). It is stated with the database and the transactions as parameters, so that each way to change them - to end, to write,
  to delete a deployment, to commit - is a lemma of its own, and the actions are instances of these.
* `MasterFollows`: `PageSpec => []MirrorFresh`, and `SuccessIsMirrored`: `PageSpec => SuccessMirrors`. One invariant, `TurnsInv`, carries both.
  It says of the one request that is open which definitions the master has not been told of (`Untold`) and whose fingerprint may be that of a
  replaced environment (`Stale`), phase by phase: none, all concerned, those the loop has still to visit, none again. On all others that are `Due`
  the master agrees with what the transaction sees, and so with the database once it commits. `Due` is everything when nothing can fail, otherwise
  what the request itself has touched; this is why the master is right about those even after earlier failures. `PhaseRight` says how far the
  list that a refresh has read is still what it sees. Both properties need that no call arrives late and that the master is not restarted
  (`InTurn`): either undoes a call that was answered.
* `PageIsTrue`: `PageSpec => []PageTrue`, from two invariants. `PaneInv`, of the host's processes: as long as full loads have not overlapped and no change was
  given up, only the page's own change can be open (`OnlyChange`), what a full load has read is still there unless that change has been
  committed since, and then everything is read again before the change is over (`GotRight`); what is shown is right, or is about to be replaced, or the user was told
  of an error (`ShownRight`). `ViewInv`, of the selected project: a flag that is up is that of the first step of a job (`FlagsRight`); as long as no two jobs that show the
  same thing have overlapped, what will be shown is still what is saved (`AnswersRight`) and, while the environment is looked at, of the project that is selected
  (`OwnJobs`), and what no job will show is right already (`WillBeRight`).

**BrowserFeedProofs** about `LogSpec` (any buffer, events, breaks, restarts, slow sockets, returns of the page, lines and requests).

* `FeedIsRight`: `LogSpec => []FeedRight`. What is on its way to the socket that is heard is gap-free (`Gapless`: between what was handled and
  what is queued, and within the queue, only excused events are missing) and complete (`Complete`: nothing is missing after its end), and the
  same holds of the buffer (`BufferHolds`) for what a subscription will replay. A page that never left has one socket
  (`OneInv`, `SocketRight`), and with one socket everything queued is ahead of everything handled (`Ahead`), so nothing comes twice.
* `WindowKeepsLines`: `LogSpec => []WindowHolds`, by `LogInv`: every answer on its way has no hole, and ends with the last line stored when it was
  read (`NoHole`, `LogQueue`).

**HostPageProofs** about `PageSpec` of HostPage (any hosts, lists, rows, deployments, browsers, sessions and operations).

* `RowsStayApart`: `PageSpec => []RowsDiffer`. A merge is a loop over the list, so the invariant of the loop is what is proved: `DbOK` says
  of what the loop holds that its rows differ, that only slaves in use are in them, and that each address leads to a row or to none. `AdoptKeeps` is one turn;
  it needs that some candidate name is free (`SomeNameFree`: the numbered candidates are more than the finitely many rows). `AdoptAllKeeps`
  carries it to the end by `UpTo`, which takes the place of induction: the least number for which a set fails is none. A host that is
  added by hand gets an id that nobody has (`InUse`), which is why all of `CatInv` says where ids may be: rows, jobs, calls, lists.
* `OneDeploymentRuns`: `PageSpec => []OneDeployment`: one job for a host (`JobsOK`), and rows differ in their slaves.
* `AcceptedIsAnswer`: `PageSpec => []AcceptedIsUsed`, by `PasswordsOK`: what was accepted answered its request and no other did, prompts show requests that were
  made, and a request that was answered never changes again (`PasswordsKept`).
* `PageStaysHonest`: `PageSpec => []PageHonest`. Of the sessions of a host only the last may be active (`SessionsOK`); as long as no
  operations of two hosts have overlapped, a flag is that of an operation under way, and an operation holds in its old maps no flag but its own host's (`FlagsOK`).
* `AddedHostsRemain`: `PageSpec => AddedHostsStay`: rows are destroyed in a merge only when they were found by no entry of the list and are of the
  runtime's making, and a turn of the loop keeps the source of a row.
* `SlavesKeepTheirRows`: `PageSpec => SyncKeepsIdentity`, for each merge of a list of which no slave has a name or address that
  another one on it has left (`NothingTaken`: by the list and the table, nothing is asked of the settings). The premise is needed:
  a name or an address that changes hands takes the row with it, and a host that was added under an address
  that is not the one its slave reports gives its row to a slave that does have that address and is listed first. `Steady` is what a turn of the loop keeps
  (`AdoptSteady`): the map by address leads to rows with that address, and rows of listed slaves still fit the list, so that a match
  by name or by an address that one host has is the host's own row or of a slave that is not listed (`MatchIsOwn`).
  It also needs that the master's list has each slave once (`ListedOK`).

**ServerApiProofs** (any calls, tokens, tables, faults).

* `LimitsKept`, `AuditIsTrue`, `RunsAtItsProject`: `Spec => []WithinToken`, `[]ToldTruly`, `[]PathOfProject`. All three are about each call alone, and
  follow from `CallsInv`, which relates for each call what it has found, done and been answered so far. `Truly` says what may have been
  done at each step and under which answer, an unheard one included; `Defines` what was compiled: where it runs, of which project, from
  which of the paths, and that the command is the caller's only with the right to it; `AuditOK` which records there are and what they say. A
  step is one of a few ways for a call to go on (`Becomes`: it is running, ends, or is unheard), so each action is shown to be one of them
  and each way to keep the invariant; no other call disturbs it (`CallsStay`). That the place is under a prefix
  follows because the path that the rules looked at is then the only one there is (`NamedAlone`).
* `UpsertsTakeEffect`: `Spec => []UpsertTakesEffect`. `UpsertInv` says that ids, and scopes on which no two writes have overlapped, tell
  templates apart (`Telling`), that a settled scope has the row written last (`SettledIn`), and what a call that is about to write may still rely on:
  the row it found is the one of its scope, or one that moves there by its id, unless writes have overlapped (`FoundIn`).
* `SteadyProjectsKept`: `Spec => SteadyProjectsStay`, an action property. `ListsInv` says that a list that was read, and what is merged with it,
  holds every path that the slaves report all the time, however late it is written (`ListOK`); a merge keeps the rows of such
  paths and each of its writes keeps the ids of the rows there are (`WriteKeepsRows`, `MergeKeepsRows`), in whatever order.

Only model-checked, because the prover cannot reach it: the liveness properties (`Converges`, `EachIsAnswered`, `CallersEnd`,
`PageEnds`, `Recovers`, `CatchesUp`, `WindowArrives`, `DeploymentsEnd`, `PanelEnds`).

### Assumptions

The theorems use the named assumptions of the modules, which TLC evaluates in every run: what values the constants have, and

* ServerApi (`ServerApiAssumption`): ids are positive (`normalizeNumberArray` drops others), the first templates are finitely many and have ids and scopes of their own,
  projects and reports are finitely many, there is a first report, a process is named by `projectPath`, `codexPath` and `cwd` (the record of a call has
  one more path, which is for other operations),
  and `"raw"`, which marks a command of the caller's own, is no template's.
* HostCatalog (`HostCatalogAssumption`): the rows of earlier days are of different slaves and names, as the table's columns are unique.
* Clients (`ClientsAssumption`): the value `None` for "no answer yet" is none of the results.
* RuntimePane (`PaneAssumption`): a request is told apart from the names of the page's other changes.
* DesiredPropagation, MasterFeed, BrowserFeed, RunRecords, CommandDelivery, ProcessManager: the settings are of the kinds the modules say;
  bounds are natural numbers.

## 13. Not modelled

In Go: run reporting (pending changes drained, flushed by two goroutines and put back), the slave's main loop and registration, the log shipper, the
workload supervisor (no longer started by `main.go`), checkout, discovery and telemetry; the master's slave registry, log buffers, runtime
control of its own host, event stream and gRPC server. Where others depend on them they are inputs: what reports may say and in which order
(RunRecords), how a stream may break (MasterFeed), which slaves are listed (HostCatalog), which commands a heartbeat carries
(CommandDelivery). In JavaScript: `server/runtimeManager.js`, which no module imports; models and migrations; layout, selectors, forms and
rendering of the page. For good: generated code and packaging. In the process manager: reuse of a pid within one boot, processes that leave
their group, and errors of reading the state directory.

## 14. Findings

A violated run: **oneshot** (bug). A reconcile stores the new list entry in `managed.desired` (`process_manager.go` 656) before
it finalizes a process that has exited, and finalizing remembers the fingerprint of `managed.desired`. If a
one-shot ends and its definition has changed by the next reconcile, the *new* definition is marked completed
without ever having run.

What else was met while modelling. The properties above are stated around these (by an exclusion the model names, where one is needed); each was
seen in the code, and many in a trace of TLC.

Slave and commands:

* `docs/mcp-server-capability-routes.md` 73 says that the slave reconciles against actual host processes. It reconciles against its state files: if
  it dies between `command.Start` and the end of the write, the process goes on, unknown for ever.
* A restart names each observed run by run id and key (`commander-client/src/index.js` 688-697), and the slave takes the first process
  that matches the run id *or* the key *or* the pid (`process_manager.go` 1381-1392): a successor is stopped when the run has been replaced.
* Log lines of one run can be stored in another order than they were written.

Server:

* A subscription sent while the server reads the session (authentication) is lost, and the page is never told of events. A request for a log is
  lost likewise, and its panel waits for the answer for ever.
* Of several paths that name a process only the first is held against the prefixes of a token; `..` in it is not resolved before.
* A call that is answered and audited as an error may have taken effect, when the answer of the master or a commit failed.
* After a restart of the server, events numbered up to the page's old id are hidden from it.
* A deployment started by hand that fails rejects a promise nobody handles, and the server ends; so does input to a terminal whose shell has just ended (`EPIPE`).
* A row may be handed to another slave by name or address, although `hostCatalog.js` 379 calls the slave id the stable identity; a host added by hand at
  an address of another slave is shown with that slave's status.
* When a restarted master lists nothing, rows of hosts that registered by themselves are destroyed, and with them their desired processes
  (`docs/mcp-server-capability-routes.md` 34 says that the Node layer persists desired processes, 238 that definitions originate there).
* `hostAgentUuid` is not defined in `checkoutHostProject` (a ReferenceError).
* Two upserts of one template scope at once leave two rows; templates that come with the program are inferred without knowing the
  project's type, as its row has none; a custom path is forgotten with the server.
* Rows of `process_runs` have no `projectPath`, so that pcctl's `process ps` and `restart` with `--host --project` match nothing.

Clients:

* All tool calls of an MCP server share the name that the audit records (`commander-mcp/README.md` 141 says that each is recorded by its tool).
* `process ps --host` without a project always fails; `--host-id` beside a default host may resolve to the default host; process logs read the agent's log.

Page:

* When the page comes back within 120 ms, or its endpoint changes, the old socket's end opens a second one: events come twice, log lines are repeated and a
  window may then have a hole. What was batched when the page went is thrown away.
* A log request without an open socket, or whose socket breaks, is not repeated; an error of the web store is never cleared; the error of a
  degraded connection flaps.
* Flags and sessions of hosts are written back from old closures: a flag may stay when operations of two hosts overlap, and the terminal shown may be one of a server that has been restarted.
  A session that failed to load is not asked for again, and one that cannot be started is tried for ever.
* Late answers are not told from new ones: a full load that comes late shows old definitions until the next; a late environment or port range of another
  project is shown, and saved. A host's environment saved before its bundle has come erases it (`RuntimePanel.js` 337-339); a draft is lost when the list of hosts is loaded again or the save fails.
