# Formal model of heron

heron is a reverse proxy and process supervisor for local development: it starts
a service when the first request or connection for it arrives, keeps it while it
is used, stops it when it is idle, and shuts everything down on a signal.  This
directory holds TLA+ models of that behaviour, TLC configurations that check them
on small instances, and proofs, checked by TLAPS, that hold for all instances.
Every definition is read off the Go source; `PROJECT.json` maps it to the lines.

## The system

| component | source | state | operations | interacts with |
|---|---|---|---|---|
| service life cycle | `internal/supervisor/service.go` | state, process, leases, idle timer and its generation, the channels `startDone`, `stopDone`, `workerDone`, recorded errors | `Acquire` and its release, `Stop`, goroutines `start`, `watch`, `stop`, timer callback `idle` | process runner; callers are handlers, the operator, `StopAll` |
| supervisor, operator actions | `supervisor.go`, `inspection.go` | `closing`, life cycle context, `manualStopped` | `Acquire`, `StopAll`, `Action` | all services; TUI, main |
| process runner | `internal/process/runner.go`, `process_unix.go` | a process group, two pipes, the result | `Start`, `Run`, `Terminate`, `Kill` | operating system; logger |
| HTTP drain | `internal/proxy/drain.go` | count of requests, draining flag, tracked connections | `ServeHTTP`, `BeginDrain`, `DrainServer`, `Accept`, `Close` | net/http, main |
| TCP proxy | `internal/proxy/tcp.go` | listener, tracked connections, wait group | `Serve`, `handle`, `Shutdown` | supervisor, main |
| heron process, hooks | `cmd/heron/main.go`, `internal/lifecycle/hooks.go` | phase, one deadline, hook lists | start up, serve, shut down, tear down | everything |
| router, rewriting | `internal/proxy/router.go`, `rewrite.go`, `handler.go` | route table, constant once built | `NewHandler`, `Match`, `rewrite` | configuration, supervisor |
| configuration | `internal/config` | none once loaded | load the resource graph, normalise apps and endpoints, resolve environments | main |
| observations | `internal/observe/store.go` | 500 entries per service and kind, one sequence number | `append`, `Entries` | logger, TUI |
| process tracker | `internal/process/tracker.go` | previous CPU times | `Sample`, `Owned` | TUI |
| terminal UI | `internal/tui` | selection, filter, confirmation, busy flag, log position, unfinished key | keys, updates, results; goroutines that collect, read and act | supervisor, observations |

What makes it correct, and what is hard:

- **Service.**  At most one process; none left behind by a stop or failure; never
  stopped for idleness while leased; every waiter woken exactly once; an
  operator's stop and a shutdown hold.  Hard because six kinds of goroutine meet
  at one mutex and continue from what they saw under it: a timer callback that has
  already fired, a watcher of a previous process, a start abandoned by a stop, a
  caller that reads a shared error after its channel was closed.
- **Drain and TCP shutdown.**  Nothing admitted after the drain began, nothing
  admitted cut short, nothing left open, no missed wake-up.  Hard because the check
  and the wait are apart, and connections are accepted as listeners close.
- **heron process.**  The phases in order on every way out, within one deadline.
- **Process runner.**  The result is set before it is announced, output is logged,
  a kill reaches the whole group, Done follows every exit.
- **Router.**  Conflicts between endpoints are found in whatever order Go's maps
  deliver them, and a request goes to the most specific endpoint.  Hard because the
  checks see only the endpoints before, and an unstable sort follows.
- **Configuration.**  A cycle of files that include each other is found under every
  name of a file, and only a cycle; every app is loaded once; no variable of an
  environment depends on the order of a map.
- **Observations.**  A log that is full drops its oldest entry while a reader may be
  paused at it, and all logs share one counter.
- **Terminal UI.**  A key cut by a read must not become other keys, which are
  commands; a confirmed action goes to the service it was asked for though the
  list changes; a paused pane stays although entries come and are dropped; and the
  terminal is given back however the goroutines stand.

`PROJECT.json` lists the hazards with their lines and the properties that cover
each, or why none does yet.

## Modules

| module | models | kind |
|---|---|---|
| `Service` | one service, `service.go`, with the processes it runs | state and actions |
| `Supervisor` | `EXTENDS Service`: requests, operator actions, `StopAll`; specification and properties | composition |
| `LazyService` | what a lazily started service promises, with no locks, channels or timers | abstract specification |
| `SupervisorInvariant`, `SupervisorProofs` | inductive invariants, theorems, the refinement of `LazyService` | proofs |
| `Drain`, `DrainProofs` | `drain.go` | specification, proofs |
| `TCPServer`, `TCPServerProofs` | `tcp.go` | specification, proofs |
| `Server`, `ServerProofs` | `runServerMode` and `hooks.go`, over the other parts as seen by main | specification, proofs |
| `Runner` | `runner.go`, `process_unix.go` | state and actions |
| `Store`, `StoreProofs` | `store.go` | specification, proofs |
| `Output`, `OutputProofs` | `EXTENDS Runner, Store`: a command and the log of its output | composition, proofs |
| `LogView` | `EXTENDS Store`: the pane that shows a log, `logLines` and its keys | state and actions |
| `Tui`, `TuiProofs` | `EXTENDS LogView`: the event loop, the keys, the goroutines | composition, proofs |
| `Maps` | an assignment over another, as of Go's maps | operator |
| `Resources` | `load`, `loadAll`, `loadOne`: the files | state and actions |
| `Environment` | `resolveEnvironment`, `mergeEnvironment` | state and actions |
| `Normalize` | what `Normalize` asks of an app and its endpoints | state and actions |
| `Router` | `EXTENDS Normalize`: `NewHandler`, `router.go`, `rewrite.go` | state and actions |
| `Config`, `ConfigProofs` | `EXTENDS Resources, Environment, Router`: from the files to the answers | composition, proofs |
| `MCSupervisor`, `MCOutput`, `MCConfig`, `MCTui` | symmetry; the lines, files, requests and inputs of the runs | instances for TLC |

### Service and Supervisor

Each critical section of `Service.mu` is one action; a goroutine's place between
two of them is its program counter (`worker`, `stopper`, `pc`, `sc`).  A receive
from a closed channel is merged with the critical section after it, because a
closed channel stays closed.  The close of `workerDone` is merged with the last
step of the worker.  Fields keep their Go names.

An element of `Attempts` names all that one start creates: `startDone`, the
context `attemptCtx`, the goroutine `start()` and its `workerDone`, the process
and its watcher.  An element of `Stops` names `stopDone` and the goroutine
`stop()` of one stop.  Idle timers are numbered by generation and 0 is no timer.

- `Acquire*`, `Release`: `Acquire` with its loop, and the returned release.
- `BuildDone` ... `Reap`, `Fail`: `start()`; `Record` is the critical section that
  stores the process, and `LaunchOk`, before it, is the process appearing.
  `Ready` and `NotReady` are the outcomes of the readiness probe, a choice.
- `WatchExit`: `watch()`, once its process exited.
- `StopCall`, `StopWoken`, `StopAbandoned`: `Stop`; `StopRead` ... `StopFinish`:
  `stop()`.  `BeginStop` is `beginStopLocked`.
- `TimerFires` and `IdleCallback` are apart: the callback has begun and waits for
  the mutex, which is the race that the generation is there for.
- `ContextKills`: os/exec kills the group of a process whose context is canceled,
  at some time after the cancellation.  A process may also be launched just before
  that cancellation; exec checks the context before the fork.
- `Fault` counts spontaneous exits, failed commands and expired timeouts.

`Supervisor` has one service.  Services share only `closing` and the life cycle
context, so one stands for all.  The operator runs one action at a time (the TUI's
busy flag); ending its context ends its actions.  `stale` (timers that have seen
activity since they were armed) and `seen` (the error recorded when a caller
arrived) are history and influence nothing.

### Drain, TCPServer, Server

`Drain` follows one connection each through accept, tracking, registration with
net/http, requests, hijacking by h2c, and close.  `changes` counts the `changed`
channels closed; a waiter remembers the count it saw, which is holding the
channel.  `TCPServer` runs `Serve`, one handler per client with its defers in
order, and `Shutdown`; the two closes of a handler (tcp.go:136-137) are one step,
as is closing and untracking a connection.  `Server` is `runServerMode`: drain and
TCP shutdown each return when their work is gone or the deadline has passed, which is
what the other modules show about them.  `StopAll` calls `Stop` of each service, in a
goroutine each (`stops`): a service that has failed is stopped again, and a stop may
fail, by its command or by the deadline, and then leaves its service failed or still
stopping.  `served` and `ran`, whether there were listeners and which tearDown
commands were started, are history.

### Runner, Store, Output

`Runner` is one command: leader, a descendant that may become a daemon and keep the
pipes, the two readers with their buffers, and the goroutine that waits.  `Store`
keeps the latest entries of each target, a service with its logs or its events;
`logged`, all there ever were, is history.  A reader that meets a line too long to
scan, or finds its pipe closed by `c.Wait`, drops what it has in its buffer and logs
the error (`Warns`), of the same service and stream as the lines.  In `Output` the step
by which a reader logs a line or that error is the step that appends it to the store,
if heron logs at a level that lets it pass (`Enabled`): stdout is logged at INFO,
stderr and the errors at WARN.

### LogView, Tui

`LogView` is the log pane: `offset` rows from the tail, and `logEnd`, the number of
the entry a paused frame ends at.  `Draw` is `logLines`, with its write back to the
model.  `Tui` puts the rest around it: the event loop (`loop`), which takes a
snapshot, a result, a read or a redraw, handles all the keys of a read before it
draws again, and on its way out waits for the two goroutines; the worker that
collects; the reader; one goroutine per action.  A byte is a string, and `NextKey`
frames keys as `nextKey` does.  What the operator types (`typed`) is chosen at the
start, how it is cut into reads is not: what a read returned, what waits in the
channel and what the field `input` of the model holds are each told by where they
end in `typed` (`taken`, `keys`, `received`), and `framed` is where `input` begins.
`handled`, the keys so far, is history.  `Code` gives each byte its number, by which
`Final` and `Edited` tell them apart.  `since` is history too: whether a key, or only
a snapshot, has touched the pane since the frame was drawn.

### Resources, Environment, Normalize, Router, Config

`Resources` walks the files depth first with the stack of `loadOne`.  `Environment`
reads the files of an app one after the other, each over those before it, and
resolves its inline entries one by one, in any order.  `Normalize` holds the tables of the endpoints seen so far, and
`Router` sorts the routes as an unstable sort may, and serves requests.  Its paths
are sequences of tokens, a name being one token unless a prefix may end inside it;
`URL.Path` and `URL.RawPath` are both followed, and what net/url does to them is an
external definition: `Unescape` says what an escaped token stands for, and
`EscapedPath` which of the two goes on the request line.  `HostNames` and `RoutePath` are what `normalizeEndpoint` makes
of an endpoint.  `Config` runs one after the other and chooses, where the code ranges
over a map, any order.  What a file holds is chosen at the start from `Disks`.

## Runs

Bounds are the sets and numbers in the `.cfg`.

| run | instance | shows |
|---|---|---|
| `lazy_start` | 2 requests, 3 attempts, 2 stops, build, idle, 2 faults | idle shutdown is due and armed, crashes are attributed to the right process, each step is one of `LazyService` |
| `operator_actions` | 1 request, 3 attempts, 2 stops, 2 actions of kill, restart, start, 1 fault | inductive invariant; one process, no orphan; a stop by hand holds |
| `shut_down` | application with a stop command and idle timeout, 1 request and a restart, 2 attempts, 2 stops, `StopAll`, 2 faults | no double close, no lost waiter, fresh errors although stop commands fail; shutdown holds |
| `live_traffic` | 2 requests, 3 attempts, 1 stop, build, 2 faults | `Acquire` returns, crashes are noticed |
| `live_stop` | 1 request, 1 attempt, idle, operator's stop, `StopAll` | every `Stop` returns, even of a process that ignores SIGTERM; an unused running service does not stay |
| `drain` | 4 connections, 2 of them hijacked | the drain counts, admits, closes and ends as it should; `DrainServer` needs no deadline when clients leave |
| `tcp` | 3 clients | leases cover backends, `Shutdown` is complete, and returns without its deadline; `Serve` ends |
| `server` | 2 requests, 2 TCP endpoints, 2 services, 2 and 3 hook commands | order of the phases on every way out; tearDown commands are started in spite of failures; no service is left without an error; a signal ends heron |
| `output` | a command with lines 3 and 1, one of them perhaps too long, pipes of 2; log of 2, 1 event; levels INFO, WARN and ERROR | results, kills and logs are right; lines that are lost leave an error in the log; all is logged before Done, which follows every exit |
| `config` | about 10 000 configurations (see below), 14 requests, 5 of them with escapes | exactly the wrong configurations are refused, in every order; environments; the most specific endpoint; what goes on the request line |
| `tui` | 18 inputs, 2 services, a log of 3 for 6 entries, a pane of 2 rows | keys framed alike however they are cut, actions as asked, paused frames stay, the terminal is given back |
| `shutdown_kills` | small | the disagreement below; TLC must find it violated |

`IInv`, `DrainInv`, `ServerInv`, `OutputInv`, `ConfigInv` and `TuiInv` each join a
module's type invariant with the facts that its other properties rest on.
`ProcessSafe` and `ChannelsSafe` join what is proved of processes, and of channels.

In `live_traffic` a second request meets the first one's start, failure and crash;
in `lazy_start` it also decides who returns the last lease, and an acquire meets a
release.  Three attempts let a service run, fail or stop, run again and meet
leftovers of both; two stops let an idle or operator's stop meet a shutdown.  In
`shut_down` the operator's restart is what leaves a recorded error behind for a
later caller to find: a stop of a service that has failed, or was starting.  Three
clients let one TCP handler be dialing, one copying and one arrive late.  When
`Attempts` or `Stops` is used up no further start or stop begins: that is the bound
of the exploration, not of the code.

The configurations of `config` are three families.  Routing: one app with 0 to 3
endpoints, well formed or not, next to up to three single ones, which nest,
coincide after normalisation, or lie at the root; and each app that is refused for
one reason of its own next to each of these.  Include graphs: three files, one of
them also under another name, the root including up to two and the others up to
one, with a name that resolves to nothing, wrong fields, and equal app names; so
there are chains, diamonds, cycles of length one to three, and a cycle under
another name.  Environments: up to two of two files and a missing one, which assign
the same variables, and up to two inline entries that refer to them, to each
other's names, and to what is not set.  Each property but `ConfigInv` is about one
family.

In `output`, pipes are shorter than the output, and the log than what is logged.  In
`tui` the log drops its oldest entry while the pane is paused, PgUp (`Page` 2) may
reach beyond that, and the inputs hold each kind of key, answers right and wrong,
and escape sequences where a cut matters: with `KeyRoom` 1 and one read in flight,
two reads may wait.  No input scrolls back as far as `MaxOffset`.  Entries come only
while their pane has the focus, and signals and a lost terminal only before the
first entry, since the two have nothing to do with each other.  A sequence with
parameter and intermediate bytes (`ESC [ ? 1 ; / S`) is as long as `Limit` lets it
be.  `KeysFramed` is about inputs without a malformed sequence, one that does not end
within `Limit` (32 in the code) or has a byte in it that no sequence has: the code
frames the first differently depending on where reads cut it, and takes the second
together with what follows.  `FilterRoom` 1 lets a filter be full.  `TuiReturns` is
about a Ctrl-C that is a key: one after an unfinished `ESC [` belongs to that
sequence.

Deadlock checking is off everywhere because the systems do come to rest, when all
requests are served or heron has exited; lost waiters are what `NoLostWaiter` and
the liveness properties are for.  The safety
runs of `Supervisor` use symmetry, runs with a liveness property do not.

### Fairness

Goroutines that can run do run: weak fairness of each worker, stopper, watcher,
waiting caller, timer and reader.  A canceled context kills, and a process killed
by SIGKILL exits and is waited for (`Runner` shows that Done then closes, although
a daemon holds the pipes).  There is none on arrivals, releases, faults, an
operator's decisions, on a process that was only asked to terminate, on hook
commands, or on clients leaving before a drain.  `Server` assumes that deadlines
pass; `Drain` and `TCPServer` do not, and so show that they are not needed.
`DrainCompletes` assumes that handlers end and idle connections are let go once
the drain has begun.  In `Tui` the branches of the event loop's select that read keys
and notice the end have strong fairness: Go's select picks among the ready cases at
random, and a redraw or snapshot that is always ready must not win for ever.
There is none on the operator's actions, which may hang.

`AcquireReturns` is checked without the idle timer: with one, a timer of zero
length could stop the service between a caller's wake-up and its next look, again
and again, and the code has no defence against that.

## Findings

Where the code and what is said about it disagree.  One is a run that TLC must find
violated:

1. `shutdown_kills` (`GracefulFirst`): `StopAll` cancels the context the processes
   run under, which kills them before SIGTERM is tried (README.md:558,
   service.go:347-348).

The others are not among the runs.  TLC refutes the property named, in the module
named, with the configuration given (`tlc -config NewWork.cfg Server`, say):

2. `ForwardedRooted.cfg` and `ForwardedEscaped.cfg` (`MCConfig`, `ForwardedRooted`):
   what goes on the request line to the backend need not start with a slash
   (README.md:486-499).  With the path "/" and no includePrefix, the leading slash of a
   request's path is removed, and the backend is sent a path such as `users`; with the
   path `/svc`, the request `/svc%2Fadmin` is matched, since `URL.Path` is unescaped,
   and sent as `%2Fadmin`.  These two are the only ways (`ForwardedFits`, proved).  It
   also says what becomes of other escapes: they are kept, unless the client escapes
   part of the prefix, as in `/%73vc/x%2Fy`, which is sent as `/x/y`.
3. `StopResult.cfg` (`MCSupervisor`, `StopReportsOwnResult`): a failed `Stop` returns
   nil if `StopAll` begins another stop before its caller reads the shared
   `stopErr`.  This takes an operator's action in flight when heron shuts down.
4. `ServicesLeft.cfg` (`Server`, `StopsManagedServices`): heron may exit with services
   not stopped (README.md:590-592), because the HTTP drain has used up the one
   deadline, and `StopAll` then waits for none, or because a stop command has failed.
   `StopAll` returns an error of each, and these are the only two reasons
   (`CleanExit`, proved).
5. `NewWork.cfg` (`Server`, `StopsAcceptingWork`): TCP listeners accept connections,
   and start services for them, until the HTTP drain is over (README.md:588-589).
6. `TearDownSkipped.cfg` (`Server`, `EveryTearDownRuns`): a tearDown command that
   hangs uses up the deadline of those after it, which are then not started
   (README.md:200).  Without that, each is, whatever became of those before
   (`TornDown`, proved).
7. `OutputLost.cfg` (`MCOutput`, `OutputForwarded`): `c.Wait` closes the pipes when a
   command exits, under the readers, and its last output may be lost
   (README.md:573).  It is not lost in silence: the log then has an error of that
   stream (`LossReported`, proved).
8. `OutputStuck.cfg` (`MCOutput`, `KeepsForwarding`): a line of more than 1 MiB ends
   the forwarding of its stream, and the service blocks when that pipe is full
   (README.md:573).
9. `UpGoesBack.cfg` (`MCTui`, `UpGoesBack`): an arrow or PgUp drops the anchor of a
   paused pane and counts its rows from the newest entry, so that after new entries
   came the frame moves forward although the operator scrolled back
   (README.md:637, 642).
10. `PauseLost.cfg` (`MCTui`, `OwnEventsStay`): when no service passes the filter, the
   pane shows heron's own events, and each snapshot takes it back to the tail although
   it is paused (model.go:216-221; README.md:642).  `PausedStays` is about the pane
   of a service, which does stay.

One more is a choice rather than an error: a file that is included twice, or along
two ways, defines its apps twice and is refused as a duplicate (`SharedResource.cfg`,
`MCConfig`, `SharingAllowed`), although README.md:195 only asks that app ids be
unique.

## Proofs

TLAPS checks the theorems below for any values of the constants that satisfy the
assumptions of the modules, which TLC evaluates for the instances of the runs.  The
assumptions only say what the constants are:

- `Supervisor`: attempts and stops are different things and neither is nil, the
  operator and the shutdown are the two callers of `Stop`, switches are Boolean;
- `Server`, `Runner`, `Store`, `LogView`, `Tui`: lengths and rooms are numbers, not 0
  where the code's are not; a service is named, and what it logs has a place;
- `Resources`, `Router`, `Config`: a file lists resources, which are strings, and
  what they resolve to is a file; there are finitely many files, none of them named
  as the two values that stand for no file; the path of a request starts with a slash,
  which is not an escape, and what an escape stands for is none; an app has endpoints
  and names files.

| theorem | module | states |
|---|---|---|
| `InvariantHolds`, `TypeCorrect` | `SupervisorProofs` | `IInv`, its conjunct `TypeOK` |
| `ChannelsAreSafe`, `ProcessesAreSafe` | | `ChannelsSafe`, `ProcessSafe` |
| `LeaseInvariantHolds`, `UnusedIsArmed`, `IdleStopsAreDue` | | `LeaseInv`, `IdleArmed`, `IdleStopIsDue` |
| `HoldInvariantHolds`, `OperatorStopHolds`, `StopAllHolds` | | `ManualStopHolds`, `ShutdownHolds` |
| `FailuresAreReal`, `ErrorInvariantHolds`, `FailuresAreFresh` | | `NoSpuriousFailure`, `FreshError` |
| `ServiceIsLazy` | | `ImplementsLazyService` |
| `TCPInvariantHolds`, `BackendsAreLeased`, `ShutdownIsComplete` | `TCPServerProofs` | `BackendLeased`, `ShutdownComplete` |
| `DrainInvariantHolds`, `DrainCountsRight`, `NothingIsLeftOpen`, `RequestsAreNotCut` | `DrainProofs` | `DrainInv`, `NothingStaysOpen`, `NoRequestCut` |
| `ServerInvariantHolds`, `PhasesInOrder`, `TearDownIsReached`, `ServicesAreStopped` | `ServerProofs` | `ServerInv`, `TornDown`, `CleanExit` |
| `LogsAreRight` | `StoreProofs` | `StoreInv` |
| `OutputInvariantHolds`, `OutputIsLogged`, `LossIsReported`, `NothingLoggedLate` | `OutputProofs` | `OutputInv`, `LossReported`, `LoggedBeforeDone` |
| `ConfigInvariant`, `RejectedWhenWrong`, `EnvironmentsLayered` | `ConfigProofs` | `ConfigInv`, `EnvironmentLayered` |
| `LoadsTheGraph` | | `LoadedExactly` |
| `RoutedToMostSpecific`, `ForwardedAsAsked` | | `MostSpecific`, `ForwardedFits` |
| `TuiInvariantHolds`, `LoopKeepsItsWord`, `KeysAreFramed`, `OnlyActionsAsked` | `TuiProofs` | `TuiInv`, `KeysFramed`, `ActionsAsked` |
| `FramesAreWhole`, `PausedFramesStay` | | `ShownInOrder`, `PausedStays` |

### The supervisor

Why its invariants need more than themselves.  That a channel is not closed twice
depends on who may still close it: `ChannelsInv` says that the channel of a start in
progress is the current one and open, and that a stop's channel is closed by its own
goroutine only.  That rests on there being one worker and one stopper:
`WorkersInv` says that only the latest attempt has a worker, and in which states;
`StoppersInv` that a stopper exists exactly while the service is stopping, and that
after its join no worker is left, because a stop joins the very worker that was
current.  With these, `ProcessesInv` says where a living process can be: in the
hands of the latest worker, or recorded in `process`, which is what the stopper
signals and waits for.  `OneProcess` follows from its second conjunct and
`NoOrphan` from its third.

There is a lemma for each action, with a step for each conjunct that the action can
disturb; `Frame` covers the others, since each conjunct depends on a few variables
only.  `NextPreserves` puts the lemmas together.

`LeaseInv` adds that `leases` is the cardinality of the callers that hold one
(`CountInv`), that timers have generations up to the current one
(`GenerationsInv`), and that a running service that nobody uses is armed
(`IdleArmed`, whose inductive form needs the count).  `IdleStopIsDue` follows:
when a callback stops the service there are no leases by the count, and its
generation is current, so nothing has happened since it was armed.

What has been stopped stays so: `Still` says that the service is down with no start
in progress, no worker and no process; `StillKept` that only an `Acquire` that is
not refused changes that.  After an operator's stop `manualStopped` refuses, and
after `StopAll` `closing` does, which never goes back.  `FailuresAreReal` follows
from the watcher's own check.  `FailuresAreFresh` needs `ErrorInv`: an error names
the worker, the watcher or the `stop()` that records it, and once it stands or was
seen its author is over, so that nobody records it again; and while a caller waits,
the error it saw on arrival is not that of a failed start.

`ServiceIsLazy` shows that `Supervisor` implements `LazyService`, step by step.
The lemma `Mapped` restates the abstract actions over what the refinement mapping
makes of the variables, and there is a lemma for each group of actions that says
which abstract action, or a stutter, its steps are.  It rests on `IInv`, on the
count of leases, and on the hold invariant.

### Shutting down

`TCPInv` says that `wg` is the number of handlers (`CountInv`), what a handler holds
at each point (`HoldInv`), and how far `Serve` and `Shutdown` have come
(`ServeInv`).  That a `Shutdown` which saw `wg = 0` leaves nothing needs all
three: no handler is left because `wg` counts them, none can start because
`trackClient` refuses once `closing` is set, and whatever is still tracked, open or
leased belongs to a handler.

In `DrainProofs` the counter of `DrainHandler` is the cardinality of the requests
admitted; `done` is closed exactly when draining with none of them; what the
tracker does not know is closed or not yet accepted, and after `CloseAll` nothing
stays that comes; and `CloseAll` follows either the wait for net/http and
`done`, so that no request is there to be cut, or the end of the context.

`ServerIInv` says what each phase may find: a hook command only runs from a list not
at its end (`CommandInv`), nothing is up before startUp succeeded (`BeforeInv`),
and each phase of the shutdown leaves nothing to the next before the deadline
(`AfterInv`).  `TornDown` needs that the tearDown commands started so far are those
before the next, and that one if it runs (`RanInv`), and `CleanExit` that what `Stop`
has returned of a service stays true of it, since none starts any more (`StopInv`).

### Logs

A log remains the end of what its target has logged (`LatestKept`), and numbers are
in order and never used twice (`Numbered`), because an entry takes the place of the
oldest of its own target only and its number is above all there are.  `OutputIInv`
adds how far the goroutine of `Start` can be (`ProgressInv`): a result is what the
leader ended with, and it is set only after both readers are done, so that nothing
is logged of a command that is done.  A line that is logged is the next one of its
stream, whatever else is logged meanwhile, because other entries differ in source.
`EndInv` says that a scan which ended without an error has logged all that was
written, and that nobody is left to write more: so a reader that has lost something is
one that failed, and it warns before Done (`LossReported`).

### Configuration

`ConfigIInv` follows a configuration through the phases.  Each app is waiting, being
normalised or done with (`AppsInv`); what is registered is what has been seen of
them, without a conflict (`EndpointsInv`, `Sound`); and the tables that the code
checks against hold the ports, hosts and paths of just those (`TablesInv`).  So a
clash with a table is a conflict between two endpoints (`ClashIsConflict`), which
no order removes, and a configuration that is served has none
(`ServedIsAcceptable`).  For an environment, `base` holds for each variable what
the last of the files read so far gives it, or heron's own, and the entries already
resolved have their values by those files alone, so that their order does not
matter; this is the one place where the snapshot the code takes before it resolves
anything is needed.  For a request, all routes that cover its path are prefixes of it, so of two
with one length only one can be there (`PrefixesEqual`), and the first of the
sorted routes that covers it is the longest however ties were broken
(`MatchedByPath`).  What is forwarded rests on two facts about a prefix of the
unescaped path.  If the path as sent starts with it too, cutting and unescaping may
come in either order (`RestDecoded`), so `RawPath` remains valid and goes on the
request line.  If not, `RawPath` is not cut, no longer fits the shorter `Path`, and the
latter goes there (`SentForm`).

`StackInv` says that files are on the stack of `Resources` once, which bounds it.
What the walk depth first has to do with the chains of the graph, which
`LoadedExactly` speaks of, is told by positions.  The stack stands for a chain,
`Here`: of each file on it the place of the resource being loaded, and of the file
on top the place of the one to come (`PathInv`).  A chain has been visited if it
leads to a file on the stack, or if it parts from `Here` at a smaller place
(`Been`).  To push a file visits the chain to it and no other (`BeenDown`); to
return visits nothing (`BeenUp`), because a chain that goes on from the file that
is done does so at one of its resources, all of which are behind; and where the
root returns no chain is left (`DoneWasLeft`).  `SeenInv` says of the chains visited
that they resolve, come to a file once, are valid and share no app, and that the
sources are their apps; each failure shows the chain `Here` as what is wrong
(`FailInv`).  The recursive function of `Follow` has a value because shorter traces
extend (`TraceExists`, `TracesAgree`), by the smallest counterexample.

### Terminal UI

`TuiIInv` has a part for each piece.  `InputInv`: the reads are cut at rising
positions, so that each byte is in one place on its way from the terminal to a key.
`FramingInv`: the input begins where the last key ended.  Then what `nextKey` takes
is the next key of all that was typed (`TakenIsFirst`), although it sees no more
than has come: a whole sequence is whole whatever follows, and the start of one is
left.  Malformed sequences are the one exception, and `KeysFramed` excludes them
(`Malformed`).  It speaks of keys in the terms of ECMA-48, not of `Final`, so that the
range the code tests is among what is proved.  `ModelInv`: an action or its result, not both, while `busy`; the
selected service is among those shown; and a question about a kill names the
selected service and was the last key handled (`KillAsked`), since every other key
answers it.  That is what makes a `y` safe though snapshots change what is
selected in between: `reselect` leaves alone what is still shown.  `ViewInv`: a
frame shows what there is of its target between its ends (`ShownInOrder`), and the
anchor of a paused frame is the number of its last row (`PausedInv`), so that
`logLines` finds that row again, or the oldest if the store has dropped it
(`DrawStays`); a snapshot leaves the pane alone while the selected service is shown.  New entries come after all that a frame shows (`EntryKeeps`), which
needs `Numbered`.  `Picked`, the rows that match in their order, is told by ranks
and not by a recursion, so that `PickedInOrder` can be proved of it.

### Only model-checked

- The liveness properties (`AcquireReturns`, `StopReturns`, `IdleReclaims`,
  `CrashNoticed`, `DrainCompletes`, `ShutdownEnds`, `SignalExits`,
  `DoneFollowsExit`, `TuiReturns`), which are beyond TLAPS.
- What the findings above say of the code: TLC refutes it.

## Not modelled

- Bytes on connections, HTTP and gRPC messages, log formats, and the answers of the
  handler to errors.  So a client that closes its own half of a TCP connection first
  is not distinguished from one that leaves (tcp.go:135).
- Readiness probes by TCP or gRPC: their outcome is a choice, including that
  something else answers on the port.
- Reuse of process ids, Windows, descendants that ignore SIGTERM after the shell
  has exited.
- The process tracker: it parses the output of ps, for display only.
- Syntax of YAML and dotenv files, defaults and checks of the global fields, validity
  of names, the health option.
- Layout of the terminal UI: help, maximized panes, the process tree, charts, terminal
  modes.
- Command line, help, `doctor`.

## Plan

1. Done: `Service`, `Supervisor`, `LazyService`; `Drain`, `TCPServer`, `Server`.
2. Done: `Runner`, `Store` and `Output`.
3. Done: `Resources`, `Environment`, `Normalize`, `Router` and `Config`, against the
   chains of files, the layers of variables and longest-prefix matching as
   references.
4. Done: `LogView` and `Tui`.
5. Done: proofs of all safety properties of the runs, and that `Supervisor`
   implements `LazyService`.
6. Left: the two halves of a TCP connection; the answers of the handler and which of
   them gRPC sees as trailers; the tracker over reused process ids.
