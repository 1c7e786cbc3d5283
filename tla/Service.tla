------------------------------- MODULE Service -------------------------------
(***************************************************************************)
(* One supervised application: internal/supervisor/service.go, with the    *)
(* part of internal/process it drives.                                     *)
(*                                                                         *)
(* Every critical section of Service.mu is one action; a goroutine's       *)
(* progress between two critical sections is its program counter.  A       *)
(* receive from a closed channel is merged with the critical section that  *)
(* follows it, since a closed channel stays closed.                        *)
(*                                                                         *)
(* A start attempt is an element of Attempts.  It names what the code      *)
(* creates for it: the channel startDone, the context attemptCtx, the      *)
(* goroutine start() with its workerDone, the launched process and its     *)
(* watcher.  An element of Stops names the channel stopDone made by        *)
(* beginStopLocked and the goroutine stop() that goes with it.             *)
(***************************************************************************)
EXTENDS Integers, FiniteSets

CONSTANTS
  Callers,      \* goroutines that call Acquire, one lease each
  Stoppers,     \* goroutines that call Stop
  Attempts,     \* identities of start attempts; TLC bounds them
  Stops,        \* identities of stop episodes; TLC bounds them
  None,         \* nil
  HasBuild,     \* cfg.Build # ""
  HasStop,      \* cfg.Stop # "": an externally managed application
  HasIdle,      \* cfg.Idle # 0
  MaxFaults     \* bound on spontaneous exits, failed commands and timeouts

ASSUME ServiceAssumption ==
  /\ Attempts \cap Stops = {}
  /\ None \notin Attempts \cup Stops
  /\ {HasBuild, HasStop, HasIdle} \subseteq BOOLEAN
  /\ MaxFaults \in Nat

VARIABLES
  (* fields of Service *)
  state, process, active, idleTimer, generation,
  startDone, startErr, stopDone, stopErr, startCancel, workerDone,
  starts, manualStopped,
  (* channels, contexts, processes and goroutines *)
  closed, panicked,            \* closed channels; a close that panicked
  lifecycleDone, canceled,     \* Supervisor's context; attempts' contexts
  worker, proc, watch,         \* per attempt: start(), its process, watch()
  fired,                       \* idle callbacks waiting for the mutex
  stopper, joined, target, failed,  \* per stop(): pc, workerDone, p, e # nil
  pc, chan,                    \* per caller of Acquire: pc, awaited channel
  sc, stopChan,                \* per caller of Stop: pc, awaited channel
  (* environment and history *)
  faults,                      \* faults so far, at most MaxFaults
  stale                        \* idle timers that saw activity since armed

bookVars    == <<process, active, starts>>
idleVars    == <<generation, idleTimer, fired, stale>>
startVars   == <<startDone, startErr, startCancel, workerDone>>
stopVars    == <<stopDone, stopErr>>
lockVars    == <<state, bookVars, idleVars, startVars, stopVars>>
chanVars    == <<closed, panicked>>
signalVars  == <<chanVars, canceled>>
inhibitVars == <<manualStopped, lifecycleDone>>
attemptVars == <<worker, proc, watch>>
stopperVars == <<stopper, joined, target, failed>>
callVars    == <<pc, chan>>
scVars      == <<sc, stopChan>>
serviceVars == <<lockVars, signalVars, inhibitVars, attemptVars, stopperVars,
                 callVars, scVars, faults>>

States     == {"Stopped", "Building", "Starting", "Running", "Stopping", "Failed"}
WorkerPCs  == {"new", "build", "launch", "record", "ready", "reap", "failing", "done"}
ProcStates == {"none", "up", "term", "kill", "clean", "error"}
StopperPCs == {"new", "read", "join", "signal", "await", "finish", "done"}
CallerPCs  == {"call", "loop", "wait", "held", "done", "failed"}
StopPCs    == {"idle", "call", "wait", "ok", "err", "ctx"}
Errors     == {"failed", "exited"} \X Attempts \cup {"stop"} \X Stops
                \cup {<<"closing", None>>}
Channels   == Attempts \cup Stops

TypeOK ==
  /\ state \in States /\ process \in Attempts \cup {None} /\ active \in Nat
  /\ idleTimer \in Nat /\ generation \in Nat
  /\ fired \subseteq Nat /\ stale \subseteq Nat
  /\ startDone \in Attempts \cup {None} /\ startErr \in Errors \cup {None}
  /\ stopDone \in Stops \cup {None} /\ stopErr \in BOOLEAN
  /\ startCancel \in Attempts \cup {None} /\ workerDone \in Attempts \cup {None}
  /\ starts \in Nat /\ manualStopped \in BOOLEAN
  /\ closed \subseteq Channels \cup {None} /\ panicked \in BOOLEAN
  /\ lifecycleDone \in BOOLEAN /\ canceled \subseteq Attempts
  /\ worker \in [Attempts -> WorkerPCs] /\ proc \in [Attempts -> ProcStates]
  /\ watch \subseteq Attempts
  /\ stopper \in [Stops -> StopperPCs] /\ failed \subseteq Stops
  /\ joined \in [Stops -> Attempts \cup {None}]
  /\ target \in [Stops -> Attempts \cup {None}]
  /\ pc \in [Callers -> CallerPCs] /\ chan \in [Callers -> Channels \cup {None}]
  /\ sc \in [Stoppers -> StopPCs] /\ stopChan \in [Stoppers -> Stops \cup {None}]
  /\ faults \in 0..MaxFaults

ServiceInit ==
  /\ state = "Stopped" /\ process = None /\ active = 0
  /\ idleTimer = 0 /\ generation = 0 /\ fired = {} /\ stale = {}
  /\ startDone = None /\ startErr = None /\ startCancel = None /\ workerDone = None
  /\ stopDone = None /\ stopErr = FALSE
  /\ starts = 0 /\ manualStopped = FALSE
  /\ closed = {} /\ panicked = FALSE
  /\ lifecycleDone = FALSE /\ canceled = {}
  /\ worker = [a \in Attempts |-> "new"] /\ proc = [a \in Attempts |-> "none"]
  /\ watch = {}
  /\ stopper = [k \in Stops |-> "new"] /\ failed = {}
  /\ joined = [k \in Stops |-> None] /\ target = [k \in Stops |-> None]
  /\ chan = [c \in Callers |-> None]
  /\ sc = [s \in Stoppers |-> "idle"] /\ stopChan = [s \in Stoppers |-> None]
  /\ faults = 0

-----------------------------------------------------------------------------
(* Channels, contexts and processes. *)

\* close(ch): closing nil or a closed channel panics.
Close(ch) ==
  /\ closed' = closed \cup {ch}
  /\ panicked' = (panicked \/ ch = None \/ ch \in closed)

\* s.startCancel(); s.startCancel = nil
ReleaseContext ==
  /\ canceled' = canceled \cup ({startCancel} \ {None})
  /\ startCancel' = None

CtxDone(a) == lifecycleDone \/ a \in canceled

\* Something goes wrong: for a cause at hand, or by one of the bounded faults.
Fault(cause) ==
  \/ cause /\ UNCHANGED faults
  \/ ~cause /\ faults < MaxFaults /\ faults' = faults + 1

Alive(a)  == proc[a] \in {"up", "term"}       \* launched, no SIGKILL yet
Exited(a) == proc[a] \in {"clean", "error"}   \* Process.Done is closed

\* Process.Terminate and Process.Kill signal the group; nil and dead are no-ops.
Terminated(a) == IF a # None /\ proc[a] = "up" THEN [proc EXCEPT ![a] = "term"] ELSE proc

Killed(a) == IF a # None /\ Alive(a) THEN [proc EXCEPT ![a] = "kill"] ELSE proc

\* exec.CommandContext: a canceled context SIGKILLs the process group.
ContextKills(a) ==
  /\ CtxDone(a) /\ Alive(a)
  /\ proc' = Killed(a)
  /\ UNCHANGED <<lockVars, signalVars, inhibitVars, worker, watch, stopperVars,
                 callVars, scVars, faults>>

\* The process ends: after a signal, or by itself, which only the launch
\* command of an externally managed application is expected to do.
ProcessExits(a) ==
  /\ Alive(a) \/ proc[a] = "kill"
  /\ Fault(proc[a] # "up" \/ HasStop)
  /\ \E result \in {"clean", "error"} :
       /\ proc[a] = "kill" => result = "error"
       /\ proc' = [proc EXCEPT ![a] = result]
  /\ UNCHANGED <<lockVars, signalVars, inhibitVars, worker, watch, stopperVars,
                 callVars, scVars>>

-----------------------------------------------------------------------------
(* Idle shutdown.  idleTimer is 0 when no timer is pending, and otherwise  *)
(* the generation its callback captured.                                   *)

Launching == state \in {"Building", "Starting"}

CancelIdle ==
  /\ generation' = generation + 1
  /\ idleTimer' = 0

\* scheduleIdleLocked
ScheduleIdle ==
  /\ generation' = generation + 1
  /\ idleTimer' = IF HasIdle THEN generation + 1 ELSE 0
  /\ stale' = fired
  /\ UNCHANGED fired

\* Mutant: the abandoned start's waiters are not woken.
AbandonStartQuietly ==
  IF Launching /\ startDone # None
    THEN startErr' = <<"closing", None>> /\ startDone' = None /\ UNCHANGED chanVars
    ELSE UNCHANGED <<startErr, startDone, chanVars>>

\* beginStopLocked on a start in progress: its waiters learn ErrClosing.
AbandonStart ==
  IF Launching /\ startDone # None
    THEN startErr' = <<"closing", None>> /\ startDone' = None /\ Close(startDone)
    ELSE UNCHANGED <<startErr, startDone, chanVars>>

\* beginStopLocked, then `go s.stop()`
BeginStop(k) ==
  /\ stopper[k] = "new"
  /\ stopper' = [stopper EXCEPT ![k] = "read"]
  /\ CancelIdle
  /\ state' = "Stopping"
  /\ stopDone' = k
  /\ stopErr' = FALSE
  /\ canceled' = canceled \cup IF Launching THEN {startCancel} \ {None} ELSE {}
  /\ AbandonStart
  /\ UNCHANGED <<bookVars, startCancel, workerDone, joined, target, failed>>

\* The timer expires: its callback now contends for the mutex.
TimerFires ==
  /\ idleTimer # 0
  /\ fired' = fired \cup {idleTimer}
  /\ idleTimer' = 0
  /\ UNCHANGED <<state, bookVars, generation, stale, startVars, stopVars, signalVars,
                 inhibitVars, attemptVars, stopperVars, callVars, scVars, faults>>

\* Mutant: a callback that lost the race for the mutex still stops the service.
IdleDueAnyGeneration(g) == g \in fired /\ state = "Running" /\ active = 0

\* Mutant: the generation alone decides.
IdleDueInUse(g) == g = generation /\ state = "Running"

IdleDue(g) == g = generation /\ state = "Running" /\ active = 0

\* idle(g)
IdleCallback(g) ==
  /\ g \in fired
  /\ fired' = fired \ {g}
  /\ stale' = stale \ {g}
  /\ \/ IdleDue(g) /\ \E k \in Stops : BeginStop(k)
     \/ ~IdleDue(g) /\ UNCHANGED <<state, bookVars, generation, idleTimer, startVars,
                                   stopVars, signalVars, stopperVars>>
  /\ UNCHANGED <<inhibitVars, attemptVars, callVars, scVars, faults>>

-----------------------------------------------------------------------------
(* Acquire and the release function it returns.                            *)

Await(c, ch) ==
  /\ pc' = [pc EXCEPT ![c] = "wait"]
  /\ chan' = [chan EXCEPT ![c] = ch]

Leave(c, outcome) ==
  /\ pc' = [pc EXCEPT ![c] = outcome]
  /\ chan' = [chan EXCEPT ![c] = None]

\* Mutants: one of the two inhibitions is forgotten.
RefusedBySignalOnly == lifecycleDone
RefusedByHandOnly   == manualStopped

Refused == lifecycleDone \/ manualStopped

AcquireRefused(c) ==
  /\ pc[c] = "loop" /\ Refused
  /\ Leave(c, "done")
  /\ UNCHANGED <<lockVars, signalVars, inhibitVars, attemptVars, stopperVars, scVars,
                 faults>>

AcquireRunning(c) ==
  /\ pc[c] = "loop" /\ ~Refused /\ state = "Running"
  /\ CancelIdle
  /\ stale' = fired
  /\ active' = active + 1
  /\ Leave(c, "held")
  /\ UNCHANGED <<state, process, starts, fired, startVars, stopVars, signalVars,
                 inhibitVars, attemptVars, stopperVars, scVars, faults>>

AcquireStart(c) ==
  /\ pc[c] = "loop" /\ ~Refused /\ state \in {"Stopped", "Failed"}
  /\ \E a \in Attempts :
       /\ worker[a] = "new"
       /\ worker' = [worker EXCEPT ![a] = "build"]
       /\ startDone' = a /\ startCancel' = a /\ workerDone' = a
       /\ Await(c, a)
  /\ state' = "Building"
  /\ startErr' = None
  /\ UNCHANGED <<bookVars, idleVars, stopVars, signalVars, inhibitVars, proc, watch,
                 stopperVars, scVars, faults>>

\* Join the start in progress, or wait for the stop in progress.
AcquireJoin(c) ==
  /\ pc[c] = "loop" /\ ~Refused
  /\ \/ Launching /\ Await(c, startDone)
     \/ state = "Stopping" /\ Await(c, stopDone)
  /\ UNCHANGED <<lockVars, signalVars, inhibitVars, attemptVars, stopperVars, scVars,
                 faults>>

StartFailed == state = "Failed" /\ startErr # None

AcquireCheck(c) ==
  /\ pc[c] = "wait" /\ chan[c] \in closed
  /\ Leave(c, IF StartFailed THEN "failed" ELSE "loop")
  /\ UNCHANGED <<lockVars, signalVars, inhibitVars, attemptVars, stopperVars, scVars,
                 faults>>

\* wait() returns ctx.Err().
AcquireCanceled(c) ==
  /\ pc[c] = "wait"
  /\ Leave(c, "done")
  /\ UNCHANGED <<lockVars, signalVars, inhibitVars, attemptVars, stopperVars, scVars,
                 faults>>

\* Mutant: off by one.
LastLeaseGone == active = 0 /\ state = "Running"

LastLease == active <= 1 /\ state = "Running"

Release(c) ==
  /\ pc[c] = "held"
  /\ Leave(c, "done")
  /\ active' = IF active > 0 THEN active - 1 ELSE active
  /\ IF LastLease THEN ScheduleIdle ELSE UNCHANGED idleVars
  /\ UNCHANGED <<state, process, starts, startVars, stopVars, signalVars, inhibitVars,
                 attemptVars, stopperVars, scVars, faults>>

-----------------------------------------------------------------------------
(* start(): the worker goroutine of attempt a. *)

Step(a, next) == worker' = [worker EXCEPT ![a] = next]

BuildDone(a) ==
  /\ worker[a] = "build"
  /\ IF state = "Building" THEN state' = "Starting" /\ Step(a, "launch")
                           ELSE UNCHANGED state /\ Step(a, "done")
  /\ UNCHANGED <<bookVars, idleVars, startVars, stopVars, signalVars, inhibitVars, proc,
                 watch, stopperVars, callVars, scVars, faults>>

BuildFails(a) ==
  /\ worker[a] = "build" /\ HasBuild
  /\ Fault(CtxDone(a))
  /\ Step(a, "failing")
  /\ UNCHANGED <<lockVars, signalVars, inhibitVars, proc, watch, stopperVars, callVars,
                 scVars>>

\* exec checks the context before it forks, so a cancellation may come between;
\* ContextKills then ends the process.
LaunchOk(a) ==
  /\ worker[a] = "launch"
  /\ proc' = [proc EXCEPT ![a] = "up"]
  /\ Step(a, "record")
  /\ UNCHANGED <<lockVars, signalVars, inhibitVars, watch, stopperVars, callVars, scVars,
                 faults>>

LaunchFails(a) ==
  /\ worker[a] = "launch"
  /\ Fault(CtxDone(a))
  /\ Step(a, "failing")
  /\ UNCHANGED <<lockVars, signalVars, inhibitVars, proc, watch, stopperVars, callVars,
                 scVars>>

Record(a) ==
  /\ worker[a] = "record"
  /\ process' = a
  /\ Step(a, "ready")
  /\ UNCHANGED <<state, active, starts, idleVars, startVars, stopVars, signalVars,
                 inhibitVars, proc, watch, stopperVars, callVars, scVars, faults>>

\* Mutant: the watcher goes with the wrong kind of application.
WatchedExternally(a) == IF HasStop THEN watch \cup {a} ELSE watch

Watched(a) == IF HasStop THEN watch ELSE watch \cup {a}

\* The readiness probe is answered: it asks a port, never the process itself.
Ready(a) ==
  /\ worker[a] = "ready"
  /\ Step(a, "done")
  /\ IF state = "Starting"
       THEN /\ state' = "Running"
            /\ starts' = starts + 1
            /\ startErr' = None
            /\ Close(a)
            /\ ScheduleIdle
            /\ watch' = Watched(a)
       ELSE UNCHANGED <<state, starts, startErr, chanVars, idleVars, watch>>
  /\ UNCHANGED <<process, active, startDone, startCancel, workerDone, stopVars, canceled,
                 inhibitVars, proc, stopperVars, callVars, scVars, faults>>

\* The process is gone, the context is canceled, or startTimeout expires.
NotReady(a) ==
  /\ worker[a] = "ready"
  /\ Fault(CtxDone(a) \/ proc[a] = "error" \/ (Exited(a) /\ ~HasStop))
  /\ proc' = Terminated(a)
  /\ Step(a, "reap")
  /\ UNCHANGED <<lockVars, signalVars, inhibitVars, watch, stopperVars, callVars, scVars>>

\* Wait stopTimeout for the unready process, then kill it.
Reap(a) ==
  /\ worker[a] = "reap"
  /\ \/ Exited(a) /\ UNCHANGED proc
     \/ proc' = Killed(a)
  /\ Step(a, "failing")
  /\ UNCHANGED <<lockVars, signalVars, inhibitVars, watch, stopperVars, callVars, scVars,
                 faults>>

\* Mutant: a build that fails overlooks the stop that came first.
SupersededUnlessStarting(a) == startDone # a \/ state # "Starting"

Superseded(a) == startDone # a \/ ~Launching

\* fail(attempt, e)
Fail(a) ==
  /\ worker[a] = "failing"
  /\ Step(a, "done")
  /\ IF Superseded(a)
       THEN UNCHANGED <<state, process, startErr, startCancel, signalVars>>
       ELSE /\ state' = "Failed"
            /\ process' = None
            /\ startErr' = <<"failed", a>>
            /\ ReleaseContext
            /\ Close(a)
  /\ UNCHANGED <<active, starts, idleVars, startDone, workerDone, stopVars, inhibitVars,
                 proc, watch, stopperVars, callVars, scVars, faults>>

\* Mutant: the watcher does not compare processes.
WatchAppliesToAny(a) == process # None /\ state = "Running"

WatchApplies(a) == process = a /\ state = "Running"

\* watch(p)
WatchExit(a) ==
  /\ a \in watch /\ Exited(a)
  /\ watch' = watch \ {a}
  /\ IF WatchApplies(a)
       THEN /\ state' = "Failed"
            /\ CancelIdle
            /\ process' = None
            /\ ReleaseContext
            /\ startErr' = <<"exited", a>>
       ELSE UNCHANGED <<state, generation, idleTimer, process, canceled, startCancel,
                        startErr>>
  /\ UNCHANGED <<active, starts, fired, stale, startDone, workerDone, stopVars, chanVars,
                 inhibitVars, worker, proc, stopperVars, callVars, scVars, faults>>

-----------------------------------------------------------------------------
(* stop(): the goroutine of stop episode k. *)

Advance(k, next) == stopper' = [stopper EXCEPT ![k] = next]

\* workerDone := s.workerDone
StopRead(k) ==
  /\ stopper[k] = "read"
  /\ joined' = [joined EXCEPT ![k] = workerDone]
  /\ Advance(k, "join")
  /\ UNCHANGED <<lockVars, signalVars, inhibitVars, attemptVars, target, failed,
                 callVars, scVars, faults>>

\* Mutant: stop() does not wait for the worker.
WorkerOverlooked(k) == stopper[k] = "join"

WorkerFinished(k) == joined[k] = None \/ worker[joined[k]] = "done"

\* <-workerDone, then p := s.process
StopJoin(k) ==
  /\ stopper[k] = "join" /\ WorkerFinished(k)
  /\ target' = [target EXCEPT ![k] = process]
  /\ Advance(k, "signal")
  /\ UNCHANGED <<lockVars, signalVars, inhibitVars, attemptVars, joined, failed,
                 callVars, scVars, faults>>

\* Terminate the process, or run the configured stop command to completion.
StopSignal(k) ==
  /\ stopper[k] = "signal"
  /\ IF HasStop
       THEN /\ UNCHANGED proc
            /\ \/ UNCHANGED <<failed, faults>>
               \/ Fault(FALSE) /\ failed' = failed \cup {k}
       ELSE proc' = Terminated(target[k]) /\ UNCHANGED <<failed, faults>>
  /\ Advance(k, IF target[k] = None THEN "finish" ELSE "await")
  /\ UNCHANGED <<lockVars, signalVars, inhibitVars, worker, watch, joined, target,
                 callVars, scVars>>

\* Mutant: no timeout while waiting for the process.
GraceUnlimited(k) == stopper[k] = "await" /\ Exited(target[k])

GraceExpired(k) == stopper[k] = "await"

\* Wait for the process, at most stopTimeout, then kill it.
StopAwait(k) ==
  /\ \/ stopper[k] = "await" /\ Exited(target[k]) /\ UNCHANGED proc
     \/ GraceExpired(k) /\ proc' = Killed(target[k])
  /\ Advance(k, "finish")
  /\ UNCHANGED <<lockVars, signalVars, inhibitVars, worker, watch, joined, target,
                 failed, callVars, scVars, faults>>

\* Mutant: the failure of the stop command is not recorded as startErr.
StopOutcomeUnrecorded(k) ==
  IF k \in failed THEN state' = "Failed" /\ UNCHANGED startErr
                  ELSE state' = "Stopped" /\ UNCHANGED startErr

StopOutcome(k) ==
  IF k \in failed THEN state' = "Failed" /\ startErr' = <<"stop", k>>
                  ELSE state' = "Stopped" /\ UNCHANGED startErr

StopFinish(k) ==
  /\ stopper[k] = "finish"
  /\ Advance(k, "done")
  /\ process' = None
  /\ ReleaseContext
  /\ StopOutcome(k)
  /\ stopErr' = (k \in failed)
  /\ Close(stopDone)
  /\ UNCHANGED <<active, starts, idleVars, startDone, workerDone, stopDone, inhibitVars,
                 attemptVars, joined, target, failed, callVars, scVars, faults>>

-----------------------------------------------------------------------------
(* Stop(ctx) as called by s. *)

Returns(s, result) ==
  /\ sc' = [sc EXCEPT ![s] = result]
  /\ stopChan' = [stopChan EXCEPT ![s] = None]

Waits(s, k) ==
  /\ sc' = [sc EXCEPT ![s] = "wait"]
  /\ stopChan' = [stopChan EXCEPT ![s] = k]

StopCall(s) ==
  /\ sc[s] = "call"
  /\ \/ /\ state = "Stopped" /\ Returns(s, "ok")
        /\ UNCHANGED <<lockVars, signalVars, stopperVars>>
     \/ /\ state = "Stopping" /\ Waits(s, stopDone)
        /\ UNCHANGED <<lockVars, signalVars, stopperVars>>
     \/ /\ state \notin {"Stopped", "Stopping"}
        /\ \E k \in Stops : BeginStop(k) /\ Waits(s, k)
        /\ UNCHANGED <<fired, stale>>
  /\ UNCHANGED <<inhibitVars, attemptVars, callVars, faults>>

\* waitForStop: the channel is closed; the result is whatever stopErr is now.
StopWoken(s) ==
  /\ sc[s] = "wait" /\ stopChan[s] \in closed
  /\ Returns(s, IF stopErr THEN "err" ELSE "ok")
  /\ UNCHANGED <<lockVars, signalVars, inhibitVars, attemptVars, stopperVars, callVars,
                 faults>>

StopAbandoned(s) ==
  /\ sc[s] = "wait"
  /\ Returns(s, "ctx")
  /\ UNCHANGED <<lockVars, signalVars, inhibitVars, attemptVars, stopperVars, callVars,
                 faults>>

-----------------------------------------------------------------------------
(* The steps the program takes by itself once it has been called.          *)

WorkerStep(a) ==
  \/ BuildDone(a) \/ BuildFails(a) \/ LaunchOk(a) \/ LaunchFails(a) \/ Record(a)
  \/ Ready(a) \/ NotReady(a) \/ Reap(a) \/ Fail(a)

ProcessStep(a) == ContextKills(a) \/ ProcessExits(a)

StopperStep(k) ==
  StopRead(k) \/ StopJoin(k) \/ StopSignal(k) \/ StopAwait(k) \/ StopFinish(k)

IdleStep == TimerFires \/ \E g \in fired : IdleCallback(g)

AcquireStep(c) ==
  \/ AcquireRefused(c) \/ AcquireRunning(c) \/ AcquireStart(c) \/ AcquireJoin(c)
  \/ AcquireCheck(c)

StopStep(s) == StopCall(s) \/ StopWoken(s)

=============================================================================
