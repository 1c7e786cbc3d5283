----------------------------- MODULE Supervisor -----------------------------
(***************************************************************************)
(* The supervisor around one service: internal/supervisor/supervisor.go    *)
(* and the operator actions of internal/supervisor/inspection.go.          *)
(*                                                                         *)
(* Requests are proxied requests and connections.  The Operator is the     *)
(* terminal interface, which runs one action at a time.  Shutdown is the   *)
(* goroutine of the server that calls StopAll once.  Services share only   *)
(* the closing flag and the lifecycle context, so one stands for all.      *)
(***************************************************************************)
EXTENDS Service

CONSTANTS
  Requests,     \* the callers that are not the operator
  Operator,     \* calls both Acquire and Stop
  Shutdown,     \* calls Stop, from StopAll
  OpActions,    \* the actions the operator may choose
  MaxOps,       \* bound on operator actions
  WithShutdown  \* does the program shut down in this instance?

ASSUME SupervisorAssumption ==
  /\ Callers = Requests \cup {Operator} /\ Operator \notin Requests
  /\ Stoppers = {Operator, Shutdown} /\ Operator # Shutdown
  /\ OpActions \subseteq {"start", "stop", "kill", "restart"}
  /\ MaxOps \in Nat
  /\ WithShutdown \in BOOLEAN

VARIABLES
  closing,                     \* Supervisor.closing
  op, opAct, opKillErr,        \* the operator's Action: pc, action, killErr
  opLeft,                      \* actions the operator may still begin
  seen                         \* history: startErr when Acquire was called

opVars == <<op, opAct, opKillErr, opLeft>>
vars   == <<serviceVars, closing, opVars, seen>>

OpPCs == {"idle", "mark", "stop", "clear", "acquire"}

SupervisorTypeOK ==
  /\ closing \in BOOLEAN
  /\ op \in OpPCs /\ opAct \in OpActions \cup {None} /\ opKillErr \in BOOLEAN
  /\ opLeft \in 0..MaxOps
  /\ seen \in [Callers -> Errors \cup {None}]

Init ==
  /\ ServiceInit
  /\ pc = [c \in Callers |-> IF c = Operator THEN "done" ELSE "call"]
  /\ closing = FALSE
  /\ op = "idle" /\ opAct = None /\ opKillErr = FALSE /\ opLeft = MaxOps
  /\ seen = [c \in Callers |-> None]

-----------------------------------------------------------------------------
\* Supervisor.Acquire: the closing check, then Service.Acquire.
Acquire(c) ==
  /\ pc[c] = "call"
  /\ Leave(c, IF closing THEN "done" ELSE "loop")
  /\ seen' = [seen EXCEPT ![c] = startErr]
  /\ UNCHANGED <<lockVars, signalVars, inhibitVars, attemptVars, stopperVars, scVars,
                 faults, closing, opVars>>

\* Supervisor.Action, up to its first critical section.
ActionBegin(act) ==
  /\ op = "idle" /\ opLeft > 0 /\ act \in OpActions
  /\ opLeft' = opLeft - 1
  /\ IF closing THEN UNCHANGED <<op, opAct>>
                ELSE opAct' = act /\ op' = IF act = "start" THEN "clear" ELSE "mark"
  /\ opKillErr' = FALSE
  /\ UNCHANGED <<serviceVars, closing, seen>>

\* stop, kill and restart: kill at once if asked, inhibit restarts, call Stop.
ActionMark ==
  /\ op = "mark"
  /\ IF opAct = "kill" /\ HasStop
       THEN op' = "idle" /\ UNCHANGED <<proc, manualStopped, sc, opKillErr>>
       ELSE /\ op' = "stop"
            /\ manualStopped' = TRUE
            /\ sc' = [sc EXCEPT ![Operator] = "call"]
            /\ IF opAct = "kill" /\ process # None
                 THEN proc' = Killed(process) /\ opKillErr' = Exited(process)
                 ELSE UNCHANGED <<proc, opKillErr>>
  /\ UNCHANGED <<lockVars, signalVars, lifecycleDone, worker, watch, stopperVars,
                 callVars, stopChan, faults, closing, opAct, opLeft, seen>>

\* Stop has returned to Action.
ActionStopped ==
  /\ op = "stop" /\ sc[Operator] \in {"ok", "err", "ctx"}
  /\ op' = IF sc[Operator] = "ok" /\ ~opKillErr /\ opAct = "restart"
             THEN "clear" ELSE "idle"
  /\ UNCHANGED <<serviceVars, closing, opAct, opKillErr, opLeft, seen>>

\* start and restart: lift the inhibition and acquire like a request.
ActionClear ==
  /\ op = "clear"
  /\ manualStopped' = FALSE
  /\ op' = "acquire"
  /\ pc' = [pc EXCEPT ![Operator] = "call"]
  /\ UNCHANGED <<lockVars, signalVars, lifecycleDone, attemptVars, stopperVars, chan,
                 scVars, faults, closing, opAct, opKillErr, opLeft, seen>>

ActionReturn ==
  /\ op = "acquire" /\ pc[Operator] \in {"done", "failed"}
  /\ op' = "idle"
  /\ UNCHANGED <<serviceVars, closing, opAct, opKillErr, opLeft, seen>>

\* StopAll: closing first, then the lifecycle context, then Stop.
StopAllClose ==
  /\ WithShutdown /\ ~closing
  /\ closing' = TRUE
  /\ UNCHANGED <<serviceVars, opVars, seen>>

StopAllCancel ==
  /\ closing /\ ~lifecycleDone
  /\ lifecycleDone' = TRUE
  /\ sc' = [sc EXCEPT ![Shutdown] = "call"]
  /\ UNCHANGED <<lockVars, signalVars, manualStopped, attemptVars, stopperVars, callVars,
                 stopChan, faults, closing, opVars, seen>>

\* A context ends: a request's, StopAll's, or the operator's for good.
Cancel(c)  == AcquireCanceled(c) /\ opLeft' = IF c = Operator THEN 0 ELSE opLeft
Abandon(s) == StopAbandoned(s) /\ opLeft' = IF s = Operator THEN 0 ELSE opLeft

-----------------------------------------------------------------------------
(* The service's own steps, the supervisor's untouched. *)

supVars == <<closing, opVars, seen>>

OperatorStep == ActionMark \/ ActionStopped \/ ActionClear \/ ActionReturn

Next ==
  \/ \E c \in Callers :
       \/ Acquire(c)
       \/ (AcquireStep(c) \/ Release(c)) /\ UNCHANGED supVars
       \/ Cancel(c) /\ UNCHANGED <<closing, op, opAct, opKillErr, seen>>
  \/ \E a \in Attempts : (WorkerStep(a) \/ WatchExit(a) \/ ProcessStep(a)) /\ UNCHANGED supVars
  \/ \E k \in Stops : StopperStep(k) /\ UNCHANGED supVars
  \/ IdleStep /\ UNCHANGED supVars
  \/ \E s \in Stoppers :
       \/ StopStep(s) /\ UNCHANGED supVars
       \/ Abandon(s) /\ UNCHANGED <<closing, op, opAct, opKillErr, seen>>
  \/ \E act \in OpActions : ActionBegin(act)
  \/ OperatorStep
  \/ StopAllClose \/ StopAllCancel

Spec == Init /\ [][Next]_vars

\* What the Go scheduler, the kernel and the bounded waits of the code bring
\* about.  Nothing is assumed of arrivals, of lease holders, of the operator's
\* decisions, of faults, or of a process that was only asked to terminate.
Fairness ==
  /\ \A a \in Attempts :
       /\ WF_vars(WorkerStep(a) /\ UNCHANGED supVars)
       /\ WF_vars(WatchExit(a) /\ UNCHANGED supVars)
       /\ WF_vars(ContextKills(a) /\ UNCHANGED supVars)
       /\ WF_vars(proc[a] = "kill" /\ ProcessExits(a) /\ UNCHANGED supVars)
  /\ \A k \in Stops : WF_vars(StopperStep(k) /\ UNCHANGED supVars)
  /\ \A c \in Callers : WF_vars(AcquireStep(c) /\ UNCHANGED supVars)
  /\ \A s \in Stoppers : WF_vars(StopStep(s) /\ UNCHANGED supVars)
  /\ WF_vars(TimerFires /\ UNCHANGED supVars)
  /\ WF_vars((\E g \in fired : IdleCallback(g)) /\ UNCHANGED supVars)
  /\ WF_vars(Acquire(Operator)) /\ WF_vars(Release(Operator) /\ UNCHANGED supVars)
  /\ WF_vars(OperatorStep) /\ WF_vars(StopAllCancel)

FairSpec == Spec /\ Fairness

-----------------------------------------------------------------------------
(* Safety. *)

Held == {c \in Callers : pc[c] = "held"}

Quiet == \A a \in Attempts : ~Alive(a)

\* Two launched processes never run side by side: a launch waits until the
\* previous attempt's process was killed or is gone (service.go:141-154,
\* 390-416), whatever stops, failures and restarts were under way.
OneProcess == \A a, b \in Attempts : Alive(a) /\ Alive(b) => a = b

\* A service that reports stopped or failed left no process running behind it:
\* every path to those states reaps or kills what it launched.
NoOrphan == state \in {"Stopped", "Failed"} => Quiet

\* Of all the processes a service launches there is one at a time, and none when it
\* is down.
ProcessSafe == OneProcess /\ NoOrphan

\* startDone and stopDone are each closed once, by whichever of Ready, fail,
\* beginStopLocked and stop comes first; a second close panics the program.
NoPanic == ~panicked

\* Whoever waits in Acquire or Stop waits on a channel that is closed or that
\* a step still to come will close: the service never drops one (lines 356,
\* 355 replace the channel fields while others hold the old ones).
NoLostWaiter ==
  /\ \A c \in Callers : pc[c] = "wait" =>
       \/ chan[c] \in closed
       \/ Launching /\ chan[c] = startDone
       \/ state = "Stopping" /\ chan[c] = stopDone
  /\ \A s \in Stoppers : sc[s] = "wait" =>
       \/ stopChan[s] \in closed
       \/ state = "Stopping" /\ stopChan[s] = stopDone

\* Every channel that callers wait on is closed, and is closed once.
ChannelsSafe == NoPanic /\ NoLostWaiter

\* A running service nobody uses has an idle timer, or a callback about to run,
\* of the current generation: it cannot be left running for ever, whatever
\* leases outlived the process they were taken for (release, scheduleIdleLocked).
IdleArmed ==
  HasIdle /\ state = "Running" /\ Held = {} =>
    idleTimer = generation \/ generation \in fired

Down == Quiet /\ state \in {"Stopped", "Failed", "Stopping"}

\* Once Stop returned to an operator's stop or kill, the service stays down
\* until the operator starts it, whatever requests were waiting meanwhile
\* (inspection.go:57-58: "incoming traffic cannot undo a user's stop").
ManualStopHolds == manualStopped /\ sc[Operator] \in {"ok", "err"} => Down

\* Once StopAll waited for the stop, nothing starts the service again, and no
\* process of it is left (supervisor.go:38-52).
ShutdownHolds == sc[Shutdown] \in {"ok", "err"} => Down

\* README.md:542-551: a stop for idleness happens only when no lease is held and
\* only by a timer armed after the last activity, never by a callback that
\* lost the race for the mutex against an acquire and a release.
IdleStopIsDue ==
  [][state = "Running" /\ state' = "Stopping" /\ fired' # fired
       => Held = {} /\ fired \cap stale \subseteq fired']_vars

\* A running service becomes failed only when its own current process exited: a
\* late watcher of an earlier process does not fail its successor (line 281).
NoSpuriousFailure ==
  [][state = "Running" /\ state' = "Failed" => process # None /\ Exited(process)]_vars

\* Acquire never fails with an error that was already recorded when it was
\* called: every failure it reports happened while it waited (lines 96-102).
FreshError ==
  [][\A c \in Callers : pc[c] = "wait" /\ pc'[c] = "failed" => startErr # seen[c]]_vars

\* README.md:558 "Graceful termination is attempted first", service.go:347-348
\* "Running services still use the graceful termination path below": a running
\* service's process is not sent SIGKILL before it was asked to terminate.
\* Violated by StopAll: the lifecycle context it cancels kills the process.
GracefulFirst ==
  [][\A a \in Attempts : state = "Running" /\ process = a /\ proc[a] = "up"
       => proc'[a] # "kill"]_vars

\* inspection_test.go:59 TestFailedStopIsNotReportedAsStopped: a Stop whose stop
\* command failed does not return nil.  Violated when another Stop begins
\* before the first one's caller reads the shared stopErr (line 383).
StopReportsOwnResult ==
  [][\A s \in Stoppers : sc[s] = "wait" /\ sc'[s] = "ok" => stopChan[s] \notin failed]_vars

\* The abstract service: Building and Starting are one phase, Stopped and
\* Failed another.
Lazy == INSTANCE LazyService WITH
  Clients   <- Callers,
  Processes <- Attempts,
  phase     <- IF Launching THEN "coming" ELSE IF state = "Running" THEN "up"
                 ELSE IF state = "Stopping" THEN "going" ELSE "down",
  leases    <- Held,
  live      <- {a \in Attempts : Alive(a)},
  inhibited <- IF lifecycleDone THEN "final" ELSE IF manualStopped THEN "manual" ELSE "no"

\* The service implements LazyService: every critical section is a step of it
\* or changes nothing it can see.
ImplementsLazyService == Lazy!LazySpec

-----------------------------------------------------------------------------
(* Liveness, under FairSpec. *)

\* Every Acquire that reached the service returns.
AcquireReturns ==
  \A c \in Callers : pc[c] \in {"loop", "wait"} ~> pc[c] \in {"held", "done", "failed"}

\* Every Stop returns, even of a process that ignores SIGTERM.
StopReturns ==
  \A s \in Stoppers : sc[s] \in {"call", "wait"} ~> sc[s] \in {"ok", "err", "ctx"}

\* A running service with no lease is stopped, used again, or fails.
IdleReclaims ==
  HasIdle /\ state = "Running" /\ active = 0 ~> state # "Running" \/ active > 0

\* The exit of a running service's process is noticed.
CrashNoticed ==
  ~HasStop /\ state = "Running" /\ process # None /\ Exited(process) ~> state # "Running"

=============================================================================
