-------------------------- MODULE SupervisorProofs --------------------------
(***************************************************************************)
(* Safety of Supervisor.tla for any callers, attempts and stops, from the  *)
(* inductive invariant of SupervisorInvariant.tla.  Then what rests on it. *)
(* Leases: active counts those that are held, an unused running service    *)
(* has an idle timer, and a stop for idleness is due.  Stops: once Stop    *)
(* has returned, an operator's stop and a shutdown hold.  Failures: a      *)
(* running service fails only with its own process, and Acquire only with  *)
(* an error that is new.  And the program implements LazyService.tla:      *)
(* every step is one of the abstract service, or changes nothing of it.    *)
(***************************************************************************)
EXTENDS SupervisorInvariant, FiniteSetTheorems, TLAPS

USE ServiceAssumption, SupervisorAssumption
USE DEF supVars, opVars, bookVars, idleVars, startVars, stopVars, lockVars, chanVars,
        signalVars, inhibitVars, attemptVars, stopperVars, callVars, scVars,
        serviceVars

\* The program starts in a state of the invariant: a service just made by
\* newService has no worker, no stop and no process.
LEMMA InitIInv == Init => IInv
<1> SUFFICES ASSUME Init PROVE IInv
  OBVIOUS
<1> USE DEF Init, ServiceInit
<1>1. TypeOK
  <2> USE DEF States, WorkerPCs, ProcStates, StopperPCs, CallerPCs, StopPCs, Channels
  <2>1. /\ state \in States /\ process \in Attempts \cup {None} /\ active \in Nat
        /\ idleTimer \in Nat /\ generation \in Nat
        /\ fired \subseteq Nat /\ stale \subseteq Nat
    OBVIOUS
  <2>2. /\ startDone \in Attempts \cup {None} /\ startErr \in Errors \cup {None}
        /\ stopDone \in Stops \cup {None} /\ stopErr \in BOOLEAN
        /\ startCancel \in Attempts \cup {None} /\ workerDone \in Attempts \cup {None}
    OBVIOUS
  <2>3. /\ starts \in Nat /\ manualStopped \in BOOLEAN
        /\ closed \subseteq Channels \cup {None} /\ panicked \in BOOLEAN
        /\ lifecycleDone \in BOOLEAN /\ canceled \subseteq Attempts
    OBVIOUS
  <2>4. /\ worker \in [Attempts -> WorkerPCs] /\ proc \in [Attempts -> ProcStates]
        /\ watch \subseteq Attempts
        /\ stopper \in [Stops -> StopperPCs] /\ failed \subseteq Stops
        /\ joined \in [Stops -> Attempts \cup {None}]
        /\ target \in [Stops -> Attempts \cup {None}]
    OBVIOUS
  <2>5. /\ pc \in [Callers -> CallerPCs]
        /\ chan \in [Callers -> Channels \cup {None}]
    OBVIOUS
  <2>6. /\ sc \in [Stoppers -> StopPCs] /\ stopChan \in [Stoppers -> Stops \cup {None}]
        /\ faults \in 0..MaxFaults
    OBVIOUS
  <2> QED
    BY <2>1, <2>2, <2>3, <2>4, <2>5, <2>6 DEF TypeOK
<1>2. SupervisorTypeOK
  <2>1. seen \in [Callers -> Errors \cup {None}]
    OBVIOUS
  <2>2. opLeft \in 0..MaxOps /\ op \in OpPCs
    BY DEF OpPCs
  <2> QED
    BY <2>1, <2>2 DEF SupervisorTypeOK
<1>3. WorkersInv /\ StoppersInv
  BY DEF WorkersInv, StoppersInv, AtWork, Stopping
<1>4. ProcessesInv
  BY DEF ProcessesInv, Alive, Quiet
<1>5. ChannelsInv /\ NoPanic /\ NoLostWaiter
  BY DEF ChannelsInv, Launching, NoPanic, NoLostWaiter
<1> QED
  BY <1>1, <1>2, <1>3, <1>4, <1>5 DEF IInv

\* What each part of the invariant depends on: a step that leaves these
\* variables alone leaves the part alone.
LEMMA Frame ==
  /\ WorkersInv /\ UNCHANGED <<worker, state, workerDone, process, startDone>>
       => WorkersInv'
  /\ StoppersInv /\ UNCHANGED <<stopper, state, stopDone, joined, workerDone, worker>>
       => StoppersInv'
  /\ ProcessesInv
       /\ UNCHANGED <<process, workerDone, proc, worker, state, stopper, target>>
       => ProcessesInv'
  /\ ChannelsInv
       /\ UNCHANGED <<state, startDone, workerDone, closed, worker, stopper>>
       => ChannelsInv'
  /\ NoLostWaiter
       /\ UNCHANGED <<pc, chan, closed, state, startDone, stopDone, sc, stopChan>>
       => NoLostWaiter'
  /\ NoPanic /\ UNCHANGED panicked => NoPanic'
  /\ SupervisorTypeOK /\ UNCHANGED <<closing, op, opAct, opKillErr, opLeft, seen>>
       => SupervisorTypeOK'
<1>1. WorkersInv /\ UNCHANGED <<worker, state, workerDone, process, startDone>>
        => WorkersInv'
  BY DEF WorkersInv, AtWork
<1>2. StoppersInv /\ UNCHANGED <<stopper, state, stopDone, joined, workerDone, worker>>
        => StoppersInv'
  BY DEF StoppersInv, Stopping, AtWork
<1>3. ProcessesInv
        /\ UNCHANGED <<process, workerDone, proc, worker, state, stopper, target>>
        => ProcessesInv'
  BY DEF ProcessesInv, Alive, Quiet
<1>4. ChannelsInv
        /\ UNCHANGED <<state, startDone, workerDone, closed, worker, stopper>>
        => ChannelsInv'
  BY DEF ChannelsInv, Launching
<1>5. NoLostWaiter
        /\ UNCHANGED <<pc, chan, closed, state, startDone, stopDone, sc, stopChan>>
        => NoLostWaiter'
  BY DEF NoLostWaiter, Launching
<1>6. NoPanic /\ UNCHANGED panicked => NoPanic'
  BY DEF NoPanic
<1>7. SupervisorTypeOK /\ UNCHANGED <<closing, op, opAct, opKillErr, opLeft, seen>>
        => SupervisorTypeOK'
  BY DEF SupervisorTypeOK
<1> QED
  BY <1>1, <1>2, <1>3, <1>4, <1>5, <1>6, <1>7

\* scheduleIdleLocked keeps the types of what it assigns.
LEMMA ScheduleIdleTypes ==
  ASSUME TypeOK, ScheduleIdle
  PROVE  /\ generation' \in Nat /\ idleTimer' \in Nat
         /\ fired' \subseteq Nat /\ stale' \subseteq Nat
  BY DEF TypeOK, ScheduleIdle

\* Closing a channel keeps the types, whether it panics or not.
LEMMA CloseTypes ==
  ASSUME TypeOK, NEW ch \in Channels \cup {None}, Close(ch)
  PROVE  closed' \subseteq Channels \cup {None} /\ panicked' \in BOOLEAN
<1>1. closed' \subseteq Channels \cup {None}
  BY DEF TypeOK, Close
<1>2. panicked' \in BOOLEAN
  BY Zenon DEF TypeOK, Close
<1> QED
  BY <1>1, <1>2

\* beginStopLocked keeps the types of what it assigns.
LEMMA BeginStopTypes ==
  ASSUME TypeOK, NEW k \in Stops, BeginStop(k)
  PROVE  /\ state' \in States /\ generation' \in Nat /\ idleTimer' \in Nat
         /\ stopDone' \in Stops /\ stopErr' \in BOOLEAN
         /\ canceled' \subseteq Attempts
         /\ stopper' \in [Stops -> StopperPCs]
         /\ startDone' \in Attempts \cup {None} /\ startErr' \in Errors \cup {None}
         /\ closed' \subseteq Channels \cup {None} /\ panicked' \in BOOLEAN
         /\ UNCHANGED <<bookVars, startCancel, workerDone, joined, target, failed>>
<1> USE DEF BeginStop
<1>1. state' \in States /\ generation' \in Nat /\ idleTimer' \in Nat
  BY DEF TypeOK, States, CancelIdle
<1>2. stopDone' \in Stops /\ stopErr' \in BOOLEAN
  OBVIOUS
<1>3. canceled' \subseteq Attempts
  BY DEF TypeOK
<1>4. stopper' \in [Stops -> StopperPCs]
  BY DEF TypeOK, StopperPCs
<1>5. /\ startDone' \in Attempts \cup {None} /\ startErr' \in Errors \cup {None}
      /\ closed' \subseteq Channels \cup {None} /\ panicked' \in BOOLEAN
  <2>1. CASE Launching /\ startDone # None
    BY <2>1, CloseTypes DEF AbandonStart, TypeOK, Channels, Errors
  <2>2. CASE ~(Launching /\ startDone # None)
    BY <2>2 DEF AbandonStart, TypeOK
  <2> QED
    BY <2>1, <2>2
<1> QED
  BY <1>1, <1>2, <1>3, <1>4, <1>5

-----------------------------------------------------------------------------
(* One lemma for each action: it preserves the invariant. *)


\* The invariant survives Acquire (Supervisor.Acquire).
LEMMA AcquirePreserves ==
  ASSUME IInv, NEW c \in Callers, Acquire(c)
  PROVE  IInv'
<1> USE DEF Acquire, Leave
<1>1. TypeOK'
  BY DEF IInv, TypeOK, CallerPCs
<1>2. SupervisorTypeOK'
  BY DEF IInv, SupervisorTypeOK, OpPCs, TypeOK
<1>3. NoLostWaiter'
  BY DEF IInv, NoLostWaiter, TypeOK, Launching, AtWork, Stopping
<1>4. WorkersInv' /\ StoppersInv' /\ ProcessesInv' /\ ChannelsInv' /\ NoPanic'
  BY Frame DEF IInv
<1> QED
  BY <1>1, <1>2, <1>3, <1>4 DEF IInv

\* The invariant survives AcquireRefused (Acquire).
LEMMA AcquireRefusedPreserves ==
  ASSUME IInv, NEW c \in Callers, AcquireRefused(c), UNCHANGED supVars
  PROVE  IInv'
<1> USE DEF AcquireRefused, Leave
<1>1. TypeOK'
  BY DEF IInv, TypeOK, CallerPCs
<1>2. NoLostWaiter'
  BY DEF IInv, NoLostWaiter, TypeOK, Launching, AtWork, Stopping
<1>3. SupervisorTypeOK' /\ WorkersInv' /\ StoppersInv' /\ ProcessesInv' /\ ChannelsInv'
    /\ NoPanic'
  BY Frame DEF IInv
<1> QED
  BY <1>1, <1>2, <1>3 DEF IInv

\* The invariant survives AcquireRunning (Acquire).
LEMMA AcquireRunningPreserves ==
  ASSUME IInv, NEW c \in Callers, AcquireRunning(c), UNCHANGED supVars
  PROVE  IInv'
<1> USE DEF AcquireRunning, Leave, CancelIdle
<1>1. TypeOK'
  BY DEF IInv, TypeOK, CallerPCs
<1>2. NoLostWaiter'
  BY DEF IInv, NoLostWaiter, TypeOK, Launching, AtWork, Stopping
<1>3. SupervisorTypeOK' /\ WorkersInv' /\ StoppersInv' /\ ProcessesInv' /\ ChannelsInv'
    /\ NoPanic'
  BY Frame DEF IInv
<1> QED
  BY <1>1, <1>2, <1>3 DEF IInv

\* The invariant survives AcquireStart (Acquire).
LEMMA AcquireStartPreserves ==
  ASSUME IInv, NEW c \in Callers, AcquireStart(c), UNCHANGED supVars
  PROVE  IInv'
<1> USE DEF AcquireStart, Await
<1>1. TypeOK'
  BY DEF IInv, TypeOK, States, WorkerPCs, ProcStates, StopperPCs, CallerPCs, StopPCs,
    Errors, Channels
<1>2. WorkersInv'
  BY DEF IInv, WorkersInv, TypeOK, AtWork, Stopping, Launching
<1>3. StoppersInv'
  BY DEF IInv, StoppersInv, TypeOK, AtWork, Stopping
<1>4. ProcessesInv'
  BY DEF IInv, ProcessesInv, TypeOK, AtWork, Alive, Quiet, Stopping
<1>5. ChannelsInv'
  BY DEF IInv, ChannelsInv, TypeOK, Launching, Stopping, AtWork
<1>6. NoLostWaiter'
  BY DEF IInv, NoLostWaiter, TypeOK, Launching, AtWork, Stopping
<1>7. SupervisorTypeOK' /\ NoPanic'
  BY Frame DEF IInv
<1> QED
  BY <1>1, <1>2, <1>3, <1>4, <1>5, <1>6, <1>7 DEF IInv

\* The invariant survives AcquireJoin (Acquire).
LEMMA AcquireJoinPreserves ==
  ASSUME IInv, NEW c \in Callers, AcquireJoin(c), UNCHANGED supVars
  PROVE  IInv'
<1> USE DEF AcquireJoin, Await, Launching
<1>1. TypeOK'
  BY DEF IInv, TypeOK, States, WorkerPCs, ProcStates, StopperPCs, CallerPCs, StopPCs,
    Errors, Channels
<1>2. NoLostWaiter'
  BY DEF IInv, NoLostWaiter, TypeOK, StoppersInv, AtWork, Stopping
<1>3. SupervisorTypeOK' /\ WorkersInv' /\ StoppersInv' /\ ProcessesInv' /\ ChannelsInv'
    /\ NoPanic'
  BY Frame DEF IInv
<1> QED
  BY <1>1, <1>2, <1>3 DEF IInv

\* The invariant survives AcquireCheck (Acquire).
LEMMA AcquireCheckPreserves ==
  ASSUME IInv, NEW c \in Callers, AcquireCheck(c), UNCHANGED supVars
  PROVE  IInv'
<1> USE DEF AcquireCheck, Leave
<1>1. TypeOK'
  BY DEF IInv, TypeOK, CallerPCs
<1>2. NoLostWaiter'
  BY DEF IInv, NoLostWaiter, TypeOK, Launching, AtWork, Stopping
<1>3. SupervisorTypeOK' /\ WorkersInv' /\ StoppersInv' /\ ProcessesInv' /\ ChannelsInv'
    /\ NoPanic'
  BY Frame DEF IInv
<1> QED
  BY <1>1, <1>2, <1>3 DEF IInv

\* The invariant survives Cancel (wait: ctx.Done()).
LEMMA CancelPreserves ==
  ASSUME IInv, NEW c \in Callers, Cancel(c), UNCHANGED <<closing, op, opAct, opKillErr, seen>>
  PROVE  IInv'
<1> USE DEF Cancel, AcquireCanceled, Leave
<1>1. TypeOK'
  BY DEF IInv, TypeOK, CallerPCs
<1>2. SupervisorTypeOK'
  BY DEF IInv, SupervisorTypeOK, OpPCs, TypeOK
<1>3. NoLostWaiter'
  BY DEF IInv, NoLostWaiter, TypeOK, Launching, AtWork, Stopping
<1>4. WorkersInv' /\ StoppersInv' /\ ProcessesInv' /\ ChannelsInv' /\ NoPanic'
  BY Frame DEF IInv
<1> QED
  BY <1>1, <1>2, <1>3, <1>4 DEF IInv

\* The invariant survives Release (release).
LEMMA ReleasePreserves ==
  ASSUME IInv, NEW c \in Callers, Release(c), UNCHANGED supVars
  PROVE  IInv'
<1> USE DEF Release
<1>1. TypeOK'
  <2>1. /\ state' \in States /\ process' \in Attempts \cup {None} /\ active' \in Nat
    BY DEF IInv, TypeOK, States, Leave, ScheduleIdle
  <2>2. /\ idleTimer' \in Nat /\ generation' \in Nat /\ fired' \subseteq Nat
        /\ stale' \subseteq Nat
    BY ScheduleIdleTypes DEF IInv, TypeOK, States, Leave
  <2>3. /\ startDone' \in Attempts \cup {None} /\ startErr' \in Errors \cup {None}
        /\ stopDone' \in Stops \cup {None} /\ stopErr' \in BOOLEAN
        /\ startCancel' \in Attempts \cup {None}
        /\ workerDone' \in Attempts \cup {None}
    BY DEF IInv, TypeOK, States, Leave, ScheduleIdle
  <2>4. /\ starts' \in Nat /\ manualStopped' \in BOOLEAN
        /\ closed' \subseteq Channels \cup {None} /\ panicked' \in BOOLEAN
        /\ lifecycleDone' \in BOOLEAN /\ canceled' \subseteq Attempts
    BY DEF IInv, TypeOK, States, Leave, ScheduleIdle
  <2>5. /\ worker' \in [Attempts -> WorkerPCs] /\ proc' \in [Attempts -> ProcStates]
        /\ watch' \subseteq Attempts
    BY DEF IInv, TypeOK, States, Leave, ScheduleIdle
  <2>6. /\ stopper' \in [Stops -> StopperPCs] /\ failed' \subseteq Stops
        /\ joined' \in [Stops -> Attempts \cup {None}]
        /\ target' \in [Stops -> Attempts \cup {None}]
    BY DEF IInv, TypeOK, States, Leave, ScheduleIdle
  <2>7. /\ pc' \in [Callers -> CallerPCs]
        /\ chan' \in [Callers -> Channels \cup {None}]
        /\ sc' \in [Stoppers -> StopPCs]
        /\ stopChan' \in [Stoppers -> Stops \cup {None}] /\ faults' \in 0..MaxFaults
    BY DEF IInv, TypeOK, CallerPCs, Leave, ScheduleIdle
  <2> QED
    BY <2>1, <2>2, <2>3, <2>4, <2>5, <2>6, <2>7 DEF TypeOK
<1>2. NoLostWaiter'
  BY DEF IInv, NoLostWaiter, TypeOK, Launching, AtWork, Stopping, Leave, ScheduleIdle
<1>3. SupervisorTypeOK' /\ WorkersInv' /\ StoppersInv' /\ ProcessesInv' /\ ChannelsInv'
    /\ NoPanic'
  BY Frame DEF IInv
<1> QED
  BY <1>1, <1>2, <1>3 DEF IInv

\* The invariant survives BuildDone (start).
LEMMA BuildDonePreserves ==
  ASSUME IInv, NEW a \in Attempts, BuildDone(a), UNCHANGED supVars
  PROVE  IInv'
<1> USE DEF BuildDone, Step
<1>1. TypeOK'
  BY DEF IInv, TypeOK, States, WorkerPCs, ProcStates, StopperPCs, CallerPCs, StopPCs,
    Errors, Channels
<1>2. WorkersInv'
  BY DEF IInv, WorkersInv, TypeOK, AtWork, Stopping, Launching
<1>3. StoppersInv'
  BY DEF IInv, StoppersInv, TypeOK, AtWork, Stopping
<1>4. ProcessesInv'
  BY DEF IInv, ProcessesInv, TypeOK, AtWork, Alive, Quiet, Stopping
<1>5. ChannelsInv'
  BY DEF IInv, ChannelsInv, TypeOK, Launching, Stopping, AtWork
<1>6. NoLostWaiter'
  BY DEF IInv, NoLostWaiter, TypeOK, Launching, AtWork, Stopping
<1>7. SupervisorTypeOK' /\ NoPanic'
  BY Frame DEF IInv
<1> QED
  BY <1>1, <1>2, <1>3, <1>4, <1>5, <1>6, <1>7 DEF IInv

\* The invariant survives BuildFails (start).
LEMMA BuildFailsPreserves ==
  ASSUME IInv, NEW a \in Attempts, BuildFails(a), UNCHANGED supVars
  PROVE  IInv'
<1> USE DEF BuildFails, Step, Fault
<1>1. TypeOK'
  BY DEF IInv, TypeOK, WorkerPCs
<1>2. WorkersInv'
  BY DEF IInv, WorkersInv, TypeOK, AtWork, Stopping, Launching
<1>3. StoppersInv'
  BY DEF IInv, StoppersInv, TypeOK, AtWork, Stopping
<1>4. ProcessesInv'
  BY DEF IInv, ProcessesInv, TypeOK, AtWork, Alive, Quiet, Stopping
<1>5. ChannelsInv'
  BY DEF IInv, ChannelsInv, TypeOK, Launching, Stopping, AtWork
<1>6. SupervisorTypeOK' /\ NoPanic' /\ NoLostWaiter'
  BY Frame DEF IInv
<1> QED
  BY <1>1, <1>2, <1>3, <1>4, <1>5, <1>6 DEF IInv

\* The invariant survives LaunchOk (start).
LEMMA LaunchOkPreserves ==
  ASSUME IInv, NEW a \in Attempts, LaunchOk(a), UNCHANGED supVars
  PROVE  IInv'
<1> USE DEF LaunchOk, Step
<1>1. TypeOK'
  BY DEF IInv, TypeOK, States, WorkerPCs, ProcStates, StopperPCs, CallerPCs, StopPCs,
    Errors, Channels
<1>2. WorkersInv'
  BY DEF IInv, WorkersInv, TypeOK, AtWork, Stopping, Launching
<1>3. StoppersInv'
  BY DEF IInv, StoppersInv, TypeOK, AtWork, Stopping
<1>4. ProcessesInv'
  BY DEF IInv, ProcessesInv, TypeOK, AtWork, Alive, Quiet, WorkersInv, StoppersInv,
    Stopping
<1>5. ChannelsInv'
  BY DEF IInv, ChannelsInv, TypeOK, Launching, Stopping, AtWork
<1>6. SupervisorTypeOK' /\ NoPanic' /\ NoLostWaiter'
  BY Frame DEF IInv
<1> QED
  BY <1>1, <1>2, <1>3, <1>4, <1>5, <1>6 DEF IInv

\* The invariant survives LaunchFails (start).
LEMMA LaunchFailsPreserves ==
  ASSUME IInv, NEW a \in Attempts, LaunchFails(a), UNCHANGED supVars
  PROVE  IInv'
<1> USE DEF LaunchFails, Step, Fault
<1>1. TypeOK'
  BY DEF IInv, TypeOK, WorkerPCs
<1>2. WorkersInv'
  BY DEF IInv, WorkersInv, TypeOK, AtWork, Stopping, Launching
<1>3. StoppersInv'
  BY DEF IInv, StoppersInv, TypeOK, AtWork, Stopping
<1>4. ProcessesInv'
  BY DEF IInv, ProcessesInv, TypeOK, AtWork, Alive, Quiet, Stopping
<1>5. ChannelsInv'
  BY DEF IInv, ChannelsInv, TypeOK, Launching, Stopping, AtWork
<1>6. SupervisorTypeOK' /\ NoPanic' /\ NoLostWaiter'
  BY Frame DEF IInv
<1> QED
  BY <1>1, <1>2, <1>3, <1>4, <1>5, <1>6 DEF IInv

\* The invariant survives Record (start).
LEMMA RecordPreserves ==
  ASSUME IInv, NEW a \in Attempts, Record(a), UNCHANGED supVars
  PROVE  IInv'
<1> USE DEF Record, Step
<1>1. TypeOK'
  BY DEF IInv, TypeOK, WorkerPCs
<1>2. WorkersInv'
  BY DEF IInv, WorkersInv, TypeOK, AtWork, Stopping, Launching
<1>3. StoppersInv'
  BY DEF IInv, StoppersInv, TypeOK, AtWork, Stopping
<1>4. ProcessesInv'
  BY DEF IInv, ProcessesInv, TypeOK, AtWork, Alive, Quiet, WorkersInv, StoppersInv,
    Stopping
<1>5. ChannelsInv'
  BY DEF IInv, ChannelsInv, TypeOK, Launching, Stopping, AtWork
<1>6. SupervisorTypeOK' /\ NoPanic' /\ NoLostWaiter'
  BY Frame DEF IInv
<1> QED
  BY <1>1, <1>2, <1>3, <1>4, <1>5, <1>6 DEF IInv

\* The invariant survives Ready (start).
LEMMA ReadyPreserves ==
  ASSUME IInv, NEW a \in Attempts, Ready(a), UNCHANGED supVars
  PROVE  IInv'
<1> USE DEF Ready
<1>1. TypeOK'
  <2>1. /\ state' \in States /\ process' \in Attempts \cup {None} /\ active' \in Nat
        /\ idleTimer' \in Nat /\ generation' \in Nat /\ fired' \subseteq Nat
        /\ stale' \subseteq Nat
    BY ScheduleIdleTypes DEF IInv, TypeOK, States, Step, Close, Watched
  <2>2. /\ startDone' \in Attempts \cup {None} /\ startErr' \in Errors \cup {None}
        /\ stopDone' \in Stops \cup {None} /\ stopErr' \in BOOLEAN
        /\ startCancel' \in Attempts \cup {None}
        /\ workerDone' \in Attempts \cup {None}
    BY DEF IInv, TypeOK, States, Step, ScheduleIdle, Close, Watched
  <2>3. /\ starts' \in Nat /\ manualStopped' \in BOOLEAN
        /\ closed' \subseteq Channels \cup {None} /\ panicked' \in BOOLEAN
        /\ lifecycleDone' \in BOOLEAN /\ canceled' \subseteq Attempts
    BY CloseTypes DEF IInv, TypeOK, Channels, Step, ScheduleIdle, Watched
  <2>4. /\ worker' \in [Attempts -> WorkerPCs] /\ proc' \in [Attempts -> ProcStates]
        /\ watch' \subseteq Attempts
    BY DEF IInv, TypeOK, WorkerPCs, Step, ScheduleIdle, Close, Watched
  <2>5. /\ stopper' \in [Stops -> StopperPCs] /\ failed' \subseteq Stops
        /\ joined' \in [Stops -> Attempts \cup {None}]
        /\ target' \in [Stops -> Attempts \cup {None}]
    BY DEF IInv, TypeOK, States, Step, ScheduleIdle, Close, Watched
  <2>6. /\ pc' \in [Callers -> CallerPCs]
        /\ chan' \in [Callers -> Channels \cup {None}]
        /\ sc' \in [Stoppers -> StopPCs]
        /\ stopChan' \in [Stoppers -> Stops \cup {None}] /\ faults' \in 0..MaxFaults
    BY DEF IInv, TypeOK, States, Step, ScheduleIdle, Close, Watched
  <2> QED
    BY <2>1, <2>2, <2>3, <2>4, <2>5, <2>6 DEF TypeOK
<1>2. WorkersInv'
  BY DEF IInv, WorkersInv, TypeOK, AtWork, Stopping, Launching, Step, ScheduleIdle,
    Close, Watched
<1>3. StoppersInv'
  BY DEF IInv, StoppersInv, TypeOK, AtWork, Stopping, Step, ScheduleIdle, Close, Watched
<1>4. ProcessesInv'
  BY DEF IInv, ProcessesInv, TypeOK, AtWork, Alive, Quiet, Stopping, Step, ScheduleIdle,
    Close, Watched
<1>5. ChannelsInv'
  BY DEF IInv, ChannelsInv, TypeOK, Launching, Stopping, AtWork, Step, ScheduleIdle,
    Close, Watched
<1>6. NoPanic'
  BY DEF IInv, NoPanic, ChannelsInv, Stopping, WorkersInv, TypeOK, AtWork, Launching,
    Step, ScheduleIdle, Close, Watched
<1>7. NoLostWaiter'
  BY DEF IInv, NoLostWaiter, TypeOK, Launching, WorkersInv, ChannelsInv, AtWork,
    Stopping, Step, ScheduleIdle, Close, Watched
<1>8. SupervisorTypeOK'
  BY Frame DEF IInv
<1> QED
  BY <1>1, <1>2, <1>3, <1>4, <1>5, <1>6, <1>7, <1>8 DEF IInv

\* The invariant survives NotReady (ready, tcpReady, grpcReady).
LEMMA NotReadyPreserves ==
  ASSUME IInv, NEW a \in Attempts, NotReady(a), UNCHANGED supVars
  PROVE  IInv'
<1> USE DEF NotReady, Step, Fault, Terminated
<1>1. TypeOK'
  BY DEF IInv, TypeOK, States, WorkerPCs, ProcStates, StopperPCs, CallerPCs, StopPCs,
    Errors, Channels
<1>2. WorkersInv'
  BY DEF IInv, WorkersInv, TypeOK, AtWork, Stopping, Launching
<1>3. StoppersInv'
  BY DEF IInv, StoppersInv, TypeOK, AtWork, Stopping
<1>4. ProcessesInv'
  BY DEF IInv, ProcessesInv, TypeOK, AtWork, Alive, Quiet, Stopping
<1>5. ChannelsInv'
  BY DEF IInv, ChannelsInv, TypeOK, Launching, Stopping, AtWork
<1>6. SupervisorTypeOK' /\ NoPanic' /\ NoLostWaiter'
  BY Frame DEF IInv
<1> QED
  BY <1>1, <1>2, <1>3, <1>4, <1>5, <1>6 DEF IInv

\* The invariant survives Reap (start).
LEMMA ReapPreserves ==
  ASSUME IInv, NEW a \in Attempts, Reap(a), UNCHANGED supVars
  PROVE  IInv'
<1> USE DEF Reap, Step, Killed, Exited, Alive
<1>1. TypeOK'
  BY DEF IInv, TypeOK, States, WorkerPCs, ProcStates, StopperPCs, CallerPCs, StopPCs,
    Errors, Channels
<1>2. WorkersInv'
  BY DEF IInv, WorkersInv, TypeOK, AtWork, Stopping, Launching
<1>3. StoppersInv'
  BY DEF IInv, StoppersInv, TypeOK, AtWork, Stopping
<1>4. ProcessesInv'
  BY DEF IInv, ProcessesInv, TypeOK, AtWork, Quiet, Stopping
<1>5. ChannelsInv'
  BY DEF IInv, ChannelsInv, TypeOK, Launching, Stopping, AtWork
<1>6. SupervisorTypeOK' /\ NoPanic' /\ NoLostWaiter'
  BY Frame DEF IInv
<1> QED
  BY <1>1, <1>2, <1>3, <1>4, <1>5, <1>6 DEF IInv

\* The invariant survives Fail (fail).
LEMMA FailPreserves ==
  ASSUME IInv, NEW a \in Attempts, Fail(a), UNCHANGED supVars
  PROVE  IInv'
<1> USE DEF Fail
<1>1. TypeOK'
  <2>1. /\ state' \in States /\ process' \in Attempts \cup {None} /\ active' \in Nat
        /\ idleTimer' \in Nat /\ generation' \in Nat /\ fired' \subseteq Nat
        /\ stale' \subseteq Nat
    BY DEF IInv, TypeOK, States, Step, Superseded, ReleaseContext, Close
  <2>2. /\ startDone' \in Attempts \cup {None} /\ startErr' \in Errors \cup {None}
        /\ stopDone' \in Stops \cup {None} /\ stopErr' \in BOOLEAN
        /\ startCancel' \in Attempts \cup {None}
        /\ workerDone' \in Attempts \cup {None}
    BY DEF IInv, TypeOK, Errors, Step, Superseded, ReleaseContext, Close
  <2>3. /\ starts' \in Nat /\ manualStopped' \in BOOLEAN
        /\ closed' \subseteq Channels \cup {None} /\ panicked' \in BOOLEAN
        /\ lifecycleDone' \in BOOLEAN /\ canceled' \subseteq Attempts
    BY CloseTypes DEF IInv, TypeOK, Channels, Step, Superseded, ReleaseContext
  <2>4. /\ worker' \in [Attempts -> WorkerPCs] /\ proc' \in [Attempts -> ProcStates]
        /\ watch' \subseteq Attempts
    BY DEF IInv, TypeOK, WorkerPCs, Step, Superseded, ReleaseContext, Close
  <2>5. /\ stopper' \in [Stops -> StopperPCs] /\ failed' \subseteq Stops
        /\ joined' \in [Stops -> Attempts \cup {None}]
        /\ target' \in [Stops -> Attempts \cup {None}]
    BY DEF IInv, TypeOK, States, Step, Superseded, ReleaseContext, Close
  <2>6. /\ pc' \in [Callers -> CallerPCs]
        /\ chan' \in [Callers -> Channels \cup {None}]
        /\ sc' \in [Stoppers -> StopPCs]
        /\ stopChan' \in [Stoppers -> Stops \cup {None}] /\ faults' \in 0..MaxFaults
    BY DEF IInv, TypeOK, States, Step, Superseded, ReleaseContext, Close
  <2> QED
    BY <2>1, <2>2, <2>3, <2>4, <2>5, <2>6 DEF TypeOK
<1>2. WorkersInv'
  BY DEF IInv, WorkersInv, TypeOK, AtWork, Stopping, ChannelsInv, Launching, Step,
    Superseded, ReleaseContext, Close
<1>3. StoppersInv'
  BY DEF IInv, StoppersInv, TypeOK, AtWork, Stopping, Step, Superseded, ReleaseContext,
    Close, Launching
<1>4. ProcessesInv'
  BY DEF IInv, ProcessesInv, TypeOK, AtWork, Alive, Quiet, WorkersInv, StoppersInv,
    Stopping, Step, Superseded, ReleaseContext, Close, Launching
<1>5. ChannelsInv'
  BY DEF IInv, ChannelsInv, TypeOK, Launching, Stopping, AtWork, Step, Superseded,
    ReleaseContext, Close
<1>6. NoPanic'
  BY DEF IInv, NoPanic, ChannelsInv, Stopping, TypeOK, AtWork, Launching, Step,
    Superseded, ReleaseContext, Close
<1>7. NoLostWaiter'
  BY DEF IInv, NoLostWaiter, TypeOK, Launching, AtWork, Stopping, Step, Superseded,
    ReleaseContext, Close
<1>8. SupervisorTypeOK'
  BY Frame DEF IInv
<1> QED
  BY <1>1, <1>2, <1>3, <1>4, <1>5, <1>6, <1>7, <1>8 DEF IInv

\* The invariant survives WatchExit (watch).
LEMMA WatchExitPreserves ==
  ASSUME IInv, NEW a \in Attempts, WatchExit(a), UNCHANGED supVars
  PROVE  IInv'
<1> USE DEF WatchExit, WatchApplies, CancelIdle, ReleaseContext, Exited
<1>1. TypeOK'
  BY DEF IInv, TypeOK, States, WorkerPCs, ProcStates, StopperPCs, CallerPCs, StopPCs,
    Errors, Channels
<1>2. WorkersInv'
  BY DEF IInv, WorkersInv, TypeOK, AtWork, Stopping, Launching
<1>3. StoppersInv'
  BY DEF IInv, StoppersInv, TypeOK, AtWork, Stopping
<1>4. ProcessesInv'
  BY DEF IInv, ProcessesInv, TypeOK, AtWork, Alive, Quiet, StoppersInv, Stopping
<1>5. ChannelsInv'
  BY DEF IInv, ChannelsInv, TypeOK, Launching, Stopping, AtWork
<1>6. NoLostWaiter'
  BY DEF IInv, NoLostWaiter, TypeOK, Launching, AtWork, Stopping
<1>7. SupervisorTypeOK' /\ NoPanic'
  BY Frame DEF IInv
<1> QED
  BY <1>1, <1>2, <1>3, <1>4, <1>5, <1>6, <1>7 DEF IInv

\* The invariant survives ContextKills (shellCommand, configureProcess, killProcess).
LEMMA ContextKillsPreserves ==
  ASSUME IInv, NEW a \in Attempts, ContextKills(a), UNCHANGED supVars
  PROVE  IInv'
<1> USE DEF ContextKills, Killed
<1>1. TypeOK'
  BY DEF IInv, TypeOK, ProcStates
<1>2. ProcessesInv'
  BY DEF IInv, ProcessesInv, TypeOK, AtWork, Alive, Quiet, Stopping
<1>3. SupervisorTypeOK' /\ WorkersInv' /\ StoppersInv' /\ ChannelsInv' /\ NoPanic' /\
    NoLostWaiter'
  BY Frame DEF IInv
<1> QED
  BY <1>1, <1>2, <1>3 DEF IInv

\* The invariant survives ProcessExits (Runner.Start: c.Wait).
LEMMA ProcessExitsPreserves ==
  ASSUME IInv, NEW a \in Attempts, ProcessExits(a), UNCHANGED supVars
  PROVE  IInv'
<1> USE DEF ProcessExits, Fault, Alive
<1>1. TypeOK'
  BY DEF IInv, TypeOK, ProcStates
<1>2. ProcessesInv'
  BY DEF IInv, ProcessesInv, TypeOK, AtWork, Quiet, Stopping
<1>3. SupervisorTypeOK' /\ WorkersInv' /\ StoppersInv' /\ ChannelsInv' /\ NoPanic' /\
    NoLostWaiter'
  BY Frame DEF IInv
<1> QED
  BY <1>1, <1>2, <1>3 DEF IInv

\* The invariant survives StopRead (stop).
LEMMA StopReadPreserves ==
  ASSUME IInv, NEW k \in Stops, StopRead(k), UNCHANGED supVars
  PROVE  IInv'
<1> USE DEF StopRead, Advance
<1>1. TypeOK'
  BY DEF IInv, TypeOK, StopperPCs
<1>2. StoppersInv'
  BY DEF IInv, StoppersInv, TypeOK, AtWork, Stopping
<1>3. ProcessesInv'
  BY DEF IInv, ProcessesInv, TypeOK, AtWork, Alive, Quiet, Stopping
<1>4. ChannelsInv'
  BY DEF IInv, ChannelsInv, TypeOK, Launching, Stopping, AtWork
<1>5. SupervisorTypeOK' /\ WorkersInv' /\ NoPanic' /\ NoLostWaiter'
  BY Frame DEF IInv
<1> QED
  BY <1>1, <1>2, <1>3, <1>4, <1>5 DEF IInv

\* The invariant survives StopJoin (stop).
LEMMA StopJoinPreserves ==
  ASSUME IInv, NEW k \in Stops, StopJoin(k), UNCHANGED supVars
  PROVE  IInv'
<1> USE DEF StopJoin, Advance, WorkerFinished
<1>1. TypeOK'
  BY DEF IInv, TypeOK, StopperPCs
<1>2. StoppersInv'
  BY DEF IInv, StoppersInv, TypeOK, AtWork, Stopping, WorkersInv
<1>3. ProcessesInv'
  BY DEF IInv, ProcessesInv, TypeOK, AtWork, Alive, Quiet, Stopping
<1>4. ChannelsInv'
  BY DEF IInv, ChannelsInv, TypeOK, Launching, Stopping, AtWork
<1>5. SupervisorTypeOK' /\ WorkersInv' /\ NoPanic' /\ NoLostWaiter'
  BY Frame DEF IInv
<1> QED
  BY <1>1, <1>2, <1>3, <1>4, <1>5 DEF IInv

\* The invariant survives StopSignal (stop).
LEMMA StopSignalPreserves ==
  ASSUME IInv, NEW k \in Stops, StopSignal(k), UNCHANGED supVars
  PROVE  IInv'
<1> USE DEF StopSignal, Advance, Fault, Terminated
<1>1. TypeOK'
  BY DEF IInv, TypeOK, States, WorkerPCs, ProcStates, StopperPCs, CallerPCs, StopPCs,
    Errors, Channels
<1>2. StoppersInv'
  BY DEF IInv, StoppersInv, TypeOK, AtWork, Stopping
<1>3. ProcessesInv'
  BY DEF IInv, ProcessesInv, TypeOK, AtWork, Alive, Quiet, StoppersInv, Stopping
<1>4. ChannelsInv'
  BY DEF IInv, ChannelsInv, TypeOK, Launching, Stopping, AtWork
<1>5. SupervisorTypeOK' /\ WorkersInv' /\ NoPanic' /\ NoLostWaiter'
  BY Frame DEF IInv
<1> QED
  BY <1>1, <1>2, <1>3, <1>4, <1>5 DEF IInv

\* The invariant survives StopAwait (stop).
LEMMA StopAwaitPreserves ==
  ASSUME IInv, NEW k \in Stops, StopAwait(k), UNCHANGED supVars
  PROVE  IInv'
<1> USE DEF StopAwait, Advance, GraceExpired, Killed, Exited, Alive
<1>1. TypeOK'
  BY DEF IInv, TypeOK, States, WorkerPCs, ProcStates, StopperPCs, CallerPCs, StopPCs,
    Errors, Channels
<1>2. StoppersInv'
  BY DEF IInv, StoppersInv, TypeOK, AtWork, Stopping
<1>3. ProcessesInv'
  BY DEF IInv, ProcessesInv, TypeOK, AtWork, Quiet, Stopping
<1>4. ChannelsInv'
  BY DEF IInv, ChannelsInv, TypeOK, Launching, Stopping, AtWork
<1>5. SupervisorTypeOK' /\ WorkersInv' /\ NoPanic' /\ NoLostWaiter'
  BY Frame DEF IInv
<1> QED
  BY <1>1, <1>2, <1>3, <1>4, <1>5 DEF IInv

\* The invariant survives StopFinish (stop).
LEMMA StopFinishPreserves ==
  ASSUME IInv, NEW k \in Stops, StopFinish(k), UNCHANGED supVars
  PROVE  IInv'
<1> USE DEF StopFinish, Advance, ReleaseContext, StopOutcome, Close
<1>1. TypeOK'
  BY DEF IInv, TypeOK, States, WorkerPCs, ProcStates, StopperPCs, CallerPCs, StopPCs,
    Errors, Channels
<1>2. WorkersInv'
  BY DEF IInv, WorkersInv, TypeOK, AtWork, StoppersInv, Stopping, Launching
<1>3. StoppersInv'
  BY DEF IInv, StoppersInv, TypeOK, AtWork, Stopping
<1>4. ProcessesInv'
  BY DEF IInv, ProcessesInv, TypeOK, AtWork, Alive, Quiet, StoppersInv, Stopping
<1>5. ChannelsInv'
  BY DEF IInv, ChannelsInv, TypeOK, Launching, StoppersInv, Stopping, AtWork
<1>6. NoPanic'
  BY DEF IInv, NoPanic, ChannelsInv, StoppersInv, Stopping, TypeOK, AtWork, Launching
<1>7. NoLostWaiter'
  BY DEF IInv, NoLostWaiter, TypeOK, Launching, StoppersInv, AtWork, Stopping
<1>8. SupervisorTypeOK'
  BY Frame DEF IInv
<1> QED
  BY <1>1, <1>2, <1>3, <1>4, <1>5, <1>6, <1>7, <1>8 DEF IInv

\* The invariant survives TimerFires (time.AfterFunc).
LEMMA TimerFiresPreserves ==
  ASSUME IInv, TimerFires, UNCHANGED supVars
  PROVE  IInv'
<1> USE DEF TimerFires
<1>1. TypeOK'
  BY DEF IInv, TypeOK, States
<1>2. SupervisorTypeOK' /\ WorkersInv' /\ StoppersInv' /\ ProcessesInv' /\ ChannelsInv'
    /\ NoPanic' /\ NoLostWaiter'
  BY Frame DEF IInv
<1> QED
  BY <1>1, <1>2 DEF IInv

\* The invariant survives IdleCallback (idle).
LEMMA IdleCallbackPreserves ==
  ASSUME IInv, NEW g \in fired, IdleCallback(g), UNCHANGED supVars
  PROVE  IInv'
<1> USE DEF IdleCallback
<1>1. TypeOK'
  <2>1. /\ state' \in States /\ process' \in Attempts \cup {None} /\ active' \in Nat
        /\ idleTimer' \in Nat /\ generation' \in Nat /\ fired' \subseteq Nat
        /\ stale' \subseteq Nat
    BY DEF IInv, TypeOK, States, WorkerPCs, ProcStates, StopperPCs, CallerPCs, StopPCs,
      Errors, Channels, IdleDue, BeginStop, CancelIdle, AbandonStart, Close, Launching
  <2>2. /\ startDone' \in Attempts \cup {None} /\ startErr' \in Errors \cup {None}
        /\ stopDone' \in Stops \cup {None} /\ stopErr' \in BOOLEAN
        /\ startCancel' \in Attempts \cup {None}
        /\ workerDone' \in Attempts \cup {None}
    BY DEF IInv, TypeOK, Errors, IdleDue, BeginStop, CancelIdle, AbandonStart, Close
  <2>3. /\ starts' \in Nat /\ manualStopped' \in BOOLEAN
        /\ closed' \subseteq Channels \cup {None} /\ panicked' \in BOOLEAN
        /\ lifecycleDone' \in BOOLEAN /\ canceled' \subseteq Attempts
    BY DEF IInv, TypeOK, States, WorkerPCs, ProcStates, StopperPCs, CallerPCs, StopPCs,
      Errors, Channels, IdleDue, BeginStop, CancelIdle, AbandonStart, Close, Launching
  <2>4. /\ worker' \in [Attempts -> WorkerPCs] /\ proc' \in [Attempts -> ProcStates]
        /\ watch' \subseteq Attempts
    BY DEF IInv, TypeOK, States, IdleDue, BeginStop, CancelIdle, AbandonStart, Close
  <2>5. /\ stopper' \in [Stops -> StopperPCs] /\ failed' \subseteq Stops
        /\ joined' \in [Stops -> Attempts \cup {None}]
        /\ target' \in [Stops -> Attempts \cup {None}]
    BY DEF IInv, TypeOK, StopperPCs, IdleDue, BeginStop, CancelIdle, AbandonStart, Close
  <2>6. /\ pc' \in [Callers -> CallerPCs]
        /\ chan' \in [Callers -> Channels \cup {None}]
        /\ sc' \in [Stoppers -> StopPCs]
        /\ stopChan' \in [Stoppers -> Stops \cup {None}] /\ faults' \in 0..MaxFaults
    BY DEF IInv, TypeOK, States, IdleDue, BeginStop, CancelIdle, AbandonStart, Close
  <2> QED
    BY <2>1, <2>2, <2>3, <2>4, <2>5, <2>6 DEF TypeOK
<1>2. WorkersInv'
  BY DEF IInv, WorkersInv, TypeOK, AtWork, Stopping, Launching, IdleDue, BeginStop,
    CancelIdle, AbandonStart, Close
<1>3. StoppersInv'
  BY DEF IInv, StoppersInv, TypeOK, AtWork, Stopping, IdleDue, BeginStop, CancelIdle,
    AbandonStart, Close, Launching
<1>4. ProcessesInv'
  BY DEF IInv, ProcessesInv, TypeOK, AtWork, Alive, Quiet, Stopping, IdleDue, BeginStop,
    CancelIdle, AbandonStart, Close, Launching
<1>5. ChannelsInv'
  BY DEF IInv, ChannelsInv, TypeOK, Launching, Stopping, AtWork, IdleDue, BeginStop,
    CancelIdle, AbandonStart, Close
<1>6. NoPanic'
  BY DEF IInv, NoPanic, Stopping, TypeOK, AtWork, Launching, IdleDue, BeginStop,
    CancelIdle, AbandonStart, Close
<1>7. NoLostWaiter'
  BY DEF IInv, NoLostWaiter, TypeOK, Launching, AtWork, Stopping, IdleDue, BeginStop,
    CancelIdle, AbandonStart, Close
<1>8. SupervisorTypeOK'
  BY Frame DEF IInv
<1> QED
  BY <1>1, <1>2, <1>3, <1>4, <1>5, <1>6, <1>7, <1>8 DEF IInv

\* The invariant survives StopCall (Stop).
LEMMA StopCallPreserves ==
  ASSUME IInv, NEW s \in Stoppers, StopCall(s), UNCHANGED supVars
  PROVE  IInv'
<1> USE DEF StopCall
<1>1. TypeOK'
  <2>1. /\ state' \in States /\ process' \in Attempts \cup {None} /\ active' \in Nat
        /\ idleTimer' \in Nat /\ generation' \in Nat /\ fired' \subseteq Nat
        /\ stale' \subseteq Nat
    BY BeginStopTypes DEF IInv, TypeOK, States, Returns, Waits, CancelIdle,
      AbandonStart, Close
  <2>2. /\ startDone' \in Attempts \cup {None} /\ startErr' \in Errors \cup {None}
        /\ stopDone' \in Stops \cup {None} /\ stopErr' \in BOOLEAN
        /\ startCancel' \in Attempts \cup {None}
        /\ workerDone' \in Attempts \cup {None}
    BY BeginStopTypes DEF IInv, TypeOK, States, Returns, Waits, CancelIdle,
      AbandonStart, Close
  <2>3. /\ starts' \in Nat /\ manualStopped' \in BOOLEAN
        /\ closed' \subseteq Channels \cup {None} /\ panicked' \in BOOLEAN
        /\ lifecycleDone' \in BOOLEAN /\ canceled' \subseteq Attempts
    BY BeginStopTypes DEF IInv, TypeOK, States, Returns, Waits, CancelIdle,
      AbandonStart, Close
  <2>4. /\ worker' \in [Attempts -> WorkerPCs] /\ proc' \in [Attempts -> ProcStates]
        /\ watch' \subseteq Attempts
    BY DEF IInv, TypeOK, States, Returns, Waits, BeginStop, CancelIdle, AbandonStart,
      Close
  <2>5. /\ stopper' \in [Stops -> StopperPCs] /\ failed' \subseteq Stops
        /\ joined' \in [Stops -> Attempts \cup {None}]
        /\ target' \in [Stops -> Attempts \cup {None}]
    BY DEF IInv, TypeOK, StopperPCs, Returns, Waits, BeginStop, CancelIdle,
      AbandonStart, Close
  <2>6. /\ pc' \in [Callers -> CallerPCs]
        /\ chan' \in [Callers -> Channels \cup {None}]
        /\ sc' \in [Stoppers -> StopPCs]
        /\ stopChan' \in [Stoppers -> Stops \cup {None}] /\ faults' \in 0..MaxFaults
    BY DEF IInv, TypeOK, StopPCs, Returns, Waits, BeginStop, CancelIdle, AbandonStart,
      Close
  <2> QED
    BY <2>1, <2>2, <2>3, <2>4, <2>5, <2>6 DEF TypeOK
<1>2. WorkersInv'
  BY DEF IInv, WorkersInv, TypeOK, AtWork, Stopping, Launching, Returns, Waits,
    BeginStop, CancelIdle, AbandonStart, Close
<1>3. StoppersInv'
  BY DEF IInv, StoppersInv, TypeOK, AtWork, Stopping, Returns, Waits, BeginStop,
    CancelIdle, AbandonStart, Close, Launching
<1>4. ProcessesInv'
  BY DEF IInv, ProcessesInv, TypeOK, AtWork, Alive, Quiet, Stopping, Returns, Waits,
    BeginStop, CancelIdle, AbandonStart, Close, Launching
<1>5. ChannelsInv'
  BY DEF IInv, ChannelsInv, TypeOK, Launching, Stopping, WorkersInv, AtWork, Returns,
    Waits, BeginStop, CancelIdle, AbandonStart, Close
<1>6. NoPanic'
  BY DEF IInv, NoPanic, ChannelsInv, Stopping, TypeOK, AtWork, Launching, Returns,
    Waits, BeginStop, CancelIdle, AbandonStart, Close
<1>7. NoLostWaiter'
  BY DEF IInv, NoLostWaiter, TypeOK, Launching, WorkersInv, ChannelsInv, AtWork,
    Stopping, Returns, Waits, BeginStop, CancelIdle, AbandonStart, Close
<1>8. SupervisorTypeOK'
  BY Frame DEF IInv
<1> QED
  BY <1>1, <1>2, <1>3, <1>4, <1>5, <1>6, <1>7, <1>8 DEF IInv

\* The invariant survives StopWoken (waitForStop).
LEMMA StopWokenPreserves ==
  ASSUME IInv, NEW s \in Stoppers, StopWoken(s), UNCHANGED supVars
  PROVE  IInv'
<1> USE DEF StopWoken, Returns
<1>1. TypeOK'
  BY DEF IInv, TypeOK, StopPCs
<1>2. NoLostWaiter'
  BY DEF IInv, NoLostWaiter, TypeOK, Launching, AtWork, Stopping
<1>3. SupervisorTypeOK' /\ WorkersInv' /\ StoppersInv' /\ ProcessesInv' /\ ChannelsInv'
    /\ NoPanic'
  BY Frame DEF IInv
<1> QED
  BY <1>1, <1>2, <1>3 DEF IInv

\* The invariant survives Abandon (waitForStop: ctx.Done()).
LEMMA AbandonPreserves ==
  ASSUME IInv, NEW s \in Stoppers, Abandon(s), UNCHANGED <<closing, op, opAct, opKillErr, seen>>
  PROVE  IInv'
<1> USE DEF Abandon, StopAbandoned, Returns
<1>1. TypeOK'
  BY DEF IInv, TypeOK, StopPCs
<1>2. SupervisorTypeOK'
  BY DEF IInv, SupervisorTypeOK, OpPCs, TypeOK
<1>3. NoLostWaiter'
  BY DEF IInv, NoLostWaiter, TypeOK, Launching, AtWork, Stopping
<1>4. WorkersInv' /\ StoppersInv' /\ ProcessesInv' /\ ChannelsInv' /\ NoPanic'
  BY Frame DEF IInv
<1> QED
  BY <1>1, <1>2, <1>3, <1>4 DEF IInv

\* The invariant survives ActionBegin (Supervisor.Action).
LEMMA ActionBeginPreserves ==
  ASSUME IInv, NEW act \in OpActions, ActionBegin(act)
  PROVE  IInv'
<1> USE DEF ActionBegin
<1>1. TypeOK'
  BY DEF IInv, TypeOK, States
<1>2. SupervisorTypeOK'
  <2>1. /\ closing' \in BOOLEAN /\ opKillErr' \in BOOLEAN
    BY DEF IInv, SupervisorTypeOK, OpPCs, TypeOK
  <2>2. /\ op' \in OpPCs /\ opAct' \in OpActions \cup {None}
    BY DEF IInv, SupervisorTypeOK, OpPCs, TypeOK
  <2>3. opLeft' \in 0..MaxOps
    BY DEF IInv, SupervisorTypeOK, OpPCs, TypeOK
  <2>4. seen' \in [Callers -> Errors \cup {None}]
    BY DEF IInv, SupervisorTypeOK, OpPCs, TypeOK
  <2> QED
    BY <2>1, <2>2, <2>3, <2>4 DEF SupervisorTypeOK
<1>3. WorkersInv' /\ StoppersInv' /\ ProcessesInv' /\ ChannelsInv' /\ NoPanic' /\
    NoLostWaiter'
  BY Frame DEF IInv
<1> QED
  BY <1>1, <1>2, <1>3 DEF IInv

\* The invariant survives ActionMark (Supervisor.Action).
LEMMA ActionMarkPreserves ==
  ASSUME IInv, ActionMark
  PROVE  IInv'
<1> USE DEF ActionMark
<1>1. TypeOK'
  <2>1. /\ state' \in States /\ process' \in Attempts \cup {None} /\ active' \in Nat
        /\ idleTimer' \in Nat /\ generation' \in Nat /\ fired' \subseteq Nat
        /\ stale' \subseteq Nat
    BY DEF IInv, TypeOK, States, Killed, Exited
  <2>2. /\ startDone' \in Attempts \cup {None} /\ startErr' \in Errors \cup {None}
        /\ stopDone' \in Stops \cup {None} /\ stopErr' \in BOOLEAN
        /\ startCancel' \in Attempts \cup {None}
        /\ workerDone' \in Attempts \cup {None}
    BY DEF IInv, TypeOK, States, Killed, Exited
  <2>3. /\ starts' \in Nat /\ manualStopped' \in BOOLEAN
        /\ closed' \subseteq Channels \cup {None} /\ panicked' \in BOOLEAN
        /\ lifecycleDone' \in BOOLEAN /\ canceled' \subseteq Attempts
    BY DEF IInv, TypeOK, States, Killed, Exited
  <2>4. /\ worker' \in [Attempts -> WorkerPCs] /\ proc' \in [Attempts -> ProcStates]
        /\ watch' \subseteq Attempts
    BY DEF IInv, TypeOK, ProcStates, Killed, Exited
  <2>5. /\ stopper' \in [Stops -> StopperPCs] /\ failed' \subseteq Stops
        /\ joined' \in [Stops -> Attempts \cup {None}]
        /\ target' \in [Stops -> Attempts \cup {None}]
    BY DEF IInv, TypeOK, States, Killed, Exited
  <2>6. /\ pc' \in [Callers -> CallerPCs]
        /\ chan' \in [Callers -> Channels \cup {None}]
        /\ sc' \in [Stoppers -> StopPCs]
        /\ stopChan' \in [Stoppers -> Stops \cup {None}] /\ faults' \in 0..MaxFaults
    BY DEF IInv, TypeOK, StopPCs, Killed, Exited
  <2> QED
    BY <2>1, <2>2, <2>3, <2>4, <2>5, <2>6 DEF TypeOK
<1>2. SupervisorTypeOK'
  <2>1. closing' \in BOOLEAN
    BY DEF IInv, SupervisorTypeOK, OpPCs, TypeOK, Killed, Exited
  <2>2. opKillErr' \in BOOLEAN
    <3>1. opKillErr \in BOOLEAN /\ Exited(process) \in BOOLEAN
      BY DEF IInv, SupervisorTypeOK, Exited
    <3>2. opKillErr' = opKillErr \/ opKillErr' = Exited(process)
      BY Zenon
    <3> QED
      BY Zenon, <3>1, <3>2
  <2>3. /\ op' \in OpPCs /\ opAct' \in OpActions \cup {None}
    BY DEF IInv, SupervisorTypeOK, OpPCs, TypeOK, Killed, Exited
  <2>4. opLeft' \in 0..MaxOps
    BY DEF IInv, SupervisorTypeOK, OpPCs, TypeOK, Killed, Exited
  <2>5. seen' \in [Callers -> Errors \cup {None}]
    BY DEF IInv, SupervisorTypeOK, OpPCs, TypeOK, Killed, Exited
  <2> QED
    BY <2>1, <2>2, <2>3, <2>4, <2>5 DEF SupervisorTypeOK
<1>3. ProcessesInv'
  BY DEF IInv, ProcessesInv, TypeOK, AtWork, Alive, Quiet, Stopping, Killed, Exited
<1>4. NoLostWaiter'
  BY DEF IInv, NoLostWaiter, TypeOK, Launching, AtWork, Stopping, Killed, Exited, Alive
<1>5. WorkersInv' /\ StoppersInv' /\ ChannelsInv' /\ NoPanic'
  BY Frame DEF IInv
<1> QED
  BY <1>1, <1>2, <1>3, <1>4, <1>5 DEF IInv

\* The invariant survives ActionStopped (Supervisor.Action).
LEMMA ActionStoppedPreserves ==
  ASSUME IInv, ActionStopped
  PROVE  IInv'
<1> USE DEF ActionStopped
<1>1. TypeOK'
  BY DEF IInv, TypeOK, States
<1>2. SupervisorTypeOK'
  BY DEF IInv, SupervisorTypeOK, OpPCs, TypeOK
<1>3. WorkersInv' /\ StoppersInv' /\ ProcessesInv' /\ ChannelsInv' /\ NoPanic' /\
    NoLostWaiter'
  BY Frame DEF IInv
<1> QED
  BY <1>1, <1>2, <1>3 DEF IInv

\* The invariant survives ActionClear (Supervisor.Action).
LEMMA ActionClearPreserves ==
  ASSUME IInv, ActionClear
  PROVE  IInv'
<1> USE DEF ActionClear
<1>1. TypeOK'
  <2>1. /\ state' \in States /\ process' \in Attempts \cup {None} /\ active' \in Nat
        /\ idleTimer' \in Nat /\ generation' \in Nat /\ fired' \subseteq Nat
        /\ stale' \subseteq Nat
    BY DEF IInv, TypeOK, States
  <2>2. /\ startDone' \in Attempts \cup {None} /\ startErr' \in Errors \cup {None}
        /\ stopDone' \in Stops \cup {None} /\ stopErr' \in BOOLEAN
        /\ startCancel' \in Attempts \cup {None}
        /\ workerDone' \in Attempts \cup {None}
    BY DEF IInv, TypeOK, States
  <2>3. /\ starts' \in Nat /\ manualStopped' \in BOOLEAN
        /\ closed' \subseteq Channels \cup {None} /\ panicked' \in BOOLEAN
        /\ lifecycleDone' \in BOOLEAN /\ canceled' \subseteq Attempts
    BY DEF IInv, TypeOK, States
  <2>4. /\ worker' \in [Attempts -> WorkerPCs] /\ proc' \in [Attempts -> ProcStates]
        /\ watch' \subseteq Attempts
    BY DEF IInv, TypeOK, States
  <2>5. /\ stopper' \in [Stops -> StopperPCs] /\ failed' \subseteq Stops
        /\ joined' \in [Stops -> Attempts \cup {None}]
        /\ target' \in [Stops -> Attempts \cup {None}]
    BY DEF IInv, TypeOK, States
  <2>6. /\ pc' \in [Callers -> CallerPCs]
        /\ chan' \in [Callers -> Channels \cup {None}]
        /\ sc' \in [Stoppers -> StopPCs]
        /\ stopChan' \in [Stoppers -> Stops \cup {None}] /\ faults' \in 0..MaxFaults
    BY DEF IInv, TypeOK, CallerPCs
  <2> QED
    BY <2>1, <2>2, <2>3, <2>4, <2>5, <2>6 DEF TypeOK
<1>2. SupervisorTypeOK'
  BY DEF IInv, SupervisorTypeOK, OpPCs, TypeOK
<1>3. NoLostWaiter'
  BY DEF IInv, NoLostWaiter, TypeOK, Launching, AtWork, Stopping
<1>4. WorkersInv' /\ StoppersInv' /\ ProcessesInv' /\ ChannelsInv' /\ NoPanic'
  BY Frame DEF IInv
<1> QED
  BY <1>1, <1>2, <1>3, <1>4 DEF IInv

\* The invariant survives ActionReturn (Supervisor.Action).
LEMMA ActionReturnPreserves ==
  ASSUME IInv, ActionReturn
  PROVE  IInv'
<1> USE DEF ActionReturn
<1>1. TypeOK'
  BY DEF IInv, TypeOK, States
<1>2. SupervisorTypeOK'
  BY DEF IInv, SupervisorTypeOK, OpPCs, TypeOK
<1>3. WorkersInv' /\ StoppersInv' /\ ProcessesInv' /\ ChannelsInv' /\ NoPanic' /\
    NoLostWaiter'
  BY Frame DEF IInv
<1> QED
  BY <1>1, <1>2, <1>3 DEF IInv

\* The invariant survives StopAllClose (Supervisor.StopAll).
LEMMA StopAllClosePreserves ==
  ASSUME IInv, StopAllClose
  PROVE  IInv'
<1> USE DEF StopAllClose
<1>1. TypeOK'
  BY DEF IInv, TypeOK, States
<1>2. SupervisorTypeOK'
  BY DEF IInv, SupervisorTypeOK, OpPCs, TypeOK
<1>3. WorkersInv' /\ StoppersInv' /\ ProcessesInv' /\ ChannelsInv' /\ NoPanic' /\
    NoLostWaiter'
  BY Frame DEF IInv
<1> QED
  BY <1>1, <1>2, <1>3 DEF IInv

\* The invariant survives StopAllCancel (Supervisor.StopAll).
LEMMA StopAllCancelPreserves ==
  ASSUME IInv, StopAllCancel
  PROVE  IInv'
<1> USE DEF StopAllCancel
<1>1. TypeOK'
  BY DEF IInv, TypeOK, StopPCs
<1>2. NoLostWaiter'
  BY DEF IInv, NoLostWaiter, TypeOK, Launching, AtWork, Stopping
<1>3. SupervisorTypeOK' /\ WorkersInv' /\ StoppersInv' /\ ProcessesInv' /\ ChannelsInv'
    /\ NoPanic'
  BY Frame DEF IInv
<1> QED
  BY <1>1, <1>2, <1>3 DEF IInv

-----------------------------------------------------------------------------
(* The invariant holds for ever. *)

\* Every step of the program preserves the invariant.
LEMMA NextPreserves ==
  ASSUME IInv, [Next]_vars
  PROVE  IInv'
<1>1. CASE UNCHANGED vars
  <2>1. UNCHANGED <<serviceVars, closing, opVars, seen>>
    BY <1>1 DEF vars
  <2>2. TypeOK'
    BY <2>1 DEF IInv, TypeOK
  <2> QED
    BY <2>1, <2>2, Frame DEF IInv
<1>2. ASSUME NEW c \in Callers,
             \/ Acquire(c)
             \/ (AcquireStep(c) \/ Release(c)) /\ UNCHANGED supVars
             \/ Cancel(c) /\ UNCHANGED <<closing, op, opAct, opKillErr, seen>>
      PROVE  IInv'
  BY <1>2, AcquirePreserves, AcquireRefusedPreserves, AcquireRunningPreserves,
     AcquireStartPreserves, AcquireJoinPreserves, AcquireCheckPreserves,
     ReleasePreserves, CancelPreserves
  DEF AcquireStep
<1>3. ASSUME NEW a \in Attempts,
             (WorkerStep(a) \/ WatchExit(a) \/ ProcessStep(a)) /\ UNCHANGED supVars
      PROVE  IInv'
  BY <1>3, BuildDonePreserves, BuildFailsPreserves, LaunchOkPreserves,
     LaunchFailsPreserves, RecordPreserves, ReadyPreserves, NotReadyPreserves,
     ReapPreserves, FailPreserves, WatchExitPreserves, ContextKillsPreserves,
     ProcessExitsPreserves
  DEF WorkerStep, ProcessStep
<1>4. ASSUME NEW k \in Stops, StopperStep(k) /\ UNCHANGED supVars
      PROVE  IInv'
  BY <1>4, StopReadPreserves, StopJoinPreserves, StopSignalPreserves,
     StopAwaitPreserves, StopFinishPreserves
  DEF StopperStep
<1>5. CASE IdleStep /\ UNCHANGED supVars
  BY <1>5, TimerFiresPreserves, IdleCallbackPreserves DEF IdleStep
<1>6. ASSUME NEW s \in Stoppers,
             \/ StopStep(s) /\ UNCHANGED supVars
             \/ Abandon(s) /\ UNCHANGED <<closing, op, opAct, opKillErr, seen>>
      PROVE  IInv'
  BY <1>6, StopCallPreserves, StopWokenPreserves, AbandonPreserves DEF StopStep
<1>7. CASE \E act \in OpActions : ActionBegin(act)
  BY <1>7, ActionBeginPreserves
<1>8. CASE OperatorStep
  BY <1>8, ActionMarkPreserves, ActionStoppedPreserves, ActionClearPreserves,
     ActionReturnPreserves
  DEF OperatorStep
<1>9. CASE StopAllClose \/ StopAllCancel
  BY <1>9, StopAllClosePreserves, StopAllCancelPreserves
<1> QED
  BY <1>1, <1>2, <1>3, <1>4, <1>5, <1>6, <1>7, <1>8, <1>9 DEF Next

\* The inductive invariant holds in every reachable state.
THEOREM InvariantHolds == Spec => []IInv
<1>1. IInv /\ [Next]_vars => IInv'
  BY NextPreserves
<1> QED
  BY <1>1, InitIInv, PTL DEF Spec

\* Every variable keeps its type: states, program counters and channels take
\* only the values the code gives them, and the request counter and the idle
\* generation stay natural numbers.
THEOREM TypeCorrect == Spec => []TypeOK
<1>1. IInv => TypeOK
  BY DEF IInv
<1> QED
  BY <1>1, InvariantHolds, PTL

\* No channel is closed twice: service.go:164, 272, 354 and 429 never panic,
\* whichever order a start, its failure and a stop come in.  And no caller of
\* Acquire or Stop is left waiting on a channel nobody will close.
THEOREM ChannelsAreSafe == Spec => []ChannelsSafe
<1>1. IInv => ChannelsSafe
  BY DEF IInv, ChannelsSafe
<1> QED
  BY <1>1, InvariantHolds, PTL

\* Two launched processes of a service never run side by side, and a stopped or
\* failed service has none left running.
THEOREM ProcessesAreSafe == Spec => []ProcessSafe
<1>1. IInv => OneProcess /\ NoOrphan
  BY DEF IInv, ProcessesInv, OneProcess, NoOrphan
<1> QED
  BY <1>1, InvariantHolds, PTL DEF ProcessSafe

-----------------------------------------------------------------------------
(* Leases and the idle timer *)

\* active is the number of leases, and the operator holds none between its actions.
CountInv ==
  /\ IsFiniteSet(Held) /\ active = Cardinality(Held)
  /\ op # "acquire" => pc[Operator] \in {"done", "failed"}

\* A timer belongs to a generation that has been; one that has seen activity since, to
\* an earlier one than the current.
GenerationsInv ==
  /\ idleTimer <= generation
  /\ \A g \in fired : g <= generation
  /\ \A g \in stale : g < generation

LeaseInv == CountInv /\ GenerationsInv /\ IdleArmed

\* What touches neither leases nor timers, and brings no service up.
LEMMA LeaseFrame ==
  ASSUME LeaseInv, Held' = Held, active' = active, UNCHANGED idleVars,
         op' # "acquire" => pc'[Operator] \in {"done", "failed"},
         state' # "Running" \/ state' = state
  PROVE  LeaseInv'
  BY DEF LeaseInv, CountInv, GenerationsInv, IdleArmed, idleVars

\* What leaves pc and op alone too.
LEMMA IdleFrame ==
  ASSUME LeaseInv, UNCHANGED <<pc, op, active, idleVars>>,
         state' # "Running" \/ state' = state
  PROVE  LeaseInv'
<1>1. Held' = Held
  BY DEF Held
<1> QED
  BY <1>1, LeaseFrame DEF LeaseInv, CountInv

\* scheduleIdleLocked arms a timer of a new generation; all others are then of earlier
\* ones.
LEMMA ScheduleArms ==
  ASSUME TypeOK, GenerationsInv, ScheduleIdle
  PROVE  GenerationsInv' /\ (HasIdle => idleTimer' = generation')
  BY DEF TypeOK, GenerationsInv, ScheduleIdle

\* Acquire, its wait and its failure.
LEMMA CallerPreserves ==
  ASSUME IInv, LeaseInv, NEW c \in Callers,
         \/ Acquire(c)
         \/ (AcquireRefused(c) \/ AcquireStart(c) \/ AcquireJoin(c) \/ AcquireCheck(c))
              /\ UNCHANGED supVars
         \/ Cancel(c) /\ UNCHANGED <<closing, op, opAct, opKillErr, seen>>
  PROVE  LeaseInv'
<1> USE DEF Acquire, AcquireRefused, AcquireStart, AcquireJoin, AcquireCheck, Cancel,
      AcquireCanceled, Leave, Await
<1>0. pc \in [Callers -> CallerPCs]
  BY DEF IInv, TypeOK
<1>1. pc[c] \in {"call", "loop", "wait"} /\ pc'[c] # "held"
        /\ \A d \in Callers : d # c => pc'[d] = pc[d]
  BY <1>0
<1>2. Held' = Held
  BY <1>1 DEF Held
<1>3. UNCHANGED <<active, idleVars, op>> /\ (state' # "Running" \/ state' = state)
  BY DEF lockVars, bookVars, opVars, supVars
<1>4. op' # "acquire" => pc'[Operator] \in {"done", "failed"}
  BY <1>1, <1>3, SupervisorAssumption DEF LeaseInv, CountInv
<1> QED
  BY <1>2, <1>3, <1>4, LeaseFrame

\* A lease is taken: the timer is canceled, and not missed.
LEMMA AcquireRunningCounts ==
  ASSUME IInv, LeaseInv, NEW c \in Callers, AcquireRunning(c), UNCHANGED supVars
  PROVE  LeaseInv'
<1> USE DEF AcquireRunning, Leave, CancelIdle
<1>0. TypeOK
  BY DEF IInv
<1>1. Held' = Held \cup {c} /\ c \notin Held
  BY <1>0 DEF Held, TypeOK
<1>2. IsFiniteSet(Held') /\ active' = Cardinality(Held')
  BY <1>1, FS_AddElement DEF LeaseInv, CountInv
<1>3. CountInv'
  BY <1>0, <1>2, SupervisorAssumption DEF LeaseInv, CountInv, supVars, opVars, TypeOK
<1>4. GenerationsInv'
  BY <1>0 DEF LeaseInv, GenerationsInv, TypeOK
<1>5. IdleArmed'
  BY <1>1 DEF IdleArmed
<1> QED
  BY <1>3, <1>4, <1>5 DEF LeaseInv

\* A lease is returned: the last one of a running service arms the timer.
LEMMA ReleaseCounts ==
  ASSUME IInv, LeaseInv, NEW c \in Callers, Release(c), UNCHANGED supVars
  PROVE  LeaseInv'
<1> USE DEF Release, Leave
<1>0. TypeOK /\ GenerationsInv /\ CountInv
  BY DEF IInv, LeaseInv
<1>1. Held' = Held \ {c} /\ c \in Held
  BY <1>0 DEF Held, TypeOK
<1>2. IsFiniteSet(Held') /\ Cardinality(Held') = Cardinality(Held) - 1
  BY <1>0, <1>1, FS_RemoveElement DEF CountInv
<1>3. Cardinality(Held) \in Nat /\ Cardinality(Held') \in Nat
  BY <1>0, <1>2, FS_CardinalityType DEF CountInv
<1>4. active' = Cardinality(Held')
  BY <1>0, <1>2, <1>3 DEF CountInv
<1>5. CountInv'
  BY <1>0, <1>2, <1>4, SupervisorAssumption DEF CountInv, supVars, opVars, TypeOK
<1>6. CASE LastLease
  <2>1. ScheduleIdle
    BY <1>6
  <2> QED
    BY <1>0, <1>5, <2>1, ScheduleArms DEF LeaseInv, IdleArmed
<1>7. CASE ~LastLease
  <2>1. UNCHANGED idleVars
    BY <1>7
  <2>2. state = "Running" => active > 1
    BY <1>0, <1>7 DEF LastLease, TypeOK
  <2>3. state = "Running" => Cardinality(Held') # 0
    BY <1>0, <1>2, <2>2 DEF CountInv
  <2>4. state = "Running" => Held' # {}
    BY <2>3, FS_EmptySet
  <2>5. IdleArmed'
    BY <2>4 DEF IdleArmed
  <2>6. GenerationsInv'
    BY <1>0, <2>1 DEF GenerationsInv, idleVars
  <2> QED
    BY <1>5, <2>5, <2>6 DEF LeaseInv
<1> QED
  BY <1>6, <1>7

\* A service that comes up is armed; the other steps of start() bring none up.
LEMMA WorkerCounts ==
  ASSUME IInv, LeaseInv, NEW a \in Attempts, WorkerStep(a), UNCHANGED supVars
  PROVE  LeaseInv'
<1>0. TypeOK /\ GenerationsInv /\ CountInv
  BY DEF IInv, LeaseInv
<1>1. UNCHANGED <<pc, op, active>>
  BY DEF WorkerStep, BuildDone, BuildFails, LaunchOk, LaunchFails, Record, Ready, NotReady,
     Reap, Fail, lockVars, bookVars, callVars, supVars, opVars
<1>2. CASE Ready(a) /\ state = "Starting"
  <2>1. ScheduleIdle
    BY <1>2 DEF Ready
  <2>2. CountInv'
    BY <1>0, <1>1 DEF CountInv, Held
  <2> QED
    BY <1>0, <2>1, <2>2, ScheduleArms DEF LeaseInv, IdleArmed
<1>3. CASE ~(Ready(a) /\ state = "Starting")
  <2>1. UNCHANGED idleVars /\ (state' # "Running" \/ state' = state)
    BY <1>3 DEF WorkerStep, BuildDone, BuildFails, LaunchOk, LaunchFails, Record, Ready,
       NotReady, Reap, Fail, lockVars
  <2> QED
    BY <1>1, <2>1, IdleFrame
<1> QED
  BY <1>2, <1>3

\* A watcher cancels the timer of a service it fails.
LEMMA WatchCounts ==
  ASSUME IInv, LeaseInv, NEW a \in Attempts, WatchExit(a), UNCHANGED supVars
  PROVE  LeaseInv'
<1>0. TypeOK /\ GenerationsInv /\ CountInv
  BY DEF IInv, LeaseInv
<1>1. UNCHANGED <<pc, op, active>>
  BY DEF WatchExit, callVars, supVars, opVars
<1>2. CASE WatchApplies(a)
  <2>1. state' = "Failed" /\ CancelIdle /\ UNCHANGED <<fired, stale>>
    BY <1>2 DEF WatchExit
  <2>2. CountInv' /\ IdleArmed'
    BY <1>0, <1>1, <2>1 DEF CountInv, Held, IdleArmed
  <2>3. GenerationsInv'
    BY <1>0, <2>1 DEF GenerationsInv, CancelIdle, TypeOK
  <2> QED
    BY <2>2, <2>3 DEF LeaseInv
<1>3. CASE ~WatchApplies(a)
  BY <1>1, <1>3, IdleFrame DEF WatchExit, idleVars
<1> QED
  BY <1>2, <1>3

\* beginStopLocked cancels the timer.
LEMMA BeginStopCounts ==
  ASSUME TypeOK, LeaseInv, NEW k \in Stops, BeginStop(k), UNCHANGED <<pc, op>>,
         fired' \subseteq fired, stale' \subseteq stale
  PROVE  LeaseInv'
<1>1. CountInv' /\ IdleArmed'
  BY DEF BeginStop, LeaseInv, CountInv, Held, IdleArmed, bookVars
<1>2. GenerationsInv'
  BY DEF BeginStop, LeaseInv, GenerationsInv, CancelIdle, TypeOK
<1> QED
  BY <1>1, <1>2 DEF LeaseInv

\* A timer that fires leaves its callback; a callback that is overtaken changes nothing.
LEMMA IdleCounts ==
  ASSUME IInv, LeaseInv, IdleStep, UNCHANGED supVars
  PROVE  LeaseInv'
<1>0. TypeOK /\ GenerationsInv /\ CountInv /\ IdleArmed
  BY DEF IInv, LeaseInv
<1>1. UNCHANGED <<pc, op>>
  BY DEF IdleStep, TimerFires, IdleCallback, callVars, supVars, opVars
<1>2. CASE TimerFires
  <2>1. CountInv'
    BY <1>0, <1>1, <1>2 DEF TimerFires, CountInv, Held, bookVars
  <2>2. GenerationsInv'
    BY <1>0, <1>2 DEF TimerFires, GenerationsInv, TypeOK
  <2>3. IdleArmed'
    BY <1>0, <1>1, <1>2 DEF TimerFires, IdleArmed, Held
  <2> QED
    BY <2>1, <2>2, <2>3 DEF LeaseInv
<1>3. ASSUME NEW g \in fired, IdleCallback(g)
      PROVE  LeaseInv'
  <2>1. fired' = fired \ {g} /\ stale' = stale \ {g}
    BY <1>3 DEF IdleCallback
  <2>2. CASE IdleDue(g)
    <3>1. PICK k \in Stops : BeginStop(k)
      BY <1>3, <2>2 DEF IdleCallback
    <3> QED
      BY <1>0, <1>1, <2>1, <3>1, BeginStopCounts
  <2>3. CASE ~IdleDue(g)
    <3>1. UNCHANGED <<state, active, generation, idleTimer>>
      BY <1>3, <2>3 DEF IdleCallback, bookVars
    <3>2. CountInv' /\ Held' = Held
      BY <1>0, <1>1, <3>1 DEF CountInv, Held
    <3>3. GenerationsInv'
      BY <1>0, <2>1, <3>1 DEF GenerationsInv
    <3>4. Held = {} => active = 0
      BY <1>0, FS_EmptySet DEF CountInv
    <3>5. IdleArmed'
      BY <1>0, <2>1, <2>3, <3>1, <3>2, <3>4 DEF IdleArmed, IdleDue
    <3> QED
      BY <3>2, <3>3, <3>5 DEF LeaseInv
  <2> QED
    BY <2>2, <2>3
<1> QED
  BY <1>2, <1>3 DEF IdleStep

\* A call of Stop, and its end.
LEMMA StopCounts ==
  ASSUME IInv, LeaseInv, NEW s \in Stoppers,
         \/ StopStep(s) /\ UNCHANGED supVars
         \/ Abandon(s) /\ UNCHANGED <<closing, op, opAct, opKillErr, seen>>
  PROVE  LeaseInv'
<1>1. UNCHANGED <<pc, op>>
  BY DEF StopStep, StopCall, StopWoken, Abandon, StopAbandoned, callVars, supVars, opVars
<1>2. CASE StopCall(s) /\ state \notin {"Stopped", "Stopping"}
  <2>1. PICK k \in Stops : BeginStop(k)
    BY <1>2 DEF StopCall
  <2>2. UNCHANGED <<fired, stale>>
    BY <1>2 DEF StopCall
  <2> QED
    BY <1>1, <2>1, <2>2, BeginStopCounts DEF IInv
<1>3. CASE ~(StopCall(s) /\ state \notin {"Stopped", "Stopping"})
  <2>1. UNCHANGED <<state, active, idleVars>>
    BY <1>3 DEF StopStep, StopCall, StopWoken, Abandon, StopAbandoned, lockVars, bookVars
  <2> QED
    BY <1>1, <2>1, IdleFrame
<1> QED
  BY <1>2, <1>3

\* stop(), processes and StopAll.
LEMMA OthersCount ==
  ASSUME IInv, LeaseInv,
         \/ \E k \in Stops : StopperStep(k) /\ UNCHANGED supVars
         \/ \E a \in Attempts : ProcessStep(a) /\ UNCHANGED supVars
         \/ StopAllClose \/ StopAllCancel \/ UNCHANGED vars
  PROVE  LeaseInv'
<1>1. UNCHANGED <<pc, op, active, idleVars>> /\ (state' # "Running" \/ state' = state)
  BY DEF StopperStep, StopRead, StopJoin, StopSignal, StopAwait, StopFinish, StopOutcome,
     ProcessStep, ContextKills, ProcessExits, StopAllClose, StopAllCancel, vars,
     serviceVars, lockVars, bookVars, callVars, supVars, opVars
<1> QED
  BY <1>1, IdleFrame

\* The operator's actions, which begin and end with no lease held.
LEMMA OperatorCounts ==
  ASSUME IInv, LeaseInv, OperatorStep \/ \E act \in OpActions : ActionBegin(act)
  PROVE  LeaseInv'
<1>0. pc \in [Callers -> CallerPCs] /\ Operator \in Callers
  BY SupervisorAssumption DEF IInv, TypeOK
<1>1. UNCHANGED <<active, idleVars, state>>
  BY DEF OperatorStep, ActionMark, ActionStopped, ActionClear, ActionReturn, ActionBegin,
     serviceVars, lockVars, bookVars
<1>2. CASE ActionClear
  <2>1. pc[Operator] \in {"done", "failed"} /\ pc' = [pc EXCEPT ![Operator] = "call"]
    BY <1>2 DEF ActionClear, LeaseInv, CountInv
  <2>2. Held' = Held /\ op' = "acquire"
    BY <1>0, <1>2, <2>1 DEF Held, ActionClear
  <2> QED
    BY <1>1, <2>2, LeaseFrame
<1>3. CASE ~ActionClear
  <2>1. UNCHANGED pc
    BY <1>3 DEF OperatorStep, ActionMark, ActionStopped, ActionReturn, ActionBegin,
       serviceVars, callVars
  <2>2. op' # "acquire" => pc'[Operator] \in {"done", "failed"}
    BY <1>3, <2>1 DEF OperatorStep, ActionMark, ActionStopped, ActionReturn, ActionBegin,
       LeaseInv, CountInv
  <2>3. Held' = Held
    BY <2>1 DEF Held
  <2> QED
    BY <1>1, <2>2, <2>3, LeaseFrame
<1> QED
  BY <1>2, <1>3

\* All steps of the program.
LEMMA LeasePreserved ==
  ASSUME IInv, LeaseInv, [Next]_vars
  PROVE  LeaseInv'
  BY CallerPreserves, AcquireRunningCounts, ReleaseCounts, WorkerCounts, WatchCounts,
     IdleCounts, StopCounts, OthersCount, OperatorCounts
  DEF Next, AcquireStep

\* The lease count is right, and the idle timer is armed whenever it must be.
THEOREM LeaseInvariantHolds == Spec => []LeaseInv
<1>1. Init => LeaseInv
  <2> SUFFICES ASSUME Init PROVE LeaseInv
    OBVIOUS
  <2>1. Held = {}
    BY DEF Init, Held
  <2>2. CountInv
    BY <2>1, FS_EmptySet, SupervisorAssumption DEF Init, ServiceInit, CountInv
  <2> QED
    BY <2>2 DEF Init, ServiceInit, LeaseInv, GenerationsInv, IdleArmed
<1>2. IInv /\ LeaseInv /\ [Next]_vars => LeaseInv'
  BY LeasePreserved
<1> QED
  BY <1>1, <1>2, InvariantHolds, PTL DEF Spec

\* A running service nobody uses has an idle timer, or a callback about to run, of the
\* current generation.
THEOREM UnusedIsArmed == Spec => []IdleArmed
<1>1. LeaseInv => IdleArmed
  BY DEF LeaseInv
<1> QED
  BY <1>1, LeaseInvariantHolds, PTL

\* The callback that stops a running service is that of the current generation.
LEMMA StopIsDue ==
  ASSUME IInv, LeaseInv, [Next]_vars, state = "Running", state' = "Stopping", fired' # fired
  PROVE  Held = {} /\ fired \cap stale \subseteq fired'
<1> USE DEF lockVars, idleVars
<1>1. ASSUME NEW c \in Callers,
             \/ Acquire(c)
             \/ (AcquireStep(c) \/ Release(c)) /\ UNCHANGED supVars
             \/ Cancel(c) /\ UNCHANGED <<closing, op, opAct, opKillErr, seen>>
      PROVE  FALSE
  BY <1>1 DEF Acquire, AcquireStep, AcquireRefused, AcquireRunning, AcquireStart,
     AcquireJoin, AcquireCheck, Release, ScheduleIdle, Cancel, AcquireCanceled
<1>2. ASSUME NEW a \in Attempts, WorkerStep(a) \/ WatchExit(a) \/ ProcessStep(a)
      PROVE  FALSE
  BY <1>2 DEF WorkerStep, BuildDone, BuildFails, LaunchOk, LaunchFails, Record, Ready,
     NotReady, Reap, Fail, WatchExit, ProcessStep, ContextKills, ProcessExits, ScheduleIdle
<1>3. ASSUME NEW k \in Stops, StopperStep(k)
      PROVE  FALSE
  BY <1>3 DEF StopperStep, StopRead, StopJoin, StopSignal, StopAwait, StopFinish
<1>4. ASSUME NEW s \in Stoppers, StopStep(s) \/ Abandon(s)
      PROVE  FALSE
  BY <1>4 DEF StopStep, StopCall, StopWoken, Abandon, StopAbandoned
<1>5. ~\E act \in OpActions : ActionBegin(act)
  BY DEF ActionBegin, serviceVars
<1>6. ~(OperatorStep \/ StopAllClose \/ StopAllCancel \/ UNCHANGED vars)
  BY DEF OperatorStep, ActionMark, ActionStopped, ActionClear, ActionReturn, StopAllClose,
     StopAllCancel, serviceVars, vars
<1>7. ~TimerFires
  BY DEF TimerFires
<1>8. PICK g \in fired : IdleCallback(g)
  BY <1>1, <1>2, <1>3, <1>4, <1>5, <1>6, <1>7 DEF Next, IdleStep
<1>9. IdleDue(g) /\ fired' = fired \ {g}
  BY <1>8 DEF IdleCallback
<1>10. g \notin stale
  BY <1>9 DEF IInv, TypeOK, LeaseInv, GenerationsInv, IdleDue
<1>11. Held = {}
  BY <1>9, FS_EmptySet DEF LeaseInv, CountInv, IdleDue
<1> QED
  BY <1>9, <1>10, <1>11

\* A stop for idleness happens only when no lease is held, and only by a timer armed
\* after the last activity.
THEOREM IdleStopsAreDue == Spec => IdleStopIsDue
<1>1. IInv /\ LeaseInv /\ [Next]_vars
        => [state = "Running" /\ state' = "Stopping" /\ fired' # fired
              => Held = {} /\ fired \cap stale \subseteq fired']_vars
  BY StopIsDue
<1> QED
  BY <1>1, InvariantHolds, LeaseInvariantHolds, PTL DEF Spec, IdleStopIsDue

-----------------------------------------------------------------------------
(* Stops and failures *)

\* The service is down, and no goroutine is left that could launch a process.
Still == Down /\ \A a \in Attempts : ~AtWork(a)

\* Stop has returned to s, or will as soon as s looks.
StopDone(s) == sc[s] \in {"ok", "err"} \/ (sc[s] = "wait" /\ stopChan[s] \in closed)

\* While they call Stop, the operator and the shutdown keep requests from starting it.
InhibitInv ==
  /\ sc[Shutdown] # "idle" => lifecycleDone
  /\ sc[Operator] \in {"call", "wait"} => op = "stop"
  /\ op = "stop" => manualStopped

HoldInv ==
  /\ InhibitInv
  /\ StopDone(Operator) /\ manualStopped => Still
  /\ StopDone(Shutdown) => Still

\* Nothing but an Acquire that is not refused makes a service start that is down.
LEMMA StillKept ==
  ASSUME IInv, Still, Refused, [Next]_vars
  PROVE  Still'
<1> TypeOK /\ NoOrphan
  BY DEF IInv, ProcessesInv, NoOrphan
<1> USE DEF Still, Down, Quiet, AtWork, TypeOK
<1>1. CASE UNCHANGED vars
  BY <1>1 DEF vars, serviceVars, lockVars, attemptVars, Alive
<1>2. ASSUME NEW c \in Callers,
             \/ Acquire(c)
             \/ (AcquireStep(c) \/ Release(c)) /\ UNCHANGED supVars
             \/ Cancel(c) /\ UNCHANGED <<closing, op, opAct, opKillErr, seen>>
      PROVE  Still'
  <2>1. UNCHANGED <<state, worker, proc>>
    BY <1>2 DEF Acquire, AcquireStep, AcquireRefused, AcquireRunning, AcquireStart,
       AcquireJoin, AcquireCheck, Release, Cancel, AcquireCanceled, lockVars, attemptVars
  <2> QED
    BY <2>1 DEF Alive
<1>3. ASSUME NEW a \in Attempts,
             (WorkerStep(a) \/ WatchExit(a) \/ ProcessStep(a)) /\ UNCHANGED supVars
      PROVE  Still'
  <2>1. ~WorkerStep(a)
    BY DEF WorkerStep, BuildDone, BuildFails, LaunchOk, LaunchFails, Record, Ready,
       NotReady, Reap, Fail
  <2>2. CASE WatchExit(a)
    BY <2>2 DEF WatchExit, WatchApplies, Alive, attemptVars
  <2>3. CASE ProcessStep(a)
    BY <2>3 DEF ProcessStep, ContextKills, ProcessExits, Killed, Alive, lockVars
  <2> QED
    BY <1>3, <2>1, <2>2, <2>3
<1>4. ASSUME NEW k \in Stops, StopperStep(k) /\ UNCHANGED supVars
      PROVE  Still'
  <2>1. UNCHANGED worker /\ state' \in {"Stopped", "Failed", "Stopping"}
    BY <1>4 DEF StopperStep, StopRead, StopJoin, StopSignal, StopAwait, StopFinish,
       StopOutcome, attemptVars, lockVars
  <2>2. \A a \in Attempts : Alive(a)' => Alive(a)
    BY <1>4 DEF StopperStep, StopRead, StopJoin, StopSignal, StopAwait, StopFinish,
       Terminated, Killed, Alive, attemptVars
  <2> QED
    BY <2>1, <2>2
<1>5. CASE IdleStep /\ UNCHANGED supVars
  <2>1. UNCHANGED <<state, worker, proc>>
    BY <1>5 DEF IdleStep, TimerFires, IdleCallback, IdleDue, attemptVars
  <2> QED
    BY <2>1 DEF Alive
<1>6. ASSUME NEW s \in Stoppers,
             \/ StopStep(s) /\ UNCHANGED supVars
             \/ Abandon(s) /\ UNCHANGED <<closing, op, opAct, opKillErr, seen>>
      PROVE  Still'
  <2>1. UNCHANGED <<worker, proc>> /\ state' \in {state, "Stopping"}
    BY <1>6 DEF StopStep, StopCall, StopWoken, Abandon, StopAbandoned, BeginStop,
       attemptVars, lockVars
  <2> QED
    BY <2>1 DEF Alive
<1>7. CASE \E act \in OpActions : ActionBegin(act)
  BY <1>7 DEF ActionBegin, serviceVars, lockVars, attemptVars, Alive
<1>8. CASE OperatorStep
  <2>1. UNCHANGED <<worker, state>>
    BY <1>8 DEF OperatorStep, ActionMark, ActionStopped, ActionClear, ActionReturn,
       serviceVars, lockVars, attemptVars
  <2>2. \A a \in Attempts : Alive(a)' => Alive(a)
    BY <1>8 DEF OperatorStep, ActionMark, ActionStopped, ActionClear, ActionReturn,
       serviceVars, attemptVars, Killed, Alive
  <2> QED
    BY <2>1, <2>2
<1>9. CASE StopAllClose \/ StopAllCancel
  BY <1>9 DEF StopAllClose, StopAllCancel, serviceVars, lockVars, attemptVars, Alive
<1> QED
  BY <1>1, <1>2, <1>3, <1>4, <1>5, <1>6, <1>7, <1>8, <1>9 DEF Next

\* Only a closed stopDone tells a caller of Stop that it is over.
LEMMA StopDoneFrame ==
  ASSUME IInv, NEW s \in Stoppers, ~StopDone(s),
         UNCHANGED <<sc, stopChan>>, closed' \subseteq closed \cup Attempts \cup {None},
         None \notin closed'
  PROVE  ~StopDone(s)'
<1>1. stopChan[s] \in Stops \cup {None}
  BY DEF IInv, TypeOK
<1> QED
  BY <1>1, ServiceAssumption DEF StopDone

\* A Stop is over only when the service is down: it was, or its stop() has finished.
LEMMA StopBecomesDone ==
  ASSUME IInv, [Next]_vars, NEW s \in Stoppers, ~StopDone(s), StopDone(s)'
  PROVE  Still'
<1>0. None \notin closed'
  BY NextPreserves DEF IInv, ChannelsInv
<1> TypeOK /\ WorkersInv /\ StoppersInv /\ ProcessesInv /\ ChannelsInv
  BY DEF IInv
<1>1. CASE UNCHANGED vars
  BY <1>1, <1>0, StopDoneFrame DEF vars, serviceVars, scVars, signalVars, chanVars
<1>2. ASSUME NEW c \in Callers,
             \/ Acquire(c)
             \/ (AcquireStep(c) \/ Release(c)) /\ UNCHANGED supVars
             \/ Cancel(c) /\ UNCHANGED <<closing, op, opAct, opKillErr, seen>>
      PROVE  Still'
  <2>1. UNCHANGED <<sc, stopChan, closed>>
    BY <1>2 DEF Acquire, AcquireStep, AcquireRefused, AcquireRunning, AcquireStart,
       AcquireJoin, AcquireCheck, Release, Cancel, AcquireCanceled, scVars, signalVars, chanVars
  <2> QED
    BY <2>1, <1>0, StopDoneFrame
<1>3. ASSUME NEW a \in Attempts,
             (WorkerStep(a) \/ WatchExit(a) \/ ProcessStep(a)) /\ UNCHANGED supVars
      PROVE  Still'
  <2>1. UNCHANGED <<sc, stopChan>> /\ closed' \subseteq closed \cup Attempts
    BY <1>3 DEF WorkerStep, BuildDone, BuildFails, LaunchOk, LaunchFails, Record, Ready,
       NotReady, Reap, Fail, WatchExit, ProcessStep, ContextKills, ProcessExits, Close,
       scVars, signalVars, chanVars
  <2> QED
    BY <2>1, <1>0, StopDoneFrame
<1>4. ASSUME NEW k \in Stops, StopperStep(k) /\ UNCHANGED supVars
      PROVE  Still'
  <2>1. CASE StopFinish(k)
    <3>1. state' \in {"Stopped", "Failed"} /\ UNCHANGED <<worker, proc>>
      BY <2>1 DEF StopFinish, StopOutcome, attemptVars
    <3>2. Quiet /\ \A a \in Attempts : ~AtWork(a)
      BY <2>1 DEF StopFinish, StoppersInv, ProcessesInv
    <3> QED
      BY <3>1, <3>2 DEF Still, Down, Quiet, Alive, AtWork
  <2>2. CASE ~StopFinish(k)
    <3>1. UNCHANGED <<sc, stopChan, closed>>
      BY <1>4, <2>2 DEF StopperStep, StopRead, StopJoin, StopSignal, StopAwait, scVars,
         signalVars, chanVars
    <3> QED
      BY <3>1, <1>0, StopDoneFrame
  <2> QED
    BY <2>1, <2>2
<1>5. CASE IdleStep /\ UNCHANGED supVars
  <2>1. UNCHANGED <<sc, stopChan>> /\ closed' \subseteq closed \cup Attempts \cup {None}
    BY <1>5 DEF IdleStep, TimerFires, IdleCallback, BeginStop, AbandonStart, Close,
       scVars, signalVars, chanVars, TypeOK
  <2> QED
    BY <2>1, <1>0, StopDoneFrame
<1>6. ASSUME NEW t \in Stoppers,
             \/ StopStep(t) /\ UNCHANGED supVars
             \/ Abandon(t) /\ UNCHANGED <<closing, op, opAct, opKillErr, seen>>
      PROVE  Still'
  <2>0. sc \in [Stoppers -> StopPCs] /\ stopChan \in [Stoppers -> Stops \cup {None}]
    BY DEF TypeOK
  <2>1. CASE StopCall(t)
    <3>1. closed' \subseteq closed \cup Attempts \cup {None} /\ closed \subseteq closed'
      BY <2>1 DEF StopCall, BeginStop, AbandonStart, Close, signalVars, chanVars, TypeOK
    <3>2. CASE t # s
      <4>1. sc'[s] = sc[s] /\ stopChan'[s] = stopChan[s]
        BY <2>0, <2>1, <3>2 DEF StopCall, Returns, Waits
      <4> QED
        BY <4>1, <3>1, <1>0, ServiceAssumption DEF StopDone, TypeOK
    <3>3. CASE t = s /\ state = "Stopped"
      BY <2>1, <3>3 DEF StopCall, BeginStop, WorkersInv, ProcessesInv, Still, Down, Quiet, Alive,
         AtWork, lockVars, attemptVars
    <3>4. CASE t = s /\ state # "Stopped"
      <4>1. PICK k \in Stops : Waits(s, k) /\ k \notin closed
        BY <2>1, <3>4 DEF StopCall, BeginStop, StoppersInv, ChannelsInv, Stopping, TypeOK
      <4>2. sc'[s] = "wait" /\ stopChan'[s] = k
        BY <2>0, <4>1 DEF Waits
      <4> QED
        BY <4>1, <4>2, <3>1, ServiceAssumption DEF StopDone
    <3> QED
      BY <3>2, <3>3, <3>4
  <2>2. CASE StopWoken(t) \/ Abandon(t)
    <3>1. UNCHANGED closed
      BY <2>2 DEF StopWoken, Abandon, StopAbandoned, signalVars, chanVars
    <3>2. CASE t # s
      <4>1. sc'[s] = sc[s] /\ stopChan'[s] = stopChan[s]
        BY <2>0, <2>2, <3>2 DEF StopWoken, Abandon, StopAbandoned, Returns
      <4> QED
        BY <4>1, <3>1 DEF StopDone
    <3>3. CASE t = s
      <4>1. ~StopWoken(s)
        BY DEF StopWoken, StopDone
      <4>2. sc'[s] = "ctx"
        BY <2>0, <2>2, <3>3, <4>1 DEF Abandon, StopAbandoned, Returns
      <4> QED
        BY <4>2 DEF StopDone
    <3> QED
      BY <3>2, <3>3
  <2> QED
    BY <1>6, <2>1, <2>2 DEF StopStep
<1>7. CASE \E act \in OpActions : ActionBegin(act)
  BY <1>7, <1>0, StopDoneFrame DEF ActionBegin, serviceVars, scVars, signalVars, chanVars
<1>8. CASE OperatorStep
  <2>0. sc \in [Stoppers -> StopPCs]
    BY DEF TypeOK
  <2>1. UNCHANGED <<closed, stopChan>> /\ (sc'[s] = sc[s] \/ sc'[s] = "call")
    BY <1>8, <2>0 DEF OperatorStep, ActionMark, ActionStopped, ActionClear, ActionReturn,
       serviceVars, scVars, signalVars, chanVars
  <2> QED
    BY <2>1 DEF StopDone
<1>9. CASE StopAllClose \/ StopAllCancel
  <2>0. sc \in [Stoppers -> StopPCs]
    BY DEF TypeOK
  <2>1. UNCHANGED <<closed, stopChan>> /\ (sc'[s] = sc[s] \/ sc'[s] = "call")
    BY <1>9, <2>0 DEF StopAllClose, StopAllCancel, serviceVars, scVars, signalVars, chanVars
  <2> QED
    BY <2>1 DEF StopDone
<1> QED
  BY <1>1, <1>2, <1>3, <1>4, <1>5, <1>6, <1>7, <1>8, <1>9 DEF Next

\* Only the operator's own actions change op, manualStopped and its Stop, but for the
\* Stop coming to its end.
LEMMA InhibitPreserved ==
  ASSUME IInv, InhibitInv, [Next]_vars
  PROVE  InhibitInv'
<1> TypeOK
  BY DEF IInv
<1> Operator \in Stoppers /\ Shutdown \in Stoppers /\ Operator # Shutdown
  BY SupervisorAssumption
<1> USE DEF InhibitInv, inhibitVars, scVars, opVars, supVars
<1>1. CASE UNCHANGED <<sc, op, inhibitVars>>
  BY <1>1
<1>2. ASSUME NEW s \in Stoppers,
             \/ StopStep(s) /\ UNCHANGED supVars
             \/ Abandon(s) /\ UNCHANGED <<closing, op, opAct, opKillErr, seen>>
      PROVE  InhibitInv'
  <2>1. UNCHANGED <<op, inhibitVars>>
    BY <1>2 DEF StopStep, StopCall, StopWoken, Abandon, StopAbandoned
  <2>2. sc[s] \in {"call", "wait"} /\ \A t \in Stoppers : t # s => sc'[t] = sc[t]
    BY <1>2 DEF StopStep, StopCall, StopWoken, Abandon, StopAbandoned, Returns, Waits, TypeOK
  <2> QED
    BY <2>1, <2>2
<1>3. CASE ActionMark
  BY <1>3 DEF ActionMark, TypeOK
<1>4. CASE ActionStopped
  BY <1>4 DEF ActionStopped, serviceVars
<1>5. CASE ActionClear
  BY <1>5 DEF ActionClear
<1>6. CASE ActionReturn
  BY <1>6 DEF ActionReturn, serviceVars
<1>7. CASE StopAllCancel
  BY <1>7 DEF StopAllCancel, TypeOK
<1>8. ASSUME NEW act \in OpActions, ActionBegin(act)
      PROVE  InhibitInv'
  BY <1>8 DEF ActionBegin, serviceVars
<1>9. ASSUME NEW c \in Callers,
             \/ Acquire(c)
             \/ (AcquireStep(c) \/ Release(c)) /\ UNCHANGED supVars
             \/ Cancel(c) /\ UNCHANGED <<closing, op, opAct, opKillErr, seen>>
      PROVE  InhibitInv'
  BY <1>9, <1>1 DEF Acquire, AcquireStep, AcquireRefused, AcquireRunning, AcquireStart,
     AcquireJoin, AcquireCheck, Release, Cancel, AcquireCanceled
<1>10. ASSUME NEW a \in Attempts,
              (WorkerStep(a) \/ WatchExit(a) \/ ProcessStep(a)) /\ UNCHANGED supVars
       PROVE  InhibitInv'
  BY <1>10, <1>1 DEF WorkerStep, BuildDone, BuildFails, LaunchOk, LaunchFails, Record, Ready,
     NotReady, Reap, Fail, WatchExit, ProcessStep, ContextKills, ProcessExits
<1>11. ASSUME NEW k \in Stops, StopperStep(k) /\ UNCHANGED supVars
       PROVE  InhibitInv'
  BY <1>11, <1>1 DEF StopperStep, StopRead, StopJoin, StopSignal, StopAwait, StopFinish
<1>12. CASE IdleStep /\ UNCHANGED supVars
  BY <1>12, <1>1 DEF IdleStep, TimerFires, IdleCallback
<1>13. CASE StopAllClose \/ UNCHANGED vars
  BY <1>13, <1>1 DEF StopAllClose, vars, serviceVars
<1> QED
  BY <1>2, <1>3, <1>4, <1>5, <1>6, <1>7, <1>8, <1>9, <1>10, <1>11, <1>12, <1>13
  DEF Next, OperatorStep

\* manualStopped is set as the operator's Stop begins, and a Stop never ends twice.
LEMMA MarkedBeforeStop ==
  ASSUME IInv, [Next]_vars, ~manualStopped, manualStopped'
  PROVE  ~StopDone(Operator)'
<1>1. ActionMark
  <2> USE DEF inhibitVars, supVars
  <2>1. ASSUME NEW c \in Callers,
               \/ Acquire(c)
               \/ (AcquireStep(c) \/ Release(c)) /\ UNCHANGED supVars
               \/ Cancel(c) /\ UNCHANGED <<closing, op, opAct, opKillErr, seen>>
        PROVE  FALSE
    BY <2>1 DEF Acquire, AcquireStep, AcquireRefused, AcquireRunning, AcquireStart,
       AcquireJoin, AcquireCheck, Release, Cancel, AcquireCanceled
  <2>2. ASSUME NEW a \in Attempts,
               (WorkerStep(a) \/ WatchExit(a) \/ ProcessStep(a)) /\ UNCHANGED supVars
        PROVE  FALSE
    BY <2>2 DEF WorkerStep, BuildDone, BuildFails, LaunchOk, LaunchFails, Record, Ready,
       NotReady, Reap, Fail, WatchExit, ProcessStep, ContextKills, ProcessExits
  <2>3. ASSUME NEW k \in Stops, StopperStep(k) /\ UNCHANGED supVars
        PROVE  FALSE
    BY <2>3 DEF StopperStep, StopRead, StopJoin, StopSignal, StopAwait, StopFinish
  <2>4. ASSUME NEW s \in Stoppers,
               \/ StopStep(s) /\ UNCHANGED supVars
               \/ Abandon(s) /\ UNCHANGED <<closing, op, opAct, opKillErr, seen>>
        PROVE  FALSE
    BY <2>4 DEF StopStep, StopCall, StopWoken, Abandon, StopAbandoned
  <2>5. ~IdleStep
    BY DEF IdleStep, TimerFires, IdleCallback
  <2>6. ~\E act \in OpActions : ActionBegin(act)
    BY DEF ActionBegin, serviceVars
  <2>7. ~(ActionStopped \/ ActionClear \/ ActionReturn \/ StopAllClose \/ StopAllCancel)
    BY DEF ActionStopped, ActionClear, ActionReturn, StopAllClose, StopAllCancel, serviceVars
  <2>8. ~UNCHANGED vars
    BY DEF vars, serviceVars
  <2> QED
    BY <2>1, <2>2, <2>3, <2>4, <2>5, <2>6, <2>7, <2>8 DEF Next, OperatorStep
<1>2. Operator \in Stoppers /\ TypeOK
  BY SupervisorAssumption DEF IInv
<1>3. sc' = [sc EXCEPT ![Operator] = "call"]
  BY <1>1 DEF ActionMark
<1>4. sc'[Operator] = "call"
  BY <1>2, <1>3 DEF TypeOK
<1> QED
  BY <1>4 DEF StopDone

\* Each Stop comes to its end with the service down, and nothing then disturbs that.
LEMMA HoldPreserved ==
  ASSUME IInv, HoldInv, [Next]_vars
  PROVE  HoldInv'
<1> Operator \in Stoppers /\ Shutdown \in Stoppers
  BY SupervisorAssumption
<1>1. InhibitInv'
  BY InhibitPreserved DEF HoldInv
<1>2. StopDone(Operator)' /\ manualStopped' => Still'
  <2>1. CASE ~StopDone(Operator)
    BY <2>1, StopBecomesDone
  <2>2. CASE StopDone(Operator) /\ manualStopped
    BY <2>2, StillKept DEF HoldInv, Refused
  <2>3. CASE ~manualStopped
    BY <2>3, MarkedBeforeStop
  <2> QED
    BY <2>1, <2>2, <2>3
<1>3. StopDone(Shutdown)' => Still'
  <2>1. CASE ~StopDone(Shutdown)
    BY <2>1, StopBecomesDone
  <2>2. CASE StopDone(Shutdown)
    BY <2>2, StillKept DEF HoldInv, InhibitInv, StopDone, Refused
  <2> QED
    BY <2>1, <2>2
<1> QED
  BY <1>1, <1>2, <1>3 DEF HoldInv

\* A service that an operator or the shutdown has stopped stays as it is.
THEOREM HoldInvariantHolds == Spec => []HoldInv
<1>1. Init => HoldInv
  BY SupervisorAssumption DEF Init, ServiceInit, HoldInv, InhibitInv, StopDone
<1>2. IInv /\ HoldInv /\ [Next]_vars => HoldInv'
  BY HoldPreserved
<1> QED
  BY <1>1, <1>2, InvariantHolds, PTL DEF Spec

\* Once Stop returned to an operator's stop or kill, the service stays down, with no
\* process, until the operator starts it.
THEOREM OperatorStopHolds == Spec => []ManualStopHolds
<1>1. HoldInv => ManualStopHolds
  BY DEF HoldInv, StopDone, Still, ManualStopHolds
<1> QED
  BY <1>1, HoldInvariantHolds, PTL

\* Once StopAll waited for the stop of a service, it stays down, with no process.
THEOREM StopAllHolds == Spec => []ShutdownHolds
<1>1. HoldInv => ShutdownHolds
  BY DEF HoldInv, StopDone, Still, ShutdownHolds
<1> QED
  BY <1>1, HoldInvariantHolds, PTL

\* A running service fails by the watcher of its own process: whoever else sets Failed
\* is a worker or a stop(), and there is none while it runs.
LEMMA FailureIsAnExit ==
  ASSUME IInv, [Next]_vars, state = "Running", state' = "Failed"
  PROVE  process # None /\ Exited(process)
<1> TypeOK /\ WorkersInv /\ StoppersInv
  BY DEF IInv
<1> \A a \in Attempts : ~AtWork(a)
  BY DEF WorkersInv
<1> \A k \in Stops : ~Stopping(k)
  BY DEF StoppersInv
<1> USE DEF lockVars
<1>1. ASSUME NEW c \in Callers,
             \/ Acquire(c)
             \/ (AcquireStep(c) \/ Release(c)) /\ UNCHANGED supVars
             \/ Cancel(c) /\ UNCHANGED <<closing, op, opAct, opKillErr, seen>>
      PROVE  FALSE
  BY <1>1 DEF Acquire, AcquireStep, AcquireRefused, AcquireRunning, AcquireStart,
     AcquireJoin, AcquireCheck, Release, Cancel, AcquireCanceled
<1>2. ASSUME NEW a \in Attempts, WorkerStep(a) \/ ProcessStep(a)
      PROVE  FALSE
  BY <1>2 DEF AtWork, WorkerStep, BuildDone, BuildFails, LaunchOk, LaunchFails, Record, Ready,
     NotReady, Reap, Fail, ProcessStep, ContextKills, ProcessExits
<1>3. ASSUME NEW k \in Stops, StopperStep(k)
      PROVE  FALSE
  BY <1>3 DEF Stopping, StopperStep, StopRead, StopJoin, StopSignal, StopAwait, StopFinish
<1>4. ASSUME NEW s \in Stoppers, StopStep(s) \/ Abandon(s)
      PROVE  FALSE
  BY <1>4 DEF StopStep, StopCall, StopWoken, Abandon, StopAbandoned, BeginStop
<1>5. ~IdleStep
  BY DEF IdleStep, TimerFires, IdleCallback, BeginStop
<1>6. ~\E act \in OpActions : ActionBegin(act)
  BY DEF ActionBegin, serviceVars
<1>7. ~(OperatorStep \/ StopAllClose \/ StopAllCancel \/ UNCHANGED vars)
  BY DEF OperatorStep, ActionMark, ActionStopped, ActionClear, ActionReturn, StopAllClose,
     StopAllCancel, serviceVars, vars
<1>8. PICK a \in Attempts : WatchExit(a)
  BY <1>1, <1>2, <1>3, <1>4, <1>5, <1>6, <1>7 DEF Next
<1> QED
  BY <1>8, ServiceAssumption DEF WatchExit, WatchApplies

\* A running service becomes failed only when its own current process exited.
THEOREM FailuresAreReal == Spec => NoSpuriousFailure
<1>1. IInv /\ [Next]_vars
        => [state = "Running" /\ state' = "Failed" => process # None /\ Exited(process)]_vars
  BY FailureIsAnExit
<1> QED
  BY <1>1, InvariantHolds, PTL DEF Spec, NoSpuriousFailure
-----------------------------------------------------------------------------
(* The errors that Acquire reports.                                        *)

\* An error that was recorded will not be recorded again: its attempt, its watcher or
\* its stop() is over.
Recorded(e) ==
  e # None =>
    /\ \A a \in Attempts : /\ e = <<"failed", a>> => worker[a] = "done"
                           /\ e = <<"exited", a>> => worker[a] = "done" /\ a \notin watch
    /\ \A k \in Stops : e = <<"stop", k>> => stopper[k] = "done"

\* The error of a failed service is not one that a caller who waits has seen recorded.
ErrorInv ==
  /\ \A a \in watch : worker[a] = "done"
  /\ Recorded(startErr) /\ \A c \in Callers : Recorded(seen[c])
  /\ \A c \in Callers : pc[c] = "wait" /\ StartFailed => startErr # seen[c]

\* Goroutines that are over stay so, and what they have recorded remains recorded.
LEMMA RecordedKept ==
  ASSUME \A a \in Attempts : worker[a] = "done" => worker'[a] = "done",
         \A a \in Attempts : worker[a] = "done" /\ a \notin watch => a \notin watch',
         \A k \in Stops : stopper[k] = "done" => stopper'[k] = "done",
         NEW e, Recorded(e)
  PROVE  Recorded(e)'
  BY DEF Recorded

\* Steps that record nothing.
LEMMA ErrorFrame ==
  ASSUME ErrorInv, UNCHANGED <<worker, watch, stopper, state, startErr, seen>>,
         \A c \in Callers : pc'[c] = "wait" => pc[c] = "wait" \/ state # "Failed"
  PROVE  ErrorInv'
  BY DEF ErrorInv, Recorded, StartFailed

\* Acquire takes note of the error recorded before it, and waits only for what is to come.
LEMMA CallerErrors ==
  ASSUME IInv, ErrorInv, NEW c \in Callers,
         \/ Acquire(c)
         \/ (AcquireStep(c) \/ Release(c)) /\ UNCHANGED supVars
         \/ Cancel(c) /\ UNCHANGED <<closing, op, opAct, opKillErr, seen>>
  PROVE  ErrorInv'
<1> TypeOK /\ SupervisorTypeOK
  BY DEF IInv
<1> USE DEF TypeOK, attemptVars, stopperVars, lockVars, startVars, supVars
<1>1. CASE Acquire(c)
  <2>1. UNCHANGED <<worker, watch, stopper, state, startErr>>
    BY <1>1 DEF Acquire
  <2>2. seen' = [seen EXCEPT ![c] = startErr] /\ pc'[c] # "wait"
          /\ \A d \in Callers : d # c => pc'[d] = pc[d]
    BY <1>1 DEF Acquire, Leave
  <2>3. \A d \in Callers : seen'[d] = IF d = c THEN startErr ELSE seen[d]
    BY <2>2 DEF SupervisorTypeOK
  <2>4. ASSUME NEW d \in Callers PROVE Recorded(seen[d])'
    <3>1. CASE d = c
      BY <2>1, <2>3, <3>1 DEF ErrorInv, Recorded
    <3>2. CASE d # c
      BY <2>1, <2>3, <3>2 DEF ErrorInv, Recorded
    <3> QED
      BY <3>1, <3>2
  <2>5. \A d \in Callers : pc'[d] = "wait" => pc[d] = "wait" /\ seen'[d] = seen[d]
    BY <2>2, <2>3
  <2> QED
    BY <2>1, <2>4, <2>5 DEF ErrorInv, Recorded, StartFailed
<1>2. CASE AcquireStart(c) /\ UNCHANGED supVars
  <2>1. state' = "Building" /\ startErr' = None /\ UNCHANGED <<watch, stopper, seen>>
    BY <1>2 DEF AcquireStart
  <2>2. \A a \in Attempts : worker[a] = "done" => worker'[a] = "done"
    BY <1>2 DEF AcquireStart
  <2>3. Recorded(startErr)'
    BY <2>1 DEF Recorded
  <2>4. \A d \in Callers : Recorded(seen[d])'
    BY <2>1, <2>2 DEF ErrorInv, Recorded
  <2> QED
    BY <2>1, <2>2, <2>3, <2>4 DEF ErrorInv, StartFailed
<1>3. CASE \/ (\/ AcquireRefused(c) \/ AcquireRunning(c) \/ AcquireJoin(c)
               \/ AcquireCheck(c) \/ Release(c)) /\ UNCHANGED supVars
           \/ Cancel(c) /\ UNCHANGED <<closing, op, opAct, opKillErr, seen>>
  <2>1. UNCHANGED <<worker, watch, stopper, state, startErr, seen>>
    BY <1>3 DEF AcquireRefused, AcquireRunning, AcquireJoin, AcquireCheck, Release, Cancel,
       AcquireCanceled
  <2>2. \A d \in Callers : pc'[d] = "wait" => pc[d] = "wait" \/ state # "Failed"
    BY <1>3 DEF AcquireRefused, AcquireRunning, AcquireJoin, AcquireCheck, Release, Cancel,
       AcquireCanceled, Leave, Await, Launching
  <2> QED
    BY <2>1, <2>2, ErrorFrame
<1> QED
  BY <1>1, <1>2, <1>3 DEF AcquireStep

\* A start fails with an error of its own.
LEMMA WorkerErrors ==
  ASSUME IInv, ErrorInv, NEW a \in Attempts, WorkerStep(a), UNCHANGED supVars
  PROVE  ErrorInv'
<1> TypeOK /\ SupervisorTypeOK
  BY DEF IInv
<1>0. UNCHANGED <<seen, stopper, pc>> /\ worker[a] # "done"
        /\ \A b \in Attempts : worker[b] = "done" => worker'[b] = "done"
  BY DEF WorkerStep, BuildDone, BuildFails, LaunchOk, LaunchFails, Record, Ready, NotReady,
     Reap, Fail, Step, supVars, stopperVars, callVars, TypeOK
<1>1. CASE Fail(a) /\ ~Superseded(a)
  <2>1. /\ UNCHANGED watch
        /\ state' = "Failed" /\ startErr' = <<"failed", a>> /\ worker'[a] = "done"
    BY <1>1 DEF Fail, Step, TypeOK
  <2>2. Recorded(startErr)'
    BY <1>0, <2>1 DEF Recorded
  <2>3. \A c \in Callers : Recorded(seen[c])'
    BY <1>0, <2>1 DEF ErrorInv, Recorded
  <2>4. \A c \in Callers : startErr' # None => startErr' # seen'[c]
    BY <1>0, <2>1 DEF ErrorInv, Recorded
  <2>5. \A b \in watch' : worker'[b] = "done"
    BY <1>0, <2>1 DEF ErrorInv, TypeOK
  <2> QED
    BY <2>2, <2>3, <2>4, <2>5 DEF ErrorInv, StartFailed
<1>2. CASE Ready(a)
  <2>1. worker'[a] = "done" /\ watch' \subseteq watch \cup {a}
    BY <1>2 DEF Ready, Step, Watched, TypeOK
  <2>2. /\ state' \in {state, "Running"} /\ startErr' \in {startErr, None}
        /\ state' = "Failed" => state = "Failed" /\ startErr' = startErr
    BY <1>2 DEF Ready
  <2>3. \A c \in Callers : Recorded(seen[c])'
    BY <1>0, <2>1 DEF ErrorInv, Recorded
  <2>4. Recorded(startErr)'
    BY <1>0, <2>1, <2>2 DEF ErrorInv, Recorded
  <2>5. \A b \in watch' : worker'[b] = "done"
    BY <1>0, <2>1 DEF ErrorInv, TypeOK
  <2> QED
    BY <1>0, <2>2, <2>3, <2>4, <2>5 DEF ErrorInv, StartFailed
<1>3. CASE ~(Fail(a) /\ ~Superseded(a)) /\ ~Ready(a)
  <2>1. UNCHANGED <<startErr, watch>> /\ (state' = "Failed" => state = "Failed")
    BY <1>3 DEF WorkerStep, BuildDone, BuildFails, LaunchOk, LaunchFails, Record, NotReady,
       Reap, Fail, lockVars, startVars
  <2>2. Recorded(startErr)' /\ \A c \in Callers : Recorded(seen[c])'
    BY <1>0, <2>1 DEF ErrorInv, Recorded
  <2>3. \A b \in watch' : worker'[b] = "done"
    BY <1>0, <2>1 DEF ErrorInv, TypeOK
  <2> QED
    BY <1>0, <2>1, <2>2, <2>3 DEF ErrorInv, StartFailed
<1> QED
  BY <1>1, <1>2, <1>3

\* An exit is reported once.
LEMMA WatchErrors ==
  ASSUME IInv, ErrorInv, NEW a \in Attempts, WatchExit(a), UNCHANGED supVars
  PROVE  ErrorInv'
<1> TypeOK
  BY DEF IInv
<1>0. UNCHANGED <<seen, stopper, pc, worker>> /\ a \in watch /\ watch' = watch \ {a}
  BY DEF WatchExit, supVars, stopperVars, callVars
<1>1. CASE WatchApplies(a)
  <2>1. state' = "Failed" /\ startErr' = <<"exited", a>>
    BY <1>1 DEF WatchExit
  <2>2. Recorded(startErr)' /\ \A c \in Callers : Recorded(seen[c])'
    BY <1>0, <2>1 DEF ErrorInv, Recorded
  <2>3. \A c \in Callers : startErr' # None => startErr' # seen'[c]
    BY <1>0, <2>1 DEF ErrorInv, Recorded
  <2> QED
    BY <1>0, <2>1, <2>2, <2>3 DEF ErrorInv, StartFailed
<1>2. CASE ~WatchApplies(a)
  BY <1>0, <1>2 DEF WatchExit, ErrorInv, Recorded, StartFailed
<1> QED
  BY <1>1, <1>2

\* A stop command fails with an error of its stop.
LEMMA StopperErrors ==
  ASSUME IInv, ErrorInv, NEW k \in Stops, StopperStep(k), UNCHANGED supVars
  PROVE  ErrorInv'
<1> TypeOK
  BY DEF IInv
<1>0. UNCHANGED <<seen, pc, worker, watch>> /\ stopper[k] # "done"
        /\ \A j \in Stops : stopper[j] = "done" => stopper'[j] = "done"
  <2>1. \E next \in StopperPCs : stopper' = [stopper EXCEPT ![k] = next]
    BY DEF StopperStep, StopRead, StopJoin, StopSignal, StopAwait, StopFinish, Advance,
       StopperPCs
  <2>2. stopper[k] # "done"
    BY DEF StopperStep, StopRead, StopJoin, StopSignal, StopAwait, StopFinish, GraceExpired
  <2>3. UNCHANGED <<seen, pc, worker, watch>>
    BY DEF StopperStep, StopRead, StopJoin, StopSignal, StopAwait, StopFinish, supVars,
       attemptVars, callVars
  <2> QED
    BY <2>1, <2>2, <2>3 DEF TypeOK
<1>1. \A c \in Callers : Recorded(seen[c])'
  BY <1>0 DEF ErrorInv, Recorded
<1>2. CASE StopFinish(k)
  <2>1. stopper'[k] = "done"
          /\ \/ state' = "Failed" /\ startErr' = <<"stop", k>>
             \/ state' = "Stopped" /\ startErr' = startErr
    BY <1>2 DEF StopFinish, StopOutcome, Advance, TypeOK
  <2>2. Recorded(startErr)'
    BY <1>0, <2>1 DEF ErrorInv, Recorded
  <2>3. \A c \in Callers : startErr' # None /\ state' = "Failed" => startErr' # seen'[c]
    BY <1>0, <2>1 DEF ErrorInv, Recorded
  <2> QED
    BY <1>0, <1>1, <2>2, <2>3 DEF ErrorInv, StartFailed
<1>3. CASE ~StopFinish(k)
  <2>1. UNCHANGED <<state, startErr>>
    BY <1>3 DEF StopperStep, StopRead, StopJoin, StopSignal, StopAwait, lockVars, startVars
  <2> QED
    BY <1>0, <1>1, <2>1 DEF ErrorInv, Recorded, StartFailed
<1> QED
  BY <1>2, <1>3

\* beginStopLocked tells the callers of an abandoned start ErrClosing; a service that is
\* being stopped has not failed.
LEMMA BeginStopErrors ==
  ASSUME TypeOK, ErrorInv, NEW k \in Stops, BeginStop(k), UNCHANGED <<worker, watch, seen, pc>>
  PROVE  ErrorInv'
<1>1. state' = "Stopping" /\ \A j \in Stops : stopper[j] = "done" => stopper'[j] = "done"
  BY DEF BeginStop, TypeOK
<1>2. startErr' \in {startErr, <<"closing", None>>}
  BY DEF BeginStop, AbandonStart
<1>3. Recorded(startErr)' /\ \A c \in Callers : Recorded(seen[c])'
  BY <1>1, <1>2 DEF ErrorInv, Recorded
<1> QED
  BY <1>1, <1>3 DEF ErrorInv, StartFailed

\* An idle or asked-for stop, and the return of Stop.
LEMMA StopErrors ==
  ASSUME IInv, ErrorInv,
         \/ IdleStep /\ UNCHANGED supVars
         \/ \E s \in Stoppers :
              \/ StopStep(s) /\ UNCHANGED supVars
              \/ Abandon(s) /\ UNCHANGED <<closing, op, opAct, opKillErr, seen>>
  PROVE  ErrorInv'
<1>1. UNCHANGED <<worker, watch, seen, pc>>
  BY DEF IdleStep, TimerFires, IdleCallback, StopStep, StopCall, StopWoken, Abandon,
     StopAbandoned, supVars, attemptVars, callVars
<1>2. CASE \E k \in Stops : BeginStop(k)
  BY <1>1, <1>2, BeginStopErrors DEF IInv
<1>3. CASE ~\E k \in Stops : BeginStop(k)
  <2>1. UNCHANGED <<state, startErr, stopper>>
    BY <1>3 DEF IdleStep, TimerFires, IdleCallback, StopStep, StopCall, StopWoken, Abandon,
       StopAbandoned, lockVars, startVars, stopperVars
  <2> QED
    BY <1>1, <2>1, ErrorFrame
<1> QED
  BY <1>2, <1>3

\* Processes, the operator and StopAll record no error.
LEMMA OtherErrors ==
  ASSUME IInv, ErrorInv,
         \/ \E a \in Attempts : ProcessStep(a) /\ UNCHANGED supVars
         \/ \E act \in OpActions : ActionBegin(act)
         \/ OperatorStep \/ StopAllClose \/ StopAllCancel \/ UNCHANGED vars
  PROVE  ErrorInv'
<1>1. UNCHANGED <<worker, watch, stopper, state, startErr, seen>>
  BY DEF ProcessStep, ContextKills, ProcessExits, ActionBegin, OperatorStep, ActionMark,
     ActionStopped, ActionClear, ActionReturn, StopAllClose, StopAllCancel, vars, serviceVars,
     lockVars, startVars, attemptVars, stopperVars, supVars
<1>2. \A c \in Callers : pc'[c] = "wait" => pc[c] = "wait"
  <2>1. pc' = pc \/ pc' = [pc EXCEPT ![Operator] = "call"]
    BY DEF ProcessStep, ContextKills, ProcessExits, ActionBegin, OperatorStep, ActionMark,
       ActionStopped, ActionClear, ActionReturn, StopAllClose, StopAllCancel, vars,
       serviceVars, callVars
  <2> QED
    BY <2>1 DEF IInv, TypeOK
<1> QED
  BY <1>1, <1>2, ErrorFrame

\* Each error is recorded once, and no caller waits while the one it has seen stands.
THEOREM ErrorInvariantHolds == Spec => []ErrorInv
<1>1. Init => ErrorInv
  BY ServiceAssumption DEF Init, ServiceInit, ErrorInv, Recorded
<1>2. IInv /\ ErrorInv /\ [Next]_vars => ErrorInv'
  BY CallerErrors, WorkerErrors, WatchErrors, StopperErrors, StopErrors, OtherErrors DEF Next
<1> QED
  BY <1>1, <1>2, InvariantHolds, PTL DEF Spec

\* Only a caller that is woken fails, and with the error recorded then.
LEMMA FailsFresh ==
  ASSUME IInv, ErrorInv, [Next]_vars, NEW c \in Callers, pc[c] = "wait", pc'[c] = "failed"
  PROVE  startErr # seen[c]
<1> TypeOK
  BY DEF IInv
<1> USE DEF TypeOK, callVars
<1>1. ASSUME NEW d \in Callers,
             \/ Acquire(d)
             \/ (AcquireStep(d) \/ Release(d)) /\ UNCHANGED supVars
             \/ Cancel(d) /\ UNCHANGED <<closing, op, opAct, opKillErr, seen>>
      PROVE  startErr # seen[c]
  <2>1. AcquireCheck(c)
    BY <1>1 DEF Acquire, AcquireStep, AcquireRefused, AcquireRunning, AcquireStart,
       AcquireJoin, AcquireCheck, Release, Cancel, AcquireCanceled, Leave, Await
  <2>2. StartFailed
    BY <2>1 DEF AcquireCheck, Leave
  <2> QED
    BY <2>2 DEF StartFailed, ErrorInv
<1>2. \/ \E a \in Attempts : WorkerStep(a) \/ WatchExit(a) \/ ProcessStep(a)
      \/ \E k \in Stops : StopperStep(k)
      \/ \E s \in Stoppers : StopStep(s) \/ Abandon(s)
      \/ IdleStep \/ OperatorStep \/ StopAllClose \/ StopAllCancel \/ UNCHANGED vars
      \/ \E act \in OpActions : ActionBegin(act)
      => pc' = pc \/ pc' = [pc EXCEPT ![Operator] = "call"]
  BY DEF WorkerStep, BuildDone, BuildFails, LaunchOk, LaunchFails, Record, Ready, NotReady,
     Reap, Fail, WatchExit, ProcessStep, ContextKills, ProcessExits, StopperStep, StopRead,
     StopJoin, StopSignal, StopAwait, StopFinish, StopStep, StopCall, StopWoken, Abandon,
     StopAbandoned, IdleStep, TimerFires, IdleCallback, OperatorStep, ActionMark,
     ActionStopped, ActionClear, ActionReturn, StopAllClose, StopAllCancel, ActionBegin, vars,
     serviceVars
<1>3. pc' # pc /\ pc' # [pc EXCEPT ![Operator] = "call"]
  OBVIOUS
<1> QED
  BY <1>1, <1>2, <1>3 DEF Next

\* Acquire never fails with an error that was already recorded when it was called.
THEOREM FailuresAreFresh == Spec => FreshError
<1>1. IInv /\ ErrorInv /\ [Next]_vars
        => [\A c \in Callers : pc[c] = "wait" /\ pc'[c] = "failed" => startErr # seen[c]]_vars
  BY FailsFresh
<1> QED
  BY <1>1, InvariantHolds, ErrorInvariantHolds, PTL DEF Spec, FreshError

-----------------------------------------------------------------------------
(* The abstract service *)

\* The abstract variables, as Supervisor.Lazy maps them.
Phase ==
  IF Launching THEN "coming" ELSE IF state = "Running" THEN "up"
    ELSE IF state = "Stopping" THEN "going" ELSE "down"

Live == {a \in Attempts : Alive(a)}

Inhibited == IF lifecycleDone THEN "final" ELSE IF manualStopped THEN "manual" ELSE "no"

LazyStep == [Lazy!LazyNext]_(Lazy!lazyVars)

\* An abstract step in terms of the mapped variables.
LEMMA Mapped ==
  ASSUME \/ UNCHANGED <<Phase, Held, Live, Inhibited>>
         \/ Phase = "down" /\ Inhibited = "no" /\ Phase' = "coming"
              /\ UNCHANGED <<Held, Live, Inhibited>>
         \/ Phase = "coming" /\ Phase' = "up" /\ UNCHANGED <<Held, Live, Inhibited>>
         \/ Phase \in {"coming", "up"} /\ Live = {} /\ Phase' = "down"
              /\ UNCHANGED <<Held, Live, Inhibited>>
         \/ Phase = "up" /\ Held = {} /\ Phase' = "going" /\ UNCHANGED <<Held, Live, Inhibited>>
         \/ Phase # "going" /\ Inhibited # "no" /\ Phase' = "going"
              /\ UNCHANGED <<Held, Live, Inhibited>>
         \/ Phase = "going" /\ Live = {} /\ Phase' = "down" /\ UNCHANGED <<Held, Live, Inhibited>>
         \/ Inhibited' = (IF Inhibited = "final" THEN "final" ELSE "manual")
              /\ Live' \subseteq Live /\ UNCHANGED <<Phase, Held>>
         \/ Inhibited = "manual" /\ Inhibited' = "no" /\ UNCHANGED <<Phase, Held, Live>>
         \/ Inhibited' = "final" /\ UNCHANGED <<Phase, Held, Live>>
         \/ \E a \in Attempts :
              \/ Phase \in {"coming", "going"} /\ Live = {} /\ Live' = {a}
                   /\ UNCHANGED <<Phase, Held, Inhibited>>
              \/ a \in Live /\ Live' = Live \ {a} /\ UNCHANGED <<Phase, Held, Inhibited>>
         \/ \E c \in Callers :
              \/ Phase = "up" /\ Inhibited = "no" /\ Held' = Held \cup {c}
                   /\ UNCHANGED <<Phase, Live, Inhibited>>
              \/ c \in Held /\ Held' = Held \ {c} /\ UNCHANGED <<Phase, Live, Inhibited>>
  PROVE  LazyStep
  BY DEF Phase, Live, Inhibited, LazyStep, Lazy!LazyNext, Lazy!lazyVars, Lazy!Demand, Lazy!Rise,
     Lazy!Fall, Lazy!Retire, Lazy!Order, Lazy!Gone, Lazy!Inhibit, Lazy!Permit,
     Lazy!Finalize, Lazy!Spawn, Lazy!Die, Lazy!Grant, Lazy!Return

\* Steps that leave one of the mapped variables alone.
LEMMA Unseen ==
  /\ UNCHANGED state => Phase' = Phase
  /\ UNCHANGED pc => Held' = Held
  /\ UNCHANGED proc => Live' = Live
  /\ UNCHANGED inhibitVars => Inhibited' = Inhibited
  BY DEF Phase, Launching, Held, Live, Alive, Inhibited, inhibitVars

\* A caller that neither takes nor returns a lease: an Acquire that starts the service
\* is Demand.
LEMMA CallerMaps ==
  ASSUME IInv, NEW c \in Callers,
         \/ Acquire(c) \/ Cancel(c)
         \/ AcquireRefused(c) \/ AcquireStart(c) \/ AcquireJoin(c) \/ AcquireCheck(c)
  PROVE  LazyStep
<1> USE DEF Acquire, AcquireRefused, AcquireStart, AcquireJoin, AcquireCheck, Cancel,
      AcquireCanceled, Leave, Await
<1>0. pc \in [Callers -> CallerPCs]
  BY DEF IInv, TypeOK
<1>1. pc[c] \in {"call", "loop", "wait"} /\ pc'[c] # "held"
        /\ \A d \in Callers : d # c => pc'[d] = pc[d]
  BY <1>0
<1>2. Held' = Held
  BY <1>1 DEF Held
<1>3. UNCHANGED <<proc, inhibitVars>>
  BY DEF attemptVars
<1>4. CASE AcquireStart(c)
  <2>1. Phase = "down" /\ Phase' = "coming" /\ Inhibited = "no"
    BY <1>4 DEF Phase, Launching, Refused, Inhibited
  <2> QED
    BY <1>2, <1>3, <2>1, Unseen, Mapped
<1>5. CASE ~AcquireStart(c)
  <2>1. UNCHANGED state
    BY <1>5 DEF lockVars
  <2> QED
    BY <1>2, <1>3, <2>1, Unseen, Mapped
<1> QED
  BY <1>4, <1>5

\* Grant and Return.
LEMMA LeaseMaps ==
  ASSUME IInv, NEW c \in Callers, AcquireRunning(c) \/ Release(c)
  PROVE  LazyStep
<1> USE DEF AcquireRunning, Release, Leave
<1>0. pc \in [Callers -> CallerPCs]
  BY DEF IInv, TypeOK
<1>1. UNCHANGED <<state, proc, inhibitVars>>
  BY DEF attemptVars
<1>2. CASE AcquireRunning(c)
  <2>1. Held' = Held \cup {c}
    BY <1>0, <1>2 DEF Held
  <2>2. Phase = "up" /\ Inhibited = "no"
    BY <1>2 DEF Phase, Launching, Refused, Inhibited
  <2> QED
    BY <1>1, <2>1, <2>2, Unseen, Mapped
<1>3. CASE Release(c)
  <2>1. c \in Held /\ Held' = Held \ {c}
    BY <1>0, <1>3 DEF Held
  <2> QED
    BY <1>1, <2>1, Unseen, Mapped
<1> QED
  BY <1>2, <1>3

\* A process that is killed or exits is gone: Die, or nothing if it was killed before.
LEMMA DeathMaps ==
  ASSUME IInv, NEW a \in Attempts,
         proc' = proc \/ proc' = Killed(a) \/ proc' = Terminated(a)
           \/ \E result \in {"clean", "error"} : proc' = [proc EXCEPT ![a] = result],
         UNCHANGED <<state, pc, inhibitVars>>
  PROVE  LazyStep
<1>0. proc \in [Attempts -> ProcStates]
  BY DEF IInv, TypeOK
<1>1. Live' = Live \/ (a \in Live /\ Live' = Live \ {a})
  <2>1. CASE proc' = proc
    BY <2>1, Unseen
  <2>2. CASE proc' = Terminated(a)
    BY <1>0, <2>2 DEF Terminated, Live, Alive
  <2>3. CASE proc' = Killed(a)
    BY <1>0, <2>3 DEF Killed, Live, Alive
  <2>4. ASSUME NEW result \in {"clean", "error"}, proc' = [proc EXCEPT ![a] = result]
        PROVE  Live' = Live \/ (a \in Live /\ Live' = Live \ {a})
    BY <1>0, <2>4 DEF Live, Alive
  <2> QED
    BY <2>1, <2>2, <2>3, <2>4
<1> QED
  BY <1>1, Unseen, Mapped

\* The kernel's part: Die.
LEMMA ProcessMaps ==
  ASSUME IInv, NEW a \in Attempts, ProcessStep(a)
  PROVE  LazyStep
<1>1. UNCHANGED <<state, pc, inhibitVars>>
  BY DEF ProcessStep, ContextKills, ProcessExits, lockVars, callVars
<1>2. proc' = Killed(a) \/ \E result \in {"clean", "error"} : proc' = [proc EXCEPT ![a] = result]
  BY DEF ProcessStep, ContextKills, ProcessExits
<1> QED
  BY <1>1, <1>2, DeathMaps

\* start(): the launch is Spawn, readiness is Rise and a failure is Fall.
LEMMA WorkerMaps ==
  ASSUME IInv, NEW a \in Attempts, WorkerStep(a)
  PROVE  LazyStep
<1> TypeOK /\ WorkersInv /\ ProcessesInv /\ ChannelsInv
  BY DEF IInv
<1>1. UNCHANGED <<pc, inhibitVars>>
  BY DEF WorkerStep, BuildDone, BuildFails, LaunchOk, LaunchFails, Record, Ready, NotReady,
     Reap, Fail, callVars
<1>2. CASE BuildDone(a)
  <2>1. UNCHANGED proc /\ Phase' = Phase
    BY <1>2 DEF BuildDone, Phase, Launching
  <2> QED
    BY <1>1, <2>1, Unseen, Mapped
<1>3. CASE LaunchOk(a)
  <2>1. AtWork(a) /\ a = workerDone
    BY <1>3 DEF LaunchOk, AtWork, WorkersInv
  <2>2. Phase \in {"coming", "going"}
    BY <2>1 DEF WorkersInv, Phase, Launching
  <2>3. Live = {}
    BY <1>3, <2>1 DEF ProcessesInv, LaunchOk, Live
  <2>4. Live' = {a}
    BY <1>3, <2>3 DEF LaunchOk, Live, Alive, TypeOK
  <2>5. UNCHANGED state
    BY <1>3 DEF LaunchOk, lockVars
  <2> QED
    BY <1>1, <2>2, <2>3, <2>4, <2>5, Unseen, Mapped
<1>4. CASE BuildFails(a) \/ LaunchFails(a) \/ Record(a) \/ NotReady(a) \/ Reap(a)
  <2>1. UNCHANGED state /\ (proc' = proc \/ proc' = Terminated(a) \/ proc' = Killed(a))
    BY <1>4 DEF BuildFails, LaunchFails, Record, NotReady, Reap, lockVars
  <2> QED
    BY <1>1, <2>1, DeathMaps
<1>5. CASE Ready(a)
  <2>1. UNCHANGED proc
    BY <1>5 DEF Ready
  <2>2. Phase' = Phase \/ (Phase = "coming" /\ Phase' = "up")
    BY <1>5 DEF Ready, Phase, Launching
  <2> QED
    BY <1>1, <2>1, <2>2, Unseen, Mapped
<1>6. CASE Fail(a)
  <2>1. UNCHANGED proc
    BY <1>6 DEF Fail
  <2>2. CASE Superseded(a)
    BY <1>1, <1>6, <2>1, <2>2, Unseen, Mapped DEF Fail
  <2>3. CASE ~Superseded(a)
    <3>1. Phase = "coming" /\ Phase' = "down"
      BY <1>6, <2>3 DEF Fail, Superseded, Phase, Launching
    <3>2. Live = {}
      BY <1>6 DEF Fail, WorkersInv, AtWork, ProcessesInv, Live
    <3> QED
      BY <1>1, <2>1, <3>1, <3>2, Unseen, Mapped
  <2> QED
    BY <2>2, <2>3
<1> QED
  BY <1>2, <1>3, <1>4, <1>5, <1>6 DEF WorkerStep

\* The watcher of the current process: Fall.
LEMMA WatchMaps ==
  ASSUME IInv, NEW a \in Attempts, WatchExit(a)
  PROVE  LazyStep
<1>1. UNCHANGED <<pc, inhibitVars, proc>>
  BY DEF WatchExit, callVars
<1>2. CASE WatchApplies(a)
  <2>1. Phase = "up" /\ Phase' = "down"
    BY <1>2 DEF WatchExit, WatchApplies, Phase, Launching
  <2>2. ~Alive(a) /\ a # None /\ process = a
    BY <1>2, ServiceAssumption DEF WatchExit, WatchApplies, Exited, Alive
  <2>3. Live = {}
    BY <2>2 DEF IInv, ProcessesInv, Live
  <2> QED
    BY <1>1, <2>1, <2>3, Unseen, Mapped
<1>3. CASE ~WatchApplies(a)
  BY <1>1, <1>3, Unseen, Mapped DEF WatchExit
<1> QED
  BY <1>2, <1>3

\* stop() ends as Gone.
LEMMA StopperMaps ==
  ASSUME IInv, NEW k \in Stops, StopperStep(k)
  PROVE  LazyStep
<1> TypeOK /\ StoppersInv /\ ProcessesInv
  BY DEF IInv
<1>1. UNCHANGED <<pc, inhibitVars>>
  BY DEF StopperStep, StopRead, StopJoin, StopSignal, StopAwait, StopFinish, callVars
<1>2. CASE StopFinish(k)
  <2>1. UNCHANGED proc /\ Phase = "going" /\ Phase' = "down" /\ Live = {}
    BY <1>2 DEF StopFinish, StopOutcome, StoppersInv, Stopping, ProcessesInv, Quiet, Live,
       Phase, Launching, attemptVars
  <2> QED
    BY <1>1, <2>1, Unseen, Mapped
<1>3. CASE StopRead(k) \/ StopJoin(k)
  <2>1. UNCHANGED <<state, proc>>
    BY <1>3 DEF StopRead, StopJoin, lockVars, attemptVars
  <2> QED
    BY <1>1, <2>1, Unseen, Mapped
<1>4. CASE StopSignal(k) \/ StopAwait(k)
  <2>1. UNCHANGED state /\ target[k] \in Attempts \cup {None}
          /\ (proc' = proc \/ proc' = Terminated(target[k]) \/ proc' = Killed(target[k]))
    BY <1>4 DEF StopSignal, StopAwait, lockVars, TypeOK
  <2>2. CASE proc' = proc \/ target[k] = None
    BY <1>1, <2>1, <2>2, Unseen, Mapped DEF Terminated, Killed
  <2>3. CASE target[k] \in Attempts
    BY <1>1, <2>1, <2>3, DeathMaps
  <2> QED
    BY <2>1, <2>2, <2>3
<1> QED
  BY <1>2, <1>3, <1>4 DEF StopperStep

\* A stop for idleness is Retire.
LEMMA IdleMaps ==
  ASSUME IInv, LeaseInv, IdleStep
  PROVE  LazyStep
<1>1. UNCHANGED <<pc, inhibitVars, proc>>
  BY DEF IdleStep, TimerFires, IdleCallback, callVars, attemptVars
<1>2. CASE UNCHANGED state
  BY <1>1, <1>2, Unseen, Mapped
<1>3. CASE ~UNCHANGED state
  <2>1. PICK g \in fired : IdleCallback(g) /\ IdleDue(g)
    BY <1>3 DEF IdleStep, TimerFires, IdleCallback
  <2>2. Phase = "up" /\ Phase' = "going"
    BY <2>1 DEF IdleCallback, IdleDue, BeginStop, Phase, Launching
  <2>3. Held = {}
    BY <2>1, FS_EmptySet DEF IdleDue, LeaseInv, CountInv
  <2> QED
    BY <1>1, <2>2, <2>3, Unseen, Mapped
<1> QED
  BY <1>2, <1>3

\* Stop, by whoever inhibits the service, is Order.
LEMMA StopMaps ==
  ASSUME IInv, InhibitInv, NEW s \in Stoppers, StopStep(s) \/ Abandon(s)
  PROVE  LazyStep
<1>1. UNCHANGED <<pc, inhibitVars, proc>>
  BY DEF StopStep, StopCall, StopWoken, Abandon, StopAbandoned, callVars, attemptVars
<1>2. CASE UNCHANGED state
  BY <1>1, <1>2, Unseen, Mapped
<1>3. CASE ~UNCHANGED state
  <2>1. sc[s] = "call" /\ state # "Stopping" /\ state' = "Stopping"
    BY <1>3 DEF StopStep, StopCall, StopWoken, Abandon, StopAbandoned, BeginStop, lockVars
  <2>2. Phase # "going" /\ Phase' = "going"
    BY <2>1 DEF Phase, Launching, IInv, TypeOK, States
  <2>3. Inhibited # "no"
    BY <2>1, SupervisorAssumption DEF InhibitInv, Inhibited
  <2> QED
    BY <1>1, <2>2, <2>3, Unseen, Mapped
<1> QED
  BY <1>2, <1>3

\* The operator's actions: Inhibit and Permit.  StopAll: Finalize.
LEMMA OperatorMaps ==
  ASSUME IInv, LeaseInv,
         \/ OperatorStep \/ StopAllClose \/ StopAllCancel \/ UNCHANGED vars
         \/ \E act \in OpActions : ActionBegin(act)
  PROVE  LazyStep
<1> TypeOK
  BY DEF IInv
<1>1. UNCHANGED state
  BY DEF OperatorStep, ActionMark, ActionStopped, ActionClear, ActionReturn, StopAllClose,
     StopAllCancel, ActionBegin, vars, serviceVars, lockVars
<1>2. CASE UNCHANGED serviceVars
  <2>1. UNCHANGED <<pc, proc, inhibitVars>>
    BY <1>2 DEF serviceVars, callVars, attemptVars
  <2> QED
    BY <1>1, <2>1, Unseen, Mapped
<1>3. CASE ActionMark
  <2>1. UNCHANGED pc /\ UNCHANGED lifecycleDone
    BY <1>3 DEF ActionMark, callVars
  <2>2. CASE opAct = "kill" /\ HasStop
    BY <1>1, <1>3, <2>1, <2>2, Unseen, Mapped DEF ActionMark, inhibitVars
  <2>3. CASE ~(opAct = "kill" /\ HasStop)
    <3>1. Inhibited' = IF Inhibited = "final" THEN "final" ELSE "manual"
      BY <1>3, <2>1, <2>3 DEF ActionMark, Inhibited
    <3>2. proc' = proc \/ proc' = Killed(process)
      BY <1>3, <2>3 DEF ActionMark
    <3>3. Live' \subseteq Live
      BY <3>2 DEF Killed, Live, Alive, TypeOK
    <3> QED
      BY <1>1, <2>1, <3>1, <3>3, Unseen, Mapped
  <2> QED
    BY <2>2, <2>3
<1>4. CASE ActionClear
  <2>1. UNCHANGED <<proc, lifecycleDone>> /\ manualStopped' = FALSE
    BY <1>4 DEF ActionClear, attemptVars
  <2>2. Inhibited' = Inhibited \/ (Inhibited = "manual" /\ Inhibited' = "no")
    BY <2>1 DEF Inhibited
  <2>3. Held' = Held
    <3>1. pc[Operator] \notin {"held", "call"} /\ pc' = [pc EXCEPT ![Operator] = "call"]
      BY <1>4 DEF ActionClear, LeaseInv, CountInv
    <3> QED
      BY <3>1 DEF Held, TypeOK
  <2> QED
    BY <1>1, <2>1, <2>2, <2>3, Unseen, Mapped
<1>5. CASE StopAllCancel
  <2>1. UNCHANGED <<pc, proc>> /\ Inhibited' = "final"
    BY <1>5 DEF StopAllCancel, callVars, attemptVars, Inhibited
  <2> QED
    BY <1>1, <2>1, Unseen, Mapped
<1> QED
  BY <1>2, <1>3, <1>4, <1>5 DEF OperatorStep, ActionStopped, ActionReturn, StopAllClose,
     ActionBegin, vars

\* Every step of the program is one of the abstract service, or none.
LEMMA StepMaps ==
  ASSUME IInv, LeaseInv, HoldInv, [Next]_vars
  PROVE  LazyStep
<1>1. InhibitInv
  BY DEF HoldInv
<1> QED
  BY <1>1, CallerMaps, LeaseMaps, WorkerMaps, WatchMaps, ProcessMaps, StopperMaps, IdleMaps,
     StopMaps, OperatorMaps
  DEF Next, AcquireStep

\* The service, with its locks, channels, timers and goroutines, does only what the
\* abstract one may do.
THEOREM ServiceIsLazy == Spec => ImplementsLazyService
<1>1. Init => Lazy!LazyInit
  BY DEF Init, ServiceInit, Lazy!LazyInit, Launching, Held, Alive
<1>2. IInv /\ LeaseInv /\ HoldInv /\ [Next]_vars => [Lazy!LazyNext]_(Lazy!lazyVars)
  BY StepMaps DEF LazyStep
<1> QED
  BY <1>1, <1>2, InvariantHolds, LeaseInvariantHolds, HoldInvariantHolds, PTL
  DEF Spec, ImplementsLazyService, Lazy!LazySpec

=============================================================================
