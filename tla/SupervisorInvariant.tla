------------------------ MODULE SupervisorInvariant ------------------------
(***************************************************************************)
(* The inductive invariant behind the safety of Supervisor.tla: who may be *)
(* at work in which state, what each channel field refers to, and which    *)
(* process can be running.  SupervisorProofs.tla proves it.                *)
(***************************************************************************)
EXTENDS Supervisor

AtWork(a)   == worker[a] \notin {"new", "done"}
Stopping(k) == stopper[k] \notin {"new", "done"}

\* At most the last attempt has a worker, and only while the service is being
\* started or stopped; a service being built or started has one.
WorkersInv ==
  /\ \A a \in Attempts : AtWork(a) =>
       /\ a = workerDone
       /\ state \in {"Building", "Starting", "Stopping"}
  /\ state = "Building" =>
       workerDone # None /\ worker[workerDone] \in {"build", "failing"}
  /\ state = "Starting" =>
       /\ workerDone # None
       /\ worker[workerDone] \in {"launch", "record", "ready", "reap", "failing"}
  /\ \A a \in {process, workerDone, startDone} \ {None} : worker[a] # "new"

\* A stop() goroutine exists exactly while the service is stopping, and past
\* its join no worker is left.
StoppersInv ==
  /\ \A k \in Stops : Stopping(k) => state = "Stopping" /\ k = stopDone
  /\ state = "Stopping" => stopDone # None /\ Stopping(stopDone)
  /\ \A k \in Stops : stopper[k] = "join" => joined[k] = workerDone
  /\ \A k \in Stops : stopper[k] \in {"signal", "await", "finish"} =>
       \A a \in Attempts : ~AtWork(a)

\* Only the last attempt's process can be alive, and then its worker still
\* has it in hand or the service records it; what stop() waits for is that.
ProcessesInv ==
  /\ process # None => process = workerDone
  /\ \A a \in Attempts : Alive(a) =>
       /\ a = workerDone
       /\ worker[a] = "record" \/ (worker[a] \in {"ready", "reap", "done"} /\ process = a)
  /\ state \in {"Stopped", "Failed"} => Quiet /\ process = None
  /\ \A k \in Stops : stopper[k] \in {"signal", "await"} => target[k] = process
  /\ \A k \in Stops : stopper[k] = "finish" => Quiet
  /\ \A k \in Stops : stopper[k] = "await" => target[k] # None

\* Which channels are closed.
ChannelsInv ==
  /\ Launching => startDone = workerDone /\ startDone \notin closed
  /\ \A a \in Attempts : worker[a] = "new" => a \notin closed
  /\ \A k \in Stops : k \in closed => stopper[k] = "done"
  /\ None \notin closed

IInv ==
  /\ TypeOK /\ SupervisorTypeOK
  /\ WorkersInv /\ StoppersInv /\ ProcessesInv /\ ChannelsInv
  /\ NoPanic /\ NoLostWaiter

=============================================================================
