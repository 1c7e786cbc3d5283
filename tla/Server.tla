------------------------------- MODULE Server --------------------------------
(***************************************************************************)
(* The life of the heron process: runServerMode in cmd/heron/main.go, with *)
(* its startUp and tearDown hooks (internal/lifecycle/hooks.go).           *)
(*                                                                         *)
(* Drain.tla, TCPServer.tla and Supervisor.tla model the parts; here each  *)
(* is what runServerMode sees of it: requests in flight, connected clients *)
(* and services that run.  An operator's action that outlives the TUI is   *)
(* left to Supervisor.tla: what it can do to the result of a Stop is there *)
(* (StopReportsOwnResult).                                                 *)
(***************************************************************************)
EXTENDS Integers, FiniteSets

CONSTANTS
  Requests,            \* HTTP requests
  TCPServers,          \* TCP endpoints, with one client each
  Apps,                \* configured services
  StartUp, TearDown    \* numbers of hook commands

ASSUME HooksAssumption == StartUp \in Nat /\ TearDown \in Nat

VARIABLES
  main,                \* where runServerMode is
  signaled,            \* SIGINT or SIGTERM came
  ui,                  \* the TUI's goroutine
  served,              \* history: there were listeners
  command,             \* a hook command is running
  startNext, tearNext, \* the next command of each list
  startFailed, ran,    \* startErr # nil; the tearDown commands that were started
  http,                \* admitted requests
  tcp, shut, current,  \* servers with a client, being shut down, and the one waited for
  service,             \* state of each service
  stops,               \* StopAll's call of Stop for each service
  expired, tearExpired \* the deadlines of the shutdown and of TearDown

hookVars == <<command, startNext, tearNext, startFailed, ran, tearExpired>>
workVars == <<http, tcp, service>>
shutVars == <<shut, current, expired, stops>>
vars     == <<main, signaled, ui, served, hookVars, workVars, shutVars>>

None   == "none"

ASSUME NoneAssumption == None \notin TCPServers

Phases == {"startUp", "listen", "serving", "stopUI", "drain", "tcp", "stopAll",
           "tearDown", "exited"}
Open   == {"serving", "stopUI", "drain", "tcp"}     \* the listeners exist

ServerTypeOK ==
  /\ main \in Phases /\ ui \in {"off", "running", "done"}
  /\ {signaled, served, command, startFailed, expired, tearExpired} \subseteq BOOLEAN
  /\ startNext \in 1..StartUp + 1 /\ tearNext \in 1..TearDown + 1
  /\ ran \subseteq 1..TearDown
  /\ http \subseteq Requests /\ tcp \subseteq TCPServers
  /\ shut \subseteq TCPServers /\ current \in TCPServers \cup {None}
  /\ service \in [Apps -> {"stopped", "running", "stopping", "failed"}]
  /\ stops \in [Apps -> {"none", "waiting", "ok", "error"}]

ServerInit ==
  /\ main = "startUp" /\ signaled = FALSE /\ ui = "off" /\ served = FALSE
  /\ command = FALSE /\ startNext = 1 /\ tearNext = 1 /\ startFailed = FALSE /\ ran = {}
  /\ http = {} /\ tcp = {} /\ shut = {} /\ current = None
  /\ service = [a \in Apps |-> "stopped"] /\ stops = [a \in Apps |-> "none"]
  /\ expired = FALSE /\ tearExpired = FALSE

Signal ==
  /\ main # "exited" /\ ~signaled /\ signaled' = TRUE
  /\ UNCHANGED <<main, ui, served, hookVars, workVars, shutVars>>

-----------------------------------------------------------------------------
(* Hooks.StartUp.  A command of it is killed, or not started, once signaled. *)

StartUpRuns ==
  /\ main = "startUp" /\ ~command /\ startNext <= StartUp /\ ~signaled
  /\ command' = TRUE
  /\ UNCHANGED <<main, signaled, ui, served, startNext, tearNext, startFailed, ran,
                 tearExpired, workVars, shutVars>>

StartUpEnds ==
  /\ main = "startUp" /\ command
  /\ command' = FALSE /\ startNext' = startNext + 1
  /\ UNCHANGED <<main, signaled, ui, served, tearNext, startFailed, ran, tearExpired,
                 workVars, shutVars>>

\* Mutant: TearDown is deferred only after StartUp has succeeded.
StartUpReturns ==
  /\ main = "startUp" /\ startNext <= StartUp /\ (command \/ signaled)
  /\ main' = "exited" /\ command' = FALSE /\ startFailed' = TRUE
  /\ UNCHANGED <<signaled, ui, served, startNext, tearNext, ran, tearExpired, workVars,
                 shutVars>>

StartUpFails ==
  /\ main = "startUp" /\ startNext <= StartUp /\ (command \/ signaled)
  /\ main' = "tearDown" /\ command' = FALSE /\ startFailed' = TRUE
  /\ UNCHANGED <<signaled, ui, served, startNext, tearNext, ran, tearExpired, workVars,
                 shutVars>>

StartUpDone ==
  /\ main = "startUp" /\ startNext > StartUp /\ main' = "listen"
  /\ UNCHANGED <<signaled, ui, served, hookVars, workVars, shutVars>>

-----------------------------------------------------------------------------
(* Serving *)

\* listenLoopbacks; then the servers and, in heron tui, the TUI are started.
Listen ==
  /\ main = "listen"
  /\ \/ main' = "serving" /\ ui' \in {"off", "running"} /\ served' = TRUE
     \/ main' = "tearDown" /\ UNCHANGED <<ui, served>>
  /\ UNCHANGED <<signaled, hookVars, workVars, shutVars>>

\* tui.Run returns: the operator quits or, after cancelUI, it must.
UIEnds ==
  /\ ui = "running" /\ ui' = "done"
  /\ UNCHANGED <<main, signaled, served, hookVars, workVars, shutVars>>

\* The select ends: by the TUI, a signal, or a server's error.
ServingEnds ==
  /\ main = "serving" /\ main' = "stopUI"
  /\ UNCHANGED <<signaled, ui, served, hookVars, workVars, shutVars>>

\* DrainHandler.ServeHTTP: refused while draining.
Admit(r) ==
  /\ main \in {"serving", "stopUI"}
  /\ http' = http \cup {r}
  /\ UNCHANGED <<main, signaled, ui, served, hookVars, tcp, service, shutVars>>

Finish(r) ==
  /\ main # "exited" /\ r \in http
  /\ http' = http \ {r}
  /\ UNCHANGED <<main, signaled, ui, served, hookVars, tcp, service, shutVars>>

\* TCPServer.trackClient: refused after Shutdown.
Connect(s) ==
  /\ main \in Open /\ s \notin shut
  /\ tcp' = tcp \cup {s}
  /\ UNCHANGED <<main, signaled, ui, served, hookVars, http, service, shutVars>>

Disconnect(s) ==
  /\ main # "exited" /\ s \in tcp
  /\ tcp' = tcp \ {s}
  /\ UNCHANGED <<main, signaled, ui, served, hookVars, http, service, shutVars>>

\* Supervisor.Acquire for a request or a connection, or an operator's start.
ServiceStarts(a) ==
  /\ main \in Open /\ service[a] \in {"stopped", "failed"}
  /\ http # {} \/ tcp # {} \/ ui = "running"
  /\ service' = [service EXCEPT ![a] = "running"]
  /\ UNCHANGED <<main, signaled, ui, served, hookVars, http, tcp, shutVars>>

\* An idle stop, or one that the operator asks for.
ServiceStops(a) ==
  /\ main \in Open /\ service[a] \in {"running", "failed"}
  /\ service' = [service EXCEPT ![a] = "stopping"]
  /\ UNCHANGED <<main, signaled, ui, served, hookVars, http, tcp, shutVars>>

\* A stop ends.  If its command has failed the application may still be up, and the
\* service has failed; it also has when a start fails or its process exits.
ServiceEnds(a) ==
  /\ main # "exited"
  /\ \/ service[a] = "running" /\ service' = [service EXCEPT ![a] = "failed"]
     \/ /\ service[a] = "stopping"
        /\ \E end \in {"stopped", "failed"} : service' = [service EXCEPT ![a] = end]
  /\ UNCHANGED <<main, signaled, ui, served, hookVars, http, tcp, shutVars>>

-----------------------------------------------------------------------------
(* Shutting down, under one deadline of stopTimeout + 30s. *)

\* cancelUI and <-uiDone, then DrainServer begins.
UIStopped ==
  /\ main = "stopUI" /\ ui # "running" /\ main' = "drain"
  /\ UNCHANGED <<signaled, ui, served, hookVars, workVars, shutVars>>

Expires ==
  /\ main \in {"drain", "tcp", "stopAll"} /\ ~expired /\ expired' = TRUE
  /\ UNCHANGED <<main, signaled, ui, served, hookVars, workVars, shut, current, stops>>

\* Mutant: the HTTP server is closed, not drained.
DrainedAtOnce == main = "drain"

\* Mutant: the drain has no deadline.
DrainedForSure == http = {}

Drained == http = {} \/ expired

DrainReturns ==
  /\ main = "drain" /\ Drained /\ main' = "tcp"
  /\ UNCHANGED <<signaled, ui, served, hookVars, workVars, shutVars>>

ShutdownTCP(s) ==
  /\ main = "tcp" /\ current = None /\ s \notin shut
  /\ shut' = shut \cup {s} /\ current' = s
  /\ UNCHANGED <<main, signaled, ui, served, hookVars, workVars, expired, stops>>

ShutdownTCPReturns ==
  /\ main = "tcp" /\ current # None
  /\ current \notin tcp \/ expired
  /\ current' = None
  /\ UNCHANGED <<main, signaled, ui, served, hookVars, workVars, shut, expired, stops>>

\* Supervisor.StopAll: services refuse to start, and a goroutine for each calls Stop.
StopAll ==
  /\ main = "tcp" /\ shut = TCPServers /\ current = None
  /\ main' = "stopAll"
  /\ UNCHANGED <<signaled, ui, served, hookVars, workVars, shutVars>>

\* Mutant: what has failed need not be stopped.
StoppedOrFailed(a) == service[a] \in {"stopped", "failed"}

Stopped(a) == service[a] = "stopped"

\* Service.Stop
StopCall(a) ==
  /\ main = "stopAll" /\ stops[a] = "none"
  /\ stops' = [stops EXCEPT ![a] = IF Stopped(a) THEN "ok" ELSE "waiting"]
  /\ service' = [service EXCEPT ![a] = IF Stopped(a) THEN @ ELSE "stopping"]
  /\ UNCHANGED <<main, signaled, ui, served, hookVars, http, tcp, shut, current, expired>>

\* waitForStop, by stopErr or the deadline of the shutdown
StopReturns(a) ==
  /\ main = "stopAll" /\ stops[a] = "waiting"
  /\ \/ service[a] = "stopped" /\ stops' = [stops EXCEPT ![a] = "ok"]
     \/ /\ service[a] = "failed" \/ expired
        /\ stops' = [stops EXCEPT ![a] = "error"]
  /\ UNCHANGED <<main, signaled, ui, served, hookVars, workVars, shut, current, expired>>

\* Mutant: StopAll takes the first result for all.
OneReturned == \E a \in Apps : stops[a] \in {"ok", "error"}

AllReturned == \A a \in Apps : stops[a] \in {"ok", "error"}

StopAllReturns ==
  /\ main = "stopAll" /\ AllReturned /\ main' = "tearDown"
  /\ UNCHANGED <<signaled, ui, served, hookVars, workVars, shutVars>>

-----------------------------------------------------------------------------
(* Hooks.TearDown, under a deadline of its own.  Once that has expired the   *)
(* running command is killed, and the next ones fail without being started.  *)

TearDownRuns ==
  /\ main = "tearDown" /\ ~command /\ tearNext <= TearDown
  /\ IF tearExpired
       THEN tearNext' = tearNext + 1 /\ UNCHANGED <<command, ran>>
       ELSE command' = TRUE /\ ran' = ran \cup {tearNext} /\ UNCHANGED tearNext
  /\ UNCHANGED <<main, signaled, ui, served, startNext, startFailed, tearExpired, workVars,
                 shutVars>>

\* Mutant: a command that fails ends the list.
TearDownGivesUp ==
  /\ main = "tearDown" /\ command
  /\ command' = FALSE /\ tearNext' \in {tearNext + 1, TearDown + 1}
  /\ UNCHANGED <<main, signaled, ui, served, startNext, startFailed, ran, tearExpired,
                 workVars, shutVars>>

\* The command ends, in success or failure.
TearDownEnds ==
  /\ main = "tearDown" /\ command
  /\ command' = FALSE /\ tearNext' = tearNext + 1
  /\ UNCHANGED <<main, signaled, ui, served, startNext, startFailed, ran, tearExpired,
                 workVars, shutVars>>

TearDownExpires ==
  /\ main = "tearDown" /\ ~tearExpired /\ tearExpired' = TRUE
  /\ UNCHANGED <<main, signaled, ui, served, command, startNext, tearNext, startFailed, ran,
                 workVars, shutVars>>

Exit ==
  /\ main = "tearDown" /\ ~command /\ tearNext > TearDown /\ main' = "exited"
  /\ UNCHANGED <<signaled, ui, served, hookVars, workVars, shutVars>>

-----------------------------------------------------------------------------
Clients ==
  \/ \E r \in Requests : Admit(r) \/ Finish(r)
  \/ \E s \in TCPServers : Connect(s) \/ Disconnect(s)
  \/ \E a \in Apps : ServiceStarts(a) \/ ServiceStops(a) \/ ServiceEnds(a)

ShutdownStep ==
  \/ UIStopped \/ DrainReturns \/ ShutdownTCPReturns \/ StopAll \/ StopAllReturns
  \/ \E s \in TCPServers : ShutdownTCP(s)
  \/ \E a \in Apps : StopCall(a) \/ StopReturns(a)

ServerNext ==
  \/ Signal
  \/ StartUpRuns \/ StartUpEnds \/ StartUpFails \/ StartUpDone
  \/ Listen \/ UIEnds \/ ServingEnds \/ Clients
  \/ ShutdownStep \/ Expires
  \/ TearDownRuns \/ TearDownEnds \/ TearDownExpires \/ Exit

ServerSpec == ServerInit /\ [][ServerNext]_vars

\* main's own steps, the deadlines, and what a signal or a deadline brings about: a
\* killed command ends and a canceled TUI returns.  No request, client, service or
\* hook command has to end by itself.
ServerFairness ==
  /\ WF_vars(signaled /\ StartUpFails) /\ WF_vars(StartUpDone) /\ WF_vars(Listen)
  /\ WF_vars(signaled /\ ServingEnds) /\ WF_vars(main = "stopUI" /\ UIEnds)
  /\ WF_vars(ShutdownStep) /\ WF_vars(Expires)
  /\ WF_vars(TearDownRuns) /\ WF_vars(tearExpired /\ TearDownEnds)
  /\ WF_vars(TearDownExpires) /\ WF_vars(Exit)

FairServerSpec == ServerSpec /\ ServerFairness

-----------------------------------------------------------------------------
(* Properties *)

\* Nothing is served, and no service started, unless every startUp command has
\* succeeded (README.md:200: "A failed startUp command aborts startup").
StartUpFirst ==
  main \in Open \/ (\E a \in Apps : service[a] # "stopped")
    => startNext = StartUp + 1 /\ ~startFailed

\* The shutdown asks services to stop only when no request and no TCP client uses them
\* any more, unless the deadline has expired.
StoppedAfterDrain ==
  main \in {"stopAll", "tearDown", "exited"} => expired \/ (http = {} /\ tcp = {})

\* The types, and the order of the phases.
ServerInv == ServerTypeOK /\ StartUpFirst /\ StoppedAfterDrain

\* Every way out of heron, after a failed startUp, listener or server, a signal, or a
\* deadline, attempts every tearDown command whatever became of those before, but those
\* that TearDown's own deadline cuts off (README.md:200); and what it served it has asked
\* every service to stop for.
TornDown ==
  main = "exited" =>
    /\ ran = 1..TearDown \/ tearExpired
    /\ served => \A a \in Apps : stops[a] \in {"ok", "error"}

\* heron leaves no service unless StopAll returns an error for it, and none before the
\* deadline but one whose stop command has failed (service.go:420-423).
CleanExit ==
  served /\ main \in {"tearDown", "exited"} =>
    \A a \in Apps : \/ stops[a] = "ok" /\ service[a] = "stopped"
                    \/ stops[a] = "error" /\ (expired \/ service[a] = "failed")

\* A signal ends heron, whatever requests, clients, services and hook commands do.
SignalExits == signaled ~> main = "exited"

\* README.md:590-592: "3. Stops managed services. 4. Waits for cleanup. 5. Exits."
StopsManagedServices == main = "exited" => \A a \in Apps : service[a] = "stopped"

\* README.md:588-589: "1. Stops accepting new work. 2. Gracefully shuts down the HTTP
\* server."
StopsAcceptingWork ==
  [][(main \in {"drain", "tcp"}) => http' \subseteq http /\ tcp' \subseteq tcp]_vars

\* README.md:200: "every tearDown command is attempted even when an earlier command
\* fails."
EveryTearDownRuns == main = "exited" => ran = 1..TearDown

=============================================================================
