-------------------------------- MODULE Drain --------------------------------
(***************************************************************************)
(* Draining of the HTTP server: internal/proxy/drain.go.                   *)
(*                                                                         *)
(* DrainHandler counts admitted requests, ConnectionTracker knows every    *)
(* accepted connection, and DrainServer takes both down.  The connections  *)
(* in Hijacked have been taken over by h2c, and net/http no longer waits   *)
(* for them.  net/http itself is modelled from how DrainServer uses it.    *)
(***************************************************************************)
EXTENDS Integers, FiniteSets

CONSTANTS
  Conns,       \* connections, one request at a time on each
  Hijacked     \* those net/http has given away

ASSUME DrainAssumption == Hijacked \subseteq Conns

VARIABLES
  active, draining, doneCloses, \* DrainHandler; how often done was closed
  handling,                     \* connections with an admitted request
  conn,                         \* per connection: see ConnStates
  tracked, trackerClosed,       \* ConnectionTracker.conns and .closed
  changes,                      \* how many `changed` channels were closed
  listening,                    \* the listeners are open
  ds, waitFrom, toClose,        \* DrainServer: pc; changes seen; CloseAll's list
  ctxDone, shutdownErr, drainErr, waitErr

handlerVars == <<active, draining, doneCloses, handling>>
trackerVars == <<tracked, trackerClosed, changes>>
errVars     == <<shutdownErr, drainErr, waitErr>>
drainVars   == <<ds, waitFrom, toClose, ctxDone, errVars>>
vars        == <<handlerVars, conn, trackerVars, listening, drainVars>>

\* accepted: by the kernel, not yet tracked; open: tracked; served: known to
\* net/http too.
ConnStates == {"none", "accepted", "open", "served", "closed"}
DrainPCs   == {"idle", "begun", "shutdown", "drained", "check", "waiting", "closeAll",
               "closing", "done"}

DrainTypeOK ==
  /\ active \in Nat /\ draining \in BOOLEAN /\ doneCloses \in Nat
  /\ handling \subseteq Conns
  /\ conn \in [Conns -> ConnStates]
  /\ tracked \subseteq Conns /\ trackerClosed \in BOOLEAN /\ changes \in Nat
  /\ listening \in BOOLEAN
  /\ ds \in DrainPCs /\ waitFrom \in Nat /\ toClose \subseteq Conns
  /\ {ctxDone, shutdownErr, drainErr, waitErr} \subseteq BOOLEAN

DrainInit ==
  /\ active = 0 /\ draining = FALSE /\ doneCloses = 0 /\ handling = {}
  /\ conn = [c \in Conns |-> "none"]
  /\ tracked = {} /\ trackerClosed = FALSE /\ changes = 0
  /\ listening = TRUE
  /\ ds = "idle" /\ waitFrom = 0 /\ toClose = {}
  /\ ctxDone = FALSE /\ shutdownErr = FALSE /\ drainErr = FALSE /\ waitErr = FALSE

-----------------------------------------------------------------------------
(* Connections. *)

\* net.Listener.Accept returns, to trackedListener.Accept.
Accept(c) ==
  /\ listening /\ conn[c] = "none"
  /\ conn' = [conn EXCEPT ![c] = "accepted"]
  /\ UNCHANGED <<handlerVars, trackerVars, listening, drainVars>>

\* Mutant: connections are taken after CloseAll.
AddLate == TRUE

Addable == ~trackerClosed

\* ConnectionTracker.add: a late connection is closed at once.
Add(c) ==
  /\ conn[c] = "accepted"
  /\ IF Addable
       THEN /\ conn' = [conn EXCEPT ![c] = "open"]
            /\ tracked' = tracked \cup {c}
            /\ changes' = changes + 1
       ELSE conn' = [conn EXCEPT ![c] = "closed"] /\ UNCHANGED <<tracked, changes>>
  /\ UNCHANGED <<handlerVars, trackerClosed, listening, drainVars>>

\* http.Server learns of the connection after Accept returned it.
Serve(c) ==
  /\ conn[c] = "open"
  /\ conn' = [conn EXCEPT ![c] = "served"]
  /\ UNCHANGED <<handlerVars, trackerVars, listening, drainVars>>

IsOpen(c) == conn[c] \in {"open", "served"}

\* Mutant: the waiters in ConnectionTracker.Wait are not signaled.
RemoveQuietly(c) == tracked' = tracked \ {c} /\ UNCHANGED changes

\* trackedConn.Close's call of ConnectionTracker.remove.
Remove(c) == tracked' = tracked \ {c} /\ changes' = changes + 1

\* The connection ends, and trackedConn.Close runs (once).  net/http closes one
\* of its own only between requests; a hijacked one may break under a request.
Disconnect(c) ==
  /\ IsOpen(c)
  /\ c \in handling => c \in Hijacked
  /\ conn' = [conn EXCEPT ![c] = "closed"]
  /\ Remove(c)
  /\ UNCHANGED <<handlerVars, trackerClosed, listening, drainVars>>

-----------------------------------------------------------------------------
(* DrainHandler. *)

\* Mutant: the flag is not looked at.
AdmitAlways == active >= 0

Admitting == ~draining

\* ServeHTTP admits a request; while draining it answers 503 and changes nothing.
Admit(c) ==
  /\ conn[c] = "served" /\ c \notin handling /\ Admitting
  /\ active' = active + 1
  /\ handling' = handling \cup {c}
  /\ UNCHANGED <<draining, doneCloses, conn, trackerVars, listening, drainVars>>

\* Mutant: every idle moment ends the drain.
LastRequestAnyTime == active = 1

LastRequest == draining /\ active = 1

\* release
Finish(c) ==
  /\ c \in handling
  /\ handling' = handling \ {c}
  /\ active' = active - 1
  /\ doneCloses' = IF LastRequest THEN doneCloses + 1 ELSE doneCloses
  /\ UNCHANGED <<draining, conn, trackerVars, listening, drainVars>>

-----------------------------------------------------------------------------
(* DrainServer. *)

Goto(next) == ds' = next

BeginDrain ==
  /\ ds = "idle" /\ Goto("begun")
  /\ draining' = TRUE
  /\ doneCloses' = IF ~draining /\ active = 0 THEN doneCloses + 1 ELSE doneCloses
  /\ UNCHANGED <<active, handling, conn, trackerVars, listening, waitFrom, toClose,
                 ctxDone, errVars>>

\* http.Server.Shutdown: close the listeners ...
ShutdownBegins ==
  /\ ds = "begun" /\ Goto("shutdown")
  /\ listening' = FALSE
  /\ UNCHANGED <<handlerVars, conn, trackerVars, waitFrom, toClose, ctxDone, errVars>>

\* ... and wait for the connections it knows to end, or for the context.
ShutdownReturns ==
  /\ ds = "shutdown" /\ Goto("drained")
  /\ \/ (\A c \in Conns \ Hijacked : conn[c] # "served") /\ UNCHANGED shutdownErr
     \/ ctxDone /\ shutdownErr' = TRUE
  /\ UNCHANGED <<handlerVars, conn, trackerVars, listening, waitFrom, toClose, ctxDone,
                 drainErr, waitErr>>

Drained == doneCloses > 0

DrainReturns ==
  /\ ds = "drained" /\ Goto("check")
  /\ \/ Drained /\ UNCHANGED drainErr
     \/ ctxDone /\ drainErr' = TRUE
  /\ UNCHANGED <<handlerVars, conn, trackerVars, listening, waitFrom, toClose, ctxDone,
                 shutdownErr, waitErr>>

\* ConnectionTracker.Wait: look, then wait for a change since.
WaitChecks ==
  /\ ds = "check"
  /\ IF tracked = {} THEN Goto("closeAll") /\ UNCHANGED waitFrom
                     ELSE Goto("waiting") /\ waitFrom' = changes
  /\ UNCHANGED <<handlerVars, conn, trackerVars, listening, toClose, ctxDone, errVars>>

WaitWakes ==
  /\ ds = "waiting"
  /\ \/ changes > waitFrom /\ Goto("check") /\ UNCHANGED waitErr
     \/ ctxDone /\ Goto("closeAll") /\ waitErr' = TRUE
  /\ UNCHANGED <<handlerVars, conn, trackerVars, listening, waitFrom, toClose, ctxDone,
                 shutdownErr, drainErr>>

CloseAllBegins ==
  /\ ds = "closeAll" /\ Goto("closing")
  /\ trackerClosed' = TRUE
  /\ toClose' = tracked
  /\ UNCHANGED <<handlerVars, conn, tracked, changes, listening, waitFrom, ctxDone, errVars>>

CloseAllCloses(c) ==
  /\ ds = "closing" /\ c \in toClose
  /\ toClose' = toClose \ {c}
  /\ IF IsOpen(c) THEN conn' = [conn EXCEPT ![c] = "closed"] /\ Remove(c)
                  ELSE UNCHANGED <<conn, tracked, changes>>
  /\ UNCHANGED <<handlerVars, trackerClosed, listening, ds, waitFrom, ctxDone, errVars>>

CloseAllEnds ==
  /\ ds = "closing" /\ toClose = {} /\ Goto("done")
  /\ UNCHANGED <<handlerVars, conn, trackerVars, listening, waitFrom, toClose, ctxDone,
                 errVars>>

ContextExpires ==
  /\ ds \notin {"idle", "done"} /\ ~ctxDone
  /\ ctxDone' = TRUE
  /\ UNCHANGED <<handlerVars, conn, trackerVars, listening, ds, waitFrom, toClose, errVars>>

DrainStep ==
  \/ ShutdownBegins \/ ShutdownReturns \/ DrainReturns \/ WaitChecks \/ WaitWakes
  \/ CloseAllBegins \/ CloseAllEnds \/ \E c \in Conns : CloseAllCloses(c)

DrainNext ==
  \/ \E c \in Conns :
       Accept(c) \/ Add(c) \/ Serve(c) \/ Disconnect(c) \/ Admit(c) \/ Finish(c)
  \/ BeginDrain \/ DrainStep \/ ContextExpires

DrainSpec == DrainInit /\ [][DrainNext]_vars

\* Once the drain has begun, handlers end and clients let go of idle connections
\* (net/http closes its own, and GOAWAY ends the hijacked ones).
DrainFairness ==
  /\ WF_vars(DrainStep)
  /\ \A c \in Conns :
       /\ WF_vars(Add(c)) /\ WF_vars(Serve(c)) /\ WF_vars(Finish(c))
       /\ WF_vars(draining /\ c \notin handling /\ Disconnect(c))

FairDrainSpec == DrainSpec /\ DrainFairness

-----------------------------------------------------------------------------
(* Properties. *)

\* The done channel is closed at most once, by BeginDrain or by the last
\* release: a second close would panic (drain.go:57, 68).
DoneClosedOnce == doneCloses <= 1

\* When done is closed every admitted request has ended, and none is admitted
\* afterwards (the promise of drain.go:49-50).
DrainedMeansIdle == doneCloses > 0 => handling = {}

\* `active` counts the admitted requests that have not ended.
CountsRequests == active = Cardinality(handling)

\* The types, the count and the channel, in whatever order requests and the drain
\* meet (drain.go:30-70).
DrainInv == DrainTypeOK /\ CountsRequests /\ DoneClosedOnce /\ DrainedMeansIdle

\* A connection with an admitted request is cut by DrainServer only after its
\* context expired (drain.go:105-107: "Call it only after new requests are
\* blocked and admitted requests have drained").
NoRequestCut ==
  [][\A c \in Conns : c \in toClose \ toClose' /\ IsOpen(c) /\ c \in handling
       => ctxDone]_vars

\* After DrainServer no connection stays open: those of the tracker are closed,
\* and one accepted while the listeners were closing is not taken any more.
NothingStaysOpen ==
  ds = "done" => \A c \in Conns : ~IsOpen(c)

\* DrainServer misses no wake-up: when requests end and clients leave, it returns
\* without help of its context.
DrainCompletes == draining ~> ds = "done"

=============================================================================
