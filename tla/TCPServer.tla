------------------------------ MODULE TCPServer ------------------------------
(***************************************************************************)
(* One TCP endpoint: internal/proxy/tcp.go.                                *)
(*                                                                         *)
(* Serve accepts clients and starts a handler for each.  A handler holds a *)
(* lease of the service, dials the backend, copies until one side ends, and *)
(* undoes all that in the order of its defers.  Shutdown cancels the       *)
(* handlers' context, closes everything tracked and waits for them.  What  *)
(* runs under s.mu is one action.                                          *)
(***************************************************************************)
EXTENDS Integers, FiniteSets

CONSTANT Clients

VARIABLES
  srv, pending,        \* Serve: pc; the client it has accepted
  listening,           \* the socket is open
  registered,          \* s.listener # nil
  closing, wg,         \* s.closing, with s.ctx cancelled; s.wg
  conns,               \* s.conns
  open,                \* connections not yet closed on our side
  handler, lease,      \* pc of handle(client); those that hold a lease
  sd, toClose          \* Shutdown: pc; its list of connections

serveVars   == <<srv, pending, listening, registered>>
connVars    == <<conns, open>>
handlerVars == <<handler, lease>>
shutVars    == <<closing, sd, toClose>>
vars        == <<serveVars, connVars, handlerVars, shutVars, wg>>

Client(c)  == <<c, "client">>
Backend(c) == <<c, "backend">>
Ends       == Clients \X {"client", "backend"}

None       == "none"
Handling   == {"acquire", "dial", "dialed", "copying", "first", "untrack", "release",
               "end", "last"}
TCPTypeOK ==
  /\ srv \in {"start", "accepting", "accepted", "returned"}
  /\ pending \in Clients \cup {None}
  /\ listening \in BOOLEAN /\ registered \in BOOLEAN /\ closing \in BOOLEAN
  /\ wg \in Nat
  /\ conns \subseteq Ends /\ open \subseteq Ends /\ toClose \subseteq Ends
  /\ handler \in [Clients -> Handling \cup {"none", "gone"}]
  /\ lease \subseteq Clients
  /\ sd \in {"idle", "locked", "closing", "waiting", "ok", "timedOut"}

\* NewTCPEndpointServer; ListenAndServe has bound the socket.
TCPInit ==
  /\ srv = "start" /\ pending = None /\ listening = TRUE /\ registered = FALSE
  /\ closing = FALSE /\ wg = 0 /\ conns = {} /\ open = {}
  /\ handler = [c \in Clients |-> "none"] /\ lease = {}
  /\ sd = "idle" /\ toClose = {}

Go(c, from, to) == handler[c] = from /\ handler' = [handler EXCEPT ![c] = to]

-----------------------------------------------------------------------------
(* Serve *)

\* Mutant: Serve does not notice that Shutdown came first.
ServeUnchecked ==
  /\ srv = "start" /\ srv' = "accepting" /\ registered' = TRUE
  /\ UNCHANGED <<pending, listening, connVars, handlerVars, shutVars, wg>>

ServeStart ==
  /\ srv = "start"
  /\ IF closing THEN srv' = "returned" /\ listening' = FALSE /\ UNCHANGED registered
                ELSE srv' = "accepting" /\ registered' = TRUE /\ UNCHANGED listening
  /\ UNCHANGED <<pending, connVars, handlerVars, shutVars, wg>>

Accept(c) ==
  /\ srv = "accepting" /\ listening /\ handler[c] = "none" /\ Client(c) \notin open
  /\ srv' = "accepted" /\ pending' = c
  /\ open' = open \cup {Client(c)}
  /\ UNCHANGED <<listening, registered, conns, handlerVars, shutVars, wg>>

\* An error of ln.Accept ends Serve, a closed listener or another.
AcceptFails ==
  /\ srv = "accepting" /\ srv' = "returned"
  /\ UNCHANGED <<pending, listening, registered, connVars, handlerVars, shutVars, wg>>

\* Mutant: trackClient does not check s.closing.
TrackableAlways == wg >= 0

Trackable == ~closing

\* trackClient, and go s.handle(client) or client.Close().
TrackClient(c) ==
  /\ srv = "accepted" /\ pending = c
  /\ srv' = "accepting" /\ pending' = None
  /\ IF Trackable
       THEN /\ conns' = conns \cup {Client(c)} /\ wg' = wg + 1
            /\ Go(c, "none", "acquire") /\ UNCHANGED open
       ELSE /\ open' = open \ {Client(c)} /\ Go(c, "none", "gone")
            /\ UNCHANGED <<conns, wg>>
  /\ UNCHANGED <<listening, registered, lease, shutVars>>

-----------------------------------------------------------------------------
(* handle *)

\* Supervisor.Acquire succeeds, before or after s.ctx is cancelled ...
Acquired(c) ==
  /\ Go(c, "acquire", "dial") /\ lease' = lease \cup {c}
  /\ UNCHANGED <<serveVars, connVars, shutVars, wg>>

\* ... or fails; it certainly does not wait once s.ctx is cancelled.
AcquireFails(c) ==
  /\ Go(c, "acquire", "end")
  /\ UNCHANGED <<serveVars, connVars, lease, shutVars, wg>>

\* Mutant: the lease only covers the start of the service.
DialedAndReleased(c) ==
  /\ Go(c, "dial", "dialed") /\ open' = open \cup {Backend(c)}
  /\ lease' = lease \ {c}
  /\ UNCHANGED <<serveVars, conns, shutVars, wg>>

Dialed(c) ==
  /\ Go(c, "dial", "dialed") /\ open' = open \cup {Backend(c)}
  /\ UNCHANGED <<serveVars, conns, lease, shutVars, wg>>

DialFails(c) ==
  /\ Go(c, "dial", "release")
  /\ UNCHANGED <<serveVars, connVars, lease, shutVars, wg>>

TrackBackend(c) ==
  /\ IF Trackable
       THEN Go(c, "dialed", "copying") /\ conns' = conns \cup {Backend(c)} /\ UNCHANGED open
       ELSE Go(c, "dialed", "release") /\ open' = open \ {Backend(c)} /\ UNCHANGED conns
  /\ UNCHANGED <<serveVars, lease, shutVars, wg>>

\* One io.Copy returns: a peer ended its stream, or Shutdown closed a side.
CopyEnds(c) ==
  /\ Go(c, "copying", "first")
  /\ UNCHANGED <<serveVars, connVars, lease, shutVars, wg>>

\* Both sides are closed, which ends the other io.Copy.
CloseBoth(c) ==
  /\ Go(c, "first", "untrack") /\ open' = open \ {Client(c), Backend(c)}
  /\ UNCHANGED <<serveVars, conns, lease, shutVars, wg>>

\* defer s.untrackAndClose(backend)
UntrackBackend(c) ==
  /\ Go(c, "untrack", "release")
  /\ open' = open \ {Backend(c)} /\ conns' = conns \ {Backend(c)}
  /\ UNCHANGED <<serveVars, lease, shutVars, wg>>

\* defer release()
ReleaseLease(c) ==
  /\ Go(c, "release", "end") /\ lease' = lease \ {c}
  /\ UNCHANGED <<serveVars, connVars, shutVars, wg>>

\* defer s.untrackAndClose(client)
UntrackClient(c) ==
  /\ Go(c, "end", "last")
  /\ open' = open \ {Client(c)} /\ conns' = conns \ {Client(c)}
  /\ UNCHANGED <<serveVars, lease, shutVars, wg>>

\* defer s.wg.Done()
HandlerDone(c) ==
  /\ Go(c, "last", "gone") /\ wg' = wg - 1
  /\ UNCHANGED <<serveVars, connVars, lease, shutVars>>

-----------------------------------------------------------------------------
(* Shutdown *)

ShutdownLock ==
  /\ sd = "idle" /\ sd' = "locked"
  /\ closing' = TRUE
  /\ toClose' = conns
  /\ UNCHANGED <<serveVars, connVars, handlerVars, wg>>

CloseListener ==
  /\ sd = "locked" /\ sd' = "closing"
  /\ listening' = (listening /\ ~registered)
  /\ UNCHANGED <<srv, pending, registered, connVars, handlerVars, closing, toClose, wg>>

CloseConn(e) ==
  /\ sd = "closing" /\ e \in toClose
  /\ toClose' = toClose \ {e}
  /\ open' = open \ {e}
  /\ UNCHANGED <<serveVars, conns, handlerVars, closing, sd, wg>>

AllClosed ==
  /\ sd = "closing" /\ toClose = {} /\ sd' = "waiting"
  /\ UNCHANGED <<serveVars, connVars, handlerVars, closing, toClose, wg>>

HandlersGone ==
  /\ sd = "waiting" /\ wg = 0 /\ sd' = "ok"
  /\ UNCHANGED <<serveVars, connVars, handlerVars, closing, toClose, wg>>

ShutdownTimesOut ==
  /\ sd = "waiting" /\ sd' = "timedOut"
  /\ UNCHANGED <<serveVars, connVars, handlerVars, closing, toClose, wg>>

ShutdownStep ==
  CloseListener \/ AllClosed \/ HandlersGone \/ \E e \in Ends : CloseConn(e)

HandlerStep(c) ==
  \/ TrackBackend(c) \/ CloseBoth(c) \/ UntrackBackend(c) \/ ReleaseLease(c)
  \/ UntrackClient(c) \/ HandlerDone(c)

TCPNext ==
  \/ ServeStart \/ AcceptFails
  \/ \E c \in Clients :
       \/ Accept(c) \/ TrackClient(c) \/ Acquired(c) \/ AcquireFails(c)
       \/ Dialed(c) \/ DialFails(c) \/ CopyEnds(c) \/ HandlerStep(c)
  \/ ShutdownLock \/ ShutdownStep \/ ShutdownTimesOut

TCPSpec == TCPInit /\ [][TCPNext]_vars

\* Goroutines are scheduled.  Acquire and the dial return once s.ctx is cancelled,
\* Accept once the listener is closed and io.Copy once one of its ends is; before
\* that nothing obliges them to, nor a deadline to expire.
TCPFairness ==
  /\ WF_vars(ServeStart) /\ WF_vars(~listening /\ AcceptFails) /\ WF_vars(ShutdownStep)
  /\ \A c \in Clients :
       /\ WF_vars(TrackClient(c)) /\ WF_vars(HandlerStep(c))
       /\ WF_vars(closing /\ (Acquired(c) \/ AcquireFails(c)))
       /\ WF_vars(closing /\ (Dialed(c) \/ DialFails(c)))
       /\ WF_vars(~({Client(c), Backend(c)} \subseteq open) /\ CopyEnds(c))

FairTCPSpec == TCPSpec /\ TCPFairness

-----------------------------------------------------------------------------
(* Properties *)

Busy   == {c \in Clients : handler[c] \in Handling}
Leased == {"dial", "dialed", "copying", "first", "untrack", "release"}

\* s.wg counts the handlers.
CountInv == IsFiniteSet(Busy) /\ wg = Cardinality(Busy)

\* What a handler holds at each point.
HoldInv ==
  \A c \in Clients :
    /\ c \in lease <=> handler[c] \in Leased
    /\ Backend(c) \in open => handler[c] \in {"dialed", "copying", "first"}
    /\ Backend(c) \in conns => handler[c] \in {"copying", "first", "untrack"}
    /\ Client(c) \in conns => handler[c] \in Handling \ {"last"}
    /\ Client(c) \in open =>
         handler[c] \in Handling \ {"last"} \/ (srv = "accepted" /\ pending = c)

\* How far Serve and Shutdown have come, and what is then closed.
ServeInv ==
  /\ srv = "accepted" => pending \in Clients /\ handler[pending] = "none"
  /\ closing <=> sd # "idle"
  /\ listening /\ srv # "start" => registered
  /\ sd \notin {"idle", "locked"} => ~(listening /\ registered)
  /\ sd = "ok" => Busy = {}

\* Inductive; the safety properties below follow from it.
TCPInv == TCPTypeOK /\ CountInv /\ HoldInv /\ ServeInv

\* "A connection holds a supervisor lease for its complete lifetime" (tcp.go:20-22):
\* while a backend connection is open its handler has a lease, so no idle stop can
\* cut it.
BackendLeased == \A c \in Clients : Backend(c) \in open => c \in lease

\* A Shutdown that returns nil leaves nothing behind: no handler, lease or tracked
\* connection, no open one but a client Serve has yet to refuse, and no listener but
\* one that Serve has yet to close (tcp.go:177-207).
ShutdownComplete ==
  sd = "ok" =>
    /\ lease = {} /\ conns = {}
    /\ \A c \in Clients : handler[c] \notin Handling
    /\ \A e \in open : srv = "accepted" /\ e = Client(pending)
    /\ listening => srv = "start"

\* Shutdown does not depend on its deadline: whatever the handlers were doing, and
\* whatever was dialed meanwhile, they end.  So does Serve, also when Shutdown ran
\* before Serve had registered the listener, and the listener is then closed.
ShutdownEnds ==
  closing ~> (sd \in {"ok", "timedOut"} /\ srv = "returned" /\ ~listening)

=============================================================================
