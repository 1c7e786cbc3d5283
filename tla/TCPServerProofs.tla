--------------------------- MODULE TCPServerProofs ---------------------------
(***************************************************************************)
(* Safety of TCPServer.tla for any set of clients.                         *)
(***************************************************************************)
EXTENDS TCPServer, FiniteSetTheorems, TLAPS

USE DEF serveVars, connVars, handlerVars, shutVars

\* The invariant holds of a server nobody has connected to.
LEMMA InitTCPInv == TCPInit => TCPInv
<1> SUFFICES ASSUME TCPInit PROVE TCPInv
  OBVIOUS
<1>1. TCPTypeOK
  BY DEF TCPInit, TCPTypeOK, Handling
<1>2. Busy = {}
  BY DEF TCPInit, Busy, Handling
<1>3. CountInv
  BY <1>2, FS_EmptySet DEF TCPInit, CountInv
<1>4. HoldInv
  BY DEF TCPInit, HoldInv, Leased
<1>5. ServeInv
  BY <1>2 DEF TCPInit, ServeInv
<1> QED
  BY <1>1, <1>3, <1>4, <1>5 DEF TCPInv

\* A handler that moves from one step of handle to another is counted as before.
LEMMA Moves ==
  ASSUME TCPTypeOK, NEW c \in Clients, NEW from \in Handling, NEW to \in Handling,
         Go(c, from, to)
  PROVE  Busy' = Busy
BY DEF TCPTypeOK, Busy, Go

\* A connection is a client's or its backend's.
LEMMA EndOf == \A e \in Ends : \E c \in Clients : e = Client(c) \/ e = Backend(c)
BY DEF Ends, Client, Backend

\* Different connections differ.
LEMMA EndsDiffer ==
  \A c, d \in Clients :
    /\ Client(c) # Backend(d)
    /\ c # d => Client(c) # Client(d) /\ Backend(c) # Backend(d)
BY DEF Client, Backend

\* The count depends on the handlers and s.wg only.
LEMMA CountFrame ==
  ASSUME CountInv, Busy' = Busy, UNCHANGED wg
  PROVE  CountInv'
BY DEF CountInv

\* The invariant survives Acquired (handle).
LEMMA AcquiredPreserves ==
  ASSUME TCPInv, NEW c \in Clients, Acquired(c)
  PROVE  TCPInv'
<1> USE DEF Acquired, Go
<1>1. TCPTypeOK'
  BY DEF TCPInv, TCPTypeOK, Handling, Ends, Client, Backend
<1>2. Busy' = Busy
  BY Moves DEF TCPInv, Handling
<1>3. CountInv'
  BY <1>2, CountFrame DEF TCPInv
<1>4. HoldInv'
  BY DEF TCPInv, TCPTypeOK, HoldInv, ServeInv, Handling, Leased, Client, Backend
<1>5. ServeInv'
  BY <1>2 DEF TCPInv, TCPTypeOK, ServeInv
<1> QED
  BY <1>1, <1>3, <1>4, <1>5 DEF TCPInv

\* The invariant survives AcquireFails (handle).
LEMMA AcquireFailsPreserves ==
  ASSUME TCPInv, NEW c \in Clients, AcquireFails(c)
  PROVE  TCPInv'
<1> USE DEF AcquireFails, Go
<1>1. TCPTypeOK'
  BY DEF TCPInv, TCPTypeOK, Handling, Ends, Client, Backend
<1>2. Busy' = Busy
  BY Moves DEF TCPInv, Handling
<1>3. CountInv'
  BY <1>2, CountFrame DEF TCPInv
<1>4. HoldInv'
  BY DEF TCPInv, TCPTypeOK, HoldInv, ServeInv, Handling, Leased, Client, Backend
<1>5. ServeInv'
  BY <1>2 DEF TCPInv, TCPTypeOK, ServeInv
<1> QED
  BY <1>1, <1>3, <1>4, <1>5 DEF TCPInv

\* The invariant survives Dialed (handle).
LEMMA DialedPreserves ==
  ASSUME TCPInv, NEW c \in Clients, Dialed(c)
  PROVE  TCPInv'
<1> USE DEF Dialed, Go
<1>1. TCPTypeOK'
  BY DEF TCPInv, TCPTypeOK, Handling, Ends, Client, Backend
<1>2. Busy' = Busy
  BY Moves DEF TCPInv, Handling
<1>3. CountInv'
  BY <1>2, CountFrame DEF TCPInv
<1>4. HoldInv'
  BY DEF TCPInv, TCPTypeOK, HoldInv, ServeInv, Handling, Leased, Client, Backend
<1>5. ServeInv'
  BY <1>2 DEF TCPInv, TCPTypeOK, ServeInv
<1> QED
  BY <1>1, <1>3, <1>4, <1>5 DEF TCPInv

\* The invariant survives DialFails (handle).
LEMMA DialFailsPreserves ==
  ASSUME TCPInv, NEW c \in Clients, DialFails(c)
  PROVE  TCPInv'
<1> USE DEF DialFails, Go
<1>1. TCPTypeOK'
  BY DEF TCPInv, TCPTypeOK, Handling, Ends, Client, Backend
<1>2. Busy' = Busy
  BY Moves DEF TCPInv, Handling
<1>3. CountInv'
  BY <1>2, CountFrame DEF TCPInv
<1>4. HoldInv'
  BY DEF TCPInv, TCPTypeOK, HoldInv, ServeInv, Handling, Leased, Client, Backend
<1>5. ServeInv'
  BY <1>2 DEF TCPInv, TCPTypeOK, ServeInv
<1> QED
  BY <1>1, <1>3, <1>4, <1>5 DEF TCPInv

\* The invariant survives TrackBackend (handle).
LEMMA TrackBackendPreserves ==
  ASSUME TCPInv, NEW c \in Clients, TrackBackend(c)
  PROVE  TCPInv'
<1> USE DEF TrackBackend, Go, Trackable
<1>1. TCPTypeOK'
  BY DEF TCPInv, TCPTypeOK, Handling, Ends, Client, Backend
<1>2. Busy' = Busy
  BY Moves DEF TCPInv, Handling
<1>3. CountInv'
  BY <1>2, CountFrame DEF TCPInv
<1>4. HoldInv'
  <2>1. CASE closing
    BY <2>1 DEF TCPInv, TCPTypeOK, HoldInv, Handling, Leased, Client, Backend
  <2>2. CASE ~closing
    <3> SUFFICES ASSUME NEW d \in Clients PROVE HoldInv!(d)'
      BY DEF HoldInv
    <3> HoldInv!(d)
      BY DEF TCPInv, HoldInv
    <3>1. handler'[d] = IF d = c THEN "copying" ELSE handler[d]
      BY <2>2 DEF TCPInv, TCPTypeOK
    <3>2. (Backend(d) \in conns' => Backend(d) \in conns \/ d = c)
            /\ (Client(d) \in conns' => Client(d) \in conns)
      BY <2>2, EndsDiffer
    <3> QED
      BY <2>2, <3>1, <3>2 DEF Handling, Leased
  <2> QED
    BY <2>1, <2>2
<1>5. ServeInv'
  BY <1>2 DEF TCPInv, TCPTypeOK, ServeInv
<1> QED
  BY <1>1, <1>3, <1>4, <1>5 DEF TCPInv

\* The invariant survives CopyEnds (handle).
LEMMA CopyEndsPreserves ==
  ASSUME TCPInv, NEW c \in Clients, CopyEnds(c)
  PROVE  TCPInv'
<1> USE DEF CopyEnds, Go
<1>1. TCPTypeOK'
  BY DEF TCPInv, TCPTypeOK, Handling, Ends, Client, Backend
<1>2. Busy' = Busy
  BY Moves DEF TCPInv, Handling
<1>3. CountInv'
  BY <1>2, CountFrame DEF TCPInv
<1>4. HoldInv'
  BY DEF TCPInv, TCPTypeOK, HoldInv, ServeInv, Handling, Leased, Client, Backend
<1>5. ServeInv'
  BY <1>2 DEF TCPInv, TCPTypeOK, ServeInv
<1> QED
  BY <1>1, <1>3, <1>4, <1>5 DEF TCPInv

\* The invariant survives CloseBoth (handle).
LEMMA CloseBothPreserves ==
  ASSUME TCPInv, NEW c \in Clients, CloseBoth(c)
  PROVE  TCPInv'
<1> USE DEF CloseBoth, Go
<1>1. TCPTypeOK'
  BY DEF TCPInv, TCPTypeOK, Handling, Ends, Client, Backend
<1>2. Busy' = Busy
  BY Moves DEF TCPInv, Handling
<1>3. CountInv'
  BY <1>2, CountFrame DEF TCPInv
<1>4. HoldInv'
  BY DEF TCPInv, TCPTypeOK, HoldInv, ServeInv, Handling, Leased, Client, Backend
<1>5. ServeInv'
  BY <1>2 DEF TCPInv, TCPTypeOK, ServeInv
<1> QED
  BY <1>1, <1>3, <1>4, <1>5 DEF TCPInv

\* The invariant survives UntrackBackend (handle).
LEMMA UntrackBackendPreserves ==
  ASSUME TCPInv, NEW c \in Clients, UntrackBackend(c)
  PROVE  TCPInv'
<1> USE DEF UntrackBackend, Go
<1>1. TCPTypeOK'
  BY DEF TCPInv, TCPTypeOK, Handling, Ends, Client, Backend
<1>2. Busy' = Busy
  BY Moves DEF TCPInv, Handling
<1>3. CountInv'
  BY <1>2, CountFrame DEF TCPInv
<1>4. HoldInv'
  BY DEF TCPInv, TCPTypeOK, HoldInv, ServeInv, Handling, Leased, Client, Backend
<1>5. ServeInv'
  BY <1>2 DEF TCPInv, TCPTypeOK, ServeInv
<1> QED
  BY <1>1, <1>3, <1>4, <1>5 DEF TCPInv

\* The invariant survives ReleaseLease (handle).
LEMMA ReleaseLeasePreserves ==
  ASSUME TCPInv, NEW c \in Clients, ReleaseLease(c)
  PROVE  TCPInv'
<1> USE DEF ReleaseLease, Go
<1>1. TCPTypeOK'
  BY DEF TCPInv, TCPTypeOK, Handling, Ends, Client, Backend
<1>2. Busy' = Busy
  BY Moves DEF TCPInv, Handling
<1>3. CountInv'
  BY <1>2, CountFrame DEF TCPInv
<1>4. HoldInv'
  BY DEF TCPInv, TCPTypeOK, HoldInv, ServeInv, Handling, Leased, Client, Backend
<1>5. ServeInv'
  BY <1>2 DEF TCPInv, TCPTypeOK, ServeInv
<1> QED
  BY <1>1, <1>3, <1>4, <1>5 DEF TCPInv

\* The invariant survives UntrackClient (handle).
LEMMA UntrackClientPreserves ==
  ASSUME TCPInv, NEW c \in Clients, UntrackClient(c)
  PROVE  TCPInv'
<1> USE DEF UntrackClient, Go
<1>1. TCPTypeOK'
  BY DEF TCPInv, TCPTypeOK, Handling, Ends, Client, Backend
<1>2. Busy' = Busy
  BY Moves DEF TCPInv, Handling
<1>3. CountInv'
  BY <1>2, CountFrame DEF TCPInv
<1>4. HoldInv'
  BY DEF TCPInv, TCPTypeOK, HoldInv, ServeInv, Handling, Leased, Client, Backend
<1>5. ServeInv'
  BY <1>2 DEF TCPInv, TCPTypeOK, ServeInv
<1> QED
  BY <1>1, <1>3, <1>4, <1>5 DEF TCPInv

\* The invariant survives ServeStart (Serve).
LEMMA ServeStartPreserves ==
  ASSUME TCPInv, ServeStart
  PROVE  TCPInv'
<1> USE DEF ServeStart
<1>1. TCPTypeOK'
  BY DEF TCPInv, TCPTypeOK, Ends, Client
<1>2. Busy' = Busy
  BY DEF Busy
<1>3. CountInv'
  BY <1>2, CountFrame DEF TCPInv
<1>4. HoldInv'
  BY DEF TCPInv, TCPTypeOK, HoldInv, ServeInv, Client, Backend
<1>5. ServeInv'
  BY <1>2 DEF TCPInv, TCPTypeOK, ServeInv
<1> QED
  BY <1>1, <1>3, <1>4, <1>5 DEF TCPInv

\* The invariant survives AcceptFails (Serve).
LEMMA AcceptFailsPreserves ==
  ASSUME TCPInv, AcceptFails
  PROVE  TCPInv'
<1> USE DEF AcceptFails
<1>1. TCPTypeOK'
  BY DEF TCPInv, TCPTypeOK, Ends, Client
<1>2. Busy' = Busy
  BY DEF Busy
<1>3. CountInv'
  BY <1>2, CountFrame DEF TCPInv
<1>4. HoldInv'
  BY DEF TCPInv, TCPTypeOK, HoldInv, ServeInv, Client, Backend
<1>5. ServeInv'
  BY <1>2 DEF TCPInv, TCPTypeOK, ServeInv
<1> QED
  BY <1>1, <1>3, <1>4, <1>5 DEF TCPInv

\* The invariant survives ShutdownLock (Shutdown).
LEMMA ShutdownLockPreserves ==
  ASSUME TCPInv, ShutdownLock
  PROVE  TCPInv'
<1> USE DEF ShutdownLock
<1>1. TCPTypeOK'
  BY DEF TCPInv, TCPTypeOK, Ends, Client
<1>2. Busy' = Busy
  BY DEF Busy
<1>3. CountInv'
  BY <1>2, CountFrame DEF TCPInv
<1>4. HoldInv'
  BY DEF TCPInv, TCPTypeOK, HoldInv, ServeInv, Client, Backend
<1>5. ServeInv'
  BY <1>2 DEF TCPInv, TCPTypeOK, ServeInv
<1> QED
  BY <1>1, <1>3, <1>4, <1>5 DEF TCPInv

\* The invariant survives CloseListener (Shutdown).
LEMMA CloseListenerPreserves ==
  ASSUME TCPInv, CloseListener
  PROVE  TCPInv'
<1> USE DEF CloseListener
<1>1. TCPTypeOK'
  BY DEF TCPInv, TCPTypeOK, Ends, Client
<1>2. Busy' = Busy
  BY DEF Busy
<1>3. CountInv'
  BY <1>2, CountFrame DEF TCPInv
<1>4. HoldInv'
  BY DEF TCPInv, TCPTypeOK, HoldInv, ServeInv, Client, Backend
<1>5. ServeInv'
  BY <1>2 DEF TCPInv, TCPTypeOK, ServeInv
<1> QED
  BY <1>1, <1>3, <1>4, <1>5 DEF TCPInv

\* The invariant survives AllClosed (Shutdown).
LEMMA AllClosedPreserves ==
  ASSUME TCPInv, AllClosed
  PROVE  TCPInv'
<1> USE DEF AllClosed
<1>1. TCPTypeOK'
  BY DEF TCPInv, TCPTypeOK, Ends, Client
<1>2. Busy' = Busy
  BY DEF Busy
<1>3. CountInv'
  BY <1>2, CountFrame DEF TCPInv
<1>4. HoldInv'
  BY DEF TCPInv, TCPTypeOK, HoldInv, ServeInv, Client, Backend
<1>5. ServeInv'
  BY <1>2 DEF TCPInv, TCPTypeOK, ServeInv
<1> QED
  BY <1>1, <1>3, <1>4, <1>5 DEF TCPInv

\* The invariant survives HandlersGone (Shutdown).
LEMMA HandlersGonePreserves ==
  ASSUME TCPInv, HandlersGone
  PROVE  TCPInv'
<1> USE DEF HandlersGone
<1>1. TCPTypeOK'
  BY DEF TCPInv, TCPTypeOK, Ends, Client
<1>2. Busy' = Busy
  BY DEF Busy
<1>3. CountInv'
  BY <1>2, CountFrame DEF TCPInv
<1>4. HoldInv'
  BY DEF TCPInv, TCPTypeOK, HoldInv, ServeInv, Client, Backend
<1>5. ServeInv'
  BY <1>2, FS_EmptySet DEF TCPInv, CountInv, TCPTypeOK, ServeInv
<1> QED
  BY <1>1, <1>3, <1>4, <1>5 DEF TCPInv

\* The invariant survives ShutdownTimesOut (Shutdown).
LEMMA ShutdownTimesOutPreserves ==
  ASSUME TCPInv, ShutdownTimesOut
  PROVE  TCPInv'
<1> USE DEF ShutdownTimesOut
<1>1. TCPTypeOK'
  BY DEF TCPInv, TCPTypeOK, Ends, Client
<1>2. Busy' = Busy
  BY DEF Busy
<1>3. CountInv'
  BY <1>2, CountFrame DEF TCPInv
<1>4. HoldInv'
  BY DEF TCPInv, TCPTypeOK, HoldInv, ServeInv, Client, Backend
<1>5. ServeInv'
  BY <1>2 DEF TCPInv, TCPTypeOK, ServeInv
<1> QED
  BY <1>1, <1>3, <1>4, <1>5 DEF TCPInv

\* The invariant survives Accept (Serve).
LEMMA AcceptPreserves ==
  ASSUME TCPInv, NEW c \in Clients, Accept(c)
  PROVE  TCPInv'
<1> USE DEF Accept
<1>1. TCPTypeOK'
  BY DEF TCPInv, TCPTypeOK, Ends, Client
<1>2. Busy' = Busy
  BY DEF Busy
<1>3. CountInv'
  BY <1>2, CountFrame DEF TCPInv
<1>4. HoldInv'
  BY DEF TCPInv, TCPTypeOK, HoldInv, ServeInv, Client, Backend
<1>5. ServeInv'
  BY <1>2 DEF TCPInv, TCPTypeOK, ServeInv
<1> QED
  BY <1>1, <1>3, <1>4, <1>5 DEF TCPInv

\* The invariant survives CloseConn (Shutdown).
LEMMA CloseConnPreserves ==
  ASSUME TCPInv, NEW e \in Ends, CloseConn(e)
  PROVE  TCPInv'
<1> USE DEF CloseConn
<1>1. TCPTypeOK'
  BY DEF TCPInv, TCPTypeOK, Ends, Client
<1>2. Busy' = Busy
  BY DEF Busy
<1>3. CountInv'
  BY <1>2, CountFrame DEF TCPInv
<1>4. HoldInv'
  BY DEF TCPInv, TCPTypeOK, HoldInv, ServeInv, Client, Backend
<1>5. ServeInv'
  BY <1>2 DEF TCPInv, TCPTypeOK, ServeInv
<1> QED
  BY <1>1, <1>3, <1>4, <1>5 DEF TCPInv

\* The invariant survives TrackClient (trackClient), which counts the client unless Shutdown has begun.
LEMMA TrackClientPreserves ==
  ASSUME TCPInv, NEW c \in Clients, TrackClient(c)
  PROVE  TCPInv'
<1> USE DEF TrackClient, Go, Trackable
<1>1. CASE closing
  <2>1. Busy' = Busy
    BY <1>1 DEF TCPInv, TCPTypeOK, Busy, Handling
  <2>2. TCPTypeOK'
    BY <1>1 DEF TCPInv, TCPTypeOK
  <2>3. CountInv'
    BY <1>1, <2>1, CountFrame DEF TCPInv
  <2>4. HoldInv'
    BY <1>1 DEF TCPInv, TCPTypeOK, HoldInv, Handling, Leased, Client, Backend
  <2>5. ServeInv'
    BY <1>1, <2>1 DEF TCPInv, TCPTypeOK, ServeInv
  <2> QED
    BY <2>2, <2>3, <2>4, <2>5 DEF TCPInv
<1>2. CASE ~closing
  <2>1. Busy' = Busy \cup {c} /\ c \notin Busy
    BY <1>2 DEF TCPInv, TCPTypeOK, Busy, Handling
  <2>2. CountInv'
    BY <1>2, <2>1, FS_AddElement DEF TCPInv, CountInv
  <2>3. TCPTypeOK'
    BY <1>2 DEF TCPInv, TCPTypeOK, Handling, Ends, Client
  <2>4. HoldInv'
    <3> SUFFICES ASSUME NEW d \in Clients PROVE HoldInv!(d)'
      BY DEF HoldInv
    <3> HoldInv!(d) /\ pending = c /\ handler[c] = "none"
      BY <1>2 DEF TCPInv, HoldInv
    <3>1. handler'[d] = IF d = c THEN "acquire" ELSE handler[d]
      BY <1>2 DEF TCPInv, TCPTypeOK
    <3>2. (Client(d) \in conns' => Client(d) \in conns \/ d = c)
            /\ (Backend(d) \in conns' => Backend(d) \in conns)
      BY <1>2, EndsDiffer
    <3> QED
      BY <1>2, <3>1, <3>2 DEF Handling, Leased
  <2>5. ServeInv'
    BY <1>2 DEF TCPInv, TCPTypeOK, ServeInv
  <2> QED
    BY <2>2, <2>3, <2>4, <2>5 DEF TCPInv
<1> QED
  BY <1>1, <1>2

\* The invariant survives HandlerDone (handle), which counts a handler out.
LEMMA HandlerDonePreserves ==
  ASSUME TCPInv, NEW c \in Clients, HandlerDone(c)
  PROVE  TCPInv'
<1> USE DEF HandlerDone, Go
<1>1. Busy' = Busy \ {c} /\ c \in Busy
  BY DEF TCPInv, TCPTypeOK, Busy, Handling
<1>2. CountInv'
  BY <1>1, FS_RemoveElement DEF TCPInv, CountInv
<1>3. TCPTypeOK'
  <2>1. Cardinality(Busy') \in Nat
    BY <1>2, FS_CardinalityType DEF CountInv
  <2> QED
    BY <1>2, <2>1 DEF TCPInv, TCPTypeOK, CountInv
<1>4. HoldInv'
  BY DEF TCPInv, TCPTypeOK, HoldInv, ServeInv, Handling, Leased, Client, Backend
<1>5. ServeInv'
  BY <1>1 DEF TCPInv, TCPTypeOK, ServeInv
<1> QED
  BY <1>2, <1>3, <1>4, <1>5 DEF TCPInv

\* Every step of the endpoint preserves the invariant.
LEMMA TCPNextPreserves == TCPInv /\ [TCPNext]_vars => TCPInv'
<1> SUFFICES ASSUME TCPInv, [TCPNext]_vars PROVE TCPInv'
  OBVIOUS
<1>1. CASE ServeStart \/ AcceptFails
  BY <1>1, ServeStartPreserves, AcceptFailsPreserves
<1>2. ASSUME NEW c \in Clients,
             Accept(c) \/ TrackClient(c) \/ Acquired(c) \/ AcquireFails(c) \/ Dialed(c)
               \/ DialFails(c) \/ CopyEnds(c) \/ HandlerStep(c)
      PROVE  TCPInv'
  BY <1>2, AcceptPreserves, TrackClientPreserves, AcquiredPreserves,
     AcquireFailsPreserves, DialedPreserves, DialFailsPreserves,
     TrackBackendPreserves, CopyEndsPreserves, CloseBothPreserves,
     UntrackBackendPreserves, ReleaseLeasePreserves, UntrackClientPreserves,
     HandlerDonePreserves
  DEF HandlerStep
<1>3. CASE ShutdownLock \/ ShutdownStep \/ ShutdownTimesOut
  BY <1>3, ShutdownLockPreserves, CloseListenerPreserves, AllClosedPreserves,
     HandlersGonePreserves, CloseConnPreserves, ShutdownTimesOutPreserves
  DEF ShutdownStep
<1>4. CASE UNCHANGED vars
  <2> USE DEF vars
  <2>1. Busy' = Busy
    BY <1>4 DEF Busy
  <2>2. TCPTypeOK'
    BY <1>4 DEF TCPInv, TCPTypeOK
  <2>3. CountInv'
    BY <1>4, <2>1, CountFrame DEF TCPInv
  <2>4. HoldInv'
    BY <1>4 DEF TCPInv, HoldInv
  <2>5. ServeInv'
    BY <1>4, <2>1 DEF TCPInv, ServeInv
  <2> QED
    BY <2>2, <2>3, <2>4, <2>5 DEF TCPInv
<1> QED
  BY <1>1, <1>2, <1>3, <1>4 DEF TCPNext

\* The invariant holds in every reachable state.
THEOREM TCPInvariantHolds == TCPSpec => []TCPInv
<1>1. TCPInit => TCPInv
  BY InitTCPInv
<1>2. TCPInv /\ [TCPNext]_vars => TCPInv'
  BY TCPNextPreserves
<1> QED
  BY <1>1, <1>2, PTL DEF TCPSpec

\* An open backend connection is covered by a lease (tcp.go:20-22), for any number
\* of clients, so no idle stop cuts a connection.
THEOREM BackendsAreLeased == TCPSpec => []BackendLeased
<1>1. TCPInv => BackendLeased
  BY DEF TCPInv, HoldInv, BackendLeased, Leased
<1> QED
  BY <1>1, TCPInvariantHolds, PTL

\* A Shutdown that returns nil has left nothing behind (tcp.go:177-207).
THEOREM ShutdownIsComplete == TCPSpec => []ShutdownComplete
<1>1. TCPInv => ShutdownComplete
  <2> SUFFICES ASSUME TCPInv, sd = "ok" PROVE ShutdownComplete
    BY DEF ShutdownComplete
  <2> USE DEF TCPInv
  <2>1. \A c \in Clients : handler[c] \notin Handling
    BY DEF ServeInv, Busy
  <2>2. lease = {}
    BY <2>1 DEF HoldInv, Leased, Handling, TCPTypeOK
  <2>3. \A c \in Clients : Client(c) \notin conns /\ Backend(c) \notin conns
    BY <2>1 DEF HoldInv, Handling
  <2>4. conns = {}
    BY <2>3, EndOf DEF TCPTypeOK
  <2>5. \A c \in Clients :
          /\ Backend(c) \notin open
          /\ Client(c) \in open => srv = "accepted" /\ pending = c
    BY <2>1 DEF HoldInv, Handling
  <2>6. \A e \in open : srv = "accepted" /\ e = Client(pending)
    BY <2>5, EndOf DEF TCPTypeOK
  <2>7. listening => srv = "start"
    BY DEF ServeInv
  <2> QED
    BY <2>1, <2>2, <2>4, <2>6, <2>7 DEF ShutdownComplete
<1> QED
  BY <1>1, TCPInvariantHolds, PTL

=============================================================================
