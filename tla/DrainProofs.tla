----------------------------- MODULE DrainProofs ------------------------------
(***************************************************************************)
(* Proofs about Drain.tla, for any set of connections: the count and the   *)
(* channel of DrainHandler are right, DrainServer cuts no request before   *)
(* its context expires, and it leaves no connection open.                  *)
(***************************************************************************)
EXTENDS Drain, FiniteSetTheorems, TLAPS

\* done is closed exactly while the drain has begun and no request is left.
HandlerInv ==
  /\ IsFiniteSet(handling) /\ CountsRequests
  /\ draining <=> ds # "idle"
  /\ doneCloses = IF draining /\ handling = {} THEN 1 ELSE 0

\* The tracker has the open connections; from CloseAll on it takes no other, and has
\* only those CloseAll is still to close.
TrackerInv ==
  /\ \A c \in Conns : c \in tracked <=> IsOpen(c)
  /\ ds \in {"closing", "done"} => trackerClosed /\ tracked \subseteq toClose
  /\ ds = "done" => toClose = {}

Waited == {"check", "waiting", "closeAll", "closing", "done"}

\* Past the wait for the requests they have ended, or the context has.
WaitInv == ds \in Waited => doneCloses > 0 \/ ctxDone

\* Inductive.
DrainIInv == DrainTypeOK /\ HandlerInv /\ TrackerInv /\ WaitInv

LEMMA DrainInitially == DrainInit => DrainIInv
<1> SUFFICES ASSUME DrainInit PROVE DrainIInv
  OBVIOUS
<1>1. DrainTypeOK
  BY DEF DrainInit, DrainTypeOK, ConnStates, DrainPCs
<1>2. HandlerInv
  BY FS_EmptySet DEF DrainInit, HandlerInv, CountsRequests
<1>3. TrackerInv /\ WaitInv
  BY DEF DrainInit, TrackerInv, WaitInv, Waited, IsOpen
<1> QED
  BY <1>1, <1>2, <1>3 DEF DrainIInv

\* What only the connections take part in leaves DrainHandler and DrainServer alone.
LEMMA HandlerFrame ==
  ASSUME HandlerInv, UNCHANGED handlerVars, UNCHANGED ds
  PROVE  HandlerInv'
  BY DEF HandlerInv, CountsRequests, handlerVars

LEMMA TrackerFrame ==
  ASSUME TrackerInv, UNCHANGED conn, UNCHANGED trackerVars, UNCHANGED <<ds, toClose>>
  PROVE  TrackerInv'
  BY DEF TrackerInv, trackerVars, IsOpen

LEMMA WaitFrame ==
  ASSUME WaitInv, UNCHANGED <<ds, ctxDone>>, DrainTypeOK, doneCloses' \in Nat,
         doneCloses' >= doneCloses
  PROVE  WaitInv'
  BY DEF WaitInv, Waited, DrainTypeOK

\* Connections come, are tracked and served, and go.
LEMMA ConnectionsPreserve ==
  ASSUME DrainIInv, NEW c \in Conns, Accept(c) \/ Add(c) \/ Serve(c) \/ Disconnect(c)
  PROVE  DrainIInv'
<1> USE DEF DrainIInv
<1>1. UNCHANGED handlerVars /\ UNCHANGED drainVars
  BY DEF Accept, Add, Serve, Disconnect
<1>2. DrainTypeOK'
  BY <1>1 DEF DrainTypeOK, ConnStates, Accept, Add, Serve, Disconnect, Remove, handlerVars,
     drainVars, errVars, trackerVars
<1>3. HandlerInv'
  BY <1>1, HandlerFrame DEF drainVars
<1>4. TrackerInv'
  <2>1. conn \in [Conns -> ConnStates]
    BY DEF DrainTypeOK
  <2>2. CASE Accept(c)
    BY <2>1, <2>2 DEF TrackerInv, Accept, IsOpen, trackerVars, drainVars
  <2>3. CASE Add(c)
    BY <2>1, <2>3 DEF TrackerInv, Add, Addable, IsOpen, drainVars
  <2>4. CASE Serve(c)
    BY <2>1, <2>4 DEF TrackerInv, Serve, IsOpen, trackerVars, drainVars
  <2>5. CASE Disconnect(c)
    BY <2>1, <2>5 DEF TrackerInv, Disconnect, Remove, IsOpen, drainVars
  <2> QED
    BY <2>2, <2>3, <2>4, <2>5
<1>5. WaitInv'
  BY <1>1, WaitFrame DEF handlerVars, drainVars, DrainTypeOK
<1> QED
  BY <1>2, <1>3, <1>4, <1>5

LEMMA AdmitPreserves ==
  ASSUME DrainIInv, NEW c \in Conns, Admit(c)
  PROVE  DrainIInv'
<1> USE DEF DrainIInv
<1>1. IsFiniteSet(handling') /\ Cardinality(handling') = Cardinality(handling) + 1
  BY FS_AddElement DEF Admit, HandlerInv
<1>2. HandlerInv'
  BY <1>1 DEF HandlerInv, CountsRequests, Admit, Admitting, drainVars
<1>3. DrainTypeOK'
  BY DEF DrainTypeOK, Admit, trackerVars, drainVars, errVars
<1>4. TrackerInv'
  BY TrackerFrame DEF Admit, drainVars
<1>5. WaitInv'
  BY WaitFrame DEF Admit, drainVars, DrainTypeOK
<1> QED
  BY <1>2, <1>3, <1>4, <1>5

LEMMA FinishPreserves ==
  ASSUME DrainIInv, NEW c \in Conns, Finish(c)
  PROVE  DrainIInv'
<1> USE DEF DrainIInv
<1>1. IsFiniteSet(handling') /\ Cardinality(handling') = Cardinality(handling) - 1
  BY FS_RemoveElement DEF Finish, HandlerInv
<1>2. handling' = {} <=> active = 1
  BY <1>1, FS_EmptySet, FS_CardinalityType DEF HandlerInv, CountsRequests, DrainTypeOK
<1>3. active \in Nat /\ active >= 1
  BY FS_EmptySet, FS_CardinalityType, <1>1 DEF HandlerInv, CountsRequests, DrainTypeOK, Finish
<1>4. handling # {}
  BY DEF Finish
<1>5. HandlerInv'
  <2>1. CountsRequests'
    BY <1>1, <1>3 DEF Finish, CountsRequests, HandlerInv
  <2>2. doneCloses = 0
    BY <1>4 DEF HandlerInv
  <2>3. doneCloses' = IF draining' /\ handling' = {} THEN 1 ELSE 0
    BY <1>2, <2>2 DEF Finish, LastRequest
  <2> QED
    BY <1>1, <2>1, <2>3 DEF HandlerInv, Finish, drainVars
<1>6. DrainTypeOK'
  BY <1>3 DEF DrainTypeOK, Finish, trackerVars, drainVars, errVars
<1>7. TrackerInv'
  BY TrackerFrame DEF Finish, drainVars
<1>8. WaitInv'
  BY <1>6, WaitFrame DEF Finish, drainVars, DrainTypeOK
<1> QED
  BY <1>5, <1>6, <1>7, <1>8

LEMMA BeginDrainPreserves ==
  ASSUME DrainIInv, BeginDrain
  PROVE  DrainIInv'
<1> USE DEF DrainIInv
<1>1. active = 0 <=> handling = {}
  BY FS_EmptySet DEF HandlerInv, CountsRequests
<1>2. HandlerInv'
  BY <1>1 DEF HandlerInv, CountsRequests, BeginDrain, Goto
<1>3. DrainTypeOK'
  BY DEF DrainTypeOK, DrainPCs, BeginDrain, Goto, trackerVars, errVars
<1>4. TrackerInv'
  BY DEF TrackerInv, IsOpen, BeginDrain, Goto, trackerVars
<1>5. WaitInv'
  BY DEF WaitInv, Waited, BeginDrain, Goto
<1> QED
  BY <1>2, <1>3, <1>4, <1>5

\* DrainServer after BeginDrain; what it closes it also takes from the tracker.
LEMMA DrainStepPreserves ==
  ASSUME DrainIInv, DrainStep
  PROVE  DrainIInv'
<1> USE DEF DrainIInv
<1>1. UNCHANGED handlerVars
  BY DEF DrainStep, ShutdownBegins, ShutdownReturns, DrainReturns, WaitChecks, WaitWakes,
     CloseAllBegins, CloseAllEnds, CloseAllCloses
<1>2. ds # "idle" /\ ds' # "idle"
  BY DEF DrainStep, ShutdownBegins, ShutdownReturns, DrainReturns, WaitChecks, WaitWakes,
     CloseAllBegins, CloseAllEnds, CloseAllCloses, Goto
<1>3. HandlerInv'
  BY <1>1, <1>2 DEF HandlerInv, CountsRequests, handlerVars
<1>4. CASE ShutdownBegins \/ ShutdownReturns \/ WaitChecks \/ WaitWakes \/ DrainReturns
  <2>1. DrainTypeOK'
    BY <1>4 DEF DrainTypeOK, DrainPCs, ShutdownBegins, ShutdownReturns, WaitChecks, WaitWakes,
       DrainReturns, Goto, handlerVars, trackerVars, errVars
  <2>2. TrackerInv'
    BY <1>4 DEF TrackerInv, IsOpen, ShutdownBegins, ShutdownReturns, WaitChecks, WaitWakes,
       DrainReturns, Goto, trackerVars
  <2>3. WaitInv'
    BY <1>4 DEF WaitInv, Waited, ShutdownBegins, ShutdownReturns, WaitChecks, WaitWakes,
       DrainReturns, Drained, Goto, handlerVars
  <2> QED
    BY <1>3, <2>1, <2>2, <2>3
<1>5. CASE CloseAllBegins \/ CloseAllEnds
  <2>1. DrainTypeOK'
    BY <1>5 DEF DrainTypeOK, DrainPCs, CloseAllBegins, CloseAllEnds, Goto, handlerVars,
       trackerVars, errVars
  <2>2. TrackerInv'
    BY <1>5 DEF TrackerInv, IsOpen, CloseAllBegins, CloseAllEnds, Goto, trackerVars
  <2>3. WaitInv'
    BY <1>5 DEF WaitInv, Waited, CloseAllBegins, CloseAllEnds, Goto, handlerVars
  <2> QED
    BY <1>3, <2>1, <2>2, <2>3
<1>6. CASE \E c \in Conns : CloseAllCloses(c)
  <2>1. PICK c \in Conns : CloseAllCloses(c)
    BY <1>6
  <2>2. DrainTypeOK'
    BY <2>1 DEF DrainTypeOK, ConnStates, CloseAllCloses, Remove, handlerVars, errVars
  <2>3. TrackerInv'
    <3>1. conn \in [Conns -> ConnStates]
      BY DEF DrainTypeOK
    <3> QED
      BY <2>1, <3>1 DEF TrackerInv, IsOpen, CloseAllCloses, Remove
  <2>4. WaitInv'
    BY <2>1 DEF WaitInv, Waited, CloseAllCloses, handlerVars
  <2> QED
    BY <1>3, <2>2, <2>3, <2>4
<1> QED
  BY <1>4, <1>5, <1>6 DEF DrainStep

LEMMA DrainNextPreserves ==
  ASSUME DrainIInv, [DrainNext]_vars
  PROVE  DrainIInv'
<1>1. CASE \E c \in Conns : Accept(c) \/ Add(c) \/ Serve(c) \/ Disconnect(c)
  BY <1>1, ConnectionsPreserve
<1>2. CASE \E c \in Conns : Admit(c) \/ Finish(c)
  BY <1>2, AdmitPreserves, FinishPreserves
<1>3. CASE BeginDrain \/ DrainStep
  BY <1>3, BeginDrainPreserves, DrainStepPreserves
<1>4. CASE ContextExpires
  BY <1>4 DEF DrainIInv, DrainTypeOK, HandlerInv, CountsRequests, TrackerInv, WaitInv, IsOpen,
     ContextExpires, handlerVars, trackerVars, errVars
<1>5. CASE UNCHANGED vars
  BY <1>5 DEF DrainIInv, DrainTypeOK, HandlerInv, CountsRequests, TrackerInv, WaitInv, IsOpen,
     vars, handlerVars, trackerVars, drainVars, errVars
<1> QED
  BY <1>1, <1>2, <1>3, <1>4, <1>5 DEF DrainNext

\* The inductive invariant holds in every reachable state.
THEOREM DrainInvariantHolds == DrainSpec => []DrainIInv
  BY DrainInitially, DrainNextPreserves, PTL DEF DrainSpec

\* The counter of DrainHandler is the number of requests admitted and not ended, and
\* done is closed at most once, and only when there are none (drain.go:30-70).
THEOREM DrainCountsRight == DrainSpec => []DrainInv
<1>1. DrainIInv => DrainInv
  BY DEF DrainIInv, HandlerInv, DrainInv, DoneClosedOnce, DrainedMeansIdle
<1> QED
  BY <1>1, DrainInvariantHolds, PTL

\* After DrainServer no connection is open, whenever it was accepted (drain.go:146-167).
THEOREM NothingIsLeftOpen == DrainSpec => []NothingStaysOpen
<1>1. DrainIInv => NothingStaysOpen
  BY DEF DrainIInv, TrackerInv, NothingStaysOpen
<1> QED
  BY <1>1, DrainInvariantHolds, PTL

\* DrainServer closes a connection under a request only after its context expired
\* (drain.go:105-107).
THEOREM RequestsAreNotCut == DrainSpec => NoRequestCut
<1> DEFINE Uncut == \A c \in Conns : c \in toClose \ toClose' /\ IsOpen(c) /\ c \in handling
                                       => ctxDone
<1>1. ASSUME DrainIInv, [DrainNext]_vars PROVE [Uncut]_vars
  <2> SUFFICES ASSUME NEW c \in Conns, DrainNext, c \in toClose, c \notin toClose',
                      IsOpen(c), c \in handling
               PROVE  ctxDone
    BY <1>1
  <2>1. doneCloses = 0
    BY <1>1 DEF DrainIInv, HandlerInv
  <2>2. ds \in Waited
    <3>1. ds # "done"
      BY <1>1 DEF DrainIInv, TrackerInv
    <3>2. CASE CloseAllBegins \/ \E d \in Conns : CloseAllCloses(d)
      BY <3>2 DEF CloseAllBegins, CloseAllCloses, Waited
    <3>3. CASE ~(CloseAllBegins \/ \E d \in Conns : CloseAllCloses(d))
      <4>1. UNCHANGED toClose
        BY <3>3, <1>1 DEF DrainNext, DrainStep, Accept, Add, Serve, Disconnect, Admit, Finish,
           BeginDrain, ShutdownBegins, ShutdownReturns, DrainReturns, WaitChecks, WaitWakes,
           CloseAllEnds, ContextExpires, drainVars
      <4> QED
        BY <4>1
    <3> QED
      BY <3>2, <3>3
  <2> QED
    BY <1>1, <2>1, <2>2 DEF DrainIInv, WaitInv
<1> QED
  BY <1>1, DrainInvariantHolds, PTL DEF DrainSpec, NoRequestCut

=============================================================================
