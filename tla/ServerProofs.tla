---------------------------- MODULE ServerProofs ------------------------------
(***************************************************************************)
(* Proofs about Server.tla, for any requests, TCP endpoints, services and  *)
(* numbers of hook commands: the phases keep their order on every way out. *)
(***************************************************************************)
EXTENDS Server, TLAPS

Before == {"startUp", "listen"}
Ending == {"tearDown", "exited"}

Idle == http = {} /\ tcp = {}
Down == \A a \in Apps : service[a] = "stopped"

\* Before the listeners exist there is no work; what there is later is there because
\* every startUp command has succeeded.
BeforeInv ==
  /\ main \in Before => Idle /\ Down /\ ~startFailed /\ ~served
  /\ main \in Open \cup {"listen", "stopAll"} => startNext = StartUp + 1 /\ ~startFailed
  /\ ~Idle \/ ~Down => startNext = StartUp + 1 /\ ~startFailed

\* What the phases of the shutdown leave for the next: no request, and then no client of
\* a server that is shut down, but the one waited for.
AfterInv ==
  /\ main \in Before \cup {"serving", "stopUI", "drain"} => shut = {}
  /\ main = "tcp" =>
       /\ http = {} \/ expired
       /\ \A s \in shut : s = current \/ s \notin tcp \/ expired
  /\ main \in {"stopAll"} \cup Ending => Idle \/ expired

\* What a Stop has returned stays so, since no service starts any more.
StopInv ==
  /\ main \in Before \cup Open => \A a \in Apps : stops[a] = "none"
  /\ main \in Ending /\ served => AllReturned
  /\ \A a \in Apps : /\ stops[a] = "ok" => service[a] = "stopped"
                     /\ stops[a] = "error" => expired \/ service[a] = "failed"

\* The tearDown commands run so far are all those before the next, and that if it runs.
RanInv ==
  /\ main \notin Ending => ran = {} /\ tearNext = 1
  /\ main \in Ending =>
       tearExpired \/ ran = IF command THEN 1..tearNext ELSE 1..(tearNext - 1)
  /\ main = "exited" => tearNext = TearDown + 1 /\ ~command

\* A hook command runs only from a list that is not at its end.
CommandInv ==
  command => \/ main = "startUp" /\ startNext <= StartUp
             \/ main = "tearDown" /\ tearNext <= TearDown

\* Inductive.
ServerIInv == ServerTypeOK /\ CommandInv /\ BeforeInv /\ AfterInv /\ StopInv /\ RanInv

\* Heron starts within the invariant.
LEMMA ServerInitially == ServerInit => ServerIInv
<1> SUFFICES ASSUME ServerInit PROVE ServerIInv
  OBVIOUS
<1>1. ServerTypeOK
  <2>1. startNext \in 1..StartUp + 1 /\ tearNext \in 1..TearDown + 1
    BY HooksAssumption DEF ServerInit
  <2>2. {signaled, served, command, startFailed, expired, tearExpired} \subseteq BOOLEAN
    BY DEF ServerInit
  <2> QED
    BY <2>1, <2>2 DEF ServerInit, ServerTypeOK, Phases
<1>2. Idle /\ Down
  BY DEF ServerInit, Idle, Down
<1>3. BeforeInv /\ AfterInv /\ StopInv /\ RanInv /\ CommandInv
  BY <1>2 DEF ServerInit, BeforeInv, AfterInv, StopInv, RanInv, CommandInv, Before, Ending, Open
<1> QED
  BY <1>1, <1>3 DEF ServerIInv

\* Every step keeps the types; the counters of the hooks do so by CommandInv.
LEMMA TypePreserved ==
  ASSUME ServerIInv, [ServerNext]_vars
  PROVE  ServerTypeOK'
<1> ServerTypeOK /\ CommandInv
  BY DEF ServerIInv
<1> USE HooksAssumption DEF hookVars, workVars, shutVars, ServerTypeOK, Phases
<1>1. CASE StartUpRuns
  BY <1>1 DEF StartUpRuns
<1>2. CASE StartUpEnds
  <2>1. startNext' \in 1..StartUp + 1
    BY <1>2 DEF StartUpEnds, CommandInv
  <2> QED
    BY <1>2, <2>1 DEF StartUpEnds
<1>3. CASE StartUpFails
  BY <1>3 DEF StartUpFails
<1>4. CASE StartUpDone
  BY <1>4 DEF StartUpDone
<1>5. CASE Listen
  BY <1>5 DEF Listen
<1>6. CASE UIEnds
  BY <1>6 DEF UIEnds
<1>7. CASE ServingEnds
  BY <1>7 DEF ServingEnds
<1>8. CASE UIStopped
  BY <1>8 DEF UIStopped
<1>9. CASE Expires
  BY <1>9 DEF Expires
<1>10. CASE DrainReturns
  BY <1>10 DEF DrainReturns
<1>11. CASE ShutdownTCPReturns
  BY <1>11 DEF ShutdownTCPReturns
<1>12. CASE StopAll
  BY <1>12 DEF StopAll
<1>13. CASE StopAllReturns
  BY <1>13 DEF StopAllReturns
<1>14. CASE TearDownRuns
  <2>1. tearNext \in 1..TearDown /\ ran \subseteq 1..TearDown
    BY <1>14 DEF TearDownRuns
  <2>2. CASE tearExpired
    <3>1. tearNext' \in 1..TearDown + 1 /\ ran' = ran /\ command' = command
      BY <1>14, <2>1, <2>2 DEF TearDownRuns
    <3> QED
      BY <1>14, <3>1 DEF TearDownRuns
  <2>3. CASE ~tearExpired
    <3>1. command' = TRUE /\ tearNext' = tearNext /\ ran' = ran \cup {tearNext}
      BY <1>14, <2>3 DEF TearDownRuns
    <3>2. ran' \subseteq 1..TearDown
      BY <2>1, <3>1
    <3> QED
      BY <1>14, <3>1, <3>2 DEF TearDownRuns
  <2> QED
    BY <2>2, <2>3
<1>15. CASE TearDownEnds
  <2>1. tearNext' \in 1..TearDown + 1
    BY <1>15 DEF TearDownEnds, CommandInv
  <2> QED
    BY <1>15, <2>1 DEF TearDownEnds
<1>16. CASE TearDownExpires
  BY <1>16 DEF TearDownExpires
<1>17. CASE Exit
  BY <1>17 DEF Exit
<1>18. CASE Signal
  BY <1>18 DEF Signal
<1>19. ASSUME NEW r \in Requests, Admit(r) PROVE ServerTypeOK'
  BY <1>19 DEF Admit
<1>20. ASSUME NEW r \in Requests, Finish(r) PROVE ServerTypeOK'
  BY <1>20 DEF Finish
<1>21. ASSUME NEW s \in TCPServers, Connect(s) PROVE ServerTypeOK'
  BY <1>21 DEF Connect
<1>22. ASSUME NEW s \in TCPServers, Disconnect(s) PROVE ServerTypeOK'
  BY <1>22 DEF Disconnect
<1>23. ASSUME NEW a \in Apps, ServiceStarts(a) PROVE ServerTypeOK'
  BY <1>23 DEF ServiceStarts
<1>24. ASSUME NEW a \in Apps, ServiceEnds(a) PROVE ServerTypeOK'
  BY <1>24 DEF ServiceEnds
<1>25. ASSUME NEW s \in TCPServers, ShutdownTCP(s) PROVE ServerTypeOK'
  BY <1>25 DEF ShutdownTCP
<1>26. ASSUME NEW a \in Apps, ServiceStops(a) PROVE ServerTypeOK'
  BY <1>26 DEF ServiceStops
<1>27. ASSUME NEW a \in Apps, StopCall(a) PROVE ServerTypeOK'
  BY <1>27 DEF StopCall
<1>28. ASSUME NEW a \in Apps, StopReturns(a) PROVE ServerTypeOK'
  BY <1>28 DEF StopReturns
<1>29. CASE UNCHANGED vars
  BY <1>29 DEF vars
<1> QED
  BY <1>1, <1>2, <1>3, <1>4, <1>5, <1>6, <1>7, <1>8, <1>9, <1>10, <1>11, <1>12, <1>13,
     <1>14, <1>15, <1>16, <1>17, <1>18, <1>19, <1>20, <1>21, <1>22, <1>23, <1>24, <1>25, <1>26,
     <1>27, <1>28, <1>29
     DEF ServerNext, Clients, ShutdownStep

\* A list is left only between two of its commands.
LEMMA CommandPreserved ==
  ASSUME ServerIInv, [ServerNext]_vars
  PROVE  CommandInv'
<1> CommandInv /\ BeforeInv /\ AfterInv
  BY DEF ServerIInv
<1> /\ startNext \in 1..StartUp + 1 /\ tearNext \in 1..TearDown + 1
    /\ http \subseteq Requests /\ tcp \subseteq TCPServers /\ main \in Phases
    /\ service \in [Apps -> {"stopped", "running", "stopping", "failed"}]
  BY DEF ServerIInv, ServerTypeOK
<1> USE HooksAssumption DEF hookVars, workVars, shutVars, Phases, Before, Ending, Open, Idle, Down
<1> USE DEF CommandInv
<1>1. CASE StartUpRuns
  BY <1>1 DEF StartUpRuns
<1>2. CASE StartUpEnds
  BY <1>2 DEF StartUpEnds
<1>3. CASE StartUpFails
  BY <1>3 DEF StartUpFails
<1>4. CASE StartUpDone
  BY <1>4 DEF StartUpDone
<1>5. CASE Listen
  BY <1>5 DEF Listen
<1>6. CASE UIEnds
  BY <1>6 DEF UIEnds
<1>7. CASE ServingEnds
  BY <1>7 DEF ServingEnds
<1>8. CASE UIStopped
  BY <1>8 DEF UIStopped
<1>9. CASE Expires
  BY <1>9 DEF Expires
<1>10. CASE DrainReturns
  BY <1>10 DEF DrainReturns
<1>11. CASE ShutdownTCPReturns
  BY <1>11 DEF ShutdownTCPReturns
<1>12. CASE StopAll
  BY <1>12 DEF StopAll
<1>13. CASE StopAllReturns
  BY <1>13 DEF StopAllReturns
<1>14. CASE TearDownRuns
  BY <1>14 DEF TearDownRuns
<1>15. CASE TearDownEnds
  BY <1>15 DEF TearDownEnds
<1>16. CASE TearDownExpires
  BY <1>16 DEF TearDownExpires
<1>17. CASE Exit
  BY <1>17 DEF Exit
<1>18. CASE Signal
  BY <1>18 DEF Signal
<1>19. ASSUME NEW r \in Requests, Admit(r) PROVE CommandInv'
  BY <1>19 DEF Admit
<1>20. ASSUME NEW r \in Requests, Finish(r) PROVE CommandInv'
  BY <1>20 DEF Finish
<1>21. ASSUME NEW s \in TCPServers, Connect(s) PROVE CommandInv'
  BY <1>21 DEF Connect
<1>22. ASSUME NEW s \in TCPServers, Disconnect(s) PROVE CommandInv'
  BY <1>22 DEF Disconnect
<1>23. ASSUME NEW a \in Apps, ServiceStarts(a) PROVE CommandInv'
  BY <1>23 DEF ServiceStarts
<1>24. ASSUME NEW a \in Apps, ServiceEnds(a) PROVE CommandInv'
  BY <1>24 DEF ServiceEnds
<1>25. ASSUME NEW s \in TCPServers, ShutdownTCP(s) PROVE CommandInv'
  BY <1>25 DEF ShutdownTCP
<1>26. ASSUME NEW a \in Apps, ServiceStops(a) PROVE CommandInv'
  BY <1>26 DEF ServiceStops
<1>27. ASSUME NEW a \in Apps, StopCall(a) PROVE CommandInv'
  BY <1>27 DEF StopCall
<1>28. ASSUME NEW a \in Apps, StopReturns(a) PROVE CommandInv'
  BY <1>28 DEF StopReturns
<1>29. CASE UNCHANGED vars
  BY <1>29 DEF vars
<1> QED
  BY <1>1, <1>2, <1>3, <1>4, <1>5, <1>6, <1>7, <1>8, <1>9, <1>10, <1>11, <1>12, <1>13,
     <1>14, <1>15, <1>16, <1>17, <1>18, <1>19, <1>20, <1>21, <1>22, <1>23, <1>24, <1>25, <1>26,
     <1>27, <1>28, <1>29
     DEF ServerNext, Clients, ShutdownStep

\* Work comes only after startUp, which alone sets startFailed.
LEMMA BeforePreserved ==
  ASSUME ServerIInv, [ServerNext]_vars
  PROVE  BeforeInv'
<1> CommandInv /\ BeforeInv /\ AfterInv
  BY DEF ServerIInv
<1> /\ startNext \in 1..StartUp + 1 /\ tearNext \in 1..TearDown + 1
    /\ http \subseteq Requests /\ tcp \subseteq TCPServers /\ main \in Phases
    /\ service \in [Apps -> {"stopped", "running", "stopping", "failed"}]
  BY DEF ServerIInv, ServerTypeOK
<1> USE HooksAssumption DEF hookVars, workVars, shutVars, Phases, Before, Ending, Open, Idle, Down
<1> USE DEF BeforeInv, CommandInv
<1>1. CASE StartUpRuns
  BY <1>1 DEF StartUpRuns
<1>2. CASE StartUpEnds
  BY <1>2 DEF StartUpEnds
<1>3. CASE StartUpFails
  BY <1>3 DEF StartUpFails
<1>4. CASE StartUpDone
  BY <1>4 DEF StartUpDone
<1>5. CASE Listen
  BY <1>5 DEF Listen
<1>6. CASE UIEnds
  BY <1>6 DEF UIEnds
<1>7. CASE ServingEnds
  BY <1>7 DEF ServingEnds
<1>8. CASE UIStopped
  BY <1>8 DEF UIStopped
<1>9. CASE Expires
  BY <1>9 DEF Expires
<1>10. CASE DrainReturns
  BY <1>10 DEF DrainReturns
<1>11. CASE ShutdownTCPReturns
  BY <1>11 DEF ShutdownTCPReturns
<1>12. CASE StopAll
  BY <1>12 DEF StopAll
<1>13. CASE StopAllReturns
  BY <1>13 DEF StopAllReturns
<1>14. CASE TearDownRuns
  BY <1>14 DEF TearDownRuns
<1>15. CASE TearDownEnds
  BY <1>15 DEF TearDownEnds
<1>16. CASE TearDownExpires
  BY <1>16 DEF TearDownExpires
<1>17. CASE Exit
  BY <1>17 DEF Exit
<1>18. CASE Signal
  BY <1>18 DEF Signal
<1>19. ASSUME NEW r \in Requests, Admit(r) PROVE BeforeInv'
  BY <1>19 DEF Admit
<1>20. ASSUME NEW r \in Requests, Finish(r) PROVE BeforeInv'
  BY <1>20 DEF Finish
<1>21. ASSUME NEW s \in TCPServers, Connect(s) PROVE BeforeInv'
  BY <1>21 DEF Connect
<1>22. ASSUME NEW s \in TCPServers, Disconnect(s) PROVE BeforeInv'
  BY <1>22 DEF Disconnect
<1>23. ASSUME NEW a \in Apps, ServiceStarts(a) PROVE BeforeInv'
  BY <1>23 DEF ServiceStarts
<1>24. ASSUME NEW a \in Apps, ServiceEnds(a) PROVE BeforeInv'
  BY <1>24 DEF ServiceEnds
<1>25. ASSUME NEW s \in TCPServers, ShutdownTCP(s) PROVE BeforeInv'
  BY <1>25 DEF ShutdownTCP
<1>26. ASSUME NEW a \in Apps, ServiceStops(a) PROVE BeforeInv'
  BY <1>26 DEF ServiceStops
<1>27. ASSUME NEW a \in Apps, StopCall(a) PROVE BeforeInv'
  BY <1>27 DEF StopCall
<1>28. ASSUME NEW a \in Apps, StopReturns(a) PROVE BeforeInv'
  BY <1>28 DEF StopReturns
<1>29. CASE UNCHANGED vars
  BY <1>29 DEF vars
<1> QED
  BY <1>1, <1>2, <1>3, <1>4, <1>5, <1>6, <1>7, <1>8, <1>9, <1>10, <1>11, <1>12, <1>13,
     <1>14, <1>15, <1>16, <1>17, <1>18, <1>19, <1>20, <1>21, <1>22, <1>23, <1>24, <1>25, <1>26,
     <1>27, <1>28, <1>29
     DEF ServerNext, Clients, ShutdownStep

\* Each phase of the shutdown keeps what it waited for, since its clients are shut out.
LEMMA AfterPreserved ==
  ASSUME ServerIInv, [ServerNext]_vars
  PROVE  AfterInv'
<1> CommandInv /\ BeforeInv /\ AfterInv
  BY DEF ServerIInv
<1> /\ startNext \in 1..StartUp + 1 /\ tearNext \in 1..TearDown + 1
    /\ http \subseteq Requests /\ tcp \subseteq TCPServers /\ main \in Phases
    /\ service \in [Apps -> {"stopped", "running", "stopping", "failed"}]
  BY DEF ServerIInv, ServerTypeOK
<1> USE HooksAssumption DEF hookVars, workVars, shutVars, Phases, Before, Ending, Open, Idle, Down
<1> USE NoneAssumption DEF AfterInv, BeforeInv
<1>1. CASE StartUpRuns
  BY <1>1 DEF StartUpRuns
<1>2. CASE StartUpEnds
  BY <1>2 DEF StartUpEnds
<1>3. CASE StartUpFails
  BY <1>3 DEF StartUpFails
<1>4. CASE StartUpDone
  BY <1>4 DEF StartUpDone
<1>5. CASE Listen
  BY <1>5 DEF Listen
<1>6. CASE UIEnds
  BY <1>6 DEF UIEnds
<1>7. CASE ServingEnds
  BY <1>7 DEF ServingEnds
<1>8. CASE UIStopped
  BY <1>8 DEF UIStopped
<1>9. CASE Expires
  BY <1>9 DEF Expires
<1>10. CASE DrainReturns
  BY <1>10 DEF DrainReturns, Drained
<1>11. CASE ShutdownTCPReturns
  BY <1>11 DEF ShutdownTCPReturns
<1>12. CASE StopAll
  BY <1>12 DEF StopAll
<1>13. CASE StopAllReturns
  BY <1>13 DEF StopAllReturns
<1>14. CASE TearDownRuns
  BY <1>14 DEF TearDownRuns
<1>15. CASE TearDownEnds
  BY <1>15 DEF TearDownEnds
<1>16. CASE TearDownExpires
  BY <1>16 DEF TearDownExpires
<1>17. CASE Exit
  BY <1>17 DEF Exit
<1>18. CASE Signal
  BY <1>18 DEF Signal
<1>19. ASSUME NEW r \in Requests, Admit(r) PROVE AfterInv'
  BY <1>19 DEF Admit
<1>20. ASSUME NEW r \in Requests, Finish(r) PROVE AfterInv'
  BY <1>20 DEF Finish
<1>21. ASSUME NEW s \in TCPServers, Connect(s) PROVE AfterInv'
  BY <1>21 DEF Connect
<1>22. ASSUME NEW s \in TCPServers, Disconnect(s) PROVE AfterInv'
  BY <1>22 DEF Disconnect
<1>23. ASSUME NEW a \in Apps, ServiceStarts(a) PROVE AfterInv'
  BY <1>23 DEF ServiceStarts
<1>24. ASSUME NEW a \in Apps, ServiceEnds(a) PROVE AfterInv'
  BY <1>24 DEF ServiceEnds
<1>25. ASSUME NEW s \in TCPServers, ShutdownTCP(s) PROVE AfterInv'
  BY <1>25 DEF ShutdownTCP
<1>26. ASSUME NEW a \in Apps, ServiceStops(a) PROVE AfterInv'
  BY <1>26 DEF ServiceStops
<1>27. ASSUME NEW a \in Apps, StopCall(a) PROVE AfterInv'
  BY <1>27 DEF StopCall
<1>28. ASSUME NEW a \in Apps, StopReturns(a) PROVE AfterInv'
  BY <1>28 DEF StopReturns
<1>29. CASE UNCHANGED vars
  BY <1>29 DEF vars
<1> QED
  BY <1>1, <1>2, <1>3, <1>4, <1>5, <1>6, <1>7, <1>8, <1>9, <1>10, <1>11, <1>12, <1>13,
     <1>14, <1>15, <1>16, <1>17, <1>18, <1>19, <1>20, <1>21, <1>22, <1>23, <1>24, <1>25, <1>26,
     <1>27, <1>28, <1>29
     DEF ServerNext, Clients, ShutdownStep

\* Calls of Stop are made and return while StopAll waits, and by then no service starts.
LEMMA StopPreserved ==
  ASSUME ServerIInv, [ServerNext]_vars
  PROVE  StopInv'
<1>0. /\ service \in [Apps -> {"stopped", "running", "stopping", "failed"}]
      /\ stops \in [Apps -> {"none", "waiting", "ok", "error"}] /\ main \in Phases
      /\ BeforeInv /\ StopInv
  BY DEF ServerIInv, ServerTypeOK
<1> USE DEF Phases, Before, Ending, Open
<1>1. ASSUME NEW a \in Apps, ServiceStarts(a) \/ ServiceStops(a) PROVE StopInv'
  BY <1>0, <1>1 DEF ServiceStarts, ServiceStops, shutVars, StopInv, AllReturned
<1>2. ASSUME NEW a \in Apps, ServiceEnds(a) PROVE StopInv'
  <2>1. /\ UNCHANGED <<main, served, stops, expired>>
        /\ \A b \in Apps : service[b] \in {"stopped", "failed"} => service'[b] = service[b]
    BY <1>0, <1>2 DEF ServiceEnds, shutVars
  <2> QED
    BY <1>0, <2>1 DEF StopInv, AllReturned
<1>3. ASSUME NEW a \in Apps, StopCall(a) PROVE StopInv'
  BY <1>0, <1>3 DEF StopCall, Stopped, StopInv, AllReturned
<1>4. ASSUME NEW a \in Apps, StopReturns(a) PROVE StopInv'
  BY <1>0, <1>4 DEF StopReturns, workVars, StopInv, AllReturned
<1>5. CASE StopAllReturns
  BY <1>0, <1>5 DEF StopAllReturns, workVars, shutVars, StopInv, AllReturned
<1>6. CASE Expires
  BY <1>0, <1>6 DEF Expires, workVars, StopInv, AllReturned
<1>7. CASE StopAll
  BY <1>0, <1>7 DEF StopAll, workVars, shutVars, StopInv, AllReturned
<1>8. CASE StartUpRuns \/ StartUpEnds \/ StartUpFails \/ StartUpDone \/ Listen
  BY <1>0, <1>8 DEF StartUpRuns, StartUpEnds, StartUpFails, StartUpDone, Listen, workVars,
    shutVars, BeforeInv, StopInv, AllReturned
<1>9. CASE ServingEnds \/ UIStopped \/ DrainReturns \/ Signal \/ UIEnds
  BY <1>0, <1>9 DEF ServingEnds, UIStopped, DrainReturns, Signal, UIEnds, workVars, shutVars,
    StopInv, AllReturned
<1>10. CASE TearDownRuns \/ TearDownEnds \/ TearDownExpires \/ Exit
  BY <1>0, <1>10 DEF TearDownRuns, TearDownEnds, TearDownExpires, Exit, workVars, shutVars,
    StopInv, AllReturned
<1>11. ASSUME NEW r \in Requests, Admit(r) \/ Finish(r) PROVE StopInv'
  BY <1>0, <1>11 DEF Admit, Finish, shutVars, StopInv, AllReturned
<1>12. ASSUME NEW s \in TCPServers, Connect(s) \/ Disconnect(s) PROVE StopInv'
  BY <1>0, <1>12 DEF Connect, Disconnect, shutVars, StopInv, AllReturned
<1>13. CASE ShutdownTCPReturns \/ \E s \in TCPServers : ShutdownTCP(s)
  BY <1>0, <1>13 DEF ShutdownTCP, ShutdownTCPReturns, workVars, StopInv, AllReturned
<1>14. CASE UNCHANGED vars
  BY <1>0, <1>14 DEF vars, workVars, shutVars, StopInv, AllReturned
<1> QED
  BY <1>1, <1>2, <1>3, <1>4, <1>5, <1>6, <1>7, <1>8, <1>9, <1>10, <1>11, <1>12, <1>13, <1>14
     DEF ServerNext, Clients, ShutdownStep

\* A tearDown command is passed over only after the deadline of TearDown.
LEMMA RanPreserved ==
  ASSUME ServerIInv, [ServerNext]_vars
  PROVE  RanInv'
<1>0. /\ tearNext \in 1..TearDown + 1 /\ TearDown \in Nat /\ main \in Phases
      /\ CommandInv /\ RanInv
  BY HooksAssumption DEF ServerIInv, ServerTypeOK
<1> USE DEF Phases, Ending
<1>1. CASE TearDownRuns
  <2>1. CASE tearExpired
    BY <1>0, <1>1, <2>1 DEF TearDownRuns, RanInv
  <2>2. CASE ~tearExpired
    <3>1. 1..(tearNext - 1) \cup {tearNext} = 1..tearNext
      BY <1>0
    <3> QED
      BY <1>0, <1>1, <2>2, <3>1 DEF TearDownRuns, RanInv
  <2> QED
    BY <2>1, <2>2
<1>2. CASE TearDownEnds
  <2>1. tearNext + 1 - 1 = tearNext
    BY <1>0
  <2> QED
    BY <1>0, <1>2, <2>1 DEF TearDownEnds, RanInv
<1>3. CASE TearDownExpires
  BY <1>0, <1>3 DEF TearDownExpires, RanInv
<1>4. CASE Exit
  BY <1>0, <1>4 DEF Exit, hookVars, RanInv
<1>5. CASE StartUpRuns \/ StartUpEnds
  BY <1>0, <1>5 DEF StartUpRuns, StartUpEnds, RanInv
<1>6. CASE StartUpFails
  <2>1. 1..(1 - 1) = {}
    OBVIOUS
  <2> QED
    BY <1>0, <1>6, <2>1 DEF StartUpFails, RanInv
<1>7. CASE Listen \/ StopAllReturns
  <2>1. 1..(1 - 1) = {}
    OBVIOUS
  <2>2. ~command /\ ran = {} /\ tearNext = 1 /\ main' \in {"serving", "tearDown"}
    BY <1>0, <1>7 DEF Listen, StopAllReturns, CommandInv, RanInv
  <2>3. ~command' /\ ran' = {} /\ tearNext' = 1
    BY <1>7, <2>2 DEF Listen, StopAllReturns, hookVars
  <2> QED
    BY <2>1, <2>2, <2>3 DEF RanInv
<1>8. ASSUME UNCHANGED hookVars, main' = main \/ (main \notin Ending /\ main' \notin Ending)
      PROVE  RanInv'
  BY <1>0, <1>8 DEF hookVars, RanInv
<1>9. CASE StartUpDone \/ ServingEnds \/ UIStopped \/ DrainReturns \/ StopAll
  BY <1>8, <1>9 DEF StartUpDone, ServingEnds, UIStopped, DrainReturns, StopAll
<1>10. CASE Signal \/ UIEnds \/ Expires \/ ShutdownTCPReturns
  BY <1>8, <1>10 DEF Signal, UIEnds, Expires, ShutdownTCPReturns
<1>11. CASE Clients
  BY <1>8, <1>11 DEF Clients, Admit, Finish, Connect, Disconnect, ServiceStarts, ServiceStops,
    ServiceEnds
<1>12. CASE \/ \E s \in TCPServers : ShutdownTCP(s)
           \/ \E a \in Apps : StopCall(a) \/ StopReturns(a)
  BY <1>8, <1>12 DEF ShutdownTCP, StopCall, StopReturns
<1>13. CASE UNCHANGED vars
  BY <1>8, <1>13 DEF vars
<1> QED
  BY <1>1, <1>2, <1>3, <1>4, <1>5, <1>6, <1>7, <1>9, <1>10, <1>11, <1>12, <1>13
     DEF ServerNext, ShutdownStep

\* The invariant is inductive.
LEMMA ServerNextPreserves == ServerIInv /\ [ServerNext]_vars => ServerIInv'
<1> SUFFICES ASSUME ServerIInv, [ServerNext]_vars PROVE ServerIInv'
  OBVIOUS
<1> QED
  BY TypePreserved, CommandPreserved, BeforePreserved, AfterPreserved, StopPreserved,
     RanPreserved DEF ServerIInv

-----------------------------------------------------------------------------
\* The inductive invariant holds in every reachable state.
THEOREM ServerInvariantHolds == ServerSpec => []ServerIInv
<1>1. ServerInit => ServerIInv
  BY ServerInitially
<1>2. ServerIInv /\ [ServerNext]_vars => ServerIInv'
  BY ServerNextPreserves
<1> QED
  BY <1>1, <1>2, PTL DEF ServerSpec

\* The phases keep their order: nothing is served before startUp has succeeded, and no
\* service is asked to stop while something uses it before the deadline.
THEOREM PhasesInOrder == ServerSpec => []ServerInv
<1>1. ServerIInv => ServerInv
  BY DEF ServerIInv, ServerTypeOK, BeforeInv, AfterInv, Idle, Down, Ending, Open, ServerInv,
     StartUpFirst, StoppedAfterDrain
<1> QED
  BY <1>1, ServerInvariantHolds, PTL

\* heron exits only after it has run every tearDown command, or the deadline of TearDown
\* came, and if it served after it has asked every service to stop (TornDown).
THEOREM TearDownIsReached == ServerSpec => []TornDown
<1>1. ServerIInv => TornDown
  <2> SUFFICES ASSUME ServerIInv, main = "exited"
               PROVE  /\ ran = 1..TearDown \/ tearExpired
                      /\ served => AllReturned
    BY DEF TornDown, AllReturned
  <2>1. TearDown \in Nat /\ TearDown + 1 - 1 = TearDown
    BY HooksAssumption
  <2> QED
    BY <2>1 DEF ServerIInv, RanInv, StopInv, Ending
<1> QED
  BY <1>1, ServerInvariantHolds, PTL

\* A service is not stopped when heron exits only if StopAll has returned an error for it,
\* and before the deadline only because its stop command has failed (CleanExit).
THEOREM ServicesAreStopped == ServerSpec => []CleanExit
<1>1. ServerIInv => CleanExit
  <2> SUFFICES ASSUME ServerIInv, served, main \in Ending, NEW a \in Apps
               PROVE  \/ stops[a] = "ok" /\ service[a] = "stopped"
                      \/ stops[a] = "error" /\ (expired \/ service[a] = "failed")
    BY DEF CleanExit, Ending
  <2>1. stops[a] \in {"ok", "error"}
    BY DEF ServerIInv, StopInv, AllReturned
  <2>2. /\ stops[a] = "ok" => service[a] = "stopped"
        /\ stops[a] = "error" => expired \/ service[a] = "failed"
    BY DEF ServerIInv, StopInv
  <2> QED
    BY <2>1, <2>2
<1> QED
  BY <1>1, ServerInvariantHolds, PTL

=============================================================================
