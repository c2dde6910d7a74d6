---- MODULE ServiceLifecycleProofs ----
(***************************************************************************)
(* What holds of starting and stopping for any number of starts and opens, *)
(* whether or not handlers stop the service and workers fail.              *)
(***************************************************************************)
EXTENDS ServiceLifecycle, TLAPS

Alive == state \in {"RUNNING", "AT_EXITING"}

(* The loop runs only in a running service; the owner's calls that start   *)
(* and stop it are under way only in a live one; and a live service's      *)
(* thread can be joined, but for the moment start() has not assigned it    *)
(* and the moment after the join.                                          *)
LifeInv ==
  /\ Alive \/ state = "IDLE" \/ (state = "UNINITIALIZED" /\ owner = "gone")
  /\ worker \in LoopPcs => state = "RUNNING"
  /\ worker \in LoopPcs => joinable \/ owner = "startAssign"
  /\ owner = "startThread" => worker \notin LoopPcs /\ state = "RUNNING"
  /\ owner \in {"startThread", "startAssign", "startId", "stopSet", "stopClose",
                "handle", "join"} => Alive
  /\ Alive /\ owner \notin {"startThread", "startAssign", "finish"} => joinable
  /\ owner \in {"startThread", "startAssign", "finish"} => ~joinable
  /\ owner = "finish" => state = "AT_EXITING" /\ worker = "exited"

Inv == LifeInv /\ IdleIsQuiet

LEMMA InvStep == Inv /\ [Next]_vars => Inv'
<1> SUFFICES ASSUME Inv, [Next]_vars PROVE Inv'
  OBVIOUS
<1> USE DEF Inv, LifeInv, Alive, IdleIsQuiet, LoopPcs
<1>1. CASE OpenByOwner
  BY <1>1 DEF OpenByOwner, OpenRequest, OwnerCall, svcVars,
         chanVars
<1>2. CASE Start
  BY <1>2 DEF Start, OwnerCall, svcVars, chanVars
<1>3. CASE StartThread
  BY <1>3 DEF StartThread, OwnerCall, svcVars, chanVars
<1>4. CASE StartAssign
  BY <1>4 DEF StartAssign, OwnerCall, svcVars, chanVars
<1>5. CASE StartId
  BY <1>5 DEF StartId, OwnerCall, svcVars, chanVars
<1>6. CASE Stop
  BY <1>6 DEF Stop, OwnerCall, svcVars, chanVars
<1>7. CASE DoStopTest
  BY <1>7 DEF DoStopTest, Returned, OwnerCall, svcVars, chanVars
<1>8. CASE DoStopSet
  BY <1>8 DEF DoStopSet, OwnerCall, svcVars, chanVars
<1>9. CASE DoStopClose
  BY <1>9 DEF DoStopClose, Returned, CloseRequest, OwnerCall, svcVars,
         chanVars
<1>10. CASE HandleStop
  BY <1>10 DEF HandleStop, OwnerCall, svcVars, chanVars
<1>11. CASE Join
  BY <1>11 DEF Join, OwnerCall, svcVars, chanVars
<1>12. CASE FinishStop
  BY <1>12 DEF FinishStop, Returned, OwnerCall, svcVars, chanVars
<1>13. CASE Finalize
  BY <1>13 DEF Finalize, OwnerCall, svcVars, chanVars
<1>14. CASE PollIo
  BY <1>14 DEF PollIo, WorkerStep, svcVars, chanVars
<1>15. CASE PollFails
  BY <1>15 DEF PollFails, WorkerStep, svcVars, chanVars
<1>16. CASE WorkerKilled
  BY <1>16 DEF WorkerKilled, svcVars, chanVars
<1>17. CASE TransportKept
  BY <1>17 DEF TransportKept, WorkerStep, svcVars, chanVars
<1>18. CASE TransportClosed
  BY <1>18 DEF TransportClosed, WorkerStep, svcVars, chanVars
<1>19. CASE TakeOpen
  BY <1>19 DEF TakeOpen, ConnectNow, ConnectNever, WorkerStep, svcVars,
         chanVars
<1>20. CASE Completion
  BY <1>20 DEF Completion, ConnectNow, ConnectNever, WorkerStep, svcVars,
         chanVars
<1>21. CASE NoChannelWork
  BY <1>21 DEF NoChannelWork, WorkerStep, svcVars, chanVars
<1>22. CASE ProcessTimers
  BY <1>22 DEF ProcessTimers, ConnectNever, WorkerStep, svcVars,
         chanVars
<1>23. CASE OpenByHandler
  BY <1>23 DEF OpenByHandler, OpenRequest, svcVars, chanVars
<1>24. CASE StopByHandler
  BY <1>24 DEF StopByHandler, CloseRequest, svcVars, chanVars
<1>25. CASE HandlersReturn
  BY <1>25 DEF HandlersReturn, WorkerStep, svcVars, chanVars
<1>26. CASE LoopAgain
  BY <1>26 DEF LoopAgain, WorkerStep, svcVars, chanVars
<1>27. CASE LoopEnds
  BY <1>27 DEF LoopEnds, WorkerStep, svcVars, chanVars
<1>28. CASE Tick
  BY <1>28 DEF Tick, svcVars, chanVars
<1>29. CASE UNCHANGED vars
  BY <1>29 DEF vars, svcVars, chanVars
<1> QED
  BY <1>1, <1>2, <1>3, <1>4, <1>5, <1>6, <1>7, <1>8, <1>9, <1>10, <1>11, <1>12,
     <1>13, <1>14, <1>15, <1>16, <1>17, <1>18, <1>19, <1>20, <1>21, <1>22,
     <1>23, <1>24, <1>25, <1>26, <1>27, <1>28, <1>29
  DEF Next, OwnerSteps, WorkerSteps

LEMMA Invariant == Spec => []Inv
<1>1. Init => Inv
  BY Zenon DEF Init, Inv, LifeInv, Alive, IdleIsQuiet, LoopPcs
<1> QED
  BY <1>1, InvStep, PTL DEF Spec

(* IDLE means that no thread, transport, timer or pending stop is left,    *)
(* so that start() finds a clean service.                                  *)
THEOREM IdleQuiet == Spec => []IdleIsQuiet
<1>1. Inv => IdleIsQuiet
  BY DEF Inv
<1> QED
  BY <1>1, Invariant, PTL

(* Whoever reaches handle_stop on the owner's thread leaves the service    *)
(* idle.                                                                   *)
THEOREM JoinIdle == Spec => JoinMakesIdle
<1>1. Inv /\ [Next]_vars => [owner = "finish" /\ owner' # "finish" => state' = "IDLE"]_vars
  <2> SUFFICES ASSUME Inv, [Next]_vars, owner = "finish", owner' # "finish"
               PROVE  state' = "IDLE"
    OBVIOUS
  <2>1. FinishStop
    BY DEF Inv, LifeInv, LoopPcs, Next, OwnerSteps, WorkerSteps, OpenByOwner, Start, StartThread,
           StartAssign, StartId, Stop, DoStopTest, DoStopSet, DoStopClose, HandleStop,
           Join, Finalize, OwnerCall, PollIo, PollFails, WorkerKilled, TransportKept,
           TransportClosed, TakeOpen, Completion, NoChannelWork, ProcessTimers,
           OpenByHandler, StopByHandler, HandlersReturn, LoopAgain, LoopEnds, Tick,
           WorkerStep, vars
  <2> QED
    BY <2>1 DEF FinishStop, Inv, LifeInv
<1> QED
  BY <1>1, Invariant, PTL DEF Spec, JoinMakesIdle
====
