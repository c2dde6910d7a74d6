---- MODULE ClientChannelProofs ----
(***************************************************************************)
(* What holds of a client channel for any number of calls, connections and *)
(* memory blocks.  The first theorems hold on either thread and whatever   *)
(* the kernel does with descriptors; the others assume that it does not    *)
(* reuse them at once, that the calls come from handlers, or both.         *)
(***************************************************************************)
EXTENDS ClientChannel, TLAPS

(* Transports are connections made, and the one being closed is still      *)
(* there but will not be visited again.                                    *)
Placed ==
  /\ transports \subseteq 1 .. nconn
  /\ pc \in TransportPcs => cur \in transports /\ cur \notin visit

(* A channel that is between closed and open is in the hands of            *)
(* process_channels, or waits for the network with EINPROGRESS.            *)
Underway ==
  /\ state = "RESOLVING" => pc \in {"resolve", "connect", "cleanState"}
  /\ state = "CONNECTING" => inprogress \/ pc \in {"popen", "cleanState"}

(* While the lock is held the channel is in channel_ops_; and once the     *)
(* request was taken up under the lock, a new one can come only from a     *)
(* call that waits for the lock.                                           *)
TakenUp ==
  \/ pc \in ChannelPcs \ {"channel", "openRead", "openWrite"}
  \/ pc \in CleanupPcs /\ ret # "dispatch"
Requesting == call \in {"openSet", "openPush"}
Locked ==
  /\ OpsLocked => queued
  /\ TakenUp /\ OPEN \in opmask => Requesting
  /\ pc = "maskWrite" /\ OPEN \in reg => queued \/ Requesting

TypeInv == TypeOK /\ Placed
(* What the log says of each connection: only connections made are in it,  *)
(* and those whose ON_CLOSE it has are the ones gone from transports_ or   *)
(* just being closed.                                                      *)
Gone(c) ==
  c \notin transports \/ (c = cur /\ pc \in TransportPcs \ {"fireClose"})
LogKnown == \A i \in DOMAIN log : log[i].kind # "fail" => log[i].conn \in 1 .. nconn
ClosedGone == \A c \in 1 .. nconn : Fired("close", c) <=> Gone(c)
NoRepeats ==
  \A i, j \in DOMAIN log : log[i].kind # "fail" /\ log[i] = log[j] => i = j
LogInv == LogKnown /\ ClosedGone /\ NoRepeats

QueueInv == TypeInv /\ Underway /\ Locked /\ AttemptQueued /\ RequestQueued

LEMMA InitInv == Init => QueueInv
<1> SUFFICES ASSUME Init PROVE QueueInv
  OBVIOUS
<1>1. handle \in [Conns -> Slots] /\ tmask \in [Slots -> BOOLEAN]
  BY ConstantsAssumption DEF Init
<1>2. /\ inprogress \in BOOLEAN /\ queued \in BOOLEAN /\ ready \in BOOLEAN
      /\ late \in BOOLEAN /\ pending \in BOOLEAN
  BY Zenon DEF Init
<1>3. TypeInv
  BY <1>1, <1>2, ConstantsAssumption DEF Init, TypeInv, TypeOK, Placed, TransportPcs
<1>4. Underway /\ Locked /\ AttemptQueued /\ RequestQueued
  BY DEF Init, Underway, Locked, OpsLocked, TakenUp, AttemptQueued, RequestQueued,
         ChannelPcs, CleanupPcs
<1> QED
  BY <1>3, <1>4 DEF QueueInv

LEMMA TypeStep == TypeInv /\ [Next]_vars => TypeInv'
<1> SUFFICES ASSUME TypeInv, [Next]_vars PROVE TypeInv'
  OBVIOUS
<1> USE ConstantsAssumption
<1>1. CASE OpenRefused
  BY <1>1 DEF TypeInv, TypeOK, Placed, Conns, EventType, TransportPcs,
         ChannelPcs, CleanupPcs, OPEN, CLOSE, OpenRefused, MayCall,
         AppUnchanged, chanVars, sockVars, timerVars, transVars, eventVars,
         loopVars, appVars, monitors
<1>2. CASE OpenAccepted
  BY <1>2 DEF TypeInv, TypeOK, Placed, Conns, EventType, TransportPcs,
         ChannelPcs, CleanupPcs, OPEN, CLOSE, OpenAccepted, MayCall,
         AppUnchanged, chanVars, sockVars, timerVars, transVars, eventVars,
         loopVars, appVars, monitors
<1>3. CASE OpenClear
  BY <1>3 DEF TypeInv, TypeOK, Placed, Conns, EventType, TransportPcs,
         ChannelPcs, CleanupPcs, OPEN, CLOSE, OpenClear, AppUnchanged,
         chanVars, sockVars, timerVars, transVars, eventVars, loopVars,
         appVars, monitors
<1>4. CASE OpenSet
  BY <1>4 DEF TypeInv, TypeOK, Placed, Conns, EventType, TransportPcs,
         ChannelPcs, CleanupPcs, OPEN, CLOSE, OpenSet, AppUnchanged,
         chanVars, sockVars, timerVars, transVars, eventVars, loopVars,
         appVars, monitors
<1>5. CASE OpenPush
  BY <1>5 DEF TypeInv, TypeOK, Placed, Conns, EventType, TransportPcs,
         ChannelPcs, CleanupPcs, OPEN, CLOSE, OpenPush, OpsLocked,
         AppUnchanged, chanVars, sockVars, timerVars, transVars, eventVars,
         loopVars, appVars, monitors
<1>6. CASE CloseIgnored
  BY <1>6 DEF TypeInv, TypeOK, Placed, Conns, EventType, TransportPcs,
         ChannelPcs, CleanupPcs, OPEN, CLOSE, CloseIgnored, MayCall,
         AppUnchanged, chanVars, sockVars, timerVars, transVars, eventVars,
         loopVars, appVars, monitors
<1>7. CASE CloseBegin
  BY <1>7 DEF TypeInv, TypeOK, Placed, Conns, EventType, TransportPcs,
         ChannelPcs, CleanupPcs, OPEN, CLOSE, CloseBegin, MayCall,
         AppUnchanged, chanVars, sockVars, timerVars, transVars, eventVars,
         loopVars, appVars, monitors
<1>8. CASE CloseClear
  BY <1>8 DEF TypeInv, TypeOK, Placed, Conns, EventType, TransportPcs,
         ChannelPcs, CleanupPcs, OPEN, CLOSE, CloseClear, AppUnchanged,
         chanVars, sockVars, timerVars, transVars, eventVars, loopVars,
         appVars, monitors
<1>9. CASE CloseTest
  BY <1>9 DEF TypeInv, TypeOK, Placed, Conns, EventType, TransportPcs,
         ChannelPcs, CleanupPcs, OPEN, CLOSE, CloseTest, AppUnchanged,
         chanVars, sockVars, timerVars, transVars, eventVars, loopVars,
         appVars, monitors
<1>10. CASE CloseSet
  BY <1>10 DEF TypeInv, TypeOK, Placed, Conns, EventType, TransportPcs,
         ChannelPcs, CleanupPcs, OPEN, CLOSE, CloseSet, AppUnchanged,
         chanVars, sockVars, timerVars, transVars, eventVars, loopVars,
         appVars, monitors
<1>11. CASE HandleCloseFire
  BY <1>11 DEF TypeInv, TypeOK, Placed, Conns, EventType, TransportPcs,
         ChannelPcs, CleanupPcs, OPEN, CLOSE, HandleCloseFire, chanVars,
         sockVars, timerVars, transVars, eventVars, loopVars, appVars,
         monitors
<1>12. CASE HandleCloseSocket
  BY <1>12 DEF TypeInv, TypeOK, Placed, Conns, EventType, TransportPcs,
         ChannelPcs, CleanupPcs, OPEN, CLOSE, HandleCloseSocket, chanVars,
         sockVars, timerVars, transVars, eventVars, loopVars, appVars,
         monitors
<1>13. CASE HandleCloseMaskRead
  BY <1>13 DEF TypeInv, TypeOK, Placed, Conns, EventType, TransportPcs,
         ChannelPcs, CleanupPcs, OPEN, CLOSE, HandleCloseMaskRead, chanVars,
         sockVars, timerVars, transVars, eventVars, loopVars, appVars,
         monitors
<1>14. CASE HandleCloseMaskWrite
  BY <1>14 DEF TypeInv, TypeOK, Placed, Conns, EventType, TransportPcs,
         ChannelPcs, CleanupPcs, OPEN, CLOSE, HandleCloseMaskWrite, chanVars,
         sockVars, timerVars, transVars, eventVars, loopVars, appVars,
         monitors
<1>15. CASE HandleCloseDone
  <2>1. inprogress' \in BOOLEAN
    BY <1>15, Zenon DEF TypeInv, TypeOK, HandleCloseDone, chanVars, sockVars,
           timerVars, transVars, eventVars, loopVars, appVars, monitors
  <2> QED
    BY <1>15, <2>1 DEF TypeInv, TypeOK, Placed, Conns, EventType,
           TransportPcs, ChannelPcs, CleanupPcs, OPEN, CLOSE,
           HandleCloseDone, chanVars, sockVars, timerVars, transVars,
           eventVars, loopVars, appVars, monitors
<1>16. CASE TransportsDone
  BY <1>16 DEF TypeInv, TypeOK, Placed, Conns, EventType, TransportPcs,
         ChannelPcs, CleanupPcs, OPEN, CLOSE, TransportsDone, chanVars,
         sockVars, timerVars, transVars, eventVars, loopVars, appVars,
         monitors
<1>17. CASE ChannelsEnter
  BY <1>17 DEF TypeInv, TypeOK, Placed, Conns, EventType, TransportPcs,
         ChannelPcs, CleanupPcs, OPEN, CLOSE, ChannelsEnter, LoopStep,
         chanVars, sockVars, timerVars, transVars, eventVars, loopVars,
         appVars, monitors
<1>18. CASE ChannelTurn
  BY <1>18 DEF TypeInv, TypeOK, Placed, Conns, EventType, TransportPcs,
         ChannelPcs, CleanupPcs, OPEN, CLOSE, ChannelTurn, LoopStep,
         chanVars, sockVars, timerVars, transVars, eventVars, loopVars,
         appVars, monitors
<1>19. CASE TakeOpenRead
  BY <1>19 DEF TypeInv, TypeOK, Placed, Conns, EventType, TransportPcs,
         ChannelPcs, CleanupPcs, OPEN, CLOSE, TakeOpenRead, LoopStep,
         chanVars, sockVars, timerVars, transVars, eventVars, loopVars,
         appVars, monitors
<1>20. CASE TakeOpenWrite
  BY <1>20 DEF TypeInv, TypeOK, Placed, Conns, EventType, TransportPcs,
         ChannelPcs, CleanupPcs, OPEN, CLOSE, TakeOpenWrite, LoopStep,
         chanVars, sockVars, timerVars, transVars, eventVars, loopVars,
         appVars, monitors
<1>21. CASE TakeOpen
  BY <1>21 DEF TypeInv, TypeOK, Placed, Conns, EventType, TransportPcs,
         ChannelPcs, CleanupPcs, OPEN, CLOSE, TakeOpen, LoopStep, chanVars,
         sockVars, timerVars, transVars, eventVars, loopVars, appVars,
         monitors
<1>22. CASE Resolve
  BY <1>22 DEF TypeInv, TypeOK, Placed, Conns, EventType, TransportPcs,
         ChannelPcs, CleanupPcs, OPEN, CLOSE, Resolve, chanVars, sockVars,
         timerVars, transVars, eventVars, loopVars, appVars, monitors
<1>23. CASE CleanupState
  <2>1. inprogress' \in BOOLEAN
    BY <1>23, Zenon DEF TypeInv, TypeOK, CleanupState, LoopStep, chanVars,
           sockVars, timerVars, transVars, eventVars, loopVars, appVars,
           monitors
  <2> QED
    BY <1>23, <2>1 DEF TypeInv, TypeOK, Placed, Conns, EventType,
           TransportPcs, ChannelPcs, CleanupPcs, OPEN, CLOSE, CleanupState,
           LoopStep, chanVars, sockVars, timerVars, transVars, eventVars,
           loopVars, appVars, monitors
<1>24. CASE CleanupMask
  BY <1>24 DEF TypeInv, TypeOK, Placed, Conns, EventType, TransportPcs,
         ChannelPcs, CleanupPcs, OPEN, CLOSE, CleanupMask, LoopStep,
         chanVars, sockVars, timerVars, transVars, eventVars, loopVars,
         appVars, monitors
<1>25. CASE CleanupSocket
  <2>1. pending' \in BOOLEAN /\ answers' \in 0 .. 2
    <3>1. CASE ret = "connect"
      BY <1>25, <3>1 DEF TypeInv, TypeOK, CleanupSocket, LoopStep, monitors
    <3>2. CASE ret # "connect"
      <4>1. pending' = FALSE
        BY <1>25, <3>2 DEF CleanupSocket, FireFailed
      <4>2. pending' \in BOOLEAN
        BY <4>1, Zenon
      <4> QED
        BY <1>25, <3>2, <4>2 DEF TypeInv, TypeOK, CleanupSocket, FireFailed
    <3> QED
      BY <3>1, <3>2
  <2>2. log' \in Seq(EventType) /\ seen' \in 0 .. Len(log')
    <3>1. CASE ret = "connect"
      BY <1>25, <3>1 DEF TypeInv, TypeOK, CleanupSocket, eventVars
    <3>2. CASE ret # "connect"
      <4>1. [kind |-> "fail", conn |-> 0] \in EventType
        BY DEF EventType
      <4>2. log' = Append(log, [kind |-> "fail", conn |-> 0]) /\ seen' = seen
        BY <1>25, <3>2 DEF CleanupSocket, FireFailed
      <4>3. log \in Seq(EventType) /\ seen \in 0 .. Len(log)
        BY DEF TypeInv, TypeOK
      <4> QED
        BY <4>1, <4>2, <4>3
    <3> QED
      BY <3>1, <3>2
  <2> QED
    BY <1>25, <2>1, <2>2
    DEF TypeInv, TypeOK, Placed, Conns, TransportPcs, ChannelPcs, CleanupPcs,
        CleanupSocket, LoopStep, chanVars, sockVars, timerVars, transVars, eventVars, loopVars, appVars, monitors
<1>26. CASE Connect
  BY <1>26 DEF TypeInv, TypeOK, Placed, Conns, EventType, TransportPcs,
         ChannelPcs, CleanupPcs, OPEN, CLOSE, Connect, LoopStep, chanVars,
         sockVars, timerVars, transVars, eventVars, loopVars, appVars,
         monitors
<1>27. CASE ConnectFails
  <2>1. ready' \in BOOLEAN
    BY <1>27, Zenon DEF TypeInv, TypeOK, ConnectFails, LoopStep, FreshReady,
           chanVars, sockVars, timerVars, transVars, eventVars, loopVars,
           appVars, monitors
  <2> QED
    BY <1>27, <2>1 DEF TypeInv, TypeOK, Placed, Conns, EventType,
           TransportPcs, ChannelPcs, CleanupPcs, OPEN, CLOSE, ConnectFails,
           LoopStep, FreshReady, chanVars, sockVars, timerVars, transVars,
           eventVars, loopVars, appVars, monitors
<1>28. CASE ConnectAtOnce
  <2>1. inprogress' \in BOOLEAN /\ ready' \in BOOLEAN /\ pending' \in BOOLEAN
    BY <1>28, Zenon DEF TypeInv, TypeOK, ConnectAtOnce, LoopStep,
           ConnectSucceed, FreshReady, chanVars, sockVars, timerVars,
           transVars, eventVars, loopVars, appVars, monitors
  <2> QED
    BY <1>28, <2>1 DEF TypeInv, TypeOK, Placed, Conns, EventType,
           TransportPcs, ChannelPcs, CleanupPcs, OPEN, CLOSE, ConnectAtOnce,
           LoopStep, ConnectSucceed, FreshReady, chanVars, sockVars,
           timerVars, transVars, eventVars, loopVars, appVars, monitors
<1>29. CASE ConnectBegins
  <2>1. inprogress' \in BOOLEAN /\ ready' \in BOOLEAN /\ late' \in BOOLEAN
    BY <1>29, Zenon DEF TypeInv, TypeOK, ConnectBegins, LoopStep, FreshReady,
           chanVars, sockVars, timerVars, transVars, eventVars, loopVars,
           appVars, monitors
  <2> QED
    BY <1>29, <2>1 DEF TypeInv, TypeOK, Placed, Conns, EventType,
           TransportPcs, ChannelPcs, CleanupPcs, OPEN, CLOSE, ConnectBegins,
           LoopStep, FreshReady, chanVars, sockVars, timerVars, transVars,
           eventVars, loopVars, appVars, monitors
<1>30. CASE CompletionWaits
  BY <1>30 DEF TypeInv, TypeOK, Placed, Conns, EventType, TransportPcs,
         ChannelPcs, CleanupPcs, OPEN, CLOSE, CompletionWaits, LoopStep,
         chanVars, sockVars, timerVars, transVars, eventVars, loopVars,
         appVars, monitors
<1>31. CASE CompletionSucceeds
  <2>1. inprogress' \in BOOLEAN /\ pending' \in BOOLEAN
    BY <1>31, Zenon DEF TypeInv, TypeOK, CompletionSucceeds, LoopStep,
           ConnectSucceed, chanVars, sockVars, timerVars, transVars,
           eventVars, loopVars, appVars, monitors
  <2> QED
    BY <1>31, <2>1 DEF TypeInv, TypeOK, Placed, Conns, EventType,
           TransportPcs, ChannelPcs, CleanupPcs, OPEN, CLOSE,
           CompletionSucceeds, LoopStep, ConnectSucceed, chanVars, sockVars,
           timerVars, transVars, eventVars, loopVars, appVars, monitors
<1>32. CASE CompletionFails
  BY <1>32 DEF TypeInv, TypeOK, Placed, Conns, EventType, TransportPcs,
         ChannelPcs, CleanupPcs, OPEN, CLOSE, CompletionFails, LoopStep,
         chanVars, sockVars, timerVars, transVars, eventVars, loopVars,
         appVars, monitors
<1>33. CASE CancelTimer
  BY <1>33 DEF TypeInv, TypeOK, Placed, Conns, EventType, TransportPcs,
         ChannelPcs, CleanupPcs, OPEN, CLOSE, CancelTimer, LoopStep,
         chanVars, sockVars, timerVars, transVars, eventVars, loopVars,
         appVars, monitors
<1>34. CASE ChannelsLeave
  BY <1>34 DEF TypeInv, TypeOK, Placed, Conns, EventType, TransportPcs,
         ChannelPcs, CleanupPcs, OPEN, CLOSE, ChannelsLeave, LoopStep,
         chanVars, sockVars, timerVars, transVars, eventVars, loopVars,
         appVars, monitors
<1>35. CASE ProcessTimers
  <2>1. late' \in BOOLEAN
    BY <1>35, Zenon DEF TypeInv, TypeOK, ProcessTimers, chanVars, sockVars,
           timerVars, transVars, eventVars, loopVars, appVars, monitors
  <2> QED
    BY <1>35, <2>1 DEF TypeInv, TypeOK, Placed, Conns, EventType,
           TransportPcs, ChannelPcs, CleanupPcs, OPEN, CLOSE, ProcessTimers,
           chanVars, sockVars, timerVars, transVars, eventVars, loopVars,
           appVars, monitors
<1>36. CASE FrameEnds
  BY <1>36 DEF TypeInv, TypeOK, Placed, Conns, EventType, TransportPcs,
         ChannelPcs, CleanupPcs, OPEN, CLOSE, FrameEnds, LoopStep, chanVars,
         sockVars, timerVars, transVars, eventVars, loopVars, appVars,
         monitors
<1>37. CASE Poll
  <2>1. ready' \in BOOLEAN /\ late' \in BOOLEAN
    BY <1>37, Zenon DEF TypeInv, TypeOK, Poll, Readable, chanVars, sockVars,
           timerVars, transVars, eventVars, loopVars, appVars, monitors
  <2> QED
    BY <1>37, <2>1 DEF TypeInv, TypeOK, Placed, Conns, EventType,
           TransportPcs, ChannelPcs, CleanupPcs, OPEN, CLOSE, Poll, Readable,
           chanVars, sockVars, timerVars, transVars, eventVars, loopVars,
           appVars, monitors
<1>38. CASE Network
  BY <1>38 DEF TypeInv, TypeOK, Placed, Conns, EventType, TransportPcs,
         ChannelPcs, CleanupPcs, OPEN, CLOSE, Network, EnvUnchanged,
         chanVars, sockVars, timerVars, transVars, eventVars, loopVars,
         appVars, monitors
<1>39. CASE Tick
  BY <1>39 DEF TypeInv, TypeOK, Placed, Conns, EventType, TransportPcs,
         ChannelPcs, CleanupPcs, OPEN, CLOSE, Tick, EnvUnchanged, chanVars,
         sockVars, timerVars, transVars, eventVars, loopVars, appVars,
         monitors
<1>40. CASE Deliver
  BY <1>40 DEF TypeInv, TypeOK, Placed, Conns, EventType, TransportPcs,
         ChannelPcs, CleanupPcs, OPEN, CLOSE, Deliver, chanVars, sockVars,
         timerVars, transVars, eventVars, loopVars, appVars, monitors
<1>41. CASE \E c \in Conns : CloseHandle(c)
  BY <1>41 DEF TypeInv, TypeOK, Placed, Conns, EventType, TransportPcs,
         ChannelPcs, CleanupPcs, OPEN, CLOSE, CloseHandle, MayCall,
         AppUnchanged, chanVars, sockVars, timerVars, transVars, eventVars,
         loopVars, appVars, monitors
<1>42. CASE \E c \in Conns : TransportKept(c)
  BY <1>42 DEF TypeInv, TypeOK, Placed, Conns, EventType, TransportPcs,
         ChannelPcs, CleanupPcs, OPEN, CLOSE, TransportKept, chanVars,
         sockVars, timerVars, transVars, eventVars, loopVars, appVars,
         monitors
<1>43. CASE \E c \in Conns : TransportLost(c)
  BY <1>43 DEF TypeInv, TypeOK, Placed, Conns, EventType, TransportPcs,
         ChannelPcs, CleanupPcs, OPEN, CLOSE, TransportLost, chanVars,
         sockVars, timerVars, transVars, eventVars, loopVars, appVars,
         monitors
<1>44. CASE UNCHANGED vars
  BY <1>44 DEF TypeInv, TypeOK, Placed, Conns, EventType, TransportPcs,
         ChannelPcs, CleanupPcs, OPEN, CLOSE, vars, chanVars, sockVars,
         timerVars, transVars, eventVars, loopVars, appVars, monitors
<1>45. QED
  BY <1>1, <1>2, <1>3, <1>4, <1>5, <1>6, <1>7, <1>8, <1>9, <1>10, <1>11,
     <1>12, <1>13, <1>14, <1>15, <1>16, <1>17, <1>18, <1>19, <1>20, <1>21,
     <1>22, <1>23, <1>24, <1>25, <1>26, <1>27, <1>28, <1>29, <1>30, <1>31,
     <1>32, <1>33, <1>34, <1>35, <1>36, <1>37, <1>38, <1>39, <1>40, <1>41,
     <1>42, <1>43, <1>44
     DEF Next, Calls, CallSteps, Loop, ProcessTransports, ProcessChannels

LEMMA QueueStep == QueueInv /\ [Next]_vars => QueueInv'
<1> SUFFICES ASSUME QueueInv, [Next]_vars
             PROVE  (Underway /\ Locked /\ AttemptQueued /\ RequestQueued)'
  BY TypeStep DEF QueueInv
<1>1. CASE OpenRefused
  BY <1>1 DEF QueueInv, TypeInv, TypeOK, Underway, Locked, OpsLocked,
         TakenUp, Requesting, AttemptQueued, RequestQueued, TransportPcs,
         ChannelPcs, CleanupPcs, OPEN, CLOSE, OpenRefused, MayCall,
         AppUnchanged, chanVars, sockVars, timerVars, transVars, eventVars,
         loopVars, appVars, monitors
<1>2. CASE OpenAccepted
  BY <1>2 DEF QueueInv, TypeInv, TypeOK, Underway, Locked, OpsLocked,
         TakenUp, Requesting, AttemptQueued, RequestQueued, TransportPcs,
         ChannelPcs, CleanupPcs, OPEN, CLOSE, OpenAccepted, MayCall,
         AppUnchanged, chanVars, sockVars, timerVars, transVars, eventVars,
         loopVars, appVars, monitors
<1>3. CASE OpenClear
  BY <1>3 DEF QueueInv, TypeInv, TypeOK, Underway, Locked, OpsLocked,
         TakenUp, Requesting, AttemptQueued, RequestQueued, TransportPcs,
         ChannelPcs, CleanupPcs, OPEN, CLOSE, OpenClear, AppUnchanged,
         chanVars, sockVars, timerVars, transVars, eventVars, loopVars,
         appVars, monitors
<1>4. CASE OpenSet
  BY <1>4 DEF QueueInv, TypeInv, TypeOK, Underway, Locked, OpsLocked,
         TakenUp, Requesting, AttemptQueued, RequestQueued, TransportPcs,
         ChannelPcs, CleanupPcs, OPEN, CLOSE, OpenSet, AppUnchanged,
         chanVars, sockVars, timerVars, transVars, eventVars, loopVars,
         appVars, monitors
<1>5. CASE OpenPush
  BY <1>5 DEF QueueInv, TypeInv, TypeOK, Underway, Locked, OpsLocked,
         TakenUp, Requesting, AttemptQueued, RequestQueued, TransportPcs,
         ChannelPcs, CleanupPcs, OPEN, CLOSE, OpenPush, OpsLocked,
         AppUnchanged, chanVars, sockVars, timerVars, transVars, eventVars,
         loopVars, appVars, monitors
<1>6. CASE CloseIgnored
  BY <1>6 DEF QueueInv, TypeInv, TypeOK, Underway, Locked, OpsLocked,
         TakenUp, Requesting, AttemptQueued, RequestQueued, TransportPcs,
         ChannelPcs, CleanupPcs, OPEN, CLOSE, CloseIgnored, MayCall,
         AppUnchanged, chanVars, sockVars, timerVars, transVars, eventVars,
         loopVars, appVars, monitors
<1>7. CASE CloseBegin
  BY <1>7 DEF QueueInv, TypeInv, TypeOK, Underway, Locked, OpsLocked,
         TakenUp, Requesting, AttemptQueued, RequestQueued, TransportPcs,
         ChannelPcs, CleanupPcs, OPEN, CLOSE, CloseBegin, MayCall,
         AppUnchanged, chanVars, sockVars, timerVars, transVars, eventVars,
         loopVars, appVars, monitors
<1>8. CASE CloseClear
  BY <1>8 DEF QueueInv, TypeInv, TypeOK, Underway, Locked, OpsLocked,
         TakenUp, Requesting, AttemptQueued, RequestQueued, TransportPcs,
         ChannelPcs, CleanupPcs, OPEN, CLOSE, CloseClear, AppUnchanged,
         chanVars, sockVars, timerVars, transVars, eventVars, loopVars,
         appVars, monitors
<1>9. CASE CloseTest
  BY <1>9 DEF QueueInv, TypeInv, TypeOK, Underway, Locked, OpsLocked,
         TakenUp, Requesting, AttemptQueued, RequestQueued, TransportPcs,
         ChannelPcs, CleanupPcs, OPEN, CLOSE, CloseTest, AppUnchanged,
         chanVars, sockVars, timerVars, transVars, eventVars, loopVars,
         appVars, monitors
<1>10. CASE CloseSet
  BY <1>10 DEF QueueInv, TypeInv, TypeOK, Underway, Locked, OpsLocked,
         TakenUp, Requesting, AttemptQueued, RequestQueued, TransportPcs,
         ChannelPcs, CleanupPcs, OPEN, CLOSE, CloseSet, AppUnchanged,
         chanVars, sockVars, timerVars, transVars, eventVars, loopVars,
         appVars, monitors
<1>11. CASE HandleCloseFire
  BY <1>11 DEF QueueInv, TypeInv, TypeOK, Underway, Locked, OpsLocked,
         TakenUp, Requesting, AttemptQueued, RequestQueued, TransportPcs,
         ChannelPcs, CleanupPcs, OPEN, CLOSE, HandleCloseFire, chanVars,
         sockVars, timerVars, transVars, eventVars, loopVars, appVars,
         monitors
<1>12. CASE HandleCloseSocket
  BY <1>12 DEF QueueInv, TypeInv, TypeOK, Underway, Locked, OpsLocked,
         TakenUp, Requesting, AttemptQueued, RequestQueued, TransportPcs,
         ChannelPcs, CleanupPcs, OPEN, CLOSE, HandleCloseSocket, chanVars,
         sockVars, timerVars, transVars, eventVars, loopVars, appVars,
         monitors
<1>13. CASE HandleCloseMaskRead
  BY <1>13 DEF QueueInv, TypeInv, TypeOK, Underway, Locked, OpsLocked,
         TakenUp, Requesting, AttemptQueued, RequestQueued, TransportPcs,
         ChannelPcs, CleanupPcs, OPEN, CLOSE, HandleCloseMaskRead, chanVars,
         sockVars, timerVars, transVars, eventVars, loopVars, appVars,
         monitors
<1>14. CASE HandleCloseMaskWrite
  BY <1>14 DEF QueueInv, TypeInv, TypeOK, Underway, Locked, OpsLocked,
         TakenUp, Requesting, AttemptQueued, RequestQueued, TransportPcs,
         ChannelPcs, CleanupPcs, OPEN, CLOSE, HandleCloseMaskWrite, chanVars,
         sockVars, timerVars, transVars, eventVars, loopVars, appVars,
         monitors
<1>15. CASE HandleCloseDone
  BY <1>15 DEF QueueInv, TypeInv, TypeOK, Underway, Locked, OpsLocked,
         TakenUp, Requesting, AttemptQueued, RequestQueued, TransportPcs,
         ChannelPcs, CleanupPcs, OPEN, CLOSE, HandleCloseDone, chanVars,
         sockVars, timerVars, transVars, eventVars, loopVars, appVars,
         monitors
<1>16. CASE TransportsDone
  BY <1>16 DEF QueueInv, TypeInv, TypeOK, Underway, Locked, OpsLocked,
         TakenUp, Requesting, AttemptQueued, RequestQueued, TransportPcs,
         ChannelPcs, CleanupPcs, OPEN, CLOSE, TransportsDone, chanVars,
         sockVars, timerVars, transVars, eventVars, loopVars, appVars,
         monitors
<1>17. CASE ChannelsEnter
  BY <1>17 DEF QueueInv, TypeInv, TypeOK, Underway, Locked, OpsLocked,
         TakenUp, Requesting, AttemptQueued, RequestQueued, TransportPcs,
         ChannelPcs, CleanupPcs, OPEN, CLOSE, ChannelsEnter, LoopStep,
         chanVars, sockVars, timerVars, transVars, eventVars, loopVars,
         appVars, monitors
<1>18. CASE ChannelTurn
  BY <1>18 DEF QueueInv, TypeInv, TypeOK, Underway, Locked, OpsLocked,
         TakenUp, Requesting, AttemptQueued, RequestQueued, TransportPcs,
         ChannelPcs, CleanupPcs, OPEN, CLOSE, ChannelTurn, LoopStep,
         chanVars, sockVars, timerVars, transVars, eventVars, loopVars,
         appVars, monitors
<1>19. CASE TakeOpenRead
  BY <1>19 DEF QueueInv, TypeInv, TypeOK, Underway, Locked, OpsLocked,
         TakenUp, Requesting, AttemptQueued, RequestQueued, TransportPcs,
         ChannelPcs, CleanupPcs, OPEN, CLOSE, TakeOpenRead, LoopStep,
         chanVars, sockVars, timerVars, transVars, eventVars, loopVars,
         appVars, monitors
<1>20. CASE TakeOpenWrite
  BY <1>20 DEF QueueInv, TypeInv, TypeOK, Underway, Locked, OpsLocked,
         TakenUp, Requesting, AttemptQueued, RequestQueued, TransportPcs,
         ChannelPcs, CleanupPcs, OPEN, CLOSE, TakeOpenWrite, LoopStep,
         chanVars, sockVars, timerVars, transVars, eventVars, loopVars,
         appVars, monitors
<1>21. CASE TakeOpen
  BY <1>21 DEF QueueInv, TypeInv, TypeOK, Underway, Locked, OpsLocked,
         TakenUp, Requesting, AttemptQueued, RequestQueued, TransportPcs,
         ChannelPcs, CleanupPcs, OPEN, CLOSE, TakeOpen, LoopStep, chanVars,
         sockVars, timerVars, transVars, eventVars, loopVars, appVars,
         monitors
<1>22. CASE Resolve
  BY <1>22 DEF QueueInv, TypeInv, TypeOK, Underway, Locked, OpsLocked,
         TakenUp, Requesting, AttemptQueued, RequestQueued, TransportPcs,
         ChannelPcs, CleanupPcs, OPEN, CLOSE, Resolve, chanVars, sockVars,
         timerVars, transVars, eventVars, loopVars, appVars, monitors
<1>23. CASE CleanupState
  BY <1>23 DEF QueueInv, TypeInv, TypeOK, Underway, Locked, OpsLocked,
         TakenUp, Requesting, AttemptQueued, RequestQueued, TransportPcs,
         ChannelPcs, CleanupPcs, OPEN, CLOSE, CleanupState, LoopStep,
         chanVars, sockVars, timerVars, transVars, eventVars, loopVars,
         appVars, monitors
<1>24. CASE CleanupMask
  BY <1>24 DEF QueueInv, TypeInv, TypeOK, Underway, Locked, OpsLocked,
         TakenUp, Requesting, AttemptQueued, RequestQueued, TransportPcs,
         ChannelPcs, CleanupPcs, OPEN, CLOSE, CleanupMask, LoopStep,
         chanVars, sockVars, timerVars, transVars, eventVars, loopVars,
         appVars, monitors
<1>25. CASE CleanupSocket
  BY <1>25 DEF QueueInv, TypeInv, TypeOK, Underway, Locked, OpsLocked,
         TakenUp, Requesting, AttemptQueued, RequestQueued, TransportPcs,
         ChannelPcs, CleanupPcs, OPEN, CLOSE, CleanupSocket, LoopStep,
         FireFailed, chanVars, sockVars, timerVars, transVars, eventVars,
         loopVars, appVars, monitors
<1>26. CASE Connect
  BY <1>26 DEF QueueInv, TypeInv, TypeOK, Underway, Locked, OpsLocked,
         TakenUp, Requesting, AttemptQueued, RequestQueued, TransportPcs,
         ChannelPcs, CleanupPcs, OPEN, CLOSE, Connect, LoopStep, chanVars,
         sockVars, timerVars, transVars, eventVars, loopVars, appVars,
         monitors
<1>27. CASE ConnectFails
  BY <1>27 DEF QueueInv, TypeInv, TypeOK, Underway, Locked, OpsLocked,
         TakenUp, Requesting, AttemptQueued, RequestQueued, TransportPcs,
         ChannelPcs, CleanupPcs, OPEN, CLOSE, ConnectFails, LoopStep,
         FreshReady, chanVars, sockVars, timerVars, transVars, eventVars,
         loopVars, appVars, monitors
<1>28. CASE ConnectAtOnce
  BY <1>28 DEF QueueInv, TypeInv, TypeOK, Underway, Locked, OpsLocked,
         TakenUp, Requesting, AttemptQueued, RequestQueued, TransportPcs,
         ChannelPcs, CleanupPcs, OPEN, CLOSE, ConnectAtOnce, LoopStep,
         ConnectSucceed, FreshReady, chanVars, sockVars, timerVars,
         transVars, eventVars, loopVars, appVars, monitors
<1>29. CASE ConnectBegins
  BY <1>29 DEF QueueInv, TypeInv, TypeOK, Underway, Locked, OpsLocked,
         TakenUp, Requesting, AttemptQueued, RequestQueued, TransportPcs,
         ChannelPcs, CleanupPcs, OPEN, CLOSE, ConnectBegins, LoopStep,
         FreshReady, chanVars, sockVars, timerVars, transVars, eventVars,
         loopVars, appVars, monitors
<1>30. CASE CompletionWaits
  BY <1>30 DEF QueueInv, TypeInv, TypeOK, Underway, Locked, OpsLocked,
         TakenUp, Requesting, AttemptQueued, RequestQueued, TransportPcs,
         ChannelPcs, CleanupPcs, OPEN, CLOSE, CompletionWaits, LoopStep,
         chanVars, sockVars, timerVars, transVars, eventVars, loopVars,
         appVars, monitors
<1>31. CASE CompletionSucceeds
  BY <1>31 DEF QueueInv, TypeInv, TypeOK, Underway, Locked, OpsLocked,
         TakenUp, Requesting, AttemptQueued, RequestQueued, TransportPcs,
         ChannelPcs, CleanupPcs, OPEN, CLOSE, CompletionSucceeds, LoopStep,
         ConnectSucceed, chanVars, sockVars, timerVars, transVars, eventVars,
         loopVars, appVars, monitors
<1>32. CASE CompletionFails
  BY <1>32 DEF QueueInv, TypeInv, TypeOK, Underway, Locked, OpsLocked,
         TakenUp, Requesting, AttemptQueued, RequestQueued, TransportPcs,
         ChannelPcs, CleanupPcs, OPEN, CLOSE, CompletionFails, LoopStep,
         chanVars, sockVars, timerVars, transVars, eventVars, loopVars,
         appVars, monitors
<1>33. CASE CancelTimer
  BY <1>33 DEF QueueInv, TypeInv, TypeOK, Underway, Locked, OpsLocked,
         TakenUp, Requesting, AttemptQueued, RequestQueued, TransportPcs,
         ChannelPcs, CleanupPcs, OPEN, CLOSE, CancelTimer, LoopStep,
         chanVars, sockVars, timerVars, transVars, eventVars, loopVars,
         appVars, monitors
<1>34. CASE ChannelsLeave
  BY <1>34 DEF QueueInv, TypeInv, TypeOK, Underway, Locked, OpsLocked,
         TakenUp, Requesting, AttemptQueued, RequestQueued, TransportPcs,
         ChannelPcs, CleanupPcs, OPEN, CLOSE, ChannelsLeave, LoopStep,
         chanVars, sockVars, timerVars, transVars, eventVars, loopVars,
         appVars, monitors
<1>35. CASE ProcessTimers
  BY <1>35 DEF QueueInv, TypeInv, TypeOK, Underway, Locked, OpsLocked,
         TakenUp, Requesting, AttemptQueued, RequestQueued, TransportPcs,
         ChannelPcs, CleanupPcs, OPEN, CLOSE, ProcessTimers, chanVars,
         sockVars, timerVars, transVars, eventVars, loopVars, appVars,
         monitors
<1>36. CASE FrameEnds
  BY <1>36 DEF QueueInv, TypeInv, TypeOK, Underway, Locked, OpsLocked,
         TakenUp, Requesting, AttemptQueued, RequestQueued, TransportPcs,
         ChannelPcs, CleanupPcs, OPEN, CLOSE, FrameEnds, LoopStep, chanVars,
         sockVars, timerVars, transVars, eventVars, loopVars, appVars,
         monitors
<1>37. CASE Poll
  BY <1>37 DEF QueueInv, TypeInv, TypeOK, Underway, Locked, OpsLocked,
         TakenUp, Requesting, AttemptQueued, RequestQueued, TransportPcs,
         ChannelPcs, CleanupPcs, OPEN, CLOSE, Poll, Readable, chanVars,
         sockVars, timerVars, transVars, eventVars, loopVars, appVars,
         monitors
<1>38. CASE Network
  BY <1>38 DEF QueueInv, TypeInv, TypeOK, Underway, Locked, OpsLocked,
         TakenUp, Requesting, AttemptQueued, RequestQueued, TransportPcs,
         ChannelPcs, CleanupPcs, OPEN, CLOSE, Network, EnvUnchanged,
         chanVars, sockVars, timerVars, transVars, eventVars, loopVars,
         appVars, monitors
<1>39. CASE Tick
  BY <1>39 DEF QueueInv, TypeInv, TypeOK, Underway, Locked, OpsLocked,
         TakenUp, Requesting, AttemptQueued, RequestQueued, TransportPcs,
         ChannelPcs, CleanupPcs, OPEN, CLOSE, Tick, EnvUnchanged, chanVars,
         sockVars, timerVars, transVars, eventVars, loopVars, appVars,
         monitors
<1>40. CASE Deliver
  BY <1>40 DEF QueueInv, TypeInv, TypeOK, Underway, Locked, OpsLocked,
         TakenUp, Requesting, AttemptQueued, RequestQueued, TransportPcs,
         ChannelPcs, CleanupPcs, OPEN, CLOSE, Deliver, chanVars, sockVars,
         timerVars, transVars, eventVars, loopVars, appVars, monitors
<1>41. CASE \E c \in Conns : CloseHandle(c)
  BY <1>41 DEF QueueInv, TypeInv, TypeOK, Underway, Locked, OpsLocked,
         TakenUp, Requesting, AttemptQueued, RequestQueued, TransportPcs,
         ChannelPcs, CleanupPcs, OPEN, CLOSE, CloseHandle, MayCall,
         AppUnchanged, chanVars, sockVars, timerVars, transVars, eventVars,
         loopVars, appVars, monitors
<1>42. CASE \E c \in Conns : TransportKept(c)
  BY <1>42 DEF QueueInv, TypeInv, TypeOK, Underway, Locked, OpsLocked,
         TakenUp, Requesting, AttemptQueued, RequestQueued, TransportPcs,
         ChannelPcs, CleanupPcs, OPEN, CLOSE, TransportKept, chanVars,
         sockVars, timerVars, transVars, eventVars, loopVars, appVars,
         monitors
<1>43. CASE \E c \in Conns : TransportLost(c)
  BY <1>43 DEF QueueInv, TypeInv, TypeOK, Underway, Locked, OpsLocked,
         TakenUp, Requesting, AttemptQueued, RequestQueued, TransportPcs,
         ChannelPcs, CleanupPcs, OPEN, CLOSE, TransportLost, chanVars,
         sockVars, timerVars, transVars, eventVars, loopVars, appVars,
         monitors
<1>44. CASE UNCHANGED vars
  BY <1>44 DEF QueueInv, TypeInv, TypeOK, Underway, Locked, OpsLocked,
         TakenUp, Requesting, AttemptQueued, RequestQueued, TransportPcs,
         ChannelPcs, CleanupPcs, OPEN, CLOSE, vars, chanVars, sockVars,
         timerVars, transVars, eventVars, loopVars, appVars, monitors
<1>45. QED
  BY <1>1, <1>2, <1>3, <1>4, <1>5, <1>6, <1>7, <1>8, <1>9, <1>10, <1>11,
     <1>12, <1>13, <1>14, <1>15, <1>16, <1>17, <1>18, <1>19, <1>20, <1>21,
     <1>22, <1>23, <1>24, <1>25, <1>26, <1>27, <1>28, <1>29, <1>30, <1>31,
     <1>32, <1>33, <1>34, <1>35, <1>36, <1>37, <1>38, <1>39, <1>40, <1>41,
     <1>42, <1>43, <1>44
     DEF Next, Calls, CallSteps, Loop, ProcessTransports, ProcessChannels

LEMMA QueueInvariant == Spec => []QueueInv
  BY InitInv, QueueStep, PTL DEF Spec

(* The variables of the model keep their types. *)
THEOREM TypeCorrect == Spec => []TypeOK
<1>1. QueueInv => TypeOK
  BY DEF QueueInv, TypeInv
<1> QED
  BY QueueInvariant, <1>1, PTL

(* process_channels never drops a channel that is resolving or connecting  *)
(* from channel_ops_.                                                      *)
THEOREM NoAttemptForgotten == Spec => []AttemptQueued
<1>1. QueueInv => AttemptQueued
  BY DEF QueueInv
<1> QED
  BY QueueInvariant, <1>1, PTL

(* A request whose open() has returned is found in channel_ops_, whatever  *)
(* the loop was doing when open() ran.                                     *)
THEOREM NoRequestForgotten == Spec => []RequestQueued
<1>1. QueueInv => RequestQueued
  BY DEF QueueInv
<1> QED
  BY QueueInvariant, <1>1, PTL

(* Appending to the log leaves what was there and adds one entry. *)
LEMMA LogGrows ==
  ASSUME TypeOK, NEW e \in EventType, log' = Append(log, e)
  PROVE  /\ DOMAIN log = 1 .. Len(log) /\ DOMAIN log' = 1 .. Len(log) + 1
         /\ Len(log) \in Nat
         /\ log'[Len(log) + 1] = e
         /\ \A i \in 1 .. Len(log) : log'[i] = log[i] /\ log[i] \in EventType
  BY DEF TypeOK

(* What the log's growth by one entry does to LogInv, for each kind of     *)
(* entry: a new connection's ON_OPEN, ...                                  *)
LEMMA OpenLogged ==
  ASSUME TypeInv, LogInv, ConnectSucceed, pc \notin TransportPcs, pc' \notin TransportPcs
  PROVE  LogInv'
<1> DEFINE e == [kind |-> "open", conn |-> nconn + 1]
<1>1. e \in EventType /\ nconn \in Nat /\ nconn' = nconn + 1
  BY ConstantsAssumption DEF TypeInv, TypeOK, EventType, Conns, ConnectSucceed
<1>2. log' = Append(log, e) /\ transports' = transports \union {nconn + 1}
  BY DEF ConnectSucceed
<1> HIDE DEF e
<1>3. /\ DOMAIN log = 1 .. Len(log) /\ DOMAIN log' = 1 .. Len(log) + 1
      /\ Len(log) \in Nat
      /\ log'[Len(log) + 1] = e
      /\ \A i \in 1 .. Len(log) : log'[i] = log[i] /\ log[i] \in EventType
  BY <1>1, <1>2, LogGrows DEF TypeInv
<1>4. e.kind = "open" /\ e.conn = nconn + 1
  BY DEF e
<1>5. LogKnown'
  BY <1>1, <1>3, <1>4 DEF LogInv, LogKnown
<1>6. \A i \in 1 .. Len(log) : log[i] # e
  BY <1>1, <1>3, <1>4 DEF LogInv, LogKnown
<1>7. NoRepeats'
  BY <1>1, <1>3, <1>6 DEF LogInv, NoRepeats
<1>8. \A c \in 1 .. nconn + 1 : Fired("close", c)' <=> Fired("close", c)
  <2> SUFFICES ASSUME NEW c \in 1 .. nconn + 1
               PROVE  Fired("close", c)' <=> Fired("close", c)
    OBVIOUS
  <2>1. e # [kind |-> "close", conn |-> c]
    BY <1>4
  <2> QED
    BY <1>1, <1>3, <2>1 DEF Fired
<1>9. ~Fired("close", nconn + 1)
  BY <1>1, <1>3 DEF Fired, LogInv, LogKnown
<1>10. ClosedGone'
  BY <1>1, <1>2, <1>8, <1>9 DEF LogInv, ClosedGone, Gone
<1> QED
  BY <1>5, <1>7, <1>10 DEF LogInv

(* ... a failed attempt, ... *)
LEMMA FailLogged ==
  ASSUME TypeInv, LogInv, log' = Append(log, [kind |-> "fail", conn |-> 0]),
         UNCHANGED <<nconn, transports>>, pc \notin TransportPcs, pc' \notin TransportPcs
  PROVE  LogInv'
<1> DEFINE e == [kind |-> "fail", conn |-> 0]
<1>1. e \in EventType /\ e.kind = "fail"
  BY DEF EventType
<1>2. log' = Append(log, e)
  OBVIOUS
<1> HIDE DEF e
<1>3. /\ DOMAIN log = 1 .. Len(log) /\ DOMAIN log' = 1 .. Len(log) + 1
      /\ Len(log) \in Nat
      /\ log'[Len(log) + 1] = e
      /\ \A i \in 1 .. Len(log) : log'[i] = log[i] /\ log[i] \in EventType
  BY <1>1, <1>2, LogGrows DEF TypeInv
<1>4. LogKnown' /\ NoRepeats'
  BY <1>1, <1>3 DEF LogInv, LogKnown, NoRepeats
<1>5. \A c \in 1 .. nconn : Fired("close", c)' <=> Fired("close", c)
  <2> SUFFICES ASSUME NEW c \in 1 .. nconn
               PROVE  Fired("close", c)' <=> Fired("close", c)
    OBVIOUS
  <2>1. e # [kind |-> "close", conn |-> c]
    BY <1>1
  <2> QED
    BY <1>3, <2>1 DEF Fired
<1>6. ClosedGone'
  BY <1>5 DEF LogInv, ClosedGone, Gone
<1> QED
  BY <1>4, <1>6 DEF LogInv

(* ... and the ON_CLOSE of the transport being closed. *)
LEMMA CloseLogged ==
  ASSUME TypeInv, LogInv, HandleCloseFire
  PROVE  LogInv'
<1> DEFINE e == [kind |-> "close", conn |-> cur]
<1>1. /\ cur \in transports /\ cur \in 1 .. nconn /\ nconn \in Nat
      /\ UNCHANGED <<nconn, transports, cur>>
      /\ pc = "fireClose" /\ pc' = "closeSocket"
  BY DEF TypeInv, TypeOK, Placed, HandleCloseFire, TransportPcs, transVars
<1>2. e \in EventType /\ e.kind = "close" /\ e.conn = cur
  BY <1>1, ConstantsAssumption DEF TypeInv, TypeOK, EventType, Conns
<1>3. log' = Append(log, e)
  BY DEF HandleCloseFire
<1> HIDE DEF e
<1>4. /\ DOMAIN log = 1 .. Len(log) /\ DOMAIN log' = 1 .. Len(log) + 1
      /\ Len(log) \in Nat
      /\ log'[Len(log) + 1] = e
      /\ \A i \in 1 .. Len(log) : log'[i] = log[i] /\ log[i] \in EventType
  BY <1>2, <1>3, LogGrows DEF TypeInv
<1>5. \A i \in 1 .. Len(log) : log[i] # e
  <2>1. ~Fired("close", cur)
    BY <1>1 DEF LogInv, ClosedGone, Gone, TransportPcs
  <2> QED
    BY <1>4, <2>1 DEF Fired, e
<1>6. LogKnown' /\ NoRepeats'
  BY <1>1, <1>2, <1>4, <1>5 DEF LogInv, LogKnown, NoRepeats
<1>7. Fired("close", cur)'
  BY <1>1, <1>4 DEF Fired, e
<1>8. \A c \in 1 .. nconn : c # cur => (Fired("close", c)' <=> Fired("close", c))
  <2> SUFFICES ASSUME NEW c \in 1 .. nconn, c # cur
               PROVE  Fired("close", c)' <=> Fired("close", c)
    OBVIOUS
  <2>1. e # [kind |-> "close", conn |-> c]
    BY <1>2
  <2> QED
    BY <1>4, <2>1 DEF Fired
<1>9. ClosedGone'
  <2> SUFFICES ASSUME NEW c \in 1 .. nconn
               PROVE  Fired("close", c)' <=> Gone(c)'
    BY <1>1 DEF ClosedGone
  <2>1. CASE c = cur
    BY <1>1, <1>7, <2>1 DEF Gone, TransportPcs
  <2>2. CASE c # cur
    BY <1>1, <1>8, <2>2 DEF LogInv, ClosedGone, Gone
  <2> QED
    BY <2>1, <2>2
<1> QED
  BY <1>6, <1>9 DEF LogInv

LEMMA LogStep == TypeInv /\ LogInv /\ [Next]_vars => LogInv'
<1> SUFFICES ASSUME TypeInv, LogInv, [Next]_vars PROVE LogInv'
  OBVIOUS
<1>1. CASE OpenRefused
  BY <1>1 DEF LogInv, LogKnown, ClosedGone, NoRepeats, Gone, Fired, TypeInv,
         TypeOK, Placed, TransportPcs, ChannelPcs, CleanupPcs, OpenRefused,
         MayCall, AppUnchanged, chanVars, sockVars, timerVars, transVars,
         eventVars, loopVars, appVars, monitors
<1>2. CASE OpenAccepted
  BY <1>2 DEF LogInv, LogKnown, ClosedGone, NoRepeats, Gone, Fired, TypeInv,
         TypeOK, Placed, TransportPcs, ChannelPcs, CleanupPcs, OpenAccepted,
         MayCall, AppUnchanged, chanVars, sockVars, timerVars, transVars,
         eventVars, loopVars, appVars, monitors
<1>3. CASE OpenClear
  BY <1>3 DEF LogInv, LogKnown, ClosedGone, NoRepeats, Gone, Fired, TypeInv,
         TypeOK, Placed, TransportPcs, ChannelPcs, CleanupPcs, OpenClear,
         AppUnchanged, chanVars, sockVars, timerVars, transVars, eventVars,
         loopVars, appVars, monitors
<1>4. CASE OpenSet
  BY <1>4 DEF LogInv, LogKnown, ClosedGone, NoRepeats, Gone, Fired, TypeInv,
         TypeOK, Placed, TransportPcs, ChannelPcs, CleanupPcs, OpenSet,
         AppUnchanged, chanVars, sockVars, timerVars, transVars, eventVars,
         loopVars, appVars, monitors
<1>5. CASE OpenPush
  BY <1>5 DEF LogInv, LogKnown, ClosedGone, NoRepeats, Gone, Fired, TypeInv,
         TypeOK, Placed, TransportPcs, ChannelPcs, CleanupPcs, OpenPush,
         OpsLocked, AppUnchanged, chanVars, sockVars, timerVars, transVars,
         eventVars, loopVars, appVars, monitors
<1>6. CASE CloseIgnored
  BY <1>6 DEF LogInv, LogKnown, ClosedGone, NoRepeats, Gone, Fired, TypeInv,
         TypeOK, Placed, TransportPcs, ChannelPcs, CleanupPcs, CloseIgnored,
         MayCall, AppUnchanged, chanVars, sockVars, timerVars, transVars,
         eventVars, loopVars, appVars, monitors
<1>7. CASE CloseBegin
  BY <1>7 DEF LogInv, LogKnown, ClosedGone, NoRepeats, Gone, Fired, TypeInv,
         TypeOK, Placed, TransportPcs, ChannelPcs, CleanupPcs, CloseBegin,
         MayCall, AppUnchanged, chanVars, sockVars, timerVars, transVars,
         eventVars, loopVars, appVars, monitors
<1>8. CASE CloseClear
  BY <1>8 DEF LogInv, LogKnown, ClosedGone, NoRepeats, Gone, Fired, TypeInv,
         TypeOK, Placed, TransportPcs, ChannelPcs, CleanupPcs, CloseClear,
         AppUnchanged, chanVars, sockVars, timerVars, transVars, eventVars,
         loopVars, appVars, monitors
<1>9. CASE CloseTest
  BY <1>9 DEF LogInv, LogKnown, ClosedGone, NoRepeats, Gone, Fired, TypeInv,
         TypeOK, Placed, TransportPcs, ChannelPcs, CleanupPcs, CloseTest,
         AppUnchanged, chanVars, sockVars, timerVars, transVars, eventVars,
         loopVars, appVars, monitors
<1>10. CASE CloseSet
  BY <1>10 DEF LogInv, LogKnown, ClosedGone, NoRepeats, Gone, Fired, TypeInv,
         TypeOK, Placed, TransportPcs, ChannelPcs, CleanupPcs, CloseSet,
         AppUnchanged, chanVars, sockVars, timerVars, transVars, eventVars,
         loopVars, appVars, monitors
<1>11. CASE HandleCloseFire
  BY <1>11, CloseLogged
<1>12. CASE HandleCloseSocket
  BY <1>12 DEF LogInv, LogKnown, ClosedGone, NoRepeats, Gone, Fired, TypeInv,
         TypeOK, Placed, TransportPcs, ChannelPcs, CleanupPcs,
         HandleCloseSocket, chanVars, sockVars, timerVars, transVars,
         eventVars, loopVars, appVars, monitors
<1>13. CASE HandleCloseMaskRead
  BY <1>13 DEF LogInv, LogKnown, ClosedGone, NoRepeats, Gone, Fired, TypeInv,
         TypeOK, Placed, TransportPcs, ChannelPcs, CleanupPcs,
         HandleCloseMaskRead, chanVars, sockVars, timerVars, transVars,
         eventVars, loopVars, appVars, monitors
<1>14. CASE HandleCloseMaskWrite
  BY <1>14 DEF LogInv, LogKnown, ClosedGone, NoRepeats, Gone, Fired, TypeInv,
         TypeOK, Placed, TransportPcs, ChannelPcs, CleanupPcs,
         HandleCloseMaskWrite, chanVars, sockVars, timerVars, transVars,
         eventVars, loopVars, appVars, monitors
<1>15. CASE HandleCloseDone
  BY <1>15 DEF LogInv, LogKnown, ClosedGone, NoRepeats, Gone, Fired, TypeInv,
         TypeOK, Placed, TransportPcs, ChannelPcs, CleanupPcs,
         HandleCloseDone, chanVars, sockVars, timerVars, transVars,
         eventVars, loopVars, appVars, monitors
<1>16. CASE TransportsDone
  BY <1>16 DEF LogInv, LogKnown, ClosedGone, NoRepeats, Gone, Fired, TypeInv,
         TypeOK, Placed, TransportPcs, ChannelPcs, CleanupPcs,
         TransportsDone, chanVars, sockVars, timerVars, transVars, eventVars,
         loopVars, appVars, monitors
<1>17. CASE ChannelsEnter
  BY <1>17 DEF LogInv, LogKnown, ClosedGone, NoRepeats, Gone, Fired, TypeInv,
         TypeOK, Placed, TransportPcs, ChannelPcs, CleanupPcs, ChannelsEnter,
         LoopStep, chanVars, sockVars, timerVars, transVars, eventVars,
         loopVars, appVars, monitors
<1>18. CASE ChannelTurn
  BY <1>18 DEF LogInv, LogKnown, ClosedGone, NoRepeats, Gone, Fired, TypeInv,
         TypeOK, Placed, TransportPcs, ChannelPcs, CleanupPcs, ChannelTurn,
         LoopStep, chanVars, sockVars, timerVars, transVars, eventVars,
         loopVars, appVars, monitors
<1>19. CASE TakeOpenRead
  BY <1>19 DEF LogInv, LogKnown, ClosedGone, NoRepeats, Gone, Fired, TypeInv,
         TypeOK, Placed, TransportPcs, ChannelPcs, CleanupPcs, TakeOpenRead,
         LoopStep, chanVars, sockVars, timerVars, transVars, eventVars,
         loopVars, appVars, monitors
<1>20. CASE TakeOpenWrite
  BY <1>20 DEF LogInv, LogKnown, ClosedGone, NoRepeats, Gone, Fired, TypeInv,
         TypeOK, Placed, TransportPcs, ChannelPcs, CleanupPcs, TakeOpenWrite,
         LoopStep, chanVars, sockVars, timerVars, transVars, eventVars,
         loopVars, appVars, monitors
<1>21. CASE TakeOpen
  BY <1>21 DEF LogInv, LogKnown, ClosedGone, NoRepeats, Gone, Fired, TypeInv,
         TypeOK, Placed, TransportPcs, ChannelPcs, CleanupPcs, TakeOpen,
         LoopStep, chanVars, sockVars, timerVars, transVars, eventVars,
         loopVars, appVars, monitors
<1>22. CASE Resolve
  BY <1>22 DEF LogInv, LogKnown, ClosedGone, NoRepeats, Gone, Fired, TypeInv,
         TypeOK, Placed, TransportPcs, ChannelPcs, CleanupPcs, Resolve,
         chanVars, sockVars, timerVars, transVars, eventVars, loopVars,
         appVars, monitors
<1>23. CASE CleanupState
  BY <1>23 DEF LogInv, LogKnown, ClosedGone, NoRepeats, Gone, Fired, TypeInv,
         TypeOK, Placed, TransportPcs, ChannelPcs, CleanupPcs, CleanupState,
         LoopStep, chanVars, sockVars, timerVars, transVars, eventVars,
         loopVars, appVars, monitors
<1>24. CASE CleanupMask
  BY <1>24 DEF LogInv, LogKnown, ClosedGone, NoRepeats, Gone, Fired, TypeInv,
         TypeOK, Placed, TransportPcs, ChannelPcs, CleanupPcs, CleanupMask,
         LoopStep, chanVars, sockVars, timerVars, transVars, eventVars,
         loopVars, appVars, monitors
<1>25. CASE CleanupSocket
  <2>1. pc \notin TransportPcs /\ pc' \notin TransportPcs /\ UNCHANGED <<nconn, transports>>
    BY <1>25 DEF CleanupSocket, LoopStep, TypeInv, TypeOK, TransportPcs, transVars
  <2>2. CASE ret = "connect"
    BY <1>25, <2>1, <2>2
    DEF LogInv, LogKnown, ClosedGone, NoRepeats, Gone, Fired, CleanupSocket, eventVars
  <2>3. CASE ret # "connect"
    BY <1>25, <2>1, <2>3, FailLogged DEF CleanupSocket, FireFailed
  <2> QED
    BY <2>2, <2>3
<1>26. CASE Connect
  BY <1>26 DEF LogInv, LogKnown, ClosedGone, NoRepeats, Gone, Fired, TypeInv,
         TypeOK, Placed, TransportPcs, ChannelPcs, CleanupPcs, Connect,
         LoopStep, chanVars, sockVars, timerVars, transVars, eventVars,
         loopVars, appVars, monitors
<1>27. CASE ConnectFails
  BY <1>27 DEF LogInv, LogKnown, ClosedGone, NoRepeats, Gone, Fired, TypeInv,
         TypeOK, Placed, TransportPcs, ChannelPcs, CleanupPcs, ConnectFails,
         LoopStep, FreshReady, chanVars, sockVars, timerVars, transVars,
         eventVars, loopVars, appVars, monitors
<1>28. CASE ConnectAtOnce
  BY <1>28, OpenLogged DEF ConnectAtOnce, LoopStep, TransportPcs
<1>29. CASE ConnectBegins
  BY <1>29 DEF LogInv, LogKnown, ClosedGone, NoRepeats, Gone, Fired, TypeInv,
         TypeOK, Placed, TransportPcs, ChannelPcs, CleanupPcs, ConnectBegins,
         LoopStep, FreshReady, chanVars, sockVars, timerVars, transVars,
         eventVars, loopVars, appVars, monitors
<1>30. CASE CompletionWaits
  BY <1>30 DEF LogInv, LogKnown, ClosedGone, NoRepeats, Gone, Fired, TypeInv,
         TypeOK, Placed, TransportPcs, ChannelPcs, CleanupPcs,
         CompletionWaits, LoopStep, chanVars, sockVars, timerVars, transVars,
         eventVars, loopVars, appVars, monitors
<1>31. CASE CompletionSucceeds
  BY <1>31, OpenLogged
  DEF CompletionSucceeds, LoopStep, TransportPcs
<1>32. CASE CompletionFails
  BY <1>32 DEF LogInv, LogKnown, ClosedGone, NoRepeats, Gone, Fired, TypeInv,
         TypeOK, Placed, TransportPcs, ChannelPcs, CleanupPcs,
         CompletionFails, LoopStep, chanVars, sockVars, timerVars, transVars,
         eventVars, loopVars, appVars, monitors
<1>33. CASE CancelTimer
  BY <1>33 DEF LogInv, LogKnown, ClosedGone, NoRepeats, Gone, Fired, TypeInv,
         TypeOK, Placed, TransportPcs, ChannelPcs, CleanupPcs, CancelTimer,
         LoopStep, chanVars, sockVars, timerVars, transVars, eventVars,
         loopVars, appVars, monitors
<1>34. CASE ChannelsLeave
  BY <1>34 DEF LogInv, LogKnown, ClosedGone, NoRepeats, Gone, Fired, TypeInv,
         TypeOK, Placed, TransportPcs, ChannelPcs, CleanupPcs, ChannelsLeave,
         LoopStep, chanVars, sockVars, timerVars, transVars, eventVars,
         loopVars, appVars, monitors
<1>35. CASE ProcessTimers
  BY <1>35 DEF LogInv, LogKnown, ClosedGone, NoRepeats, Gone, Fired, TypeInv,
         TypeOK, Placed, TransportPcs, ChannelPcs, CleanupPcs, ProcessTimers,
         chanVars, sockVars, timerVars, transVars, eventVars, loopVars,
         appVars, monitors
<1>36. CASE FrameEnds
  BY <1>36 DEF LogInv, LogKnown, ClosedGone, NoRepeats, Gone, Fired, TypeInv,
         TypeOK, Placed, TransportPcs, ChannelPcs, CleanupPcs, FrameEnds,
         LoopStep, chanVars, sockVars, timerVars, transVars, eventVars,
         loopVars, appVars, monitors
<1>37. CASE Poll
  BY <1>37 DEF LogInv, LogKnown, ClosedGone, NoRepeats, Gone, Fired, TypeInv,
         TypeOK, Placed, TransportPcs, ChannelPcs, CleanupPcs, Poll,
         Readable, chanVars, sockVars, timerVars, transVars, eventVars,
         loopVars, appVars, monitors
<1>38. CASE Network
  BY <1>38 DEF LogInv, LogKnown, ClosedGone, NoRepeats, Gone, Fired, TypeInv,
         TypeOK, Placed, TransportPcs, ChannelPcs, CleanupPcs, Network,
         EnvUnchanged, chanVars, sockVars, timerVars, transVars, eventVars,
         loopVars, appVars, monitors
<1>39. CASE Tick
  BY <1>39 DEF LogInv, LogKnown, ClosedGone, NoRepeats, Gone, Fired, TypeInv,
         TypeOK, Placed, TransportPcs, ChannelPcs, CleanupPcs, Tick,
         EnvUnchanged, chanVars, sockVars, timerVars, transVars, eventVars,
         loopVars, appVars, monitors
<1>40. CASE Deliver
  BY <1>40 DEF LogInv, LogKnown, ClosedGone, NoRepeats, Gone, Fired, TypeInv,
         TypeOK, Placed, TransportPcs, ChannelPcs, CleanupPcs, Deliver,
         chanVars, sockVars, timerVars, transVars, eventVars, loopVars,
         appVars, monitors
<1>41. CASE \E c \in Conns : CloseHandle(c)
  BY <1>41 DEF LogInv, LogKnown, ClosedGone, NoRepeats, Gone, Fired, TypeInv,
         TypeOK, Placed, TransportPcs, ChannelPcs, CleanupPcs, CloseHandle,
         MayCall, AppUnchanged, chanVars, sockVars, timerVars, transVars,
         eventVars, loopVars, appVars, monitors
<1>42. CASE \E c \in Conns : TransportKept(c)
  BY <1>42 DEF LogInv, LogKnown, ClosedGone, NoRepeats, Gone, Fired, TypeInv,
         TypeOK, Placed, TransportPcs, ChannelPcs, CleanupPcs, TransportKept,
         chanVars, sockVars, timerVars, transVars, eventVars, loopVars,
         appVars, monitors
<1>43. CASE \E c \in Conns : TransportLost(c)
  BY <1>43 DEF LogInv, LogKnown, ClosedGone, NoRepeats, Gone, Fired, TypeInv,
         TypeOK, Placed, TransportPcs, ChannelPcs, CleanupPcs, TransportLost,
         chanVars, sockVars, timerVars, transVars, eventVars, loopVars,
         appVars, monitors
<1>44. CASE UNCHANGED vars
  BY <1>44 DEF LogInv, LogKnown, ClosedGone, NoRepeats, Gone, Fired, TypeInv,
         TypeOK, Placed, TransportPcs, ChannelPcs, CleanupPcs, vars,
         chanVars, sockVars, timerVars, transVars, eventVars, loopVars,
         appVars, monitors
<1>45. QED
  BY <1>1, <1>2, <1>3, <1>4, <1>5, <1>6, <1>7, <1>8, <1>9, <1>10, <1>11,
     <1>12, <1>13, <1>14, <1>15, <1>16, <1>17, <1>18, <1>19, <1>20, <1>21,
     <1>22, <1>23, <1>24, <1>25, <1>26, <1>27, <1>28, <1>29, <1>30, <1>31,
     <1>32, <1>33, <1>34, <1>35, <1>36, <1>37, <1>38, <1>39, <1>40, <1>41,
     <1>42, <1>43, <1>44
     DEF Next, Calls, CallSteps, Loop, ProcessTransports, ProcessChannels

(* Every connection the application learned of is kept until its ON_CLOSE, *)
(* which comes once.                                                       *)
THEOREM CloseExactlyOnce == Spec => []EventProtocol
<1>1. Init => LogInv
  BY DEF Init, LogInv, LogKnown, ClosedGone, NoRepeats
<1>2. TypeInv /\ LogInv => EventProtocol
  <2> SUFFICES ASSUME TypeInv, LogInv PROVE EventProtocol
    OBVIOUS
  <2>1. ASSUME NEW c \in Conns, Fired("open", c) PROVE c \in 1 .. nconn
    BY <2>1 DEF Fired, LogInv, LogKnown
  <2> QED
    BY <2>1 DEF EventProtocol, LogInv, ClosedGone, NoRepeats, Gone
<1>3. QueueInv => TypeInv
  BY DEF QueueInv
<1> QED
  BY <1>1, <1>2, <1>3, LogStep, QueueInvariant, PTL DEF Spec

---------------------------------------------------------------------------
(* What a handshake is.  With a descriptor that the kernel has handed out  *)
(* again the readiness of the old one is taken for that of the new, and    *)
(* the model checker refutes both theorems that assume ~FdReuse.           *)

(* Calls of the application and deliveries leave the loop, the channel's   *)
(* state, the socket and the timer alone.                                  *)
LEMMA AppAside ==
  ASSUME Calls \/ CallSteps \/ Deliver
  PROVE  /\ state' = state /\ net' = net /\ ready' = ready /\ timer' = timer
         /\ late' = late /\ pc' = pc /\ ret' = ret /\ answers' = answers
         /\ transports' = transports
<1> USE DEF AppUnchanged, chanVars, sockVars, timerVars, transVars, eventVars,
            loopVars, appVars, monitors
<1>1. CASE Calls
  BY <1>1 DEF Calls, OpenRefused, OpenAccepted, CloseIgnored, CloseBegin, CloseHandle
<1>2. CASE CallSteps
  BY <1>2 DEF CallSteps, OpenClear, OpenSet, OpenPush, CloseClear, CloseTest, CloseSet
<1>3. CASE Deliver
  BY <1>3 DEF Deliver
<1> QED
  BY <1>1, <1>2, <1>3

(* A descriptor that is still connecting is not called ready, and the      *)
(* channel is CONNECTING wherever a connection is started or completed.    *)
Shaking ==
  /\ net = "connecting" => ~ready
  /\ pc \in {"popen", "completion"} => state = "CONNECTING"
HandshakeInv == Shaking /\ OpenMeansConnected

LEMMA HandshakeStep ==
  ASSUME ~FdReuse, TypeOK, HandshakeInv, [Next]_vars
  PROVE  HandshakeInv'
<1> USE DEF TypeOK, HandshakeInv, Shaking, OpenMeansConnected, TransportPcs,
            ChannelPcs, CleanupPcs, chanVars, sockVars, timerVars, transVars,
            eventVars, loopVars, appVars, monitors
<1>1. CASE Calls \/ CallSteps \/ Deliver
  BY <1>1, AppAside
<1>2. CASE Network
  BY <1>2 DEF Network, EnvUnchanged
<1>3. CASE Tick
  BY <1>3 DEF Tick, EnvUnchanged
<1>4. CASE Poll
  <2>1. ready' => ready \/ net \in {"up", "refused", "eof"}
    BY <1>4 DEF Poll, Readable
  <2> QED
    BY <1>4, <2>1 DEF Poll
<1>5. CASE \E c \in Conns : TransportKept(c)
  BY <1>5 DEF TransportKept, ReadOk
<1>6. CASE \E c \in Conns : TransportLost(c)
  BY <1>6 DEF TransportLost
<1>7. CASE HandleCloseFire
  BY <1>7 DEF HandleCloseFire
<1>8. CASE HandleCloseSocket
  BY <1>8 DEF HandleCloseSocket
<1>9. CASE HandleCloseMaskRead
  BY <1>9 DEF HandleCloseMaskRead
<1>10. CASE HandleCloseMaskWrite
  BY <1>10 DEF HandleCloseMaskWrite
<1>11. CASE HandleCloseDone
  BY <1>11 DEF HandleCloseDone
<1>12. CASE TransportsDone
  BY <1>12 DEF TransportsDone
<1>13. CASE ChannelsEnter
  BY <1>13 DEF ChannelsEnter, LoopStep
<1>14. CASE ChannelTurn
  BY <1>14 DEF ChannelTurn, LoopStep
<1>15. CASE TakeOpenRead
  BY <1>15 DEF TakeOpenRead, LoopStep
<1>16. CASE TakeOpenWrite
  BY <1>16 DEF TakeOpenWrite, LoopStep
<1>17. CASE TakeOpen
  BY <1>17 DEF TakeOpen, LoopStep
<1>18. CASE Resolve
  BY <1>18 DEF Resolve
<1>19. CASE CleanupState
  BY <1>19 DEF CleanupState, LoopStep
<1>20. CASE CleanupMask
  BY <1>20 DEF CleanupMask, LoopStep
<1>21. CASE CleanupSocket
  BY <1>21 DEF CleanupSocket, LoopStep, FireFailed
<1>22. CASE Connect
  BY <1>22 DEF Connect, LoopStep
<1>23. CASE ConnectFails
  BY <1>23 DEF ConnectFails, LoopStep, FreshReady
<1>24. CASE ConnectAtOnce
  BY <1>24 DEF ConnectAtOnce, LoopStep, FreshReady, ConnectSucceed
<1>25. CASE ConnectBegins
  BY <1>25 DEF ConnectBegins, LoopStep, FreshReady
<1>26. CASE CompletionWaits
  BY <1>26 DEF CompletionWaits, LoopStep
<1>27. CASE CompletionSucceeds
  BY <1>27 DEF CompletionSucceeds, LoopStep, ConnectSucceed
<1>28. CASE CompletionFails
  BY <1>28 DEF CompletionFails, LoopStep
<1>29. CASE CancelTimer
  BY <1>29 DEF CancelTimer, LoopStep
<1>30. CASE ChannelsLeave
  BY <1>30 DEF ChannelsLeave, LoopStep
<1>31. CASE ProcessTimers
  BY <1>31 DEF ProcessTimers
<1>32. CASE FrameEnds
  BY <1>32 DEF FrameEnds, LoopStep
<1>33. CASE UNCHANGED vars
  BY <1>33 DEF vars
<1> QED
  BY <1>1, <1>2, <1>3, <1>4, <1>5, <1>6, <1>7, <1>8, <1>9, <1>10, <1>11,
     <1>12, <1>13, <1>14, <1>15, <1>16, <1>17, <1>18, <1>19, <1>20,
     <1>21, <1>22, <1>23, <1>24, <1>25, <1>26, <1>27, <1>28, <1>29,
     <1>30, <1>31, <1>32, <1>33
     DEF Next, Loop, ProcessTransports, ProcessChannels

(* A channel reports success only of a connection the kernel has made,     *)
(* from whatever thread it is opened and closed: SO_ERROR is not taken for *)
(* success while the handshake is under way.                               *)
THEOREM OpenIsConnected ==
  ASSUME ~FdReuse
  PROVE  Spec => []OpenMeansConnected
<1>1. Init => HandshakeInv
  BY DEF Init, HandshakeInv, Shaking, OpenMeansConnected
<1>2. TypeOK /\ HandshakeInv /\ [Next]_vars => HandshakeInv'
  BY HandshakeStep
<1>3. HandshakeInv => OpenMeansConnected
  BY DEF HandshakeInv
<1> QED
  BY <1>1, <1>2, <1>3, TypeCorrect, PTL DEF Spec

---------------------------------------------------------------------------
(* What holds when the calls are made by handlers, on the loop's thread.   *)
(* With calls from another thread the model checker refutes the theorems   *)
(* that follow.                                                            *)

Attempt == {"RESOLVING", "CONNECTING"}
OpenPcs == {"openRead", "openWrite", "setResolving", "resolve", "connect",
            "popen", "completion"}

(* A call runs to its end inside one dispatch, and open() was refused if   *)
(* an attempt was under way.                                               *)
HandlersOnly == call # "none" => pc = "dispatch"
OpenWaits ==
  OPEN \in opmask \/ call \in {"openClear", "openSet", "openPush"} => state \notin Attempt

(* The old transport is gone before a request is looked at: a transport    *)
(* that process_transports has passed over had no request pending.         *)
Transported ==
  /\ transports # {} => state = "OPENED"
  /\ pc \in OpenPcs \union CleanupPcs => transports = {}
  /\ pc \in {"channels", "channel"} /\ OPEN \in opmask => transports = {}
  /\ pc = "transports" /\ transports # visit => opmask = {}

(* Where process_channels is tells the state of the channel. *)
StateAt ==
  /\ pc \in {"openRead", "openWrite", "setResolving", "connect", "cancel"} =>
       state # "CONNECTING"
  /\ pc = "openRead" => OPEN \in opmask
  /\ pc = "resolve" => state = "RESOLVING"
  /\ pc \in {"popen", "completion"} => state = "CONNECTING"
  /\ pc \in {"cleanMask", "cleanSocket"} => state = "CLOSED"

(* The timer runs while the attempt does.  It outlives it only until       *)
(* cancel(), or, when it was already late at the head of the turn and      *)
(* cancel() leaves it alone, until process_timers drops it in that turn.   *)
TimerKept ==
  /\ state = "CONNECTING" /\ pc \notin {"popen"} \union CleanupPcs => timer # "off"
  /\ timer # "off" =>
       state = "CONNECTING" \/ late \/ pc = "cancel" \/ (pc \in CleanupPcs /\ ret = "cancel")
  /\ pc = "popen" \/ (pc \in CleanupPcs /\ ret # "cancel") => timer = "off"
  /\ late =>
       /\ timer = "expired"
       /\ \/ pc \in {"transports", "channels", "channel", "completion"} /\ state = "CONNECTING"
          \/ pc \in {"cancel", "finish", "timers"}
          \/ pc \in CleanupPcs /\ ret = "cancel"

HandlerInv ==
  /\ HandlersOnly /\ OpenWaits /\ Transported /\ StateAt /\ TimerKept
  /\ OneTransport /\ TimerGuards

LEMMA HandlerInit == Init => HandlerInv
  BY SMTT(30) DEF Init, HandlerInv, HandlersOnly, OpenWaits, Transported, StateAt, TimerKept,
         OneTransport, TimerGuards, OpenPcs, CleanupPcs, Attempt, OPEN

LEMMA HandlerStep ==
  ASSUME OnIoThread, QueueInv, HandlerInv, [Next]_vars
  PROVE  HandlerInv'
<1> USE DEF QueueInv, TypeInv, TypeOK, Placed, Locked, TakenUp, Requesting,
            AttemptQueued, HandlerInv, HandlersOnly, OpenWaits, Transported,
            StateAt, TimerKept, OneTransport, TimerGuards, Attempt, OpenPcs,
            TransportPcs, ChannelPcs, CleanupPcs, OPEN, CLOSE, chanVars,
            sockVars, timerVars, transVars, eventVars, loopVars, appVars,
            monitors
<1>1. CASE OpenRefused
  BY <1>1 DEF OpenRefused, MayCall, AppUnchanged
<1>2. CASE OpenAccepted
  BY <1>2 DEF OpenAccepted, MayCall, AppUnchanged
<1>3. CASE OpenClear
  BY <1>3 DEF OpenClear, AppUnchanged
<1>4. CASE OpenSet
  BY <1>4 DEF OpenSet, AppUnchanged
<1>5. CASE OpenPush
  BY <1>5 DEF OpenPush, AppUnchanged
<1>6. CASE CloseIgnored
  BY <1>6 DEF CloseIgnored, MayCall, AppUnchanged
<1>7. CASE CloseBegin
  BY <1>7 DEF CloseBegin, MayCall, AppUnchanged
<1>8. CASE CloseClear
  BY <1>8 DEF CloseClear, AppUnchanged
<1>9. CASE CloseTest
  BY <1>9 DEF CloseTest, AppUnchanged
<1>10. CASE CloseSet
  BY <1>10 DEF CloseSet, AppUnchanged
<1>11. CASE Deliver
  BY <1>11 DEF Deliver
<1>12. CASE \E c \in Conns : CloseHandle(c)
  BY <1>12 DEF CloseHandle, MayCall, AppUnchanged
<1>13. CASE Network
  BY <1>13 DEF Network, EnvUnchanged
<1>14. CASE Tick
  BY <1>14 DEF Tick, EnvUnchanged
<1>15. CASE Poll
  BY <1>15 DEF Poll, Readable
<1>16. CASE \E c \in Conns : TransportKept(c)
  BY <1>16 DEF TransportKept, ReadOk
<1>17. CASE \E c \in Conns : TransportLost(c)
  BY <1>17 DEF TransportLost
<1>18. CASE HandleCloseFire
  BY <1>18 DEF HandleCloseFire
<1>19. CASE HandleCloseSocket
  BY <1>19 DEF HandleCloseSocket
<1>20. CASE HandleCloseMaskRead
  BY <1>20 DEF HandleCloseMaskRead
<1>21. CASE HandleCloseMaskWrite
  BY <1>21 DEF HandleCloseMaskWrite
<1>22. CASE HandleCloseDone
  <2>1. transports' = {} /\ visit = {}
    BY <1>22 DEF HandleCloseDone
  <2> QED
    BY <1>22, <2>1 DEF HandleCloseDone
<1>23. CASE TransportsDone
  BY <1>23 DEF TransportsDone
<1>24. CASE ChannelsEnter
  BY <1>24 DEF ChannelsEnter, LoopStep
<1>25. CASE ChannelTurn
  BY <1>25 DEF ChannelTurn, LoopStep
<1>26. CASE TakeOpenRead
  BY <1>26 DEF TakeOpenRead, LoopStep
<1>27. CASE TakeOpenWrite
  BY <1>27 DEF TakeOpenWrite, LoopStep
<1>28. CASE TakeOpen
  <2>1. OPEN \notin opmask
    BY <1>28 DEF TakeOpen, LoopStep
  <2>2. call = "none" /\ timer = "off" /\ ~late /\ transports = {}
    BY <1>28 DEF TakeOpen, LoopStep
  <2> QED
    BY <1>28, <2>1, <2>2 DEF TakeOpen, LoopStep
<1>29. CASE Resolve
  BY <1>29 DEF Resolve
<1>30. CASE CleanupState
  BY <1>30 DEF CleanupState, LoopStep
<1>31. CASE CleanupMask
  BY <1>31 DEF CleanupMask, LoopStep
<1>32. CASE CleanupSocket
  BY <1>32 DEF CleanupSocket, LoopStep, FireFailed
<1>33. CASE Connect
  BY <1>33 DEF Connect, LoopStep
<1>34. CASE ConnectFails
  BY <1>34 DEF ConnectFails, LoopStep, FreshReady
<1>35. CASE ConnectAtOnce
  BY <1>35 DEF ConnectAtOnce, LoopStep, FreshReady, ConnectSucceed
<1>36. CASE ConnectBegins
  BY <1>36 DEF ConnectBegins, LoopStep, FreshReady
<1>37. CASE CompletionWaits
  BY <1>37 DEF CompletionWaits, LoopStep
<1>38. CASE CompletionSucceeds
  BY <1>38 DEF CompletionSucceeds, LoopStep, ConnectSucceed
<1>39. CASE CompletionFails
  BY <1>39 DEF CompletionFails, LoopStep
<1>40. CASE CancelTimer
  BY <1>40 DEF CancelTimer, LoopStep
<1>41. CASE ChannelsLeave
  BY <1>41 DEF ChannelsLeave, LoopStep
<1>42. CASE ProcessTimers
  BY <1>42 DEF ProcessTimers
<1>43. CASE FrameEnds
  BY <1>43 DEF FrameEnds, LoopStep
<1>44. CASE UNCHANGED vars
  BY <1>44 DEF vars
<1> QED
  BY <1>1, <1>2, <1>3, <1>4, <1>5, <1>6, <1>7, <1>8, <1>9, <1>10, <1>11,
     <1>12, <1>13, <1>14, <1>15, <1>16, <1>17, <1>18, <1>19, <1>20,
     <1>21, <1>22, <1>23, <1>24, <1>25, <1>26, <1>27, <1>28, <1>29,
     <1>30, <1>31, <1>32, <1>33, <1>34, <1>35, <1>36, <1>37, <1>38,
     <1>39, <1>40, <1>41, <1>42, <1>43, <1>44
     DEF Next, Calls, CallSteps, Loop, ProcessTransports, ProcessChannels

LEMMA HandlerInvariant ==
  ASSUME OnIoThread
  PROVE  Spec => []HandlerInv
<1>1. QueueInv /\ HandlerInv /\ [Next]_vars => HandlerInv'
  BY HandlerStep
<1> QED
  BY <1>1, HandlerInit, QueueInvariant, PTL DEF Spec

(* A client channel never has two transports: whatever its handlers call,  *)
(* a reopen closes the old connection before it makes the new one.         *)
THEOREM OneTransportAtATime ==
  ASSUME OnIoThread
  PROVE  Spec => []OneTransport
<1>1. HandlerInv => OneTransport
  BY DEF HandlerInv
<1> QED
  BY <1>1, HandlerInvariant, PTL

(* The connect timer runs exactly while the channel is CONNECTING: no      *)
(* attempt is left without a timeout and no timer outlives its attempt.    *)
THEOREM TimerWithAttempt ==
  ASSUME OnIoThread
  PROVE  Spec => []TimerGuards
<1>1. HandlerInv => TimerGuards
  BY DEF HandlerInv
<1> QED
  BY <1>1, HandlerInvariant, PTL

(* A timer that is late finds the attempt still without an answer, since a *)
(* ready descriptor is dealt with in the turn that polled it; and until it *)
(* ends an attempt is not answered.                                        *)
Unready ==
  /\ state = "CONNECTING" /\ ready =>
       pc \in {"transports", "channels", "channel", "completion", "cleanState", "popen"}
  /\ late => ~ready /\ state = "CONNECTING" /\ pc \notin CleanupPcs
Unanswered ==
  state \in Attempt \/ pc = "connect" \/ pc \in CleanupPcs => answers = 0
AnswerInv == Unready /\ Unanswered /\ OneAnswer

LEMMA AnswerStep ==
  ASSUME OnIoThread, ~FdReuse, QueueInv, HandlerInv, AnswerInv, [Next]_vars
  PROVE  AnswerInv'
<1> USE DEF QueueInv, TypeInv, TypeOK, AttemptQueued, HandlerInv, OpenWaits,
            Transported, StateAt, TimerKept, AnswerInv, Unready, Unanswered,
            OneAnswer, Attempt, OpenPcs, TransportPcs, ChannelPcs, CleanupPcs,
            OPEN, chanVars, sockVars, timerVars, transVars, eventVars,
            loopVars, appVars, monitors
<1>1. CASE Calls \/ CallSteps \/ Deliver
  BY <1>1, AppAside
<1>2. CASE Network
  BY <1>2 DEF Network, EnvUnchanged
<1>3. CASE Tick
  BY <1>3 DEF Tick, EnvUnchanged
<1>4. CASE Poll
  <2>1. state = "CONNECTING" => ~ready
    BY <1>4 DEF Poll
  <2>2. late' => timer = "expired" /\ ready' = ready
    BY <1>4 DEF Poll
  <2> QED
    BY <1>4, <2>1, <2>2 DEF Poll
<1>5. CASE \E c \in Conns : TransportKept(c)
  BY <1>5 DEF TransportKept, ReadOk
<1>6. CASE \E c \in Conns : TransportLost(c)
  BY <1>6 DEF TransportLost
<1>7. CASE HandleCloseFire
  BY <1>7 DEF HandleCloseFire
<1>8. CASE HandleCloseSocket
  BY <1>8 DEF HandleCloseSocket
<1>9. CASE HandleCloseMaskRead
  BY <1>9 DEF HandleCloseMaskRead
<1>10. CASE HandleCloseMaskWrite
  BY <1>10 DEF HandleCloseMaskWrite
<1>11. CASE HandleCloseDone
  BY <1>11 DEF HandleCloseDone
<1>12. CASE TransportsDone
  BY <1>12 DEF TransportsDone
<1>13. CASE ChannelsEnter
  BY <1>13 DEF ChannelsEnter, LoopStep
<1>14. CASE ChannelTurn
  BY <1>14 DEF ChannelTurn, LoopStep
<1>15. CASE TakeOpenRead
  BY <1>15 DEF TakeOpenRead, LoopStep
<1>16. CASE TakeOpenWrite
  BY <1>16 DEF TakeOpenWrite, LoopStep
<1>17. CASE TakeOpen
  BY <1>17 DEF TakeOpen, LoopStep
<1>18. CASE Resolve
  BY <1>18 DEF Resolve
<1>19. CASE CleanupState
  BY <1>19 DEF CleanupState, LoopStep
<1>20. CASE CleanupMask
  BY <1>20 DEF CleanupMask, LoopStep
<1>21. CASE CleanupSocket
  BY <1>21 DEF CleanupSocket, LoopStep, FireFailed
<1>22. CASE Connect
  BY <1>22 DEF Connect, LoopStep
<1>23. CASE ConnectFails
  BY <1>23 DEF ConnectFails, LoopStep, FreshReady
<1>24. CASE ConnectAtOnce
  BY <1>24 DEF ConnectAtOnce, LoopStep, FreshReady, ConnectSucceed
<1>25. CASE ConnectBegins
  BY <1>25 DEF ConnectBegins, LoopStep, FreshReady
<1>26. CASE CompletionWaits
  BY <1>26 DEF CompletionWaits, LoopStep
<1>27. CASE CompletionSucceeds
  BY <1>27 DEF CompletionSucceeds, LoopStep, ConnectSucceed
<1>28. CASE CompletionFails
  BY <1>28 DEF CompletionFails, LoopStep
<1>29. CASE CancelTimer
  BY <1>29 DEF CancelTimer, LoopStep
<1>30. CASE ChannelsLeave
  BY <1>30 DEF ChannelsLeave, LoopStep
<1>31. CASE ProcessTimers
  BY <1>31 DEF ProcessTimers
<1>32. CASE FrameEnds
  BY <1>32 DEF FrameEnds, LoopStep
<1>33. CASE UNCHANGED vars
  BY <1>33 DEF vars
<1> QED
  BY <1>1, <1>2, <1>3, <1>4, <1>5, <1>6, <1>7, <1>8, <1>9, <1>10, <1>11,
     <1>12, <1>13, <1>14, <1>15, <1>16, <1>17, <1>18, <1>19, <1>20,
     <1>21, <1>22, <1>23, <1>24, <1>25, <1>26, <1>27, <1>28, <1>29,
     <1>30, <1>31, <1>32, <1>33
     DEF Next, Loop, ProcessTransports, ProcessChannels

(* A timeout and a completion never both report: one ON_OPEN answers an    *)
(* open() made by a handler.                                               *)
THEOREM AnsweredOnce ==
  ASSUME OnIoThread, ~FdReuse
  PROVE  Spec => []OneAnswer
<1>1. Init => AnswerInv
  BY DEF Init, AnswerInv, Unready, Unanswered, OneAnswer, CleanupPcs, Attempt
<1>2. QueueInv /\ HandlerInv /\ AnswerInv /\ [Next]_vars => AnswerInv'
  BY AnswerStep
<1>3. AnswerInv => OneAnswer
  BY DEF AnswerInv
<1> QED
  BY <1>1, <1>2, <1>3, QueueInvariant, HandlerInvariant, PTL DEF Spec
====
