---- MODULE ClientChannel ----
(***************************************************************************)
(* A TCP client channel with a literal address: the application's open and *)
(* close calls, and the event loop that resolves, connects, times out,     *)
(* reads and closes.  The two threads share opmask_ (a plain byte),        *)
(* state_ (atomic) and the xxsocket object, without a lock; channel_ops_   *)
(* alone is guarded, by channel_ops_mtx_.  One statement that touches      *)
(* shared state is one step, and a read-modify-write of opmask_ by the     *)
(* loop is two, since nothing makes it atomic.                             *)
(*                                                                         *)
(* The channel and its transport share one xxsocket, so there is a single  *)
(* socket here however many transports there are.  Polling may return at   *)
(* any time: wakeups and poll timeouts are not told apart.                 *)
(***************************************************************************)
EXTENDS Integers, Sequences

CONSTANTS MaxCalls,     \* bound: API calls in a behaviour
          MaxConns,     \* bound: transports created in a behaviour
          Slots,        \* transport memory blocks (tpool_ and the heap)
          OnIoThread,   \* API calls are made by handlers on the loop's thread,
                        \* otherwise by another thread at any moment
          OtherWork,    \* other channels may leave wait_duration_ at 0
          FdReuse       \* the kernel may hand out a just closed descriptor

ASSUME ConstantsAssumption ==
  /\ MaxCalls \in Nat /\ MaxConns \in Nat /\ Slots # {}
  /\ OnIoThread \in BOOLEAN /\ OtherWork \in BOOLEAN /\ FdReuse \in BOOLEAN

Conns == 1 .. MaxConns
OPEN == "OPEN"
CLOSE == "CLOSE"

VARIABLES
  state,        \* io_channel::state_
  opmask,       \* io_channel::opmask_, a set of OPEN and CLOSE
  inprogress,   \* io_channel::error_ is EINPROGRESS
  queued,       \* the channel is in channel_ops_
  net,          \* the socket: "none" when it is not open, else the kernel's
                \* view of the connection
  ready,        \* revents_ has an entry for the socket's descriptor
  timer,        \* the connect timer: off, armed, or past its expire time
  late,         \* the timer is expired by the loop's cached current_time_
  transports,   \* transports_, by connection
  visit,        \* what process_transports has yet to visit
  handle,       \* the memory block each connection was placed in
  tmask,        \* io_transport::opmask_ of each block has CLOSE
  nconn,        \* connections made so far
  log,          \* events fired, in order
  seen,         \* how many of them the application has been handed
  pc, cur, reg, ret,  \* the loop: next step, transport being closed,
                      \* opmask_ as last read, where cleanup returns to
  call, calls,  \* the API call in progress; how many were made
  pending,      \* an accepted open() not yet answered nor taken back
  answers       \* ON_OPEN events since the loop took up the last open

chanVars == <<state, opmask, inprogress, queued>>
sockVars == <<net, ready>>
timerVars == <<timer, late>>
transVars == <<transports, visit, handle, tmask, nconn>>
eventVars == <<log, seen>>
loopVars == <<pc, cur, reg, ret>>
appVars == <<call, calls>>
monitors == <<pending, answers>>
vars == <<chanVars, sockVars, timerVars, transVars, eventVars, loopVars,
          appVars, monitors>>

EventType ==
  [kind : {"open", "close"}, conn : Conns] \union [kind : {"fail"}, conn : {0}]
CleanupPcs == {"cleanState", "cleanMask", "cleanSocket"}
ChannelPcs == {"channel", "openRead", "openWrite", "setResolving", "resolve",
               "connect", "popen", "completion", "cancel", "finish"}
TransportPcs == {"fireClose", "closeSocket", "maskRead", "maskWrite", "setClosed"}

TypeOK ==
  /\ state \in {"CLOSED", "RESOLVING", "CONNECTING", "OPENED"}
  /\ opmask \in SUBSET {OPEN, CLOSE} /\ reg \in SUBSET {OPEN, CLOSE}
  /\ inprogress \in BOOLEAN /\ queued \in BOOLEAN
  /\ net \in {"none", "connecting", "up", "refused", "eof"}
  /\ ready \in BOOLEAN
  /\ timer \in {"off", "armed", "expired"} /\ late \in BOOLEAN
  /\ transports \in SUBSET Conns /\ visit \in SUBSET transports
  /\ handle \in [Conns -> Slots] /\ tmask \in [Slots -> BOOLEAN]
  /\ nconn \in 0 .. MaxConns
  /\ log \in Seq(EventType) /\ seen \in 0 .. Len(log)
  /\ pc \in {"poll", "transports", "channels", "timers", "dispatch"}
            \union TransportPcs \union ChannelPcs \union CleanupPcs
  /\ cur \in 0 .. MaxConns
  /\ ret \in {"connect", "finish", "cancel", "dispatch"}
  /\ call \in {"none", "openClear", "openSet", "openPush",
               "closeClear", "closeTest", "closeSet"}
  /\ calls \in 0 .. MaxCalls
  /\ pending \in BOOLEAN /\ answers \in 0 .. 2

Init ==
  /\ state = "CLOSED" /\ opmask = {} /\ inprogress = FALSE /\ queued = FALSE
  /\ net = "none" /\ ready = FALSE
  /\ timer = "off" /\ late = FALSE
  /\ transports = {} /\ visit = {} /\ nconn = 0
  /\ handle = [c \in Conns |-> CHOOSE s \in Slots : TRUE]
  /\ tmask = [s \in Slots |-> FALSE]
  /\ log = << >> /\ seen = 0
  /\ pc = "poll" /\ cur = 0 /\ reg = {} /\ ret = "finish"
  /\ call = "none" /\ calls = 0
  /\ pending = FALSE /\ answers = 0

(* process_channels holds channel_ops_mtx_ from its first to its last step. *)
OpsLocked == pc \in ChannelPcs \/ (pc \in CleanupPcs /\ ret # "dispatch")

FireFailed ==
  /\ log' = Append(log, [kind |-> "fail", conn |-> 0])
  /\ UNCHANGED seen
  /\ pending' = FALSE
  /\ answers' = IF answers = 2 THEN 2 ELSE answers + 1

---------------------------------------------------------------------------
(* The application. *)

(* A call can start between two others; on the loop's thread only while    *)
(* the loop is dispatching to a handler.                                   *)
MayCall ==
  /\ call = "none" /\ calls < MaxCalls
  /\ OnIoThread => pc = "dispatch"

AppUnchanged ==
  UNCHANGED <<state, inprogress, sockVars, timerVars, transports, visit, handle,
              nconn, eventVars, loopVars, answers>>

(* open -> open_internal: refused while an open is in progress. *)
OpenRefused ==
  /\ MayCall /\ state \in {"CONNECTING", "RESOLVING"}
  /\ calls' = calls + 1
  /\ UNCHANGED <<opmask, queued, tmask, call, pending>> /\ AppUnchanged

OpenAccepted ==
  /\ MayCall /\ state \notin {"CONNECTING", "RESOLVING"}
  /\ call' = "openClear" /\ calls' = calls + 1
  /\ UNCHANGED <<opmask, queued, tmask, pending>> /\ AppUnchanged

OpenClear ==
  /\ call = "openClear" /\ call' = "openSet"
  /\ opmask' = opmask \ {CLOSE}
  /\ UNCHANGED <<queued, tmask, calls, pending>> /\ AppUnchanged

OpenSet ==
  /\ call = "openSet" /\ call' = "openPush"
  /\ opmask' = opmask \union {OPEN}
  /\ pending' = TRUE
  /\ UNCHANGED <<queued, tmask, calls>> /\ AppUnchanged

OpenPushWithoutLock ==
  /\ call = "openPush" /\ call' = "none"
  /\ queued' = (queued \/ ~OpsLocked)
  /\ UNCHANGED <<opmask, tmask, calls, pending>> /\ AppUnchanged

(* The channel is put into channel_ops_ unless it is there, under the lock. *)
OpenPush ==
  /\ call = "openPush" /\ ~OpsLocked /\ call' = "none"
  /\ queued' = TRUE
  /\ UNCHANGED <<opmask, tmask, calls, pending>> /\ AppUnchanged

(* close(index): nothing to do while an earlier close is pending. *)
CloseIgnored ==
  /\ MayCall /\ CLOSE \in opmask
  /\ calls' = calls + 1
  /\ UNCHANGED <<opmask, queued, tmask, call, pending>> /\ AppUnchanged

CloseBegin ==
  /\ MayCall /\ CLOSE \notin opmask
  /\ call' = "closeClear" /\ calls' = calls + 1
  /\ UNCHANGED <<opmask, queued, tmask, pending>> /\ AppUnchanged

(* A request that the loop has not taken up is taken back. *)
CloseClear ==
  /\ call = "closeClear" /\ call' = "closeTest"
  /\ opmask' = opmask \ {OPEN}
  /\ pending' = (pending /\ OPEN \notin opmask)
  /\ UNCHANGED <<queued, tmask, calls>> /\ AppUnchanged

CloseTest ==
  /\ call = "closeTest"
  /\ call' = IF net # "none" THEN "closeSet" ELSE "none"
  /\ UNCHANGED <<opmask, queued, tmask, calls, pending>> /\ AppUnchanged

CloseSet ==
  /\ call = "closeSet" /\ call' = "none"
  /\ opmask' = opmask \union {CLOSE}
  /\ UNCHANGED <<queued, tmask, calls, pending>> /\ AppUnchanged

(* The application has been told that c opened, and not yet that it closed. *)
KnownOpen(c) ==
  /\ \E i \in 1 .. seen : log[i] = [kind |-> "open", conn |-> c]
  /\ ~ \E i \in 1 .. seen : log[i] = [kind |-> "close", conn |-> c]

(* close(transport): the mask of whatever lives in the block now is set. *)
CloseHandle(c) ==
  /\ MayCall /\ KnownOpen(c) /\ ~tmask[handle[c]]
  /\ tmask' = [tmask EXCEPT ![handle[c]] = TRUE]
  /\ calls' = calls + 1
  /\ UNCHANGED <<opmask, queued, call, pending>> /\ AppUnchanged

(* The next event is handed to the application. *)
Deliver ==
  /\ OnIoThread => pc = "dispatch" /\ call = "none"
  /\ seen < Len(log) /\ seen' = seen + 1
  /\ UNCHANGED <<chanVars, sockVars, timerVars, transVars, log, loopVars,
                 appVars, monitors>>

Calls ==
  \/ OpenRefused \/ OpenAccepted \/ CloseIgnored \/ CloseBegin
  \/ \E c \in Conns : CloseHandle(c)

CallSteps ==
  OpenClear \/ OpenSet \/ OpenPush \/ CloseClear \/ CloseTest \/ CloseSet

---------------------------------------------------------------------------
(* The loop: polling. *)

(* What poll_io can report for the socket.  While connecting, reads and    *)
(* writes are watched; afterwards reads only.                              *)
Readable ==
  CASE net \in {"none", "connecting"} -> {FALSE}
    [] net = "up" -> IF state = "CONNECTING" THEN {TRUE} ELSE BOOLEAN
    [] net \in {"refused", "eof"} -> {TRUE}

(* The head of the loop: current_time_ is cached, and unless work is left  *)
(* over or a timer is due the descriptors are polled.  When they are not,  *)
(* revents_ keeps the result of the last poll.                             *)
Poll ==
  /\ pc = "poll" /\ pc' = "transports"
  /\ late' = (timer = "expired")
  /\ \/ (timer = "expired" \/ OtherWork) /\ UNCHANGED ready
     \/ timer # "expired" /\ ready' \in Readable
  /\ visit' = transports
  /\ UNCHANGED <<chanVars, net, timer, transports, handle, tmask, nconn,
                 eventVars, cur, reg, ret, appVars, monitors>>

---------------------------------------------------------------------------
(* The loop: process_transports. *)

ReadOk == net # "none" /\ ~(ready /\ net \in {"eof", "refused"})

IgnoringOpenKept(c) ==
  /\ pc = "transports" /\ c \in visit
  /\ ReadOk /\ ~tmask[handle[c]] /\ CLOSE \notin opmask
  /\ visit' = visit \ {c}
  /\ UNCHANGED <<chanVars, sockVars, timerVars, transports, handle, tmask, nconn,
                 eventVars, loopVars, appVars, monitors>>

(* do_read and do_write went well and nobody asks for a close or a reopen. *)
TransportKept(c) ==
  /\ pc = "transports" /\ c \in visit
  /\ ReadOk /\ ~tmask[handle[c]] /\ opmask = {}
  /\ visit' = visit \ {c}
  /\ UNCHANGED <<chanVars, sockVars, timerVars, transports, handle, tmask, nconn,
                 eventVars, loopVars, appVars, monitors>>

KeepVisiting(c) ==
  /\ pc = "transports" /\ c \in visit
  /\ ~ReadOk \/ tmask[handle[c]] \/ opmask # {}
  /\ cur' = c /\ pc' = "fireClose"
  /\ UNCHANGED <<chanVars, sockVars, timerVars, transVars, eventVars, reg, ret,
                 appVars, monitors>>

(* A failed read, a pending request or close(transport): handle_close. *)
TransportLost(c) ==
  /\ pc = "transports" /\ c \in visit
  /\ ~ReadOk \/ tmask[handle[c]] \/ opmask # {}
  /\ visit' = visit \ {c}
  /\ cur' = c /\ pc' = "fireClose"
  /\ UNCHANGED <<chanVars, sockVars, timerVars, transports, handle, tmask, nconn,
                 eventVars, reg, ret, appVars, monitors>>

(* handle_close: the event first ... *)
HandleCloseFire ==
  /\ pc = "fireClose" /\ pc' = "closeSocket"
  /\ log' = Append(log, [kind |-> "close", conn |-> cur])
  /\ UNCHANGED <<chanVars, sockVars, timerVars, transVars, seen, cur, reg, ret,
                 appVars, monitors>>

(* ... then the transport's socket, which is the channel's ... *)
HandleCloseSocket ==
  /\ pc = "closeSocket" /\ pc' = "maskRead"
  /\ net' = "none"
  /\ UNCHANGED <<chanVars, ready, timerVars, transVars, eventVars, cur, reg, ret,
                 appVars, monitors>>

(* ... then CLOSE is cleared in the channel's mask, not atomically ... *)
HandleCloseMaskRead ==
  /\ pc = "maskRead" /\ pc' = "maskWrite"
  /\ reg' = opmask
  /\ UNCHANGED <<chanVars, sockVars, timerVars, transVars, eventVars, cur, ret,
                 appVars, monitors>>

HandleCloseMaskWrite ==
  /\ pc = "maskWrite" /\ pc' = "setClosed"
  /\ opmask' = reg \ {CLOSE}
  /\ UNCHANGED <<state, inprogress, queued, sockVars, timerVars, transVars,
                 eventVars, cur, reg, ret, appVars, monitors>>

LeakTransport ==
  /\ pc = "setClosed" /\ pc' = "transports"
  /\ state' = "CLOSED" /\ inprogress' = FALSE
  /\ UNCHANGED <<opmask, queued, sockVars, timerVars, transports, visit, handle,
                 tmask, nconn, eventVars, cur, reg, ret, appVars, monitors>>

(* ... and the channel is cleaned up with its mask kept, so that a pending *)
(* open survives; the transport leaves transports_.                        *)
HandleCloseDone ==
  /\ pc = "setClosed" /\ pc' = "transports"
  /\ state' = "CLOSED" /\ inprogress' = FALSE
  /\ transports' = transports \ {cur}
  /\ UNCHANGED <<opmask, queued, sockVars, timerVars, visit, handle, tmask, nconn,
                 eventVars, cur, reg, ret, appVars, monitors>>

TransportsDone ==
  /\ pc = "transports" /\ visit = {}
  /\ pc' = "channels"
  /\ UNCHANGED <<chanVars, sockVars, timerVars, transVars, eventVars, cur, reg,
                 ret, appVars, monitors>>

ProcessTransports ==
  \/ \E c \in Conns : TransportKept(c) \/ TransportLost(c)
  \/ HandleCloseFire \/ HandleCloseSocket \/ HandleCloseMaskRead
  \/ HandleCloseMaskWrite \/ HandleCloseDone \/ TransportsDone

---------------------------------------------------------------------------
(* The loop: process_channels. *)

LoopStep(from, to) == pc = from /\ pc' = to

(* channel_ops_ is looked at without the lock; then the lock is taken. *)
ChannelsEnter ==
  /\ LoopStep("channels", IF queued THEN "channel" ELSE "timers")
  /\ UNCHANGED <<chanVars, sockVars, timerVars, transVars, eventVars, cur, reg,
                 ret, appVars, monitors>>

(* The channel's turn: a requested open, a connection in progress, or      *)
(* nothing to do.                                                          *)
ChannelTurn ==
  /\ LoopStep("channel", CASE OPEN \in opmask -> "openRead"
                           [] OPEN \notin opmask /\ state = "RESOLVING" -> "resolve"
                           [] OPEN \notin opmask /\ state = "CONNECTING" -> "completion"
                           [] OTHER -> "finish")
  /\ UNCHANGED <<chanVars, sockVars, timerVars, transVars, eventVars, cur, reg,
                 ret, appVars, monitors>>

(* OPEN is cleared in the mask, not atomically. *)
TakeOpenRead ==
  /\ LoopStep("openRead", "openWrite")
  /\ reg' = opmask
  /\ UNCHANGED <<chanVars, sockVars, timerVars, transVars, eventVars, cur, ret,
                 appVars, monitors>>

TakeOpenWrite ==
  /\ LoopStep("openWrite", "setResolving")
  /\ opmask' = reg \ {OPEN}
  /\ UNCHANGED <<state, inprogress, queued, sockVars, timerVars, transVars,
                 eventVars, cur, reg, ret, appVars, monitors>>

TakeOpen ==
  /\ LoopStep("setResolving", "resolve")
  /\ state' = "RESOLVING"
  /\ answers' = 0
  /\ UNCHANGED <<opmask, inprogress, queued, sockVars, timerVars, transVars,
                 eventVars, cur, reg, ret, appVars, pending>>

(* do_resolve on a literal address succeeds at once; without a host it     *)
(* fails with no_available_address.  do_connect first cleans up a socket   *)
(* that is still open.                                                     *)
Resolve ==
  /\ pc = "resolve"
  /\ \/ pc' = "cleanState" /\ ret' = "finish"
     \/ net # "none" /\ pc' = "cleanState" /\ ret' = "connect"
     \/ net = "none" /\ pc' = "connect" /\ UNCHANGED ret
  /\ UNCHANGED <<chanVars, sockVars, timerVars, transVars, eventVars, cur, reg,
                 appVars, monitors>>

(* cleanup_io: the state is closed before the mask is reset, then the      *)
(* socket goes.                                                            *)
CleanupState ==
  /\ LoopStep("cleanState", "cleanMask")
  /\ state' = "CLOSED" /\ inprogress' = FALSE
  /\ UNCHANGED <<opmask, queued, sockVars, timerVars, transVars, eventVars, cur,
                 reg, ret, appVars, monitors>>

CleanupMask ==
  /\ LoopStep("cleanMask", "cleanSocket")
  /\ opmask' = {}
  /\ UNCHANGED <<state, inprogress, queued, sockVars, timerVars, transVars,
                 eventVars, cur, reg, ret, appVars, monitors>>

(* On its way to a new connection cleanup_io fires nothing; everywhere     *)
(* else it is part of handle_connect_failed, which then reports.           *)
CleanupSocket ==
  /\ LoopStep("cleanSocket", ret)
  /\ net' = "none"
  /\ IF ret = "connect" THEN UNCHANGED <<eventVars, monitors>> ELSE FireFailed
  /\ UNCHANGED <<chanVars, ready, timerVars, transVars, cur, reg, ret, appVars>>

Connect ==
  /\ LoopStep("connect", "popen")
  /\ state' = "CONNECTING"
  /\ UNCHANGED <<opmask, inprogress, queued, sockVars, timerVars, transVars,
                 eventVars, cur, reg, ret, appVars, monitors>>

(* The readiness found for a fresh descriptor: none, unless its number is  *)
(* that of the descriptor just closed and revents_ still has its entry.    *)
FreshReady == IF FdReuse THEN {ready, FALSE} ELSE {FALSE}

(* handle_connect_succeed -> active_transport: the channel is open, a      *)
(* transport is built in a free block and ON_OPEN is fired.                *)
ConnectSucceed ==
  /\ nconn < MaxConns /\ nconn' = nconn + 1
  /\ inprogress' = FALSE /\ state' = "OPENED"
  /\ \E s \in Slots :
       /\ \A c \in transports : handle[c] # s
       /\ handle' = [handle EXCEPT ![nconn + 1] = s]
       /\ tmask' = [tmask EXCEPT ![s] = FALSE]
  /\ transports' = transports \union {nconn + 1}
  /\ log' = Append(log, [kind |-> "open", conn |-> nconn + 1])
  /\ pending' = FALSE
  /\ answers' = IF answers = 2 THEN 2 ELSE answers + 1
  /\ UNCHANGED <<opmask, queued, visit, seen>>

(* popen and connect fail at once, succeed at once, or are under way with  *)
(* the connect timer running.                                              *)
ConnectFails ==
  /\ LoopStep("popen", "cleanState") /\ ret' = "finish"
  /\ net' \in {"none", "refused"} /\ ready' \in FreshReady
  /\ UNCHANGED <<chanVars, timerVars, transVars, eventVars, cur, reg, appVars,
                 monitors>>

ConnectAtOnce ==
  /\ LoopStep("popen", "finish")
  /\ net' = "up" /\ ready' \in FreshReady
  /\ ConnectSucceed
  /\ UNCHANGED <<timerVars, cur, reg, ret, appVars>>

NoTimerConnectBegins ==
  /\ LoopStep("popen", "finish")
  /\ net' = "connecting" /\ ready' \in FreshReady
  /\ inprogress' = TRUE
  /\ UNCHANGED <<state, opmask, queued, timerVars, transVars, eventVars, cur, reg,
                 ret, appVars, monitors>>

ConnectBegins ==
  /\ LoopStep("popen", "finish")
  /\ net' = "connecting" /\ ready' \in FreshReady
  /\ inprogress' = TRUE
  /\ timer' = "armed" /\ late' = FALSE
  /\ UNCHANGED <<state, opmask, queued, transVars, eventVars, cur, reg, ret,
                 appVars, monitors>>

(* do_connect_completion: SO_ERROR is asked only of a descriptor that      *)
(* revents_ calls ready, and a connection under way has no error yet.      *)
CompletionWaits ==
  /\ LoopStep("completion", "finish") /\ ~ready
  /\ UNCHANGED <<chanVars, sockVars, timerVars, transVars, eventVars, cur, reg,
                 ret, appVars, monitors>>

BlindCompletion ==
  /\ LoopStep("completion", "cancel")
  /\ net \in {"connecting", "up", "eof"}
  /\ ConnectSucceed
  /\ UNCHANGED <<sockVars, timerVars, cur, reg, ret, appVars>>

CompletionSucceeds ==
  /\ LoopStep("completion", "cancel") /\ ready
  /\ net \in {"connecting", "up", "eof"}
  /\ ConnectSucceed
  /\ UNCHANGED <<sockVars, timerVars, cur, reg, ret, appVars>>

CompletionFails ==
  /\ LoopStep("completion", "cleanState") /\ ret' = "cancel" /\ ready
  /\ net \in {"none", "refused"}
  /\ UNCHANGED <<chanVars, sockVars, timerVars, transVars, eventVars, cur, reg,
                 appVars, monitors>>

NoCancel ==
  /\ LoopStep("cancel", "finish")
  /\ UNCHANGED <<chanVars, sockVars, timerVars, transVars, eventVars, cur, reg,
                 ret, appVars, monitors>>

(* timer_.cancel() removes the timer unless it is expired by the loop's    *)
(* cached time.                                                            *)
CancelTimer ==
  /\ LoopStep("cancel", "finish")
  /\ timer' = IF late THEN timer ELSE "off"
  /\ UNCHANGED <<chanVars, sockVars, late, transVars, eventVars, cur, reg, ret,
                 appVars, monitors>>

EraseAlways ==
  /\ LoopStep("finish", "timers")
  /\ queued' = FALSE
  /\ UNCHANGED <<state, opmask, inprogress, sockVars, timerVars, transVars,
                 eventVars, cur, reg, ret, appVars, monitors>>

(* The channel stays in channel_ops_ only while its error is EINPROGRESS;  *)
(* the lock is released.                                                   *)
ChannelsLeave ==
  /\ LoopStep("finish", "timers")
  /\ queued' = inprogress
  /\ UNCHANGED <<state, opmask, inprogress, sockVars, timerVars, transVars,
                 eventVars, cur, reg, ret, appVars, monitors>>

ProcessChannels ==
  \/ ChannelsEnter \/ ChannelTurn \/ TakeOpenRead \/ TakeOpenWrite \/ TakeOpen
  \/ Resolve \/ CleanupState \/ CleanupMask \/ CleanupSocket
  \/ Connect \/ ConnectFails \/ ConnectAtOnce \/ ConnectBegins
  \/ CompletionWaits \/ CompletionSucceeds \/ CompletionFails
  \/ CancelTimer \/ ChannelsLeave

---------------------------------------------------------------------------
(* The loop: process_timers and process_deferred_events. *)

(* An expired connect timer is dropped and fails the connection attempt    *)
(* unless the channel is open by now.                                      *)
ProcessTimers ==
  /\ pc = "timers"
  /\ \/ ~late /\ pc' = "dispatch" /\ UNCHANGED <<timerVars, ret>>
     \/ /\ late /\ timer' = "off" /\ late' = FALSE
        /\ IF state = "OPENED"
             THEN pc' = "dispatch" /\ UNCHANGED ret
             ELSE pc' = "cleanState" /\ ret' = "dispatch"
  /\ UNCHANGED <<chanVars, sockVars, transVars, eventVars, cur, reg, appVars,
                 monitors>>

(* The handlers have returned; next turn of the loop. *)
FrameEnds ==
  /\ LoopStep("dispatch", "poll")
  /\ OnIoThread => call = "none"
  /\ UNCHANGED <<chanVars, sockVars, timerVars, transVars, eventVars, cur, reg,
                 ret, appVars, monitors>>

Loop == Poll \/ ProcessTransports \/ ProcessChannels \/ ProcessTimers \/ FrameEnds

---------------------------------------------------------------------------
(* The network and the clock. *)

EnvUnchanged ==
  UNCHANGED <<chanVars, ready, late, transVars, eventVars, loopVars, appVars,
              monitors>>

(* A connection under way is established or refused; an established one    *)
(* may be ended by the peer.                                               *)
Network ==
  /\ \/ net = "connecting" /\ net' \in {"up", "refused"}
     \/ net = "up" /\ net' = "eof"
  /\ UNCHANGED timer /\ EnvUnchanged

Tick ==
  /\ timer = "armed" /\ timer' = "expired"
  /\ UNCHANGED net /\ EnvUnchanged

Next == Calls \/ CallSteps \/ Deliver \/ Loop \/ Network \/ Tick

(* The loop's thread runs, a call that began returns, time passes.  The    *)
(* network owes nothing.                                                   *)
Fairness == WF_vars(Loop) /\ WF_vars(CallSteps) /\ WF_vars(Tick)

Spec == Init /\ [][Next]_vars
FairSpec == Spec /\ Fairness

---------------------------------------------------------------------------
(* Properties. *)

Fired(k, c) == \E i \in DOMAIN log : log[i] = [kind |-> k, conn |-> c]

(* Each connection the application learned of is in transports_ until its  *)
(* ON_CLOSE is fired, and then never again: no connection is forgotten and *)
(* none is closed twice, whatever the calls do to the shared socket.       *)
EventProtocol ==
  /\ \A c \in Conns :
       Fired("open", c) =>
         \/ c \in transports /\ ~Fired("close", c)
         \/ c = cur /\ pc \in TransportPcs
         \/ c \notin transports /\ Fired("close", c)
  /\ \A i, j \in DOMAIN log : log[i].kind # "fail" /\ log[i] = log[j] => i = j

(* The loop forgets no attempt: while the channel is resolving or          *)
(* connecting it is in channel_ops_, so that every pass looks at it.       *)
AttemptQueued == state \in {"RESOLVING", "CONNECTING"} => queued

(* A request made by open() that has returned is in channel_ops_, so the   *)
(* loop will find it: the push and the erase cannot cross.                 *)
RequestQueued ==
  OPEN \in opmask /\ call \notin {"openSet", "openPush"} => queued

(* A client channel has one transport at a time. *)
OneTransport == \A c, d \in transports : c = d

(* Between two turns of the loop the connect timer runs exactly while a    *)
(* connection is under way: an attempt cannot wait for ever, and an old    *)
(* timer cannot fail a later attempt.                                      *)
TimerGuards == pc = "poll" => (timer # "off" <=> state = "CONNECTING")

(* One open() is answered by one ON_OPEN. *)
OneAnswer == answers <= 1

(* ON_OPEN with status 0 means that the handshake is complete. *)
OpenMeansConnected == state = "OPENED" => net # "connecting"

(* An accepted open() is answered by ON_OPEN, unless close() takes it back *)
(* before the loop has taken it up.                                        *)
OpenAnswered == pending ~> ~pending

(* A channel never stays between closed and open, however the network      *)
(* behaves.                                                                *)
AttemptEnds == state = "CONNECTING" ~> state # "CONNECTING"
====
