---- MODULE ServiceLifecycle ----
(***************************************************************************)
(* Starting, stopping, restarting and destroying an io_service, with one   *)
(* TCP client channel on it.  The owner's thread calls start, stop, open   *)
(* and the destructor; the worker runs the loop, whose handlers may call   *)
(* open and stop.  state_ and stop_flag_ are shared without a lock, so     *)
(* each test and each assignment of do_stop and start is a step.  The      *)
(* channel is coarse here, one step per phase of the loop: ClientChannel   *)
(* has its own races.                                                      *)
(***************************************************************************)
EXTENDS Integers

CONSTANTS MaxStarts,      \* bound: start() calls that create a worker
          HandlerStops,   \* handlers call stop() on the worker's thread
          WorkerFails     \* the worker may end without stop(): poll_io fails
                          \* with EBADF, or the thread is terminated

ASSUME LifecycleAssumption ==
  /\ MaxStarts \in Nat
  /\ HandlerStops \in BOOLEAN /\ WorkerFails \in BOOLEAN

OPEN == "OPEN"
CLOSE == "CLOSE"

VARIABLES
  state,        \* io_service::state_
  flag,         \* stop_flag_: 0, YSTF_STOP or YSTF_FINALIZE
  joinable,     \* worker_.joinable()
  idSet,        \* worker_id_ is the worker's
  worker,       \* where the worker's thread is
  owner,        \* where the owner's thread is
  finalizing,   \* the call in progress is the destructor's do_stop
  starts,       \* start() calls that created a worker
  chan,         \* io_channel::state_
  mask,         \* io_channel::opmask_
  queued,       \* the channel is in channel_ops_
  sock,         \* the channel's socket is open
  timer,        \* the connect timer: off, armed or expired
  transport,    \* transports_ holds the channel's transport
  terminated    \* std::terminate was called

svcVars == <<state, flag, joinable, idSet>>
chanVars == <<chan, mask, queued, sock, timer, transport>>
vars == <<svcVars, worker, owner, finalizing, starts, chanVars, terminated>>

LoopPcs == {"poll", "transports", "channels", "timers", "dispatch", "check"}

TypeOK ==
  /\ state \in {"UNINITIALIZED", "IDLE", "RUNNING", "AT_EXITING"}
  /\ flag \in {"none", "stop", "finalize"}
  /\ joinable \in BOOLEAN /\ idSet \in BOOLEAN /\ finalizing \in BOOLEAN
  /\ worker \in LoopPcs \union {"none", "exited"}
  /\ owner \in {"free", "startThread", "startAssign", "startId", "stopTest", "stopSet",
                "stopClose", "handle", "join", "finish", "finalize", "gone"}
  /\ starts \in 0 .. MaxStarts
  /\ chan \in {"CLOSED", "CONNECTING", "OPENED"}
  /\ mask \in SUBSET {OPEN, CLOSE}
  /\ queued \in BOOLEAN /\ sock \in BOOLEAN /\ transport \in BOOLEAN
  /\ timer \in {"off", "armed", "expired"}
  /\ terminated \in BOOLEAN

Init ==
  /\ state = "IDLE" /\ flag = "none" /\ joinable = FALSE /\ idSet = FALSE
  /\ worker = "none" /\ owner = "free" /\ finalizing = FALSE
  /\ starts = 0
  /\ chan = "CLOSED" /\ mask = {} /\ queued = FALSE /\ sock = FALSE
  /\ timer = "off" /\ transport = FALSE
  /\ terminated = FALSE

---------------------------------------------------------------------------
(* open() and close(), on whichever thread. *)

(* Refused while connecting; otherwise the request is queued, also when    *)
(* the service is stopping.                                                *)
OpenRequest ==
  /\ IF chan = "CONNECTING"
       THEN UNCHANGED <<mask, queued>>
       ELSE mask' = (mask \ {CLOSE}) \union {OPEN} /\ queued' = TRUE
  /\ UNCHANGED <<chan, sock, timer, transport>>

WrongBitClose ==
  /\ mask' = IF CLOSE \in mask THEN mask
             ELSE IF sock THEN (mask \ {OPEN}) \union {flag} ELSE mask \ {OPEN}
  /\ UNCHANGED <<chan, queued, sock, timer, transport>>

CloseRequest ==
  /\ mask' = IF CLOSE \in mask THEN mask
             ELSE IF sock THEN (mask \ {OPEN}) \union {CLOSE} ELSE mask \ {OPEN}
  /\ UNCHANGED <<chan, queued, sock, timer, transport>>

---------------------------------------------------------------------------
(* The owner's thread. *)

OwnerCall(from, to) ==
  /\ owner = from /\ owner' = to /\ ~terminated

(* Also from a handler, while handle_stop dispatches what is left.         *)
OpenByOwner ==
  /\ OwnerCall("free", "free") \/ (OwnerCall("finish", "finish") /\ state = "AT_EXITING")
  /\ OpenRequest
  /\ UNCHANGED <<svcVars, worker, finalizing, starts, terminated>>

(* start(): only an idle service starts; the thread runs before worker_    *)
(* and worker_id_ are assigned.                                            *)
Start ==
  /\ OwnerCall("free", "startThread") /\ state = "IDLE" /\ starts < MaxStarts
  /\ state' = "RUNNING" /\ starts' = starts + 1
  /\ UNCHANGED <<flag, joinable, idSet, worker, finalizing, chanVars,
                 terminated>>

StartThread ==
  /\ OwnerCall("startThread", "startAssign") /\ worker' = "poll"
  /\ UNCHANGED <<svcVars, finalizing, starts, chanVars, terminated>>

StartAssign ==
  /\ OwnerCall("startAssign", "startId") /\ joinable' = TRUE
  /\ UNCHANGED <<state, flag, idSet, worker, finalizing, starts, chanVars,
                 terminated>>

StartId ==
  /\ OwnerCall("startId", "free") /\ idSet' = TRUE
  /\ UNCHANGED <<state, flag, joinable, worker, finalizing, starts, chanVars,
                 terminated>>

(* stop(), or the destructor's do_stop(YSTF_FINALIZE). *)
Stop ==
  /\ OwnerCall("free", "stopTest")
  /\ finalizing' \in BOOLEAN
  /\ UNCHANGED <<svcVars, worker, starts, chanVars, terminated>>

(* Where do_stop returns to. *)
Returned == IF finalizing THEN "finalize" ELSE "free"

(* do_stop: nothing to do for an idle service; a stop that another call    *)
(* has begun goes straight to handle_stop.                                 *)
DoStopTest ==
  /\ OwnerCall("stopTest", IF state = "IDLE" THEN Returned
                           ELSE IF flag = "none" THEN "stopSet" ELSE "handle")
  /\ UNCHANGED <<svcVars, worker, finalizing, starts, chanVars, terminated>>

DoStopSet ==
  /\ OwnerCall("stopSet", "stopClose")
  /\ flag' = IF finalizing THEN "finalize" ELSE "stop"
  /\ UNCHANGED <<state, joinable, idSet, worker, finalizing, starts, chanVars,
                 terminated>>

(* Only a running service is closed and joined. *)
DoStopClose ==
  /\ OwnerCall("stopClose", IF state = "RUNNING" THEN "handle" ELSE Returned)
  /\ IF state = "RUNNING" THEN CloseRequest ELSE UNCHANGED chanVars
  /\ UNCHANGED <<svcVars, worker, finalizing, starts, terminated>>

HandleStop ==
  /\ OwnerCall("handle", IF joinable THEN "join" ELSE "finish")
  /\ UNCHANGED <<svcVars, worker, finalizing, starts, chanVars, terminated>>

JoinOnly ==
  /\ OwnerCall("join", "finish") /\ worker = "exited"
  /\ joinable' = FALSE
  /\ UNCHANGED <<state, flag, idSet, worker, finalizing, starts, chanVars,
                 terminated>>

(* worker_.join(); a worker that did not leave through handle_worker_exit  *)
(* has that done for it.                                                   *)
Join ==
  /\ OwnerCall("join", "finish") /\ worker = "exited"
  /\ joinable' = FALSE /\ state' = "AT_EXITING"
  /\ UNCHANGED <<flag, idSet, worker, finalizing, starts, chanVars, terminated>>

TimersSurvive ==
  /\ OwnerCall("finish", Returned)
  /\ IF state = "AT_EXITING"
       THEN /\ state' = "IDLE" /\ flag' = "none" /\ idSet' = FALSE
            /\ transport' = FALSE
            /\ sock' = (sock /\ ~transport)
            /\ UNCHANGED <<joinable, chan, mask, queued, timer>>
       ELSE UNCHANGED <<svcVars, chanVars>>
  /\ UNCHANGED <<worker, finalizing, starts, terminated>>

(* The rest of handle_stop: transports and timers are thrown away, the     *)
(* channel itself is left as it is.                                        *)
FinishStop ==
  /\ OwnerCall("finish", Returned)
  /\ IF state = "AT_EXITING"
       THEN /\ state' = "IDLE" /\ flag' = "none" /\ idSet' = FALSE
            /\ transport' = FALSE /\ timer' = "off"
            /\ sock' = (sock /\ ~transport)
            /\ UNCHANGED <<joinable, chan, mask, queued>>
       ELSE UNCHANGED <<svcVars, chanVars>>
  /\ UNCHANGED <<worker, finalizing, starts, terminated>>

(* finalize, for an idle service only; then the members are destroyed, and *)
(* a thread that is still joinable ends the program.                       *)
Finalize ==
  /\ OwnerCall("finalize", "gone")
  /\ IF state = "IDLE"
       THEN /\ state' = "UNINITIALIZED"
            /\ chan' = "CLOSED" /\ mask' = {} /\ queued' = FALSE /\ sock' = FALSE
            /\ timer' = "off" /\ UNCHANGED <<flag, joinable, idSet, transport>>
       ELSE UNCHANGED <<svcVars, chanVars>>
  /\ terminated' = joinable
  /\ UNCHANGED <<worker, finalizing, starts>>

OwnerSteps ==
  \/ StartThread \/ StartAssign \/ StartId
  \/ DoStopTest \/ DoStopSet \/ DoStopClose \/ HandleStop \/ Join \/ FinishStop
  \/ Finalize

---------------------------------------------------------------------------
(* The worker's thread. *)

WorkerStep(from, to) == worker = from /\ worker' = to /\ ~terminated

PollIo ==
  /\ WorkerStep("poll", "transports")
  /\ UNCHANGED <<svcVars, owner, finalizing, starts, chanVars, terminated>>

(* poll_io failed with EBADF: the loop is left. *)
PollFails ==
  /\ WorkerFails /\ WorkerStep("poll", "exited")
  /\ state' = "AT_EXITING"
  /\ UNCHANGED <<flag, joinable, idSet, owner, finalizing, starts, chanVars,
                 terminated>>

(* The thread is terminated from outside, state_ stays RUNNING. *)
WorkerKilled ==
  /\ WorkerFails /\ worker \in LoopPcs /\ worker' = "exited" /\ ~terminated
  /\ UNCHANGED <<svcVars, owner, finalizing, starts, chanVars, terminated>>

(* process_transports: the transport goes when its peer does, when the     *)
(* channel has a request, or when the service is stopping.                 *)
TransportKept ==
  /\ WorkerStep("transports", "channels")
  /\ transport => mask = {} /\ flag = "none"
  /\ UNCHANGED <<svcVars, owner, finalizing, starts, chanVars, terminated>>

TransportClosed ==
  /\ WorkerStep("transports", "channels") /\ transport
  /\ transport' = FALSE /\ sock' = FALSE /\ chan' = "CLOSED"
  /\ mask' = mask \ {CLOSE}
  /\ UNCHANGED <<queued, timer, svcVars, owner, finalizing, starts, terminated>>

(* process_channels: a requested open is taken up and connects now, later  *)
(* or never; a connection under way completes, or is waited for.           *)
ConnectNow == chan' = "OPENED" /\ sock' = TRUE /\ transport' = TRUE
ConnectNever == chan' = "CLOSED" /\ sock' = FALSE /\ mask' = {} /\ UNCHANGED transport

TakeOpen ==
  /\ WorkerStep("channels", "timers") /\ queued /\ OPEN \in mask
  /\ \/ /\ ConnectNow /\ queued' = FALSE /\ UNCHANGED timer
        /\ mask' = IF sock THEN {} ELSE mask \ {OPEN}
     \/ /\ chan' = "CONNECTING" /\ sock' = TRUE /\ queued' = TRUE /\ timer' = "armed"
        /\ mask' = IF sock THEN {} ELSE mask \ {OPEN}
        /\ UNCHANGED transport
     \/ ConnectNever /\ queued' = FALSE /\ UNCHANGED timer
  /\ UNCHANGED <<svcVars, owner, finalizing, starts, terminated>>

Completion ==
  /\ WorkerStep("channels", "timers") /\ queued /\ OPEN \notin mask
  /\ chan = "CONNECTING"
  /\ \/ ConnectNow /\ timer' = "off" /\ queued' = FALSE /\ UNCHANGED mask
     \/ ConnectNever /\ timer' = "off" /\ queued' = FALSE
     \/ UNCHANGED chanVars
  /\ UNCHANGED <<svcVars, owner, finalizing, starts, terminated>>

NoChannelWork ==
  /\ WorkerStep("channels", "timers")
  /\ queued => OPEN \notin mask /\ chan # "CONNECTING"
  /\ queued' = FALSE
  /\ UNCHANGED <<chan, mask, sock, timer, transport, svcVars, owner, finalizing,
                 starts, terminated>>

(* process_timers: an expired connect timer fails the attempt. *)
ProcessTimers ==
  /\ WorkerStep("timers", "dispatch")
  /\ timer' = IF timer = "expired" THEN "off" ELSE timer
  /\ IF timer = "expired" /\ chan # "OPENED"
       THEN ConnectNever /\ UNCHANGED queued
       ELSE UNCHANGED <<chan, mask, queued, sock, transport>>
  /\ UNCHANGED <<svcVars, owner, finalizing, starts, terminated>>

(* Handlers run; one may open the channel, ... *)
OpenByHandler ==
  /\ worker = "dispatch" /\ ~terminated /\ OpenRequest
  /\ UNCHANGED <<svcVars, worker, owner, finalizing, starts, terminated>>

(* ... or stop the service: do_stop on the worker's thread cannot join.    *)
(* Under the destructor that ends the program, as does a join before       *)
(* start() has recorded worker_id_.                                        *)
StopByHandler ==
  /\ HandlerStops /\ worker = "dispatch" /\ ~terminated
  /\ IF flag = "none"
       THEN flag' = "stop" /\ CloseRequest
       ELSE UNCHANGED <<flag, chanVars>>
  /\ terminated' = (joinable /\ (~idSet \/ flag = "finalize"))
  /\ UNCHANGED <<state, joinable, idSet, worker, owner, finalizing, starts>>

HandlersReturn ==
  /\ WorkerStep("dispatch", "check")
  /\ UNCHANGED <<svcVars, owner, finalizing, starts, chanVars, terminated>>

AgainWhileConnecting ==
  /\ WorkerStep("check", "poll")
  /\ flag = "none" \/ transport \/ chan = "CONNECTING" \/ queued
  /\ UNCHANGED <<svcVars, owner, finalizing, starts, chanVars, terminated>>

(* The loop goes on until the service is stopping and has no transports. *)
LoopAgain ==
  /\ WorkerStep("check", "poll") /\ (flag = "none" \/ transport)
  /\ UNCHANGED <<svcVars, owner, finalizing, starts, chanVars, terminated>>

LoopEnds ==
  /\ WorkerStep("check", "exited") /\ flag # "none" /\ ~transport
  /\ state' = "AT_EXITING"
  /\ UNCHANGED <<flag, joinable, idSet, owner, finalizing, starts, chanVars,
                 terminated>>

WorkerSteps ==
  \/ PollIo \/ TransportKept \/ TransportClosed
  \/ TakeOpen \/ Completion \/ NoChannelWork \/ ProcessTimers \/ HandlersReturn
  \/ LoopAgain \/ LoopEnds

(* Time passes. *)
Tick ==
  /\ timer = "armed" /\ timer' = "expired"
  /\ UNCHANGED <<svcVars, worker, owner, finalizing, starts, chan, mask, queued,
                 sock, transport, terminated>>

Next ==
  \/ OpenByOwner \/ Start \/ Stop \/ OwnerSteps
  \/ WorkerSteps \/ PollFails \/ WorkerKilled \/ OpenByHandler \/ StopByHandler
  \/ Tick

(* Both threads run and time passes.  Nobody owes a call. *)
Fairness == WF_vars(OwnerSteps) /\ WF_vars(WorkerSteps) /\ WF_vars(Tick)

Spec == Init /\ [][Next]_vars
FairSpec == Spec /\ Fairness

---------------------------------------------------------------------------
(* Properties. *)

(* An idle service is quiet: no thread, no transport, no timer and no      *)
(* pending stop, so that start() can create a worker.                      *)
IdleIsQuiet ==
  state = "IDLE" =>
    /\ worker \in {"none", "exited"} /\ ~joinable
    /\ ~transport /\ timer = "off" /\ flag = "none"

(* A stop() that got as far as handle_stop, as every second one does,      *)
(* leaves the service idle, also after the worker ended by itself.         *)
JoinMakesIdle == [][owner = "finish" /\ owner' # "finish" => state' = "IDLE"]_vars

(* A stop() call returns, once the handlers no longer reopen the channel:  *)
(* the worker's loop waits for the transports alone, never for an attempt  *)
(* or for a queued request.  The premise is needed.  Neither open_internal *)
(* nor process_channels tests stop_flag_, so a handler that answers every  *)
(* ON_CLOSE with an open() that connects at once keeps the worker running  *)
(* and the stop() waiting.                                                 *)
StopEnds ==
  <>[][~OpenByHandler]_vars
    => (owner = "stopTest" ~> owner \in {"free", "gone"} \/ terminated)
====
