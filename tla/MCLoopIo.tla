---- MODULE MCLoopIo ----
(***************************************************************************)
(* What one turn of the loop is made of, for TLC: the watcher and its      *)
(* interrupter, the timers, and the three ways a transport reads (a        *)
(* stream cut into packets, a TLS session, KCP).  The parts share no       *)
(* state here; a behaviour is one of them at work, the others stand still  *)
(* in one of their initial states.                                         *)
(***************************************************************************)
EXTENDS Unpacker, TimerQueue, SslStream, Kcp, IoWatcher

VARIABLE focus

all == <<focus, uvars, tvars, tlsvars, kvars, wvars>>

MCInit ==
  /\ focus \in {"unpack", "timers", "ssl", "kcp", "watcher"}
  /\ focus # "unpack" => frames = [k \in 1 .. NFrames |-> Max(Sizes)]
  /\ focus # "timers" => dur = [t \in Timers |-> Max(Durations)]
  /\ focus # "ssl" => library = "openssl" /\ inbound = Hellos
  /\ focus # "kcp" => clock = 0
  /\ focus # "watcher" => backend = "epoll"
  /\ UnpackInit /\ TimerInit /\ SslInit /\ KcpInit /\ WatcherInit

ButUnpack == UNCHANGED <<focus, tvars, tlsvars, kvars, wvars>>
ButTimers == UNCHANGED <<focus, uvars, tlsvars, kvars, wvars>>
ButSsl == UNCHANGED <<focus, uvars, tvars, kvars, wvars>>
ButKcp == UNCHANGED <<focus, uvars, tvars, tlsvars, wvars>>
ButWatcher == UNCHANGED <<focus, uvars, tvars, tlsvars, kvars>>

MCNext ==
  \/ focus = "unpack" /\ UnpackNext /\ ButUnpack
  \/ focus = "timers" /\ TimerNext /\ ButTimers
  \/ focus = "ssl" /\ SslNext /\ ButSsl
  \/ focus = "kcp" /\ KcpNext /\ ButKcp
  \/ focus = "watcher" /\ WatcherNext /\ ButWatcher

MCLoop ==
  \/ focus = "unpack" /\ UnpackLoop /\ ButUnpack
  \/ focus = "timers" /\ TimerLoop /\ ButTimers
  \/ focus = "ssl" /\ SslLoop /\ ButSsl
  \/ focus = "kcp" /\ KcpTurn /\ ButKcp
  \/ focus = "watcher" /\ WatcherLoop /\ ButWatcher

(* The fairness of each part's own specification; focus never changes, so  *)
(* one condition serves the loops of all.                                  *)
MCFairness ==
  /\ WF_all(MCLoop)
  /\ WF_all(focus = "timers" /\ AppSteps /\ ButTimers)
  /\ WF_all(focus = "timers" /\ Tick /\ ButTimers)
  /\ SF_all(focus = "watcher" /\ PollReturns /\ ButWatcher)

MCSpec == MCInit /\ [][MCNext]_all /\ MCFairness

(* A session on top of a socket keeps its own accounts: what TLS has taken *)
(* off the socket is delivered or still held, the loop does not sleep on   *)
(* it, and KCP is updated in the turn that asks for it, but for the half   *)
(* of its clock in which it cannot be.                                     *)
SessionSafe == SslSafe /\ UpdatedInTurn

(* What arrives is delivered unless the connection ends first, what is     *)
(* asked for happens: frames behind well-formed ones, TLS data and KCP     *)
(* messages that have come, timers that are due, what KCP has to send when *)
(* its clock lets it, and every wakeup.                                    *)
LoopLive ==
  /\ AllDelivered /\ TimersFire /\ TlsDrained
  /\ KcpGiven /\ KcpFlushed /\ WakeupHeard
====
