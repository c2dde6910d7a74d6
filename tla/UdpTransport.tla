---------------------------- MODULE UdpTransport ----------------------------
(***************************************************************************)
(* The transport of a UDP client: io_transport_udp with the options that   *)
(* connect and disconnect it while it is open, and the multicast options   *)
(* of its channel.                                                         *)
(*                                                                         *)
(* Options and writes come from threads of the application, one option at  *)
(* a time; the worker sends, receives and opens the socket. connect and    *)
(* disconnect change the kernel's association, connected_ and the two      *)
(* callbacks one after the other, and the worker may run between any two.  *)
(***************************************************************************)
EXTENDS Integers, Sequences, FiniteSets

CONSTANTS
  Remotes,     \* endpoints
  Remote,      \* remote_eps_[0]
  Groups,      \* multicast groups
  UdpQueueMax, \* bound: datagrams queued
  UdpCallMax   \* bound: options set

NoPeer == "unspec"

ASSUME UdpAssumption ==
  /\ Remote \in Remotes /\ Remotes \cap {NoPeer, "error", "assert"} = {}
  /\ UdpQueueMax \in Nat /\ UdpCallMax \in Nat

VARIABLES
  udp,     \* peer_, destination_, connected_ and which callbacks are set
  ksock,   \* the peer the kernel has for the socket
  uq,      \* send_queue_
  call,    \* the option being set and how far it is
  went,    \* what became of the last datagram performed
  home,    \* the peer at the first write of the unconnected transport
  mc,      \* YCPF_MCAST, multiaddr_, the socket and its groups; raced: see McastKept
  ucalls

udpvars == <<udp, ksock, uq, call, went, home, mc, ucalls>>

Idle == [what |-> "none", at |-> 0, ok |-> FALSE]
NotYet == [to |-> NoPeer, may |-> {NoPeer}, cut |-> FALSE]

(***************************************************************************)
(* Connecting.                                                             *)
(***************************************************************************)
Callbacks(connected) == IF connected THEN "send" ELSE "sendto"

(* confgure_remote, at the end of opening: a multicast client stays        *)
(* unconnected, to hear the members of its group.                          *)
ConfigureRemote ==
  /\ udp.peer = NoPeer
  /\ \E ok \in IF mc.bit THEN {FALSE} ELSE BOOLEAN :
       /\ udp' = [udp EXCEPT !.peer = Remote, !.connected = ok, !.cb = Callbacks(ok)]
       /\ ksock' = IF ok THEN Remote ELSE NoPeer
  /\ UNCHANGED <<uq, call, went, home, mc, ucalls>>

Option == /\ ucalls < UdpCallMax /\ call = Idle /\ udp.peer # NoPeer
          /\ ucalls' = ucalls + 1

(* connect goes to the peer heard last, not to the one of the channel. A   *)
(* queued datagram may now go to that peer.                                *)
UdpConnect ==
  /\ Option /\ ~udp.connected
  /\ \E ok \in BOOLEAN :
       /\ ksock' = IF ok THEN udp.peer ELSE ksock
       /\ call' = [what |-> "connect", at |-> 1, ok |-> ok]
  /\ uq' = [i \in DOMAIN uq |-> [uq[i] EXCEPT !.may = @ \cup {ksock'}]]
  /\ UNCHANGED <<udp, went, home, mc>>

UdpDisconnect ==
  /\ Option
  /\ ksock' \in {NoPeer, ksock}
  /\ call' = [what |-> "disconnect", at |-> 1, ok |-> FALSE]
  /\ uq' = [i \in DOMAIN uq |-> [uq[i] EXCEPT !.cut = TRUE]]
  /\ UNCHANGED <<udp, went, home, mc>>

SetConnected ==
  /\ call.at = 1
  /\ udp' = [udp EXCEPT !.connected = call.ok]
  /\ call' = [call EXCEPT !.at = 2]
  /\ UNCHANGED <<ksock, uq, went, home, mc, ucalls>>

SetPrimitives ==
  /\ call.at = 2
  /\ udp' = [udp EXCEPT !.cb = Callbacks(udp.connected)]
  /\ call' = Idle
  /\ UNCHANGED <<ksock, uq, went, home, mc, ucalls>>

(***************************************************************************)
(* Sending.  may: where the datagram is allowed to go; cut: written while  *)
(* the transport was being connected or disconnected, or overtaken by a    *)
(* disconnect.  write_to is meant for unconnected transports; on a         *)
(* connected one its destination is not used.                              *)
(***************************************************************************)
UdpOp(to, want) ==
  [to |-> to, may |-> {want} \cup (IF call = Idle /\ ~udp.connected THEN {} ELSE {ksock}),
   cut |-> call.at \in {1, 2}]

(* The first peer is the destination for good, whoever is heard later.     *)
EnsureDestination == IF udp.dest # NoPeer THEN udp.dest ELSE udp.peer

UdpWrite ==
  /\ udp.peer # NoPeer /\ Len(uq) < UdpQueueMax
  /\ IF udp.connected
     THEN /\ uq' = Append(uq, UdpOp(NoPeer, ksock))
          /\ UNCHANGED <<udp, home>>
     ELSE /\ home' = IF home = NoPeer THEN udp.peer ELSE home
          /\ udp' = [udp EXCEPT !.dest = EnsureDestination]
          /\ uq' = Append(uq, UdpOp(EnsureDestination, home'))
  /\ UNCHANGED <<ksock, call, went, mc, ucalls>>

UdpWriteTo ==
  \E to \in Remotes :
    /\ udp.peer # NoPeer /\ Len(uq) < UdpQueueMax
    /\ uq' = Append(uq, UdpOp(to, to))
    /\ UNCHANGED <<udp, ksock, call, went, home, mc, ucalls>>

(* What write_cb_ does with an operation: send ignores its destination and *)
(* needs the kernel's; sendto asserts one. Any error drops a datagram.     *)
Performed(op) ==
  IF udp.cb = "send" THEN (IF ksock = NoPeer THEN "error" ELSE ksock)
  ELSE IF op.to = NoPeer THEN "assert" ELSE op.to

UdpPerform ==
  /\ uq # <<>> /\ went.to # "assert"
  /\ \E to \in {Performed(Head(uq)), "error"} : went' = [Head(uq) EXCEPT !.to = to]
  /\ uq' = Tail(uq)
  /\ UNCHANGED <<udp, ksock, call, home, mc, ucalls>>

(* read_cb_: recvfrom makes the sender the peer.                           *)
UdpReceive ==
  /\ udp.peer # NoPeer /\ udp.cb = "sendto"
  /\ \E from \in (IF ksock = NoPeer THEN Remotes ELSE {ksock}) : udp' = [udp EXCEPT !.peer = from]
  /\ UNCHANGED <<ksock, uq, call, went, home, mc, ucalls>>

(***************************************************************************)
(* Multicast.  The worker opens the socket, tests the flag, joins; an      *)
(* option changes the flag and then looks for an open socket.              *)
(***************************************************************************)
McastStep == UNCHANGED <<udp, ksock, uq, went, home>>

JoinGroup(m) == IF m.open THEN [m EXCEPT !.joined = @ \cup {m.addr}] ELSE m

OpenSocket ==
  /\ ~mc.open /\ udp.peer = NoPeer
  /\ mc' = [mc EXCEPT !.open = TRUE, !.turn = "test"]
  /\ UNCHANGED <<call, ucalls>> /\ McastStep

TestMcast ==
  /\ mc.turn = "test"
  /\ mc' = [mc EXCEPT !.turn = IF mc.bit THEN "join" ELSE "done"]
  /\ UNCHANGED <<call, ucalls>> /\ McastStep

JoinOnOpen ==
  /\ mc.turn = "join"
  /\ mc' = [JoinGroup(mc) EXCEPT !.turn = "done"]
  /\ UNCHANGED <<call, ucalls>> /\ McastStep

McastOption(what) ==
  /\ ucalls < UdpCallMax /\ ucalls' = ucalls + 1 /\ call = Idle
  /\ call' = [what |-> what, at |-> 3, ok |-> FALSE]
  /\ McastStep

(* enable_multicast sets the flag, then the address.                       *)
EnableMcast ==
  /\ McastOption("enable")
  /\ mc' = [mc EXCEPT !.bit = TRUE]

EnableAddress ==
  /\ call.what = "enable" /\ call.at = 3
  /\ \E a \in Groups :
       mc' = [mc EXCEPT !.addr = a, !.raced = @ \/ (mc.addr \in mc.joined /\ a # mc.addr)
                                                \/ (mc.turn = "join" /\ a # mc.addr)]
  /\ call' = [call EXCEPT !.at = 4]
  /\ UNCHANGED ucalls /\ McastStep

JoinNow ==
  /\ call.what = "enable" /\ call.at = 4
  /\ mc' = JoinGroup(mc) /\ call' = Idle
  /\ UNCHANGED ucalls /\ McastStep

DisableMcast ==
  /\ McastOption("disable")
  /\ mc' = [mc EXCEPT !.bit = FALSE]

LeaveNow ==
  /\ call.what = "disable" /\ call.at = 3
  /\ mc' = [mc EXCEPT !.joined = IF mc.open THEN @ \ {mc.addr} ELSE @, !.raced = @ \/ mc.turn = "join"]
  /\ call' = Idle
  /\ UNCHANGED ucalls /\ McastStep

UdpInit ==
  /\ udp = [peer |-> NoPeer, dest |-> NoPeer, connected |-> FALSE, cb |-> "sendto"]
  /\ ksock = NoPeer /\ uq = <<>> /\ call = Idle /\ went = NotYet /\ home = NoPeer
  /\ \E a \in Groups \cup {NoPeer} :   \* multicast enabled before, or not
       mc = [bit |-> a # NoPeer, addr |-> a, open |-> FALSE, turn |-> "closed", joined |-> {}, raced |-> FALSE]
  /\ ucalls = 0

UdpNext ==
  \/ OpenSocket \/ TestMcast \/ JoinOnOpen
  \/ mc.turn = "done" /\ ConfigureRemote
  \/ UdpConnect \/ UdpDisconnect \/ SetConnected \/ SetPrimitives
  \/ UdpWrite \/ UdpWriteTo \/ UdpPerform \/ UdpReceive
  \/ EnableMcast \/ EnableAddress \/ JoinNow \/ DisableMcast \/ LeaveNow

-----------------------------------------------------------------------------
(* A datagram goes where its write said, or to a peer the transport was    *)
(* connected to then or since, or its handler is told of an error: no stranger's   *)
(* datagram redirects it. The assertion that a destination is given can    *)
(* only fail for a datagram that a disconnect has overtaken, or that was   *)
(* written while the transport was being connected or disconnected.        *)
UdpRouted ==
  /\ went.to \notin {"error", "assert"} => went.to \in went.may
  /\ went.to = "assert" => went.cut

(* Between two options the callbacks, connected_ and the kernel agree: the *)
(* transport is never left sending to a peer the socket does not have.     *)
UdpAgrees ==
  call.at \notin {1, 2} =>
    /\ udp.cb = Callbacks(udp.connected)
    /\ udp.connected => ksock # NoPeer

(* Once the worker and the option are through, a channel with multicast    *)
(* enabled is in its group, in whichever order the two looked; with        *)
(* multicast disabled it is in none, unless the option fell between the    *)
(* worker's test and its joining, or the group was changed while joined.   *)
McastKept ==
  (call = Idle /\ mc.turn = "done") =>
    /\ mc.bit => mc.addr \in mc.joined
    /\ ~mc.bit => mc.joined = {} \/ mc.raced

UdpSafe == UdpRouted /\ UdpAgrees /\ McastKept
=============================================================================
