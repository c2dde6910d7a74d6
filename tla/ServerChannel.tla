--------------------------- MODULE ServerChannel ---------------------------
(***************************************************************************)
(* Listening channels and the transports they accept: do_accept,           *)
(* do_accept_completion, the routing of datagrams through transport_map_,  *)
(* the TLS handshake that runs inside do_read, and handle_close; and the   *)
(* client channels whose transports handle_close treats alike.             *)
(*                                                                         *)
(* The worker alternates process_transports and process_channels; the      *)
(* application calls open and close from its own thread at any point,      *)
(* between the worker's read of opmask_ and the cleanup that clears it     *)
(* included.                                                               *)
(***************************************************************************)
EXTENDS Integers, Sequences, FiniteSets

CONSTANTS
  Servers,    \* the channels
  Peers,      \* remote endpoints
  Routes,     \* which peer talks to which channel
  Kinds,      \* functions that give each channel its kind
  KRoute,     \* YASIO__UDP_KROUTE: the kernel routes to connected sockets
  Rekind,     \* open may give a channel another kind while it has transports
  Loose,      \* a datagram socket may be left unconnected: connect_n failed,
              \* or the client is a multicast one
  MaxConns,   \* bound: transports made
  MaxArrivals,\* bound: connections and datagrams that arrive
  MaxCalls    \* bound: calls of the application

Kind == {"tcp", "ssl", "udp", "kcp", "tcpclient", "sslclient", "udpclient", "kcpclient"}

ASSUME ServerAssumption ==
  /\ Routes \subseteq Servers \X Peers
  /\ Kinds \subseteq [Servers -> Kind]
  /\ {KRoute, Rekind, Loose} \subseteq BOOLEAN
  /\ MaxConns \in Nat /\ MaxCalls \in Nat /\ MaxArrivals \in Nat

VARIABLES
  kind,      \* properties_ of each channel
  srv,       \* state_, opmask_ and the type of the socket of each channel
  ops,       \* channel_ops_
  pushing,   \* opens that have set their bit and wait for the mutex
  pend,      \* what the kernel holds for each listening socket
  conns,     \* every transport made so far
  tmap,      \* transport_map_: pairs of a peer and a transport
  nsched,    \* nsched_, the transports that need scheduling
  got,       \* datagrams delivered in this turn: channel, peer, transport
  phase,     \* "poll", "transports" or "channels"
  left,      \* what the phase has still to visit
  seen,      \* the channel being visited, the opmask_ read and whether it
             \* was found a client, or none
  swake, sstop, scalls, arrivals

svars == <<kind, srv, ops, pushing, pend, conns, tmap, nsched, got, phase, left, seen,
           swake, sstop, scalls, arrivals>>

None == <<>>
(* The bits YCM_UDP, YCM_KCP, YCM_SSL and YCM_CLIENT of properties_. *)
Datagram(c) == kind[c] \in {"udp", "kcp", "udpclient", "kcpclient"}
Kcp(c) == kind[c] \in {"kcp", "kcpclient"}
Tls(c) == kind[c] \in {"ssl", "sslclient"}
IsClient(c) == kind[c] \in {"tcpclient", "sslclient", "udpclient", "kcpclient"}

Live == {i \in DOMAIN conns : conns[i].st # "FREED"}
ChannelState == [st : {"CLOSED", "OPENED"}, bits : SUBSET {"OPEN", "CLOSE"}, dgram : BOOLEAN]

(* peer is the endpoint a transport was made for, remote its peer_, from   *)
(* the senders of the datagrams that wait in its socket.                   *)
Connection == [c : Servers, peer : Peers, remote : Peers, connected : BOOLEAN, from : SUBSET Peers,
               st : {"CONNECTING", "OPENED", "FREED"}, close : BOOLEAN,
               ok : 0..2, bad : 0..2, lost : 0..2]

(***************************************************************************)
(* The application.                                                        *)
(***************************************************************************)
Call == /\ scalls < MaxCalls /\ scalls' = scalls + 1
        /\ UNCHANGED <<pend, tmap, nsched, got, phase, left, seen, arrivals>>

(* open(index, kind): the low byte of properties_ is the new kind.  Then   *)
(* open_internal sets the bit, pushes the channel under the mutex that     *)
(* process_channels holds, and wakes the loop.                             *)
Open(c) ==
  /\ Call /\ c \notin pushing
  /\ \E k \in (IF Rekind THEN Kind ELSE {kind[c]}) : kind' = [kind EXCEPT ![c] = k]
  /\ srv' = [srv EXCEPT ![c].bits = {"OPEN"}]
  /\ pushing' = pushing \cup {c}
  /\ UNCHANGED <<ops, conns, sstop, swake>>

Push(c) ==
  /\ c \in pushing /\ phase # "channels"
  /\ pushing' = pushing \ {c} /\ ops' = ops \cup {c} /\ swake' = TRUE
  /\ UNCHANGED <<kind, srv, pend, conns, tmap, nsched, got, phase, left, seen, sstop, scalls, arrivals>>

(* close(index): a request to open is withdrawn, an open socket marked.    *)
Marked(x) ==
  [x EXCEPT !.bits = IF "CLOSE" \in @ THEN @ ELSE IF x.st = "OPENED" THEN {"CLOSE"} ELSE {}]

CloseChannel(c) ==
  /\ Call /\ "CLOSE" \notin srv[c].bits
  /\ srv' = [srv EXCEPT ![c] = Marked(@)]
  /\ swake' = TRUE /\ UNCHANGED <<kind, ops, pushing, conns, sstop>>

CloseTransport(i) ==
  /\ Call /\ i \in Live /\ ~conns[i].close
  /\ conns' = [conns EXCEPT ![i].close = TRUE]
  /\ swake' = TRUE /\ UNCHANGED <<kind, srv, ops, pushing, sstop>>

(* do_stop sets stop_flag_ and closes every channel.                       *)
Stop ==
  /\ Call /\ ~sstop /\ sstop' = TRUE
  /\ srv' = [c \in Servers |-> Marked(srv[c])]
  /\ swake' = TRUE /\ UNCHANGED <<kind, ops, pushing, conns>>

(***************************************************************************)
(* The network.  A datagram goes to the socket connected to its sender,    *)
(* where the kernel routes or the socket is a client's; else to any socket *)
(* of the port that is not connected, the listening one among them.        *)
(***************************************************************************)
Takers(c, p) ==
  {i \in Live : /\ conns[i].c = c /\ conns[i].peer = p /\ conns[i].connected
                /\ Datagram(c) /\ (KRoute \/ IsClient(c))}
Strays(c) == {i \in Live : conns[i].c = c /\ ~conns[i].connected}

Arrives(c, p) ==
  /\ <<c, p>> \in Routes
  /\ arrivals < MaxArrivals /\ arrivals' = arrivals + 1
  /\ \/ \E i \in (IF Takers(c, p) = {} THEN Strays(c) ELSE Takers(c, p)) :
           conns' = [conns EXCEPT ![i].from = @ \cup {p}] /\ UNCHANGED pend
     \/ /\ Takers(c, p) = {} /\ ~IsClient(c) /\ srv[c].st = "OPENED"
        /\ pend' = [pend EXCEPT ![c] = Append(@, p)]
        /\ UNCHANGED conns
  /\ UNCHANGED <<kind, pushing, srv, ops, tmap, nsched, got, phase, left, seen, swake, sstop, scalls>>

(***************************************************************************)
(* Transports: made, read, closed.                                         *)
(***************************************************************************)
(* allocate_transport and active_transport; ON_OPEN waits for the          *)
(* handshake of a TLS transport.  connect_n leaves a datagram socket       *)
(* connected or not.                                                       *)
NewConn(c, p, con) ==
  [c |-> c, peer |-> p, remote |-> p, connected |-> con, from |-> {},
   st |-> IF Tls(c) THEN "CONNECTING" ELSE "OPENED", close |-> FALSE,
   ok |-> IF Tls(c) THEN 0 ELSE 1, bad |-> 0, lost |-> 0]

Connects(c) == IF Loose /\ Datagram(c) THEN BOOLEAN ELSE {TRUE}

Scheduled(c) == IF Kcp(c) THEN 1 ELSE 0

RemoteEndpoint(t) == IF t.connected THEN t.peer ELSE t.remote

ForgetsMap(t) ==
  /\ UNCHANGED tmap
  /\ nsched' = nsched - Scheduled(t.c)

(* handle_close, by what properties_ says now: the entry of the remote     *)
(* endpoint and the schedule; ON_CLOSE for a transport that was open; a    *)
(* client's channel closes with it (its requests are gone when it was told *)
(* of a failed handshake).                                                 *)
Unregister(t) ==
  /\ tmap' = {e \in tmap : Datagram(t.c) => e[1] # RemoteEndpoint(t)}
  /\ nsched' = nsched - Scheduled(t.c)

Closed(t) == [t EXCEPT !.st = "FREED", !.lost = IF t.st = "OPENED" THEN @ + 1 ELSE @]

HandleClose(i, t) ==
  /\ conns' = [conns EXCEPT ![i] = Closed(t)]
  /\ Unregister(t)
  /\ srv' = IF IsClient(t.c) THEN [srv EXCEPT ![t.c].st = "CLOSED", ![t.c].bits = IF t.bad > 0 THEN {} ELSE @ \ {"CLOSE"}]
            ELSE srv

(* do_ssl_handshake: not done yet, done, or failed; only a client is told. *)
Handshake(t) == {[s |-> t, alive |-> TRUE, again |-> TRUE],
                 [s |-> [t EXCEPT !.st = "OPENED", !.ok = @ + 1], alive |-> TRUE, again |-> FALSE],
                 [s |-> [t EXCEPT !.bad = @ + IF IsClient(t.c) THEN 1 ELSE 0],
                  alive |-> FALSE, again |-> FALSE]}

(* recvfrom, through a socket that is not connected, overwrites peer_.     *)
Received(t) ==
  {[t EXCEPT !.from = @ \ {p}, !.remote = IF t.connected THEN @ ELSE p] : p \in t.from}

(* do_read then do_write: the transport is well, or its connection is      *)
(* lost.                                                                   *)
Read(t) ==
  IF t.st = "CONNECTING" THEN Handshake(t)
  ELSE {[s |-> u, alive |-> a, again |-> FALSE] :
          u \in (IF t.from = {} THEN {t} ELSE Received(t)), a \in BOOLEAN}

(* A request to open or close the channel ends its transports.             *)
Asked(t) == t.close \/ srv[t.c].bits # {} \/ sstop

ProcessTransport(i) ==
  /\ phase = "transports" /\ i \in left /\ \A j \in left : i <= j
  /\ left' = left \ {i}
  /\ \E out \in Read(conns[i]) :
       /\ swake' = (swake \/ out.again)
       /\ got' = IF out.alive
                 THEN got \cup {<<conns[i].c, p, i>> : p \in conns[i].from \ out.s.from} ELSE got
       /\ \/ /\ out.alive /\ ~Asked(conns[i])
             /\ conns' = [conns EXCEPT ![i] = out.s]
             /\ UNCHANGED <<srv, tmap, nsched>>
          \/ /\ ~out.alive \/ Asked(conns[i])
             /\ HandleClose(i, out.s)
  /\ UNCHANGED <<kind, pushing, ops, pend, phase, seen, sstop, scalls, arrivals>>

(***************************************************************************)
(* The turn of the loop.                                                   *)
(***************************************************************************)
Busy == \/ swake \/ sstop
        \/ \E c \in Servers : pend[c] # <<>>
        \/ \E i \in Live : conns[i].from # {}

Turn ==
  /\ phase = "poll" /\ Busy
  /\ swake' = FALSE /\ got' = {}
  /\ phase' = "transports" /\ left' = Live
  /\ UNCHANGED <<kind, pushing, srv, ops, pend, conns, tmap, nsched, seen, sstop, scalls, arrivals>>

(* A reset or a lost peer is noticed without anything else to do.          *)
PeerLost ==
  /\ phase = "poll" /\ ~Busy /\ Live # {}
  /\ phase' = "transports" /\ left' = Live /\ got' = {}
  /\ UNCHANGED <<kind, pushing, srv, ops, pend, conns, tmap, nsched, seen, swake, sstop, scalls, arrivals>>

ToChannels ==
  /\ phase = "transports" /\ left = {}
  /\ phase' = "channels" /\ left' = ops
  /\ UNCHANGED <<kind, pushing, srv, ops, pend, conns, tmap, nsched, got, seen, swake, sstop, scalls, arrivals>>

(* run returns when it is asked to stop and no transport is left.          *)
TurnEnds ==
  /\ phase = "channels" /\ left = {} /\ seen = None
  /\ phase' = IF sstop /\ Live = {} THEN "exited" ELSE "poll"
  /\ UNCHANGED <<kind, pushing, srv, ops, pend, conns, tmap, nsched, got, left, seen, swake, sstop, scalls, arrivals>>

ReadOpmask(c) ==
  /\ phase = "channels" /\ c \in left /\ seen = None
  /\ seen' = <<c, srv[c].bits, IsClient(c)>>
  /\ left' = left \ {c}
  /\ UNCHANGED <<kind, pushing, srv, ops, pend, conns, tmap, nsched, got, phase, swake, sstop, scalls, arrivals>>

(* do_accept: the old socket is closed, the new one is bound or not.       *)
DoAccept ==
  /\ seen # None /\ "OPEN" \in seen[2] /\ ~seen[3]
  /\ LET c == seen[1] IN
     \E ok \in BOOLEAN :
       /\ srv' = [srv EXCEPT ![c] = [st |-> IF ok THEN "OPENED" ELSE "CLOSED", bits |-> {},
                                      dgram |-> Datagram(c)]]
       /\ pend' = [pend EXCEPT ![c] = <<>>]
       /\ ops' = IF ok THEN ops ELSE ops \ {c}
  /\ seen' = None
  /\ UNCHANGED <<kind, pushing, conns, tmap, nsched, got, phase, left, swake, sstop, scalls, arrivals>>

(* cleanup_channel on a request to close.                                  *)
CleanupChannel ==
  /\ seen # None /\ seen[2] = {"CLOSE"} /\ ~seen[3]
  /\ LET c == seen[1] IN
       /\ srv' = [srv EXCEPT ![c].st = "CLOSED", ![c].bits = {}]
       /\ pend' = [pend EXCEPT ![c] = <<>>]
       /\ ops' = ops \ {c}
  /\ seen' = None
  /\ UNCHANGED <<kind, pushing, conns, tmap, nsched, got, phase, left, swake, sstop, scalls, arrivals>>

(* finish: a channel leaves channel_ops_ unless it is listening.           *)
Listening(c) == srv[c].st = "OPENED"

(* A visit with nothing asked and nothing to accept, or with a socket of   *)
(* the other type, on which accept and recvfrom fail.                      *)
VisitIdle ==
  /\ seen # None /\ seen[2] = {} /\ ~seen[3]
  /\ \/ pend[seen[1]] = <<>> \/ srv[seen[1]].st # "OPENED"
     \/ srv[seen[1]].dgram # Datagram(seen[1])
  /\ ops' = IF Listening(seen[1]) THEN ops ELSE ops \ {seen[1]}
  /\ seen' = None
  /\ UNCHANGED <<kind, pushing, srv, pend, conns, tmap, nsched, got, phase, left, swake, sstop, scalls, arrivals>>

Makes(c, p) ==
  /\ \E con \in Connects(c) : conns' = Append(conns, NewConn(c, p, con))
  /\ nsched' = nsched + Scheduled(c)

(* do_accept_completion of a stream: one connection a turn.                *)
AcceptStream ==
  /\ seen # None /\ seen[2] = {} /\ ~seen[3]
  /\ LET c == seen[1] IN
     /\ srv[c].st = "OPENED" /\ ~srv[c].dgram /\ ~Datagram(c) /\ pend[c] # <<>>
     /\ pend' = [pend EXCEPT ![c] = Tail(@)]
     /\ IF Len(conns) < MaxConns THEN Makes(c, Head(pend[c])) ELSE UNCHANGED <<conns, nsched>>
     /\ ops' = IF Listening(c) THEN ops ELSE ops \ {c}
  /\ seen' = None
  /\ UNCHANGED <<kind, pushing, srv, tmap, got, phase, left, swake, sstop, scalls, arrivals>>

(* do_dgram_accept: the peer's transport by transport_map_.                *)
Routed(p) == {e[2] : e \in {m \in tmap : m[1] = p}}

(* One datagram: to the transport of its peer, or to a new one; kcp may    *)
(* refuse it, which closes the transport.  A socket for the peer may be    *)
(* refused too.                                                            *)
AcceptDatagram ==
  /\ seen # None /\ seen[2] = {} /\ ~seen[3]
  /\ LET c == seen[1] IN
     /\ srv[c].st = "OPENED" /\ srv[c].dgram /\ Datagram(c) /\ pend[c] # <<>>
     /\ pend' = [pend EXCEPT ![c] = Tail(@)]
     /\ \E bad \in BOOLEAN, p \in {Head(pend[c])} :
          /\ \/ \E i \in Routed(p) :
                  /\ bad => Kcp(conns[i].c)
                  /\ got' = got \cup {<<c, p, i>>}
                  /\ conns' = [conns EXCEPT ![i].close = @ \/ bad]
                  /\ UNCHANGED <<tmap, nsched>>
             \/ /\ Routed(p) = {} /\ Len(conns) < MaxConns
                /\ bad => Kcp(c)
                /\ \E con \in Connects(c) :
                     conns' = Append(conns, [NewConn(c, p, con) EXCEPT !.close = bad])
                /\ nsched' = nsched + Scheduled(c)
                /\ tmap' = tmap \cup {<<p, Len(conns) + 1>>}
                /\ got' = got \cup {<<c, p, Len(conns) + 1>>}
             \/ /\ Routed(p) = {} /\ ~bad
                /\ UNCHANGED <<conns, nsched, tmap, got>>
          /\ swake' = (swake \/ bad)
     /\ ops' = IF Listening(c) THEN ops ELSE ops \ {c}
  /\ seen' = None
  /\ UNCHANGED <<kind, pushing, srv, phase, left, sstop, scalls, arrivals>>

(* The visit of a client: its connection is made at once here, or fails    *)
(* (the steps of connecting are ClientChannel's).  TLS wakes the loop for  *)
(* the handshake.                                                          *)
VisitClient ==
  /\ seen # None /\ seen[3]
  /\ LET c == seen[1] IN
     \/ /\ "OPEN" \in srv[c].bits /\ Len(conns) < MaxConns
        /\ \E r \in Routes : r[1] = c /\ Makes(c, r[2])
        /\ srv' = [srv EXCEPT ![c] = [st |-> "OPENED", bits |-> {}, dgram |-> Datagram(c)]]
        /\ swake' = (swake \/ Tls(c))
     \/ /\ srv' = IF "OPEN" \in srv[c].bits THEN [srv EXCEPT ![c].st = "CLOSED", ![c].bits = {}] ELSE srv
        /\ UNCHANGED <<conns, nsched, swake>>
  /\ ops' = ops \ {seen[1]}
  /\ seen' = None
  /\ UNCHANGED <<kind, pushing, pend, tmap, got, phase, left, sstop, scalls, arrivals>>

ServerInit ==
  /\ kind \in Kinds
  /\ srv = [c \in Servers |-> [st |-> "CLOSED", bits |-> {}, dgram |-> FALSE]]
  /\ ops = {} /\ pushing = {} /\ pend = [c \in Servers |-> <<>>]
  /\ conns = <<>> /\ tmap = {} /\ nsched = 0 /\ got = {}
  /\ phase = "poll" /\ left = {} /\ seen = None
  /\ swake = FALSE /\ sstop = FALSE /\ scalls = 0 /\ arrivals = 0

ServerLoop ==
  \/ Turn \/ ToChannels \/ TurnEnds
  \/ \E i \in DOMAIN conns : ProcessTransport(i)
  \/ \E c \in Servers : ReadOpmask(c) \/ Push(c)
  \/ DoAccept \/ CleanupChannel \/ VisitIdle \/ AcceptStream \/ AcceptDatagram \/ VisitClient

ServerNext ==
  \/ ServerLoop \/ PeerLost \/ Stop
  \/ \E c \in Servers : Open(c) \/ CloseChannel(c)
  \/ \E i \in DOMAIN conns : CloseTransport(i)
  \/ \E c \in Servers, p \in Peers : Arrives(c, p)

(* The worker keeps running; nothing is assumed of peers or callers.       *)
ServerSpec == ServerInit /\ [][ServerNext]_svars /\ WF_svars(ServerLoop)

-----------------------------------------------------------------------------
(* Types.                                                                  *)
ServerTypeOK ==
  /\ kind \in [Servers -> Kind] /\ srv \in [Servers -> ChannelState]
  /\ ops \subseteq Servers /\ pushing \subseteq Servers /\ pend \in [Servers -> Seq(Peers)]
  /\ conns \in Seq(Connection) /\ tmap \subseteq Peers \X (1..MaxConns)
  /\ nsched \in 0..MaxConns /\ got \subseteq Servers \X Peers \X (1..MaxConns)
  /\ phase \in {"poll", "transports", "channels", "exited"}
  /\ seen \in {None} \cup Servers \X (SUBSET {"OPEN", "CLOSE"}) \X BOOLEAN

(* transport_map_ is keyed by the endpoint alone: an endpoint that talks   *)
(* to a datagram server and to another datagram channel, server or client, *)
(* has one entry for both.                                                 *)
Shared(p) ==
  \E r, s \in Routes :
    /\ r[2] = p /\ s[2] = p /\ r[1] # s[1]
    /\ Datagram(r[1]) /\ Datagram(s[1]) /\ ~IsClient(s[1])

(* transport_map_ never leads to a destroyed transport, whose memory is    *)
(* already back in the pool, shared endpoints included.                    *)
MapAlive == \A e \in tmap : e[2] \in Live /\ conns[e[2]].peer = e[1]

(* Every transport of a datagram server is found through transport_map_,   *)
(* unless another channel's took or erased the entry of its endpoint.      *)
MapWhole ==
  \A i \in Live : Datagram(conns[i].c) /\ ~IsClient(conns[i].c) /\ ~Shared(conns[i].peer)
                   => <<conns[i].peer, i>> \in tmap

(* What a peer sends reaches the transport of that peer, whichever socket  *)
(* received it, and one of the channel it was sent to, unless it shares.   *)
RoutedHome ==
  \A g \in got : conns[g[3]].peer = g[2] /\ (conns[g[3]].c = g[1] \/ Shared(g[2]))

(* One transport at a time for a peer of a datagram server.                *)
OnePerPeer ==
  \A i, j \in Live :
    /\ Datagram(conns[i].c) /\ ~IsClient(conns[i].c) /\ ~Shared(conns[i].peer)
    /\ conns[i].c = conns[j].c /\ conns[i].peer = conns[j].peer
    => i = j

(* The application hears of every connection once, and of its end once if  *)
(* and only if it heard of it: a handshake that fails or is cut short ends *)
(* without ON_CLOSE.                                                       *)
EventsPaired ==
  \A i \in DOMAIN conns :
    LET t == conns[i] IN
    /\ t.ok + t.bad <= 1
    /\ t.lost = IF t.st = "FREED" THEN t.ok ELSE 0
    /\ t.st = "OPENED" => t.ok = 1

(* A listening channel stays in channel_ops_: only there its connections   *)
(* are accepted and a request to close it is seen.                         *)
ListenerQueued ==
  \A c \in Servers : srv[c].st = "OPENED" /\ ~IsClient(c) => c \in ops

(* nsched_ counts the kcp transports: at zero the loop may sleep for the   *)
(* longest time, above it never.                                           *)
SchedExact == nsched = Cardinality({i \in Live : Kcp(conns[i].c)})

(* A transport asked to close is destroyed.                                *)
TransportCloses ==
  \A i \in 1..MaxConns : []<>~(i \in Live /\ conns[i].close)

(* What waits at a listening socket is accepted, or the socket is closed.  *)
Accepted == \A c \in Servers : []<>(pend[c] = <<>> \/ phase = "exited")

(* After a stop the worker leaves its loop, once every transport is gone,  *)
(* if the application does not open channels for ever: open_internal and   *)
(* process_channels do not test stop_flag_.                                *)
WorkerLeaves ==
  <>[][\A c \in Servers : ~Open(c)]_svars => []<>(sstop => phase = "exited")

(* The bookkeeping of accepted transports, whatever is opened and closed   *)
(* in between: map, schedule, queue and events stay in step.               *)
ServerSafe ==
  /\ ServerTypeOK /\ MapAlive /\ MapWhole /\ RoutedHome /\ OnePerPeer
  /\ EventsPaired /\ ListenerQueued /\ SchedExact
=============================================================================
