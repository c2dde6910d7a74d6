---- MODULE MCChannels ----
(***************************************************************************)
(* How channels get their connections, for TLC: a server channel accepts   *)
(* them, a client channel resolves its peer's name, a UDP client is given  *)
(* another peer while open.  They share no state here; a behaviour is one  *)
(* of them at work.                                                        *)
(***************************************************************************)
EXTENDS ServerChannel, Resolver, UdpTransport

VARIABLE focus

(* p2 talks to both channels. *)
MCRoutes == {<<"s1", "p1">>, <<"s1", "p2">>, <<"s2", "p2">>}
MCKinds == {[s1 |-> "udp", s2 |-> "kcp"], [s1 |-> "kcp", s2 |-> "udpclient"],
            [s1 |-> "ssl", s2 |-> "sslclient"]}

all == <<focus, svars, rvars, udpvars>>

MCInit ==
  /\ focus \in {"server", "resolver", "udp"}
  /\ ServerInit /\ ResolverInit /\ UdpInit
  /\ focus # "udp" => ~mc.bit
  /\ focus # "server" => kind = [s1 |-> "udp", s2 |-> "kcp"]
  /\ focus # "resolver" => \A c \in Channels : ares /\ ch[c].asked = <<Literal, 1>>

ButServer == UNCHANGED <<focus, rvars, udpvars>>
ButResolver == UNCHANGED <<focus, svars, udpvars>>
ButUdp == UNCHANGED <<focus, svars, rvars>>

MCNext ==
  \/ focus = "server" /\ ServerNext /\ ButServer
  \/ focus = "resolver" /\ ResolverNext /\ ButResolver
  \/ focus = "udp" /\ UdpNext /\ ButUdp

MCLoop ==
  \/ focus = "server" /\ ServerLoop /\ ButServer
  \/ focus = "resolver" /\ ResolverLoop /\ ButResolver

(* The loop runs, and every query is answered in the end, well or ill. *)
MCSpec ==
  /\ MCInit /\ [][MCNext]_all
  /\ WF_all(MCLoop)
  /\ WF_all(focus = "resolver" /\ AnyQuery /\ ButResolver)

(* Accepted transports and a UDP client's own, whatever is opened, closed, *)
(* connected and disconnected in between: the bookkeeping stays in step    *)
(* and datagrams go where they should.                                     *)
ChannelsSafe == ServerSafe /\ UdpSafe

(* What was asked of a channel happens: transports close, connections are  *)
(* accepted, a stopped worker leaves, and a resolution comes to an end.    *)
ChannelsLive == TransportCloses /\ Accepted /\ WorkerLeaves /\ ResolvingEnds
====
