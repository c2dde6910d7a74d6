------------------------------ MODULE Endpoint ------------------------------
(***************************************************************************)
(* ip::endpoint: made from a text or from what the kernel reports, printed *)
(* by format_to, and the key of transport_map_ through operator<. Texts    *)
(* come as their parts; InetText is about the addresses in them.           *)
(***************************************************************************)
EXTENDS Integers, FiniteSets

CONSTANTS
  EpAddrs,    \* addresses, as the number the memory holds
  EpPorts,    \* ports, as the number the memory holds; 0 is none
  Zones,      \* interface indices, 0 for none
  EpPeers     \* peers that send datagrams to a server channel

ASSUME EndpointAssumption ==
  /\ EpAddrs \subseteq Nat /\ EpPorts \subseteq Nat /\ 0 \in EpPorts
  /\ Zones \subseteq Nat /\ 0 \in Zones
  /\ EpPeers \subseteq [af : {4, 6}, addr : EpAddrs, port : EpPorts, scope : Zones]

VARIABLES
  parsed,   \* the last text and the endpoint made of it
  routes,   \* transport_map_: key and the peer its transport was made for
  routed    \* the last datagram's peer and the peer of the transport it went to

epvars == <<parsed, routes, routed>>

Unspec == [af |-> 0, addr |-> 0, port |-> 0, scope |-> 0]
NoText == [bracket |-> FALSE, rest |-> FALSE, addr |-> 0, zone |-> 0, port |-> 0]

(* as_is of a text: an IPv6 text needs its bracket followed by a colon, an *)
(* IPv4 text its colon. parse_in6_zone hands the name to if_nametoindex    *)
(* with the bracket and port behind it, which names no interface.          *)
AsIs(t) ==
  IF ~t.rest THEN Unspec
  ELSE [af |-> IF t.bracket THEN 6 ELSE 4, addr |-> t.addr, port |-> t.port, scope |-> 0]

(* as_in(ip, port): a zone ends the text and is found.                     *)
AsIn(six, addr, zone, port) ==
  [af |-> IF six THEN 6 ELSE 4, addr |-> addr, port |-> port, scope |-> IF six THEN zone ELSE 0]

(* to_string with the default flags: no port when it is 0, no zone ever.   *)
ToText(ep) ==
  [bracket |-> ep.af = 6, rest |-> ep.port # 0, addr |-> ep.addr, zone |-> 0, port |-> ep.port]

SumOf(ep) == IF ep.af = 4 THEN ep.addr + ep.port ELSE ep.port

(* operator<: for an IPv4 left side the sums of address and port, the      *)
(* right side read as if it were IPv4 too (where an IPv6 one has its flow  *)
(* label, 0); otherwise the bytes in memory order.                         *)
EpLess(a, b) ==
  IF a.af = 4 THEN a.addr + a.port < SumOf(b)
  ELSE \/ a.af < b.af
       \/ a.af = b.af /\ a.port < b.port
       \/ a.af = b.af /\ a.port = b.port /\ a.addr < b.addr
       \/ a.af = b.af /\ a.port = b.port /\ a.addr = b.addr /\ a.scope < b.scope
EpEqual(a, b) == ~EpLess(a, b) /\ ~EpLess(b, a)

-----------------------------------------------------------------------------
EpInit == parsed = <<NoText, Unspec>> /\ routes = {} /\ routed = <<Unspec, Unspec>>

EpReadText ==
  \E six \in BOOLEAN, addr \in EpAddrs, zone \in Zones, port \in EpPorts :
    /\ (zone # 0 => six)
    /\ LET ep == AsIn(six, addr, zone, port) IN parsed' = <<ToText(ep), ep>>
    /\ UNCHANGED <<routes, routed>>

(* do_dgram_accept: the transport found in transport_map_, or a new one.   *)
EpRoute ==
  \E p \in EpPeers :
    /\ \/ \E r \in routes : EpEqual(r, p) /\ routed' = <<p, r>> /\ UNCHANGED routes
       \/ /\ \A r \in routes : ~EpEqual(r, p)
          /\ routes' = routes \cup {p} /\ routed' = <<p, p>>
    /\ UNCHANGED parsed

EpNext == EpReadText \/ EpRoute

-----------------------------------------------------------------------------
(* as_is of what to_string prints is the endpoint again, but for the zone, *)
(* and as long as there is a port to print.                                *)
EndpointReads ==
  LET text == parsed[1]  ep == parsed[2] IN
  ep # Unspec => AsIs(text) = IF ep.port = 0 THEN Unspec ELSE [ep EXCEPT !.scope = 0]

(* The map can tell the endpoints of one family it holds apart and order   *)
(* them: of two, one is before the other, and a third is on one side.      *)
OrderStrict ==
  \A a, b \in routes :
    (a # b /\ a.af = b.af) =>
      /\ EpLess(a, b) <=> ~EpLess(b, a)
      /\ \A c \in routes : (c.af = a.af /\ EpLess(a, b)) => EpLess(a, c) \/ EpLess(c, b)

(* The comment in do_dgram_accept, "check does remote endpoint already     *)
(* assoc with a transport": the transport a datagram goes to is that of    *)
(* its own sender.                                                         *)
RoutedToSender == routed[1] = routed[2]
=============================================================================
