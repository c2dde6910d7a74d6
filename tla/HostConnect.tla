----------------------------- MODULE HostConnect -----------------------------
(***************************************************************************)
(* The blocking connectors of xxsocket: pconnect and pconnect_n, which try *)
(* the addresses of a host in turn, xpconnect and xpconnect_n, which first *)
(* look which internet protocols this machine has and reach an IPv4 host   *)
(* through a mapped address where there is only IPv6.                      *)
(*                                                                         *)
(* An address is a family and a number; a mapped one is an IPv6 address    *)
(* with the number of the IPv4 one.                                        *)
(***************************************************************************)
EXTENDS Integers, Sequences, FiniteSets

CONSTANTS
  HostNumbers,  \* what tells the addresses of a host apart
  HostMax,      \* bound: addresses of a host
  LocalMax      \* bound: addresses of this machine

ASSUME HostAssumption == HostMax \in Nat /\ LocalMax \in Nat

VARIABLE hc   \* the connector at work and how far it is

hcvars == <<hc>>

Variants == {"xpconnect", "xpconnect_n", "pconnect", "pconnect_n", "pconnect_n_nowait"}
Addresses == [af : {4, 6}, n : HostNumbers, mapped : {FALSE}]
Locals == [af : {4, 6}, global : BOOLEAN]
UpTo(S, max) == UNION {[1..k -> S] : k \in 0..max}
NoSocket == <<>>

OfFamily(host, af) ==
  LET Picked[i \in 0..Len(host)] ==
        IF i = 0 THEN <<>>
        ELSE IF host[i].af = af THEN Append(Picked[i - 1], host[i]) ELSE Picked[i - 1]
  IN Picked[Len(host)]
Mapped(host) == LET v4 == OfFamily(host, 4) IN [i \in DOMAIN v4 |-> [v4[i] EXCEPT !.af = 6, !.mapped = TRUE]]

(* What getaddrinfo answers: AF_UNSPEC; AF_INET; AF_INET6; AF_INET6 with   *)
(* AI_V4MAPPED, which maps only for a host without IPv6, and with AI_ALL.  *)
Resolve(host, how) ==
  CASE how = "any" -> host
    [] how = "v4" -> OfFamily(host, 4)
    [] how = "v6" -> OfFamily(host, 6)
    [] how = "v4to6" -> IF OfFamily(host, 6) # <<>> THEN OfFamily(host, 6) ELSE Mapped(host)
    [] how = "tov6" -> OfFamily(host, 6) \o Mapped(host)

(* io_service::resolve: what a channel without a resolver of its own gets. *)
ServiceResolve(host) ==
  IF Resolve(host, "v4") # <<>> THEN Resolve(host, "v4")
  ELSE IF Resolve(host, "v6") # <<>> THEN Resolve(host, "v6")
  ELSE Resolve(host, "v4to6")

(* getipsv over traverse_local_address: addresses of loopback and link are *)
(* passed over, and the walk ends when both families have been seen.       *)
GetIpsv(locals) ==
  LET Walk[k \in 0..Len(locals)] ==
        IF k = 0 THEN {}
        ELSE LET flags == Walk[k - 1] IN
             IF flags = {4, 6} \/ ~locals[k].global THEN flags ELSE flags \cup {locals[k].af}
  IN Walk[Len(locals)]

XpUnmapped(a) ==
  IF a.af \in hc.flags THEN <<a>>
  ELSE IF a.af = 4 /\ 6 \in hc.flags THEN Resolve(hc.host, "v6") ELSE <<>>

(* What an answer makes xpconnect try.                                     *)
XpCandidates(a) ==
  IF a.af \in hc.flags THEN <<a>>
  ELSE IF a.af = 4 /\ 6 \in hc.flags THEN Resolve(hc.host, "v4to6") ELSE <<>>

PlainCandidates(a) == <<a>>

-----------------------------------------------------------------------------
HcInit == hc = [pc |-> "idle"]

HcBegin ==
  /\ hc.pc = "idle"
  /\ \E v \in Variants, host \in UpTo(Addresses, HostMax), locals \in UpTo(Locals, LocalMax) :
       /\ v \notin {"xpconnect", "xpconnect_n"} => locals = <<>>
       /\ hc' = [pc |-> "answers", variant |-> v, host |-> host, locals |-> locals,
                 flags |-> GetIpsv(locals), todo |-> Resolve(host, "any"), inner |-> <<>>,
                 tried |-> <<>>, error |-> -1, open |-> NoSocket]

(* resolve_i hands over the next answer, until the callback is content.    *)
HcAnswer ==
  /\ hc.pc = "answers" /\ hc.inner = <<>> /\ hc.todo # <<>> /\ hc.error # 0
  /\ ~(hc.variant = "pconnect_n_nowait" /\ hc.tried # <<>>)
  /\ hc' = [hc EXCEPT !.todo = Tail(@),
                      !.inner = IF hc.variant \in {"xpconnect", "xpconnect_n"}
                                THEN XpCandidates(Head(hc.todo)) ELSE PlainCandidates(Head(hc.todo))]

(* pconnect of one endpoint: a new socket, if there is one, and the        *)
(* connection, if it is accepted. The timed one closes a socket it could   *)
(* not connect, unless it was refused at once; the others keep it.         *)
HcAttempt ==
  /\ hc.pc = "answers" /\ hc.inner # <<>>
  /\ LET a == Head(hc.inner) IN
     \E kept, connected \in BOOLEAN :
       /\ connected => kept
       /\ hc' = [hc EXCEPT !.tried = Append(@, <<a, connected>>),
                           !.error = IF connected THEN 0 ELSE -1,
                           !.open = IF kept THEN <<a>> ELSE NoSocket,
                           !.inner = IF connected THEN <<>> ELSE Tail(@)]

HcReturn ==
  /\ hc.pc = "answers" /\ hc.inner = <<>>
  /\ hc.todo = <<>> \/ hc.error = 0 \/ (hc.variant = "pconnect_n_nowait" /\ hc.tried # <<>>)
  /\ hc' = [hc EXCEPT !.pc = "returned"]

HcNext == HcBegin \/ HcAnswer \/ HcAttempt \/ HcReturn

-----------------------------------------------------------------------------
(* The connectors return 0 with the socket connected to the last address   *)
(* tried, and -1 only when every address this machine could reach has been *)
(* tried in vain: of both families for pconnect, of the families it has    *)
(* for xpconnect, and where it has IPv6 alone an IPv4-only host by mapped  *)
(* addresses. Nothing is tried after a success. (The connector that does   *)
(* not wait tries the first address only.) The service finds an address    *)
(* for every host that has one, of one family only.                        *)
ConnectExhausts ==
  hc.pc = "returned" =>
    LET n == Len(hc.tried)
        was == {hc.tried[i][1] : i \in 1..n}
        all == {hc.host[i] : i \in DOMAIN hc.host}
        xp == hc.variant \in {"xpconnect", "xpconnect_n"}
        has == {a \in all : ~xp \/ \E i \in DOMAIN hc.locals : hc.locals[i].global /\ hc.locals[i].af = a.af}
        only6 == xp /\ hc.flags = {6}
        served == ServiceResolve(hc.host)
    IN /\ served = <<>> <=> hc.host = <<>>
       /\ {served[i] : i \in DOMAIN served} \in {{a \in all : a.af = af} : af \in {4, 6}}
       /\ \A i \in 1..n : hc.tried[i][2] => i = n
       /\ hc.error = 0 <=> (n > 0 /\ hc.tried[n][2])
       /\ hc.error = 0 => hc.open = <<hc.tried[n][1]>>
       /\ was \subseteq has \cup {a \in was : a.mapped /\ only6}
       /\ IF hc.variant = "pconnect_n_nowait" THEN n = Cardinality({i \in {1} : hc.host # <<>>})
          ELSE hc.error # 0 => /\ has \subseteq was
                               /\ (only6 /\ all # {} /\ has = {}) =>
                                    {a.n : a \in was} = {a.n : a \in all}
=============================================================================
