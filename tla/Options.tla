------------------------------ MODULE Options ------------------------------
(***************************************************************************)
(* set_option and the front-ends that call it for scripts: the C interface *)
(* (ni), the two Lua bindings (sol, kaguya) and the two JavaScript ones    *)
(* (jsb, jsb20). set_option reads a variable argument list: an argument    *)
(* that was not passed, or was passed as another type, reads as anything.  *)
(*                                                                         *)
(* One channel exists, with index 0. The options of an open transport are  *)
(* in UdpTransport.                                                        *)
(***************************************************************************)
EXTENDS Integers, Sequences, TLC

CONSTANTS
  OptInts,       \* integers an application passes
  OptTexts,      \* strings it passes
  OptFlags,      \* channel flags
  OptPortMod,    \* 2^16: the values of an unsigned short
  OptMaxStrip,   \* YASIO_UNPACK_MAX_STRIP
  OptCalls       \* bound: calls of set_option

ASSUME OptionsAssumption ==
  OptInts \subseteq Int /\ OptPortMod \in Nat \ {0} /\ OptMaxStrip \in Nat /\ OptCalls \in Nat

VARIABLE opts
  (* svc: the service's options; chn: the channel's; calls: made so far;   *)
  (* pc: "undefined" once a call has read what was not passed; amiss: the  *)
  (* front-ends' calls that did something else than the same call in C++   *)

optvars == <<opts>>

Micro == 1000000   \* std::micro::den
Milli == 1000      \* std::milli::den

-----------------------------------------------------------------------------
(* What set_option_internal reads for each option.                         *)
ServiceReads ==
  [o \in {"NO_DISPATCH", "NO_NEW_THREAD", "CONNECT_TIMEOUT", "CONNECT_TIMEOUTMS", "DNS_CACHE_TIMEOUT",
          "DNS_CACHE_TIMEOUTMS", "DNS_QUERIES_TIMEOUT", "DNS_QUERIES_TIMEOUTMS", "DNS_QUERIES_TRIES",
          "FORWARD_PACKET", "DNS_DIRTY", "TCP_KEEPALIVE", "DNS_LIST", "SSL_CACERT", "SSL_CERT",
          "EVENT_CB", "DEFER_EVENT_CB", "RESOLV_FN", "PRINT_FN"} |->
     CASE o = "DNS_DIRTY" -> <<>>
       [] o = "TCP_KEEPALIVE" -> <<"int", "int", "int">>
       [] o \in {"DNS_LIST", "SSL_CACERT"} -> <<"str">>
       [] o = "SSL_CERT" -> <<"str", "str">>
       [] o \in {"EVENT_CB", "DEFER_EVENT_CB", "RESOLV_FN", "PRINT_FN"} -> <<"fn">>
       [] OTHER -> <<"int">>]

ChannelReads ==
  [o \in {"UNPACK_STRIP", "UNPACK_NO_BSWAP", "LOCAL_PORT", "REMOTE_PORT", "KCP_CONV", "KCP_MTU", "KCP_RTO_MIN",
          "DISABLE_MCAST", "LOCAL_HOST", "REMOTE_HOST", "MCAST_IF", "LOCAL_ENDPOINT", "REMOTE_ENDPOINT",
          "ENABLE_MCAST", "MOD_FLAGS", "KCP_WINDOW_SIZE", "UNPACK_PARAMS", "KCP_NODELAY", "UNPACK_FN"} |->
     CASE o = "DISABLE_MCAST" -> <<"int">>
       [] o \in {"LOCAL_HOST", "REMOTE_HOST", "MCAST_IF"} -> <<"int", "str">>
       [] o \in {"LOCAL_ENDPOINT", "REMOTE_ENDPOINT", "ENABLE_MCAST"} -> <<"int", "str", "int">>
       [] o \in {"MOD_FLAGS", "KCP_WINDOW_SIZE"} -> <<"int", "int", "int">>
       [] o \in {"UNPACK_PARAMS", "KCP_NODELAY"} -> <<"int", "int", "int", "int", "int">>
       [] o = "UNPACK_FN" -> <<"int", "fn">>
       [] OTHER -> <<"int", "int">>]

Signature ==
  [o \in DOMAIN ServiceReads \cup DOMAIN ChannelReads |->
     IF o \in DOMAIN ServiceReads THEN ServiceReads[o] ELSE ChannelReads[o]]

(* What the service does with them.                                        *)
Timeouts ==
  [CONNECT_TIMEOUT |-> <<"connect", Micro>>, CONNECT_TIMEOUTMS |-> <<"connect", Milli>>,
   DNS_CACHE_TIMEOUT |-> <<"cache", Micro>>, DNS_CACHE_TIMEOUTMS |-> <<"cache", Milli>>,
   DNS_QUERIES_TIMEOUT |-> <<"queries", Micro>>, DNS_QUERIES_TIMEOUTMS |-> <<"queries", Milli>>]

SetService(v, o, a) ==
  IF o \in DOMAIN Timeouts THEN [v EXCEPT ![Timeouts[o][1]] = a[1] * Timeouts[o][2]]
  ELSE IF o = "DNS_DIRTY" THEN [v EXCEPT !.dirty = TRUE]
  ELSE IF o = "DNS_LIST" THEN [v EXCEPT !.dirty = TRUE, !.servers = a[1]]
  ELSE IF o = "TCP_KEEPALIVE" THEN [v EXCEPT !.keepalive = <<1>> \o a]
  ELSE [v EXCEPT !.plain = (o :> a) @@ @]   \* one assignment each

ClampTo(n, lo, hi) == IF n < lo THEN lo ELSE IF hi < n THEN hi ELSE n

SetHost(v, h) == IF h = v.host THEN v ELSE [v EXCEPT !.host = h, !.hostDirty = TRUE]

SetPortSilently(v, p) ==
  LET port == p % OptPortMod IN IF port \in {0, v.port} THEN v ELSE [v EXCEPT !.port = port]

SetPort(v, p) ==
  LET port == p % OptPortMod IN
  IF port \in {0, v.port} THEN v ELSE [v EXCEPT !.port = port, !.portDirty = TRUE]

SetUnpackParams(v, a) ==
  [v EXCEPT !.maxFrame = a[1], !.lfo = a[2], !.lfl = ClampTo(a[3], 1, 4), !.adjust = a[4]]

SetMulticast(v, a) == [v EXCEPT !.mcast = TRUE, !.loopback = @ \/ a[2] # 0, !.group = a[1]]
ModFlags(v, a) == [v EXCEPT !.flags = (@ \cup a[1]) \ a[2]]

(* kcp_options() makes the record on first use.                            *)
SetKcp(v, o, a) == [v EXCEPT !.kcp = (o :> a) @@ @]

SetChannel(v, o, a) ==
  CASE o = "UNPACK_PARAMS" -> SetUnpackParams(v, a)
    [] o = "UNPACK_STRIP" -> [v EXCEPT !.strip = ClampTo(a[1], 0, OptMaxStrip)]
    [] o = "LOCAL_HOST" -> [v EXCEPT !.lhost = a[1]]
    [] o = "LOCAL_PORT" -> [v EXCEPT !.lport = a[1] % OptPortMod]
    [] o = "LOCAL_ENDPOINT" -> [v EXCEPT !.lhost = a[1], !.lport = a[2] % OptPortMod]
    [] o = "REMOTE_HOST" -> SetHost(v, a[1])
    [] o = "REMOTE_PORT" -> SetPort(v, a[1])
    [] o = "REMOTE_ENDPOINT" -> SetPort(SetHost(v, a[1]), a[2])
    [] o = "ENABLE_MCAST" -> SetMulticast(v, a)
    [] o = "DISABLE_MCAST" -> [v EXCEPT !.mcast = FALSE, !.loopback = FALSE]
    [] o = "MOD_FLAGS" -> ModFlags(v, a)
    [] o \in {"KCP_CONV", "KCP_NODELAY", "KCP_WINDOW_SIZE", "KCP_MTU", "KCP_RTO_MIN"} -> SetKcp(v, o, a)
    [] OTHER -> [v EXCEPT !.plain = (o :> a) @@ @]

(* channel_at finds nothing beyond the last channel: no effect.            *)
SetOption(s, o, a) ==
  IF o \in DOMAIN ServiceReads THEN [s EXCEPT !.svc = SetService(@, o, a)]
  ELSE IF a[1] # 0 THEN s
  ELSE [s EXCEPT !.chn = SetChannel(@, o, Tail(a))]

-----------------------------------------------------------------------------
(* What a front-end passes: for each argument its type and which of the    *)
(* script's arguments it is.                                               *)
Passing(types) == [i \in 1..Len(types) |-> <<types[i], i>>]
Ints(n) == Passing([i \in 1..n |-> "int"])
NoCall == <<>>

(* yasio_set_option: one text, cut at the semicolons.                      *)
NiPasses(o) ==
  CASE o \in {"NO_DISPATCH", "CONNECT_TIMEOUT", "DNS_CACHE_TIMEOUT", "DNS_QUERIES_TIMEOUT", "DNS_DIRTY",
              "DISABLE_MCAST"} -> Ints(1)
    [] o = "DNS_LIST" -> <<<<"str", 2>>>>
    [] o \in {"MCAST_IF", "REMOTE_HOST", "LOCAL_HOST"} -> Passing(<<"int", "str">>)
    [] o \in {"UNPACK_STRIP", "LOCAL_PORT", "REMOTE_PORT", "UNPACK_NO_BSWAP", "KCP_CONV", "KCP_MTU",
              "KCP_RTO_MIN"} -> Ints(2)
    [] o \in {"ENABLE_MCAST", "LOCAL_ENDPOINT", "REMOTE_ENDPOINT"} -> Passing(<<"int", "str", "int">>)
    [] o \in {"MOD_FLAGS", "KCP_WINDOW_SIZE"} -> Ints(3)
    [] o = "TCP_KEEPALIVE" -> Ints(4)
    [] o \in {"UNPACK_PARAMS", "KCP_NODELAY"} -> Ints(5)
    [] OTHER -> NoCall

SolPasses(o) ==
  CASE o \in {"LOCAL_HOST", "REMOTE_HOST"} -> Passing(<<"int", "str">>)
    [] o \in {"UNPACK_STRIP", "LOCAL_PORT", "REMOTE_PORT", "KCP_CONV", "UNPACK_NO_BSWAP"} -> Ints(2)
    [] o \in {"ENABLE_MCAST", "LOCAL_ENDPOINT", "REMOTE_ENDPOINT"} -> Passing(<<"int", "str", "int">>)
    [] o \in {"MOD_FLAGS", "TCP_KEEPALIVE"} -> Ints(3)
    [] o = "UNPACK_PARAMS" -> Ints(5)
    [] o = "EVENT_CB" -> Passing(<<"fn">>)
    [] OTHER -> Ints(1)

KaguyaPasses(o) ==
  CASE o \in {"LOCAL_HOST", "REMOTE_HOST"} -> Passing(<<"int", "str">>)
    [] o \in {"UNPACK_STRIP", "LOCAL_PORT", "REMOTE_PORT", "KCP_CONV", "UNPACK_NO_BSWAP"} -> Ints(2)
    [] o \in {"ENABLE_MCAST", "LOCAL_ENDPOINT", "REMOTE_ENDPOINT"} -> Passing(<<"int", "str", "int">>)
    [] o \in {"MOD_FLAGS", "TCP_KEEPALIVE"} -> Ints(3)
    [] o = "UNPACK_PARAMS" -> Ints(5)
    [] o = "EVENT_CB" -> Passing(<<"fn">>)
    [] OTHER -> Ints(1)

JsbPasses(o) ==
  CASE o \in {"LOCAL_HOST", "REMOTE_HOST"} -> Passing(<<"int", "str">>)
    [] o \in {"UNPACK_STRIP", "LOCAL_PORT", "REMOTE_PORT", "KCP_CONV", "KCP_MTU", "KCP_RTO_MIN"} -> Ints(2)
    [] o \in {"ENABLE_MCAST", "LOCAL_ENDPOINT", "REMOTE_ENDPOINT"} -> Passing(<<"int", "str", "int">>)
    [] o \in {"MOD_FLAGS", "TCP_KEEPALIVE", "KCP_WINDOW_SIZE"} -> Ints(3)
    [] o \in {"UNPACK_PARAMS", "KCP_NODELAY"} -> Ints(5)
    [] o = "EVENT_CB" -> Passing(<<"fn">>)
    [] OTHER -> Ints(1)

Jsb20Passes(o) ==
  CASE o \in {"REMOTE_HOST", "LOCAL_HOST"} -> Passing(<<"int", "str">>)
    [] o \in {"UNPACK_STRIP", "LOCAL_PORT", "REMOTE_PORT", "KCP_CONV", "KCP_MTU", "KCP_RTO_MIN"} -> Ints(2)
    [] o \in {"ENABLE_MCAST", "LOCAL_ENDPOINT", "REMOTE_ENDPOINT"} -> Passing(<<"int", "str", "int">>)
    [] o \in {"MOD_FLAGS", "TCP_KEEPALIVE", "KCP_WINDOW_SIZE"} -> Ints(3)
    [] o \in {"UNPACK_PARAMS", "KCP_NODELAY"} -> Ints(5)
    [] o = "EVENT_CB" -> Passing(<<"fn">>)
    [] OTHER -> Ints(1)

Passes(f, o) ==
  CASE f = "cpp" -> Passing(Signature[o])
    [] f = "ni" -> NiPasses(o)
    [] f = "sol" -> SolPasses(o)
    [] f = "kaguya" -> KaguyaPasses(o)
    [] f = "jsb" -> JsbPasses(o)
    [] f = "jsb20" -> Jsb20Passes(o)

(* The options whose names a script can see. The C interface takes any     *)
(* number, C++ any option.                                                 *)
ScriptOptions ==
  {"CONNECT_TIMEOUT", "DNS_CACHE_TIMEOUT", "DNS_QUERIES_TIMEOUT", "TCP_KEEPALIVE", "EVENT_CB",
   "UNPACK_PARAMS", "LOCAL_HOST", "LOCAL_PORT", "LOCAL_ENDPOINT", "REMOTE_HOST", "REMOTE_PORT",
   "REMOTE_ENDPOINT", "ENABLE_MCAST", "DISABLE_MCAST", "KCP_CONV", "MOD_FLAGS"}
KcpNames == {"KCP_NODELAY", "KCP_WINDOW_SIZE", "KCP_MTU", "KCP_RTO_MIN"}
SolExports == ScriptOptions \cup KcpNames \cup {"UNPACK_STRIP", "UNPACK_NO_BSWAP"}
KaguyaExports == ScriptOptions \cup {"UNPACK_STRIP", "UNPACK_NO_BSWAP"}
JsbExports == ScriptOptions \cup KcpNames
Jsb20Exports == ScriptOptions \cup KcpNames

Exports(f) ==
  CASE f \in {"cpp", "ni"} -> DOMAIN Signature
    [] f = "sol" -> SolExports
    [] f = "kaguya" -> KaguyaExports
    [] f = "jsb" -> JsbExports
    [] f = "jsb20" -> Jsb20Exports

-----------------------------------------------------------------------------
(* The documented arguments of an option.                                  *)
OfType(t) == CASE t = "int" -> OptInts [] t = "str" -> OptTexts [] t = "fn" -> {"fn"}

Longer(S, D) == {Append(s, v) : s \in S, v \in D}

Arguments(o) ==
  LET n == Len(Signature[o])
      Dom(i) == IF i = 1 /\ o \in DOMAIN ChannelReads THEN {0, 1}
                ELSE IF o = "MOD_FLAGS" THEN SUBSET OptFlags ELSE OfType(Signature[o][i])
      Build[k \in 0..n] == IF k = 0 THEN {<<>>} ELSE Longer(Build[k - 1], Dom(k))
  IN Build[n]

(* svtoi and svtoa make 0 and "" of a field that is missing.               *)
Missing(t) == IF t = "int" THEN 0 ELSE ""

(* What set_option reads, if it was all passed, and as what it is.         *)
Received(f, o, a) ==
  LET p == Passes(f, o) IN
  [i \in 1..Len(Signature[o]) |-> IF p[i][2] <= Len(a) THEN a[p[i][2]] ELSE Missing(p[i][1])]

WellPassed(f, o) ==
  LET p == Passes(f, o) r == Signature[o] IN Len(p) >= Len(r) /\ \A i \in 1..Len(r) : p[i][1] = r[i]

ServiceDefaults ==
  [connect |-> 10 * Micro, cache |-> 600 * Micro, queries |-> 5 * Micro, dirty |-> FALSE,
   servers |-> "", keepalive |-> <<0, 7200, 75, 10>>, plain |-> <<>>]

ChannelDefaults ==
  [maxFrame |-> 0, lfo |-> -1, lfl |-> 4, adjust |-> 0, strip |-> 0,
   lhost |-> "", lport |-> 0, host |-> "", port |-> 0, hostDirty |-> FALSE, portDirty |-> FALSE,
   seen |-> <<"", 0>>, mcast |-> FALSE, loopback |-> FALSE, group |-> "", flags |-> {}, kcp |-> <<>>, plain |-> <<>>]

OptInit == opts = [svc |-> ServiceDefaults, chn |-> ChannelDefaults, calls |-> 0, pc |-> "defined", amiss |-> {}]

(* A call through a front-end. The C interface does nothing for an option  *)
(* it does not know.                                                       *)
CallOption(f, o, a) ==
  LET next == [opts EXCEPT !.calls = @ + 1] IN
  /\ opts.pc = "defined" /\ opts.calls < OptCalls
  /\ opts' = IF f = "ni" /\ Passes(f, o) = NoCall THEN next
             ELSE IF ~WellPassed(f, o) THEN [next EXCEPT !.pc = "undefined", !.amiss = @ \cup {<<f, o>>}]
             ELSE LET did == SetOption(next, o, Received(f, o, a)) IN
                  IF did = SetOption(next, o, a) THEN did
                  ELSE [did EXCEPT !.amiss = @ \cup {<<f, o>>}]

(* do_resolve has looked at the host and the port.                         *)
OptResolved ==
  /\ opts.chn.hostDirty \/ opts.chn.portDirty
  /\ opts' = [opts EXCEPT !.chn.hostDirty = FALSE, !.chn.portDirty = FALSE,
                          !.chn.seen = <<opts.chn.host, opts.chn.port>>]

OptNext ==
  \/ OptResolved
  \/ \E f \in {"cpp", "ni", "sol", "kaguya", "jsb", "jsb20"} :
       \E o \in Exports(f) : \E a \in Arguments(o) : CallOption(f, o, a)

-----------------------------------------------------------------------------
(* A script's call of an option it can name does what the same call does   *)
(* in C++: every argument is passed, in its place and as its type. Two     *)
(* groups of calls do not: Lua (sol) exports four KCP options and passes   *)
(* only the channel, and the C interface takes the servers of DNS_LIST     *)
(* from the second field.                                                  *)
FrontendsAgree ==
  opts.amiss \subseteq ({"sol"} \X KcpNames) \cup {<<"ni", "DNS_LIST">>}

(* Whatever integers are passed, the length field has 1 to 4 bytes and the *)
(* strip is what the buffer can bear.                                      *)
UnpackBounded == opts.chn.lfl \in 1..4 /\ opts.chn.strip \in 0..OptMaxStrip

(* A host or port that is not the one do_resolve last looked at is flagged *)
(* for it, through any sequence of settings.                               *)
ChangesFlagged ==
  /\ opts.chn.host # opts.chn.seen[1] => opts.chn.hostDirty
  /\ opts.chn.port # opts.chn.seen[2] => opts.chn.portDirty

(* Options mean the same from every language, stay within bounds, and no   *)
(* change of address goes unseen.                                          *)
OptionsExact == FrontendsAgree /\ UnpackBounded /\ ChangesFlagged
=============================================================================
