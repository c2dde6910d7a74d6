----------------------------- MODULE SslStream -----------------------------
(***************************************************************************)
(* Reading a TLS stream: the record layer of OpenSSL or mbedTLS, behind    *)
(* the read callback that asks it only when the socket was reported        *)
(* readable, and unpack behind that.  A record is decrypted as a whole;    *)
(* what does not fit into buffer_ stays in the library, where poll cannot  *)
(* see it.  Bytes are counted; Unpacker says which they are.               *)
(***************************************************************************)
EXTENDS Integers, Sequences

CONSTANTS
  TlsRoom,     \* the size of buffer_
  TlsRecords,  \* record lengths a peer uses
  TlsPackets,  \* packet lengths a peer uses
  TlsCount,    \* bound: records of a stream
  Flights      \* messages of the peer's handshake

ASSUME SslAssumption ==
  /\ TlsRoom \in Nat \ {0} /\ TlsCount \in Nat /\ Flights \in Nat
  /\ TlsRecords \subseteq Nat \ {0} /\ TlsPackets \subseteq Nat \ {0}

VARIABLES
  library,  \* "openssl" or "mbedtls"
  inbound,  \* records still to come, as [k, n]
  kern,     \* records in the kernel
  held,     \* decrypted bytes in the library
  off,      \* offset_: bytes in buffer_
  size,     \* expected_size_, 0 between packets
  part,     \* bytes of the packet in expected_packet_
  whole,    \* bytes of the packets delivered
  ready,    \* revents_ has the socket as readable
  nowait,   \* wait_duration_ is 0
  tls,      \* "shaking", "open" or "closed"
  why,      \* error_ when closed
  turn,     \* "poll" or "read"
  used      \* bytes read from the library

tlsvars == <<library, inbound, kern, held, off, size, part, whole, ready, nowait, tls, why, turn, used>>

Item == [k : {"hello", "data", "notify", "reset"}, n : Nat]
Hello == [k |-> "hello", n |-> 0]
Ends == {[k |-> "notify", n |-> 0], [k |-> "reset", n |-> 0]}

Arriving ==
  /\ inbound # <<>>
  /\ kern' = Append(kern, Head(inbound)) /\ inbound' = Tail(inbound)
  /\ UNCHANGED <<library, held, off, size, part, whole, ready, nowait, tls, why, turn, used>>

(* poll_io, skipped while wait_duration_ is 0: then revents_ is what it    *)
(* was.                                                                    *)
Wait ==
  /\ turn = "poll" /\ tls # "closed" /\ (nowait \/ kern # <<>>)
  /\ turn' = "read"
  /\ ready' = IF nowait THEN ready ELSE TRUE
  /\ nowait' = FALSE
  /\ UNCHANGED <<library, inbound, kern, held, off, size, part, whole, tls, why, used>>

(* The results of yssl_do_handshake, as do_ssl_handshake uses them.  What  *)
(* would block wakes the loop, so that it does not sleep before the        *)
(* handshake is over; mbedTLS stops after every message.                   *)
Handshakes ==
  /\ turn = "read" /\ tls = "shaking" /\ turn' = "poll"
  /\ \/ /\ kern = <<>> /\ nowait' = TRUE
        /\ UNCHANGED <<kern, tls, why>>
     \/ /\ kern # <<>> /\ Head(kern).k = "hello" /\ kern' = Tail(kern)
        /\ LET last == \A i \in DOMAIN inbound : inbound[i].k # "hello"
               over == last /\ (kern' = <<>> \/ Head(kern').k # "hello")
           IN  /\ tls' = IF over THEN "open" ELSE tls
               /\ nowait' = (nowait \/ ~over)
        /\ UNCHANGED why
     \/ /\ kern # <<>> /\ Head(kern).k \in {"notify", "reset"}
        /\ tls' = "closed" /\ why' = "ssl_handshake_failed"
        /\ UNCHANGED <<kern, nowait>>
  /\ UNCHANGED <<library, inbound, held, off, size, part, whole, ready, used>>

(* yssl_read: a close_notify is the end of the stream for both; a broken   *)
(* connection is the end for OpenSSL, whose error queue is empty then, and *)
(* a failure for mbedTLS.                                                  *)
Reason(r) ==
  IF r.k = "notify" \/ library = "openssl" THEN "eof" ELSE "ssl_read_failed"

SleepsOnRest(avail, p) ==
  IF part + avail < p
  THEN off' = 0 /\ part' = part + avail /\ size' = p /\ UNCHANGED <<whole, nowait>>
  ELSE /\ off' = part + avail - p /\ part' = 0 /\ size' = 0 /\ whole' = whole + p
       /\ UNCHANGED nowait

(* unpack: one packet a turn; more behind it, and the loop does not sleep. *)
Unpacks(avail, p) ==
  IF part + avail < p
  THEN off' = 0 /\ part' = part + avail /\ size' = p /\ UNCHANGED <<whole, nowait>>
  ELSE /\ off' = part + avail - p /\ part' = 0 /\ size' = 0 /\ whole' = whole + p
       /\ nowait' = (part + avail > p)

Receives(n) ==
  /\ used' = used + n
  /\ IF off + n = 0 THEN UNCHANGED <<off, size, part, whole, nowait>>
     ELSE IF size > 0 THEN Unpacks(off + n, size)
     ELSE \E p \in TlsPackets : Unpacks(off + n, p)

Least(a, b) == IF a < b THEN a ELSE b

(* The read callback: asked without readiness it would block.              *)
ReadsNothing ==
  /\ ~ready \/ (held = 0 /\ kern = <<>>)
  /\ Receives(0)
  /\ UNCHANGED <<kern, held, tls, why>>

ReadsHeld ==
  /\ ready /\ held > 0
  /\ LET n == Least(held, TlsRoom - off) IN
     held' = held - n /\ Receives(n)
  /\ UNCHANGED <<kern, tls, why>>

ReadsRecord ==
  /\ ready /\ held = 0 /\ kern # <<>> /\ Head(kern).k = "data"
  /\ kern' = Tail(kern)
  /\ LET n == Least(Head(kern).n, TlsRoom - off) IN
     held' = Head(kern).n - n /\ Receives(n)
  /\ UNCHANGED <<tls, why>>

ReadsEnd ==
  /\ ready /\ held = 0 /\ kern # <<>> /\ Head(kern) \in Ends
  /\ tls' = "closed" /\ why' = Reason(Head(kern))
  /\ UNCHANGED <<kern, held, off, size, part, whole, nowait, used>>

Reads ==
  /\ turn = "read" /\ tls = "open" /\ turn' = "poll"
  /\ ReadsNothing \/ ReadsHeld \/ ReadsRecord \/ ReadsEnd
  /\ UNCHANGED <<library, inbound, ready>>

(* The peer's handshake, then records of data. *)
Hellos == [i \in 1..Flights |-> Hello]
Inbounds ==
  {Hellos \o body : body \in UNION {[1..m -> [k : {"data"}, n : TlsRecords]] : m \in 0..TlsCount}}

SslInit ==
  /\ library \in {"openssl", "mbedtls"}
  /\ \E s \in Inbounds, e \in {<<>>} \cup {<<x>> : x \in Ends} : inbound = s \o e
  /\ kern = <<>> /\ held = 0 /\ off = 0 /\ size = 0 /\ part = 0 /\ whole = 0
  /\ ready = FALSE /\ nowait = TRUE /\ tls = "shaking" /\ why = "none"
  /\ turn = "poll" /\ used = 0

SslLoop == Wait \/ Handshakes \/ Reads
SslNext == Arriving \/ SslLoop

(* The loop runs; nothing says that more will arrive.                      *)
SslSpec == SslInit /\ [][SslNext]_tlsvars /\ WF_tlsvars(SslLoop)

-----------------------------------------------------------------------------
(* Types; no turn begins with a full buffer, into which nothing could be   *)
(* read: that would look like the end of the stream.                       *)
SslTypeOK ==
  /\ inbound \in Seq(Item) /\ kern \in Seq(Item)
  /\ held \in Nat /\ off \in 0..TlsRoom /\ size \in Nat /\ part \in Nat
  /\ whole \in Nat /\ used \in Nat
  /\ nowait \in BOOLEAN /\ ready \in BOOLEAN
  /\ tls \in {"shaking", "open", "closed"} /\ turn \in {"poll", "read"}
  /\ tls = "open" /\ turn = "read" => off < TlsRoom

(* The application has every byte the library gave out, in whole packets,  *)
(* but for what is in buffer_ or in the packet under way.                  *)
TlsBytesExact == whole + part + off = used

(* The library's rest is never out of sight: the loop reads before it      *)
(* sleeps whenever decrypted bytes remain, as long as every packet is      *)
(* shorter than buffer_.                                                   *)
NothingHidden == tls = "open" /\ turn = "poll" /\ held > 0 => nowait /\ ready

(* The end of a session is met only when the library has nothing left, and *)
(* is not a failure if the peer announced it.  It does not wait for unpack,*)
(* which cuts one packet a turn: what the application has not been given   *)
(* then is the packet under way and what buffer_ holds, less than a        *)
(* buffer, complete packets among it.                                      *)
EndIsLast ==
  tls = "closed" /\ why # "ssl_handshake_failed" =>
    /\ held = 0 /\ used - whole = off + part /\ off < TlsRoom
    /\ Head(kern).k = "notify" => why = "eof"

(* Unless the session ends, everything that has arrived is read and cut    *)
(* into packets in the end; only a packet that has not come whole is kept. *)
TlsDrained ==
  []<>(tls = "closed" \/ (held = 0 /\ kern = <<>> /\ off = 0 /\ (part = 0 \/ part < size)))

(* What the record layer gave out is accounted for, nothing waits where    *)
(* poll cannot see it, and the end finds the library empty.                *)
SslSafe == SslTypeOK /\ TlsBytesExact /\ NothingHidden /\ EndIsLast
=============================================================================
