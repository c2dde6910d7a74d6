---- MODULE Unpacker ----
(***************************************************************************)
(* Cutting a TCP byte stream into packets by a length field: do_read,      *)
(* call_read, unpack and __builtin_decode_len.  A byte is <<k, j>>, byte j *)
(* of frame k, so that a byte that is lost, doubled or put into the wrong  *)
(* packet shows.  recv() returns any number of the bytes that have         *)
(* arrived.  The peer may announce any length, and end or reset the        *)
(* connection at any byte.  The pass-through modes (no length field,       *)
(* forward_packet_) cut nothing and are left out.                          *)
(***************************************************************************)
EXTENDS Integers, Sequences, SequencesExt

CONSTANTS NFrames,     \* frames the peer sends
          Sizes,       \* their lengths, as announced in their length fields
          HeaderEnd,   \* length_field_offset + length_field_length
          Strip,       \* initial_bytes_to_strip
          MaxFrame,    \* max_frame_length
          BufSize      \* yasio__max_rcvbuf

ASSUME UnpackAssumption ==
  /\ NFrames \in Nat /\ HeaderEnd \in Nat \ {0} /\ Strip \in Nat
  /\ MaxFrame \in Nat /\ BufSize \in Nat /\ BufSize >= HeaderEnd
  /\ Sizes \subseteq Int

VARIABLES frames,    \* the announced length of each frame
          arrived,   \* bytes of the stream the kernel has received
          end,       \* none, or the peer's fin or reset behind them
          taken,     \* bytes the loop has read
          readable,  \* revents_ has the socket as readable
          buf,       \* buffer_[0 .. offset_)
          expected,  \* expected_size_, -1 between packets
          pkt,       \* expected_packet_
          wait0,     \* wait_duration_ is 0: the next poll is skipped
          out,       \* packets fired as events
          upc        \* the loop; "failed" is a close with invalid_packet,
                     \* "ended" one with eof or the socket's error, and
                     \* "aborted" an exception out of pod_vector::insert

uvars == <<frames, arrived, end, taken, readable, buf, expected, pkt, wait0, out, upc>>

(* A frame has its header on the wire, whatever length that announces.     *)
Wire(k) == IF frames[k] > HeaderEnd THEN frames[k] ELSE HeaderEnd
Bytes(k) == [j \in 1 .. Wire(k) |-> <<k, j>>]
Stream == FlattenSeq([k \in 1 .. NFrames |-> Bytes(k)])
Byte == {b \in (1 .. NFrames) \X Nat : b[2] \in 1 .. Wire(b[1])}

UnpackTypeOK ==
  /\ frames \in [1 .. NFrames -> Sizes]
  /\ arrived \in 0 .. Len(Stream) /\ taken \in 0 .. arrived
  /\ end \in {"none", "fin", "reset"}
  /\ readable \in BOOLEAN /\ wait0 \in BOOLEAN
  /\ \A i \in DOMAIN buf : buf[i] \in Byte
  /\ \A i \in DOMAIN pkt : pkt[i] \in Byte
  /\ Len(buf) <= BufSize
  /\ expected = -1 \/ expected \in Strip .. MaxFrame
  /\ Len(pkt) <= MaxFrame
  /\ Len(out) + Len(buf) <= taken
  /\ upc \in {"poll", "read", "failed", "ended", "aborted"}

UnpackInit ==
  /\ frames \in [1 .. NFrames -> Sizes]
  /\ arrived = 0 /\ end = "none" /\ taken = 0 /\ readable = FALSE
  /\ buf = << >> /\ expected = -1 /\ pkt = << >>
  /\ wait0 = FALSE /\ out = << >> /\ upc = "poll"

---------------------------------------------------------------------------
(* The peer. *)
Arrive ==
  /\ end = "none" /\ arrived < Len(Stream) /\ arrived' = arrived + 1
  /\ UNCHANGED <<frames, end, taken, readable, buf, expected, pkt, wait0, out, upc>>

PeerEnds ==
  /\ end = "none" /\ end' \in {"fin", "reset"}
  /\ UNCHANGED <<frames, arrived, taken, readable, buf, expected, pkt, wait0, out, upc>>

---------------------------------------------------------------------------
(* The loop. *)

(* It sleeps until something arrives, unless work is left over; then the   *)
(* poll is skipped and revents_ is what it was.                            *)
UnpackPoll ==
  /\ upc = "poll" /\ upc' = "read"
  /\ wait0 \/ arrived > taken \/ end # "none"
  /\ readable' = IF wait0 THEN readable ELSE TRUE
  /\ wait0' = FALSE
  /\ UNCHANGED <<frames, arrived, end, taken, buf, expected, pkt, out>>

(* It may also wake for another descriptor, a timer or a wakeup. *)
OtherTurn ==
  /\ upc = "poll" /\ upc' = "read"
  /\ ~wait0 /\ arrived = taken /\ end = "none"
  /\ readable' = FALSE
  /\ UNCHANGED <<frames, arrived, end, taken, buf, expected, pkt, wait0, out>>

(* What __builtin_decode_len may return: 0 while the length field is       *)
(* incomplete, as for a length that is announced as 0; -1 beyond           *)
(* max_frame_length; any value for bytes that do not begin a frame.        *)
Decode(b) ==
  IF Len(b) < HeaderEnd THEN {0}
  ELSE IF b[1][2] # 1 THEN -1 .. MaxFrame
  ELSE IF frames[b[1][1]] > MaxFrame THEN {-1}
  ELSE {frames[b[1][1]]}

SleepyUnpack(avail, want, strip, size) ==
  IF strip > Min({want, Len(avail)})
    THEN upc' = "aborted" /\ UNCHANGED <<buf, expected, pkt, wait0, out>>
    ELSE LET body == pkt \o SubSeq(avail, strip + 1, Min({want, Len(avail)})) IN
         /\ upc' = "poll" /\ UNCHANGED wait0
         /\ IF Len(avail) >= want
              THEN /\ buf' = SubSeq(avail, want + 1, Len(avail))
                   /\ out' = Append(out, body) /\ pkt' = << >> /\ expected' = -1
              ELSE /\ buf' = << >> /\ pkt' = body /\ expected' = size
                   /\ UNCHANGED out

(* unpack: move up to `want` bytes into the packet, without the first      *)
(* `strip`; a complete packet is fired, the bytes behind it move to the    *)
(* front of the buffer and the loop does not sleep.                        *)
Unpack(avail, want, strip, size) ==
  IF strip > Min({want, Len(avail)})
    THEN upc' = "aborted" /\ UNCHANGED <<buf, expected, pkt, wait0, out>>
    ELSE LET body == pkt \o SubSeq(avail, strip + 1, Min({want, Len(avail)})) IN
         /\ upc' = "poll"
         /\ IF Len(avail) >= want
              THEN /\ buf' = SubSeq(avail, want + 1, Len(avail))
                   /\ wait0' = (Len(avail) > want)
                   /\ out' = Append(out, body) /\ pkt' = << >> /\ expected' = -1
              ELSE /\ buf' = << >> /\ pkt' = body /\ expected' = size
                   /\ UNCHANGED <<wait0, out>>

(* How many bytes a recv into the rest of the buffer can return; none      *)
(* (EWOULDBLOCK) when the descriptor is not readable or nothing is there.  *)
Received ==
  LET most == Min({arrived - taken, BufSize - Len(buf)}) IN
  IF ~readable THEN {0}
  ELSE IF most > 0 THEN 1 .. most
  ELSE IF arrived = taken /\ end = "none" THEN {0} ELSE {}

(* A length of 0 is taken for an incomplete header and waited on; a        *)
(* negative one, or one below Strip, closes the transport.                 *)
DecodeAndCut(avail, length) ==
  \/ /\ length = 0
     /\ buf' = avail /\ upc' = "poll" /\ UNCHANGED <<expected, pkt, wait0, out>>
  \/ /\ length < 0 \/ length \in 1 .. (Strip - 1)
     /\ upc' = "failed" /\ UNCHANGED <<buf, expected, pkt, wait0, out>>
  \/ /\ length > 0 /\ length >= Strip
     /\ Unpack(avail, length, Strip, length)

CountStripTwice(n) ==
  /\ upc = "read" /\ n \in Received
  /\ taken' = taken + n
  /\ LET avail == buf \o SubSeq(Stream, taken + 1, taken + n) IN
     IF expected # -1 THEN Unpack(avail, expected - Len(pkt), 0, expected)
     ELSE \E length \in Decode(avail) : DecodeAndCut(avail, length)
  /\ UNCHANGED <<frames, arrived, end, readable>>

(* do_read, when recv did not fail. *)
DoRead(n) ==
  /\ upc = "read" /\ n \in Received
  /\ taken' = taken + n
  /\ LET avail == buf \o SubSeq(Stream, taken + 1, taken + n) IN
     IF expected # -1 THEN Unpack(avail, expected - (Len(pkt) + Strip), 0, expected)
     ELSE \E length \in Decode(avail) : DecodeAndCut(avail, length)
  /\ UNCHANGED <<frames, arrived, end, readable>>

(* call_read takes a recv of 0 bytes for the end of the stream.  That is   *)
(* what it returns behind a fin, and for a buffer that is full.  The       *)
(* transport is closed with whatever is in buffer_ and expected_packet_.   *)
ReadFails ==
  /\ upc = "read" /\ readable
  /\ Len(buf) = BufSize \/ end = "reset" \/ (end = "fin" /\ arrived = taken)
  /\ upc' = "ended"
  /\ UNCHANGED <<frames, arrived, end, taken, readable, buf, expected, pkt, wait0, out>>

UnpackLoop == UnpackPoll \/ (\E n \in 0 .. BufSize : DoRead(n)) \/ ReadFails
UnpackNext == Arrive \/ PeerEnds \/ OtherTurn \/ UnpackLoop

(* The loop runs; nothing says that more will arrive, nor that anything    *)
(* else wakes the loop.                                                    *)
UnpackFairness == WF_uvars(UnpackLoop)

UnpackSpec == UnpackInit /\ [][UnpackNext]_uvars
UnpackFairSpec == UnpackSpec /\ UnpackFairness

---------------------------------------------------------------------------
(* Properties. *)

(* The reference: frame k without its first Strip bytes. *)
Packet(k) == SubSeq(Bytes(k), Strip + 1, frames[k])

(* A length that never makes a packet, and one that is not a frame's: the  *)
(* options let a frame count its own header.                               *)
Refused(k) == frames[k] > MaxFrame \/ frames[k] < Strip \/ frames[k] <= 0
Bad(k) == Refused(k) \/ frames[k] < HeaderEnd

Sane(k) == k <= NFrames /\ \A j \in 1 .. k : ~Bad(j)
BadMet == \E k \in 1 .. NFrames : k <= Len(out) + 1 /\ Bad(k)

(* The bytes of the first k frames. *)
StreamEnds == LET e[k \in 0 .. NFrames] == IF k = 0 THEN 0 ELSE e[k - 1] + Wire(k) IN e

(* However the stream is split and coalesced, the packets fired are the    *)
(* frames sent, byte for byte and in order, up to the first bad one: that  *)
(* is fired as long as it announces, cut inside its header, or not at all. *)
(* Nothing is promised of what is fired after it.                          *)
PacketsExact ==
  \A k \in 1 .. Len(out) :
    Sane(k - 1) => k <= NFrames /\ ~Refused(k) /\ out[k] = Packet(k)

(* A transport is closed for an invalid packet only when a frame up to the *)
(* one whose turn it is announced a length that is not a frame's.          *)
FailsOnlyOnBad == upc = "failed" => BadMet

(* A transport is closed for the end of the stream only behind the peer's  *)
(* fin and with everything read that came before it, for a reset, or in    *)
(* the wake of a bad frame: an announced 0 is waited on until the buffer   *)
(* is full, and the recv of 0 bytes is taken for the end.                  *)
EndsRight ==
  upc = "ended" => end = "reset" \/ (end = "fin" /\ taken = arrived) \/ BadMet

(* What was read is in the packets fired or still held; so what a transport*)
(* loses when it is closed is just what buf and pkt hold then.  That can   *)
(* be complete frames: the fin is met before they are cut.                 *)
NothingLost ==
  Sane(Len(out)) /\ upc # "failed" =>
    taken = StreamEnds[Len(out)] + IF expected = -1 THEN Len(buf) ELSE Strip + Len(pkt)

(* No stream, well-formed or not, takes the worker down. *)
NeverAborted == upc # "aborted"

(* A frame that has arrived behind well-formed ones is delivered although  *)
(* nothing more arrives, or the stream has ended.                          *)
AllDelivered ==
  \A k \in 1 .. NFrames :
    []<>(Sane(k) /\ arrived >= StreamEnds[k] => Len(out) >= k \/ upc = "ended")

(* All of this together: whatever the cuts of the stream, what it          *)
(* announces and where it ends, no packet is wrong, no transport closed    *)
(* without a reason, and no byte read but not accounted for.               *)
UnpackSafe ==
  /\ UnpackTypeOK /\ PacketsExact /\ FailsOnlyOnBad /\ EndsRight
  /\ NothingLost /\ NeverAborted
====
