----------------------------- MODULE ByteStream ------------------------------
(***************************************************************************)
(* obstream and ibstream: integers 7 bits at a time, fixed width integers  *)
(* in network or host order, integers of 1 to sizeof(int) bytes, blobs     *)
(* behind a length, and frames whose length is patched in afterwards, on a *)
(* buffer that grows or a fixed one.  Widths are parameters: a byte has    *)
(* Group + 1 bits, an int IntBytes bytes.                                  *)
(***************************************************************************)
EXTENDS Integers, Sequences, SequencesExt

CONSTANTS
  Group,      \* payload bits of a byte of a 7-bit integer (7)
  IntBytes,   \* sizeof(int)
  Extent,     \* size of the fixed buffer
  IntSamples, \* integers written
  Blobs,      \* byte strings written
  MaxWrites,  \* bound on the values in a stream
  MaxSeekable \* and in one that is read out of order

ASSUME StreamAssumption ==
  /\ Group \in Nat \ {0} /\ IntBytes \in Nat \ {0} /\ Extent \in Nat
  /\ MaxWrites \in Nat /\ MaxSeekable \in Nat

High == 2^Group
Radix == 2 * High
Width == (Group + 1) * IntBytes
Modulus == 2^Width

Unsigned(v) == v % Modulus
Signed(u) == IF u >= Modulus \div 2 THEN u - Modulus ELSE u

(***************************************************************************)
(* 7-bit integers.                                                         *)
(***************************************************************************)
(* write_ix: groups, low first, all but the last with the high bit.        *)
IxBytes[u \in Nat] == IF u < High THEN <<u>> ELSE <<(u % High) + High>> \o IxBytes[u \div High]

(* read_ix at position p: the bytes that cannot overflow, then one whose   *)
(* value must fit in the bits that are left.                               *)
FreeBytes == Width \div Group
LastLimit == 2^(Width - FreeBytes * Group)

GroupSum[s \in Seq(Nat)] == IF s = <<>> THEN 0 ELSE (Head(s) % High) + High * GroupSum[Tail(s)]

Failed == [ok |-> FALSE, v |-> 0, n |-> 0]

ReadIx(s, p) ==
  LET ends == {i \in 1..(FreeBytes + 1) :
                 p + i <= Len(s) /\ s[p + i] < (IF i <= FreeBytes THEN High ELSE LastLimit)} IN
  IF ends = {} THEN Failed
  ELSE LET n == CHOOSE i \in ends : \A j \in ends : i <= j IN
       [ok |-> TRUE, v |-> Signed(GroupSum[SubSeq(s, p + 1, p + n)]), n |-> n]

(***************************************************************************)
(* Byte order.                                                             *)
(***************************************************************************)
(* An int as the bytes of a little-endian host's memory, and back.         *)
Memory(u) == [i \in 1..IntBytes |-> (u \div Radix^(i - 1)) % Radix]
FromMemory[s \in Seq(Nat)] == IF s = <<>> THEN 0 ELSE Head(s) + Radix * FromMemory[Tail(s)]

(* htonl and ntohl.                                                        *)
HostToNetwork(u) == FromMemory[Reverse(Memory(u))]

(* host_to_network(value, size), and network_to_host(value, size).         *)
ToInt(order, u, size) ==
  IF order = "host" THEN u ELSE HostToNetwork(u) \div Radix^(IntBytes - size)

Clamp(size) == IF size < 1 THEN 1 ELSE IF size > IntBytes THEN IntBytes ELSE size

(* write_varint and read_varint; at full size they are write and read.     *)
VarintBytes(order, v, size) == SubSeq(Memory(ToInt(order, Unsigned(v), Clamp(size))), 1, Clamp(size))

ReadVarint(order, s, p, size) ==
  LET n == Clamp(size) IN
  IF p + n > Len(s) THEN Failed
  ELSE [ok |-> TRUE, n |-> n, v |-> Signed(ToInt(order, FromMemory[SubSeq(s, p + 1, p + n)], n))]

(***************************************************************************)
(* The writer.                                                             *)
(***************************************************************************)
VARIABLES
  order,   \* convert_traits: "network" or "host"
  fixed,   \* the buffer is a fixed_buffer_span
  phase,   \* "write", "read", "seek", "thrown"
  out,     \* the bytes
  open,    \* the frames pushed and not popped: offset, place in script
  script,  \* what was written: kind, int or blob
  lost,    \* write_byte found a fixed buffer full and said nothing
  pos,     \* ptr_ - first_
  got,     \* what was read
  took     \* the last range consume gave out

bytevars == <<order, fixed, phase, out, open, script, lost, pos, got, took>>

(* write_byte, which drops what has no room, and write_bytes and           *)
(* fill_bytes, which throw.                                                *)
Put(st, chunk) ==
  IF ~st.ok \/ chunk.b = <<>> THEN st
  ELSE IF ~fixed \/ Len(st.out) + Len(chunk.b) <= Extent THEN [st EXCEPT !.out = @ \o chunk.b]
  ELSE IF chunk.single THEN [st EXCEPT !.lost = TRUE] ELSE [st EXCEPT !.ok = FALSE]

Singles(s) == [i \in DOMAIN s |-> [single |-> TRUE, b |-> <<s[i]>>]]
Block(s) == <<[single |-> FALSE, b |-> s]>>

Written(kind, v) ==
  CASE kind = "ix" -> Singles(IxBytes[Unsigned(v[1])])
    [] kind = "fixed" -> Block(VarintBytes(order, v[1], IntBytes))
    [] kind = "var" -> Block(VarintBytes(order, v[1], 1))
    [] kind = "blob" -> Singles(IxBytes[Len(v)]) \o Block(v)
    [] kind = "blob8" -> Block(<<Len(v)>>) \o Block(v)
    [] kind = "frame" -> Block(VarintBytes(order, 0, IntBytes))

Write(kind, v) ==
  /\ phase = "write" /\ Len(script) < MaxWrites
  /\ LET st == FoldLeft(Put, [out |-> out, ok |-> TRUE, lost |-> lost], Written(kind, v)) IN
     /\ out' = st.out /\ lost' = st.lost
     /\ phase' = IF st.ok THEN phase ELSE "thrown"
     /\ script' = IF st.ok THEN Append(script, [k |-> kind, v |-> v]) ELSE script
  /\ open' = IF kind = "frame" THEN Append(open, [off |-> Len(out), at |-> Len(script) + 1]) ELSE open
  /\ UNCHANGED <<order, fixed, pos, got, took>>

PopCountsItself ==
  /\ phase = "write" /\ open # <<>>
  /\ LET off == Last(open).off
         len == VarintBytes(order, Len(out) - off, IntBytes) IN
     /\ out' = [i \in DOMAIN out |-> IF i \in (off + 1)..(off + IntBytes) THEN len[i - off] ELSE out[i]]
     /\ script' = Append(script, [k |-> "end", v |-> <<Last(open).at>>])
  /\ open' = Front(open)
  /\ UNCHANGED <<order, fixed, phase, lost, pos, got, took>>

(* pop: the length of what followed the push goes to where the push was.   *)
Pop ==
  /\ phase = "write" /\ open # <<>>
  /\ LET off == Last(open).off
         len == VarintBytes(order, Len(out) - off - IntBytes, IntBytes) IN
     /\ out' = [i \in DOMAIN out |-> IF i \in (off + 1)..(off + IntBytes) THEN len[i - off] ELSE out[i]]
     /\ script' = Append(script, [k |-> "end", v |-> <<Last(open).at>>])
  /\ open' = Front(open)
  /\ UNCHANGED <<order, fixed, phase, lost, pos, got, took>>

(***************************************************************************)
(* The reader, value by value, or anywhere in the stream.                  *)
(***************************************************************************)
StartReading ==
  /\ phase = "write" /\ open = <<>>
  /\ phase' \in {"read"} \cup (IF Len(script) <= MaxSeekable THEN {"seek"} ELSE {})
  /\ UNCHANGED <<order, fixed, out, open, script, lost, pos, got, took>>

(* consume: n bytes, or std::out_of_range.                                 *)
Bytes(p, n) ==
  IF p + n > Len(out) THEN [ok |-> FALSE, v |-> <<>>, n |-> 0]
  ELSE [ok |-> TRUE, v |-> SubSeq(out, p + 1, p + n), n |-> n]

(* A length, then as many bytes: read_v and read_v_fx.                     *)
Sized(r) ==
  IF ~r.ok THEN r
  ELSE LET b == Bytes(pos + r.n, IF r.v > 0 THEN r.v ELSE 0) IN [b EXCEPT !.n = @ + r.n]

AsTuple(r) == [r EXCEPT !.v = <<@>>]

Reads(kind) ==
  CASE kind = "ix" -> AsTuple(ReadIx(out, pos))
    [] kind \in {"fixed", "frame"} -> AsTuple(ReadVarint(order, out, pos, IntBytes))
    [] kind = "var" -> AsTuple(ReadVarint(order, out, pos, 1))
    [] kind = "blob" -> Sized(ReadIx(out, pos))
    [] kind = "blob8" -> Sized([ok |-> pos < Len(out), n |-> 1, v |-> IF pos < Len(out) THEN out[pos + 1] ELSE 0])
    [] kind = "end" -> [ok |-> TRUE, v |-> <<>>, n |-> 0]

Read ==
  /\ phase = "read" /\ Len(got) < Len(script)
  /\ LET k == script[Len(got) + 1].k
         r == Reads(k) IN
     /\ pos' = pos + r.n /\ took' = <<pos, pos + r.n>>
     /\ got' = Append(got, [k |-> k, v |-> IF r.ok THEN r.v ELSE <<"failed">>, at |-> pos + r.n])
  /\ UNCHANGED <<order, fixed, phase, out, open, script, lost>>

(* seek clamps what is relative to the cursor only; advance never does.    *)
SeekTo(off, whence) ==
  CASE whence = "cur" -> IF pos + off < 0 THEN 0 ELSE IF pos + off > Len(out) THEN Len(out) ELSE pos + off
    [] whence = "end" -> Len(out) - off
    [] whence = "set" -> off
    [] whence = "advance" -> pos + off

SeekAndRead ==
  /\ phase = "seek"
  /\ \/ \E off \in -2..3, whence \in {"cur", "end", "set", "advance"} :
          pos \in 0..Len(out) /\ pos' = SeekTo(off, whence) /\ UNCHANGED took
     \/ \E n \in 1..2 : pos + n <= Len(out) /\ pos' = pos + n /\ took' = <<pos, pos + n>>
  /\ UNCHANGED <<order, fixed, phase, out, open, script, lost, got>>

StreamInit ==
  /\ order \in {"network", "host"} /\ fixed \in BOOLEAN
  /\ phase = "write" /\ out = <<>> /\ open = <<>> /\ script = <<>> /\ lost = FALSE
  /\ pos = 0 /\ got = <<>> /\ took = <<0, 0>>

StreamNext ==
  \/ \E v \in IntSamples, k \in {"ix", "fixed", "var"} : Write(k, <<v>>)
  \/ \E b \in Blobs, k \in {"blob", "blob8"} : Write(k, b)
  \/ Write("frame", <<>>)
  \/ Pop \/ StartReading \/ Read \/ SeekAndRead

StreamSpec == StreamInit /\ [][StreamNext]_bytevars

-----------------------------------------------------------------------------
StreamTypeOK ==
  /\ \A i \in DOMAIN out : out[i] \in 0..(Radix - 1)
  /\ fixed => Len(out) <= Extent

(* What is read back, in either order and on either buffer, is what was    *)
(* written, value by value, unless a fixed buffer dropped a byte; an       *)
(* integer of fewer bytes comes back modulo its width, a frame as the      *)
(* distance to its end.                                                    *)
ReadsBack ==
  lost \/ \A i \in DOMAIN got :
    CASE got[i].k = "var" -> got[i].v = <<script[i].v[1] % Radix>>
      [] got[i].k = "frame" -> TRUE
      [] got[i].k = "end" -> LET f == got[script[i].v[1]] IN got[i].at = f.at + f.v[1]
      [] OTHER -> got[i].v = script[i].v

(* Whatever was seeked to, a read that does not throw ends inside.         *)
NoReadPastEnd == took[2] <= Len(out)

(* read_ix takes exactly the encodings write_ix makes and longer ones of   *)
(* the same value: no accepted bytes stand for a value that does not fit.  *)
IxExact ==
  phase = "write" /\ script = <<>> /\ ~fixed /\ order = "host" =>
    /\ \A u \in 0..(Modulus - 1) :
         LET s == IxBytes[u] IN ReadIx(s, 0) = [ok |-> TRUE, v |-> Signed(u), n |-> Len(s)]
    /\ \A s \in UNION {[1..n -> 0..(Radix - 1)] : n \in 1..(FreeBytes + 1)} :
         ReadIx(s, 0).ok => GroupSum[SubSeq(s, 1, ReadIx(s, 0).n)] < Modulus

(* A short integer is the low digits of the value, most significant first  *)
(* on the network.                                                         *)
VarintExact ==
  phase = "write" /\ script = <<>> /\ ~fixed =>
    \A u \in 0..(Modulus - 1), size \in 0..(IntBytes + 1) :
      LET s == VarintBytes(order, u, size)
          digits == SubSeq(Memory(u), 1, Clamp(size)) IN
      s = (IF order = "host" THEN digits ELSE Reverse(digits))

(* A stream of values, nested length prefixes and blobs reads back, no     *)
(* read runs past the end, and the variable-length forms are exact.        *)
StreamExact == StreamTypeOK /\ ReadsBack /\ NoReadPastEnd /\ IxExact /\ VarintExact
=============================================================================
