---------------------------- MODULE Interrupter ----------------------------
(***************************************************************************)
(* The descriptors of the three interrupters: opened when the watcher is   *)
(* made, closed and opened again by recreate, closed at the end. An        *)
(* eventfd is both ends in one and falls back to a pipe; the one made of   *)
(* sockets connects to a listener of its own on the loopback address,      *)
(* where any other process of the machine may be faster.                   *)
(***************************************************************************)
EXTENDS Integers, FiniteSets, Sequences

CONSTANT IntrMax   \* bound: times the descriptors are opened

ASSUME InterrupterAssumption == IntrMax \in Nat

Unopened == -1

VARIABLE it
  (* kind; pc; rd, wr: the two ends; open: descriptors open; nonblock: of   *)
  (* them; backlog: who has connected to the listener; peer: who is at the  *)
  (* other end of rd; temp: sockets of open_descriptors' own; next: the     *)
  (* number of the next descriptor; stray: a close of what was not open     *)

intrvars == <<it>>

NewIds(k) == it.next..(it.next + k - 1)
Opening(r, ids) == [r EXCEPT !.open = @ \cup ids, !.next = @ + Cardinality(ids)]
Closing(r, ids) == [r EXCEPT !.open = @ \ ids, !.nonblock = @ \ ids, !.stray = @ \/ ~(ids \subseteq r.open)]

(* yasio__throw_error: the sockets of open_descriptors are closed as the   *)
(* stack unwinds.                                                          *)
Throws(r) == [Closing(r, r.temp) EXCEPT !.pc = "thrown", !.temp = {}, !.backlog = <<>>]

(* pipe: both ends or none.                                                *)
PipeOpens ==
  LET rd == it.next  wr == it.next + 1 IN
  /\ it.pc = "pipe"
  /\ \/ it' = [Opening(it, NewIds(2)) EXCEPT !.pc = "ready", !.rd = rd, !.wr = wr, !.peer = wr,
                                          !.nonblock = @ \cup {rd, wr}]
     \/ it' = Throws(it)

(* eventfd with the flags, again without them if the kernel knows none     *)
(* (EINVAL), and a pipe if it has no eventfd.                              *)
EventfdOpens ==
  /\ it.pc = "eventfd"
  /\ \/ it' = [Opening(it, NewIds(1)) EXCEPT !.pc = "ready", !.rd = it.next, !.wr = it.next, !.peer = it.next,
                                          !.nonblock = @ \cup {it.next}]
     \/ it' = [it EXCEPT !.pc = "plain"]
     \/ it' = [it EXCEPT !.pc = "pipe"]

EventfdPlain ==
  /\ it.pc = "plain"
  /\ \/ it' = [Opening(it, NewIds(1)) EXCEPT !.pc = "ready", !.rd = it.next, !.wr = it.next, !.peer = it.next,
                                          !.nonblock = @ \cup {it.next}]
     \/ it' = [it EXCEPT !.pc = "pipe"]

(* The sockets: a listener, bound and listening, a client that connects,   *)
(* and whoever the listener accepts first.                                 *)
SocketListens ==
  /\ it.pc = "socket"
  /\ LET r == [Opening(it, NewIds(1)) EXCEPT !.temp = NewIds(1)] IN
     it' = [r EXCEPT !.pc = "listening"] \/ it' = Throws(r)

Stranger ==
  /\ it.pc \in {"listening", "accepting"} /\ Len(it.backlog) < 2
  /\ it' = [it EXCEPT !.backlog = Append(@, 0)]

SocketConnects ==
  /\ it.pc = "listening"
  /\ LET r == [Opening(it, NewIds(1)) EXCEPT !.temp = @ \cup NewIds(1)] IN
     \/ it' = [r EXCEPT !.pc = "accepting", !.wr = it.next, !.backlog = Append(@, it.next)]
     \/ it' = Throws(r)

SocketAccepts ==
  /\ it.pc = "accepting"
  /\ \/ LET r == Opening(it, NewIds(1)) IN
        it' = [Closing(r, it.temp \ {it.wr}) EXCEPT
                 !.pc = "ready", !.rd = it.next, !.peer = Head(it.backlog), !.temp = {}, !.backlog = <<>>,
                 !.nonblock = @ \cup {it.next, it.wr}]
     \/ it' = [Throws(it) EXCEPT !.wr = Unopened]

CloseOne(r, d) == IF d = Unopened THEN r ELSE Closing(r, {d})

(* An eventfd is closed once: the number stands for both ends.             *)
EventfdCloses(r) == CloseOne(IF r.wr = r.rd THEN r ELSE CloseOne(r, r.wr), r.rd)
PipeCloses(r) == CloseOne(CloseOne(r, r.rd), r.wr)
SocketCloses(r) == CloseOne(CloseOne(r, r.rd), r.wr)

CloseDescriptors(r) ==
  CASE r.kind = "eventfd" -> EventfdCloses(r)
    [] r.kind = "pipe" -> PipeCloses(r)
    [] r.kind = "socket" -> SocketCloses(r)

(* A constructor that threw leaves no object; a recreate that threw leaves *)
(* one whose two numbers stand for nothing.                                *)
Exists == it.pc = "ready" \/ (it.pc = "thrown" /\ it.opens > 1)

IntrRecreate ==
  /\ Exists /\ it.opens < IntrMax
  /\ it' = [CloseDescriptors(it) EXCEPT !.pc = it.kind, !.rd = Unopened, !.wr = Unopened, !.opens = @ + 1]

IntrDestroy ==
  /\ Exists
  /\ it' = [CloseDescriptors(it) EXCEPT !.pc = "gone"]

IntrInit ==
  \E k \in {"eventfd", "pipe", "socket"} :
    it = [kind |-> k, pc |-> k, rd |-> Unopened, wr |-> Unopened, open |-> {}, nonblock |-> {},
          backlog |-> <<>>, peer |-> Unopened, temp |-> {}, next |-> 1, stray |-> FALSE, opens |-> 1]

IntrNext ==
  \/ PipeOpens \/ EventfdOpens \/ EventfdPlain
  \/ SocketListens \/ Stranger \/ SocketConnects \/ SocketAccepts
  \/ IntrRecreate \/ IntrDestroy

-----------------------------------------------------------------------------
(* Through every failure of a system call in open_descriptors, and through *)
(* recreate, the interrupter owns its two ends and nothing else: none is   *)
(* leaked, none closed twice (the eventfd is both ends), both ends never   *)
(* block, and what is written at one is read at the other unless a         *)
(* stranger was accepted in the client's place.                            *)
InterrupterKept ==
  /\ ~it.stray
  /\ it.pc = "ready" => /\ it.open = {it.rd, it.wr} /\ it.nonblock = it.open
                        /\ it.peer \in {it.wr, 0}
                        /\ it.peer = 0 => it.kind = "socket"
  /\ it.pc \in {"thrown", "gone"} => it.open = {}
=============================================================================
