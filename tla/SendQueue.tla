---- MODULE SendQueue ----
(***************************************************************************)
(* Sending on one transport: write() on the application's thread puts      *)
(* operations into send_queue_ and wakes the loop; do_write on the loop's  *)
(* thread sends the oldest one piece by piece, watches for POLLOUT when    *)
(* the kernel's buffer is full, and calls the completion handler.  peek()  *)
(* returns the head with the queue's mutex held until do_write ends.       *)
(*                                                                         *)
(* A poll sleeps for ever here unless something ends it.  The code caps it *)
(* at five minutes; no property may rest on that.                          *)
(***************************************************************************)
EXTENDS Integers, Sequences, FiniteSets

CONSTANTS MaxOps,   \* bound: write() calls in a behaviour
          OpSize,   \* bytes of one operation
          Room      \* bytes the kernel's send buffer holds

ASSUME SendAssumption ==
  MaxOps \in Nat /\ OpSize \in Nat \ {0} /\ Room \in Nat \ {0}

VARIABLES
  udp,        \* a datagram transport: a failed send drops the operation
  queue,      \* send_queue_: operations, numbered in the order they were put in
  offset,     \* io_send_op::offset_ of the head
  open,       \* the transport is open
  pollout,    \* pollout_registerred_
  again,      \* do_write's error is EWOULDBLOCK, EAGAIN or ENOBUFS
  wait0,      \* wait_duration_ is 0: the next poll is skipped
  signalled,  \* the interrupter is armed
  pc,         \* the loop
  call,       \* write() on the application's thread: next step
  calls,      \* write() calls made
  ops,        \* operations put into the queue so far
  room,       \* free bytes in the kernel's buffer
  sent,       \* history: the operation each sent byte belongs to
  done        \* history: completion handlers called, [op, ok]

vars == <<udp, queue, offset, open, pollout, again, wait0, signalled, pc, call,
          calls, ops, room, sent, done>>

TypeOK ==
  /\ queue \in Seq(Nat) /\ offset \in 0 .. OpSize
  /\ udp \in BOOLEAN /\ open \in BOOLEAN /\ pollout \in BOOLEAN /\ again \in BOOLEAN
  /\ wait0 \in BOOLEAN /\ signalled \in BOOLEAN
  /\ pc \in {"poll", "peek", "perform", "complete", "pop", "settle", "tail", "gone"}
  /\ call \in {"none", "emplace", "wakeup"}
  /\ calls \in Nat /\ ops \in Nat
  /\ room \in 0 .. Room
  /\ sent \in Seq(Nat) /\ done \in Seq([op : Nat, ok : BOOLEAN])

Init ==
  /\ udp \in BOOLEAN
  /\ queue = << >> /\ offset = 0 /\ open = TRUE
  /\ pollout = FALSE /\ again = FALSE /\ wait0 = FALSE /\ signalled = FALSE
  /\ pc = "poll" /\ call = "none" /\ calls = 0 /\ ops = 0
  /\ room = Room /\ sent = << >> /\ done = << >>

(* The mutex of send_queue_ is held by the loop. *)
Locked == pc \in {"perform", "complete", "pop", "settle"}

---------------------------------------------------------------------------
(* write(), on the application's thread. *)

WriteRejected ==
  /\ call = "none" /\ calls < MaxOps /\ ~open
  /\ calls' = calls + 1
  /\ UNCHANGED <<udp, queue, offset, open, pollout, again, wait0, signalled,
                 pc, call, ops, room, sent, done>>

WriteAccepted ==
  /\ call = "none" /\ calls < MaxOps /\ open
  /\ calls' = calls + 1 /\ call' = "emplace"
  /\ UNCHANGED <<udp, queue, offset, open, pollout, again, wait0, signalled,
                 pc, ops, room, sent, done>>

FrontEmplace ==
  /\ call = "emplace" /\ ~Locked /\ call' = "wakeup"
  /\ IF open THEN ops' = ops + 1 /\ queue' = <<ops + 1>> \o queue
             ELSE UNCHANGED <<ops, queue>>
  /\ UNCHANGED <<udp, offset, open, pollout, again, wait0, signalled, pc,
                 calls, room, sent, done>>

(* The operation goes to the end of send_queue_, under its mutex.  If the  *)
(* transport was closed since the test, it goes to a dead object: lost.    *)
WriteEmplace ==
  /\ call = "emplace" /\ ~Locked /\ call' = "wakeup"
  /\ IF open THEN ops' = ops + 1 /\ queue' = Append(queue, ops + 1)
             ELSE UNCHANGED <<ops, queue>>
  /\ UNCHANGED <<udp, offset, open, pollout, again, wait0, signalled, pc,
                 calls, room, sent, done>>

NoWakeup ==
  /\ call = "wakeup" /\ call' = "none"
  /\ UNCHANGED <<udp, queue, offset, open, pollout, again, wait0, signalled,
                 pc, calls, ops, room, sent, done>>

WriteWakeup ==
  /\ call = "wakeup" /\ call' = "none"
  /\ signalled' = TRUE
  /\ UNCHANGED <<udp, queue, offset, open, pollout, again, wait0, pc, calls,
                 ops, room, sent, done>>

WriteSteps == WriteEmplace \/ WriteWakeup

---------------------------------------------------------------------------
(* The loop. *)

(* get_timeout resets wait_duration_; a wait of 0 skips the poll.  A poll  *)
(* that returns has consumed the interrupt.                                *)
WakeUp ==
  /\ pc = "poll" /\ pc' = "peek"
  /\ wait0' = FALSE
  /\ signalled' = (signalled /\ wait0)
  /\ UNCHANGED <<udp, queue, offset, open, pollout, again, call, calls, ops,
                 room, sent, done>>

Poll == (wait0 \/ signalled \/ (pollout /\ room > 0)) /\ WakeUp

(* Another descriptor or a timer ends the poll. *)
PollOther == WakeUp

(* A failed read, a failed send or a requested close: handle_close drops   *)
(* whatever is still queued, without calling its handlers.                 *)
CloseTransport ==
  /\ open' = FALSE /\ queue' = << >> /\ pc' = "gone"
  /\ UNCHANGED <<udp, offset, pollout, again, wait0, signalled, call, calls,
                 ops, room, sent, done>>

TransportLost == pc = "peek" /\ CloseTransport

Peek ==
  /\ pc = "peek"
  /\ pc' = IF queue = << >> THEN "tail" ELSE "perform"
  /\ again' = FALSE
  /\ UNCHANGED <<udp, queue, offset, open, pollout, wait0, signalled, call,
                 calls, ops, room, sent, done>>

RestartSome(n) ==
  /\ pc = "perform" /\ n <= room /\ n <= OpSize
  /\ room' = room - n
  /\ sent' = sent \o [i \in 1 .. n |-> Head(queue)]
  /\ offset' = n
  /\ pc' = IF n = OpSize THEN "complete" ELSE "settle"
  /\ UNCHANGED <<udp, queue, open, pollout, again, wait0, signalled, call,
                 calls, ops, done>>

OverSend(n) ==
  /\ pc = "perform" /\ n <= room
  /\ room' = room - n
  /\ sent' = sent \o [i \in 1 .. n |-> Head(queue)]
  /\ offset' = offset + n
  /\ pc' = IF offset + n = OpSize THEN "complete" ELSE "settle"
  /\ UNCHANGED <<udp, queue, open, pollout, again, wait0, signalled, call,
                 calls, ops, done>>

(* call_write: the kernel takes n bytes of what is left of the head. *)
SendSome(n) ==
  /\ pc = "perform" /\ n <= room /\ offset + n <= OpSize
  /\ room' = room - n
  /\ sent' = sent \o [i \in 1 .. n |-> Head(queue)]
  /\ offset' = offset + n
  /\ pc' = IF offset + n = OpSize THEN "complete" ELSE "settle"
  /\ UNCHANGED <<udp, queue, open, pollout, again, wait0, signalled, call,
                 calls, ops, done>>

(* No room (EWOULDBLOCK, EAGAIN, ENOBUFS), or an interrupted call (EINTR). *)
SendNothing ==
  /\ pc = "perform" /\ pc' = "settle"
  /\ again' \in (IF room = 0 THEN {TRUE, FALSE} ELSE {FALSE})
  /\ UNCHANGED <<udp, queue, offset, open, pollout, wait0, signalled, call,
                 calls, ops, room, sent, done>>

(* Any other error: a stream transport is closed, a datagram transport     *)
(* drops the operation and tells its handler.                              *)
SendFails ==
  /\ pc = "perform"
  /\ \/ ~udp /\ CloseTransport
     \/ udp /\ pc' = "complete"
        /\ UNCHANGED <<udp, queue, offset, open, pollout, again, wait0,
                       signalled, call, calls, ops, room, sent, done>>

(* complete_op: the handler first ... *)
CompleteOp ==
  /\ pc = "complete" /\ pc' = "pop"
  /\ done' = Append(done, [op |-> Head(queue), ok |-> offset = OpSize])
  /\ UNCHANGED <<udp, queue, offset, open, pollout, again, wait0, signalled,
                 call, calls, ops, room, sent>>

(* ... which may write again (the mutex is recursive) ... *)
HandlerWrites ==
  /\ pc = "pop" /\ calls < MaxOps
  /\ calls' = calls + 1 /\ ops' = ops + 1
  /\ queue' = Append(queue, ops + 1)
  /\ signalled' = TRUE
  /\ UNCHANGED <<udp, offset, open, pollout, again, wait0, pc, call, room,
                 sent, done>>

(* ... then the operation leaves the queue. *)
PopOp ==
  /\ pc = "pop" /\ pc' = "settle"
  /\ queue' = Tail(queue) /\ offset' = 0
  /\ UNCHANGED <<udp, open, pollout, again, wait0, signalled, call, calls, ops,
                 room, sent, done>>

KeepPollout ==
  /\ pc \in {"settle", "tail"} /\ pc' = "poll"
  /\ pollout' = (pollout \/ (queue # << >> /\ again))
  /\ wait0' = (wait0 \/ (queue # << >> /\ ~again))
  /\ UNCHANGED <<udp, queue, offset, open, again, signalled, call, calls, ops,
                 room, sent, done>>

WaitOnlyForPollout ==
  /\ pc \in {"settle", "tail"} /\ pc' = "poll"
  /\ pollout' = (queue # << >> /\ again)
  /\ UNCHANGED <<udp, queue, offset, open, again, wait0, signalled, call,
                 calls, ops, room, sent, done>>

(* The end of do_write.  POLLOUT is watched exactly while the kernel is    *)
(* full and something is left; anything else left means no sleep.  With    *)
(* nothing peeked this is read without the mutex.                          *)
Settle ==
  /\ pc \in {"settle", "tail"} /\ pc' = "poll"
  /\ pollout' = (queue # << >> /\ again)
  /\ wait0' = (wait0 \/ (queue # << >> /\ ~again))
  /\ UNCHANGED <<udp, queue, offset, open, again, signalled, call, calls, ops,
                 room, sent, done>>

SendAny == \E n \in 1 .. OpSize : SendSome(n)
Loop == Poll \/ Peek \/ SendAny \/ SendNothing \/ CompleteOp \/ PopOp \/ Settle

(* The peer acknowledges a byte. *)
KernelDrains ==
  /\ room < Room /\ room' = room + 1
  /\ UNCHANGED <<udp, queue, offset, open, pollout, again, wait0, signalled,
                 pc, call, calls, ops, sent, done>>

Next ==
  \/ WriteRejected \/ WriteAccepted \/ WriteSteps
  \/ Loop \/ PollOther \/ TransportLost \/ SendFails \/ HandlerWrites
  \/ KernelDrains

(* The two threads run, the peer keeps reading, and send() is not          *)
(* interrupted for ever.                                                   *)
Fairness ==
  /\ WF_vars(Loop) /\ WF_vars(WriteSteps) /\ WF_vars(KernelDrains)
  /\ SF_vars(SendAny)

Spec == Init /\ [][Next]_vars
FairSpec == Spec /\ Fairness

---------------------------------------------------------------------------
(* Properties. *)

(* The loop never goes to sleep on unsent data: either it will not sleep,  *)
(* or POLLOUT or a wakeup that is already on its way will end the sleep.   *)
NoSleepWithWork ==
  pc = "poll" /\ queue # << >> => wait0 \/ signalled \/ pollout \/ call = "wakeup"

(* POLLOUT is not watched once everything is sent: with an idle writable   *)
(* socket the loop would spin.                                             *)
NoBusyPoll == pc = "poll" /\ pollout => queue # << >>

(* Handlers are called in the order of the writes and once each, also      *)
(* when a handler writes again; what is not completed is still queued.     *)
CompletionsInOrder ==
  /\ \A i \in DOMAIN done : done[i].op = i
  /\ open => LET first == IF pc = "pop" THEN Len(done) ELSE Len(done) + 1 IN
       /\ Len(queue) = ops + 1 - first
       /\ \A i \in DOMAIN queue : queue[i] = first + i - 1

BytesOf(k) == Cardinality({i \in DOMAIN sent : sent[i] = k})

(* The bytes of the operations go out in order and none twice: all of a    *)
(* completed one, offset_ of the head, none of those behind it.            *)
BytesExact ==
  /\ \A i, j \in DOMAIN sent : i < j => sent[i] <= sent[j]
  /\ \A i \in DOMAIN done : done[i].ok => BytesOf(i) = OpSize
  /\ queue # << >> => BytesOf(Head(queue)) = offset
  /\ \A i \in 2 .. Len(queue) : BytesOf(queue[i]) = 0

(* Every operation accepted is completed, unless the transport closes.     *)
Flushed == \A n \in 1 .. MaxOps : ops >= n ~> (Len(done) >= n \/ ~open)
====
