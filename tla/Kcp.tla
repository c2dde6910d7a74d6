-------------------------------- MODULE Kcp --------------------------------
(***************************************************************************)
(* A KCP transport: the UDP socket is read into rawbuf_ and fed to KCP,    *)
(* whose messages are put into buffer_ for unpack; ikcp_update is called   *)
(* when expire_time_ says so, on a millisecond clock that wraps.           *)
(* KCP itself is external: what a datagram does to it is an input.         *)
(***************************************************************************)
EXTENDS Integers, Sequences

CONSTANTS KcpSpan,   \* values of the clock (2^32 in the code)
          KcpTicks,  \* by how much the clock may move between two turns
          KcpInput,  \* bound: datagrams received
          KcpSends   \* bound: messages written

ASSUME KcpAssumption ==
  /\ KcpSpan \in Nat \ {0} /\ KcpTicks \subseteq Nat
  /\ KcpInput \in Nat /\ KcpSends \in Nat

VARIABLES
  raw,      \* datagrams in the socket
  msgs,     \* complete messages in KCP's receive queue
  given,    \* messages handed out by ikcp_recv
  told,     \* what do_read reported to the service, in messages
  clock,    \* current, in milliseconds
  due,      \* expire_time_
  asked,    \* an update at the next turn was asked for (expire_time_ = 0)
  unsent,   \* messages in the send queue of the transport
  inKcp,    \* messages in KCP not yet flushed to the socket
  updated,  \* ikcp_update was called at least once: before, a flush does nothing
  ktakes, ksends

kvars == <<raw, msgs, given, told, clock, due, asked, unsent, inKcp, updated, ktakes, ksends>>

(* An acknowledgement, a part of a message, the last part of one or two    *)
(* messages, or what ikcp_input refuses.                                   *)
Datagrams == {"ack", "part", "one", "two", "refused"}
Completes(d) == IF d = "one" THEN 1 ELSE IF d = "two" THEN 2 ELSE 0

KcpArrives(d) ==
  /\ ktakes < KcpInput /\ ktakes' = ktakes + 1
  /\ raw' = Append(raw, d)
  /\ UNCHANGED <<msgs, given, told, clock, due, asked, unsent, inKcp, updated, ksends>>

KcpWrite ==
  /\ ksends < KcpSends /\ ksends' = ksends + 1
  /\ unsent' = unsent + 1
  /\ UNCHANGED <<raw, msgs, given, told, clock, due, asked, inKcp, updated, ktakes>>

KcpClock == 0..(KcpSpan - 1)
Half == KcpSpan \div 2

(* (IINT32)(current - expire_time_) >= 0.                                  *)
Reached(now, t) == (now - t) % KcpSpan < Half

(* do_read: ikcp_recv is tried whether or not a datagram came.             *)
Recv(m, n) == IF m > 0 THEN 1 ELSE 0

(* The return value of do_read: the message's size if there was one, else  *)
(* still that of the raw datagram.                                         *)
Reported(r, n) == IF r > 0 THEN r ELSE n

(* handle_input and write_cb_ set expire_time_ to 0.                       *)
DueAfter(input, sent) == IF input \/ sent THEN 0 ELSE due

(* do_read and do_write of one turn, at the time of the last or a later    *)
(* one; the clock wraps.                                                   *)
KcpTurn ==
  /\ \E now \in KcpClock :
     /\ (now - clock) % KcpSpan \in KcpTicks /\ clock' = now
     /\ LET d == IF raw = <<>> THEN "none" ELSE Head(raw)
            n == IF raw = <<>> THEN 0 ELSE 1
            ready == msgs + Completes(d)
            r == IF d = "refused" THEN 0 ELSE Recv(ready, n)
            input == n > 0 /\ d # "refused"
            t == DueAfter(input, unsent > 0)
            runs == Reached(now, t)
        IN  /\ raw' = IF n = 0 THEN raw ELSE Tail(raw)
            /\ msgs' = ready - r
            /\ given' = given + r
            /\ told' = told + IF d = "refused" THEN n ELSE Reported(r, n)
            /\ unsent' = IF unsent > 0 THEN unsent - 1 ELSE 0
            /\ inKcp' = IF runs \/ (updated /\ unsent > 0) THEN 0
                        ELSE inKcp + IF unsent > 0 THEN 1 ELSE 0
            /\ updated' = (updated \/ runs)
            /\ asked' = ((asked \/ input \/ unsent > 0) /\ ~runs)
            /\ due' = IF runs THEN (now + 1) % KcpSpan ELSE t
  /\ UNCHANGED <<ktakes, ksends>>

KcpInit ==
  /\ raw = <<>> /\ msgs = 0 /\ given = 0 /\ told = 0
  /\ clock \in KcpClock /\ due = 0 /\ asked = FALSE /\ unsent = 0 /\ inKcp = 0
  /\ updated = FALSE /\ ktakes = 0 /\ ksends = 0

KcpNext == KcpTurn \/ KcpWrite \/ \E d \in Datagrams : KcpArrives(d)

(* sched_freq_ wakes the loop at the interval of its KCP transports.       *)
KcpSpec == KcpInit /\ [][KcpNext]_kvars /\ WF_kvars(KcpTurn)

-----------------------------------------------------------------------------
(* An update that was asked for, to flush what was written and acknowledge *)
(* what was read, happens in the same turn while the clock is in the lower *)
(* half of its range.  expire_time_ = 0 is how it is asked for, and in the *)
(* upper half 0 is still to come: the update waits until the clock wraps,  *)
(* up to 24 days of 32 bits of milliseconds.                               *)
UpdatedInTurn == asked => clock >= Half

(* do_read reports what KCP gave, and nothing else (the comment at         *)
(* "If got data from kcp, don't wait").                                    *)
ToldIsGiven == told = given

(* Every complete message is read, without a further datagram.             *)
KcpGiven == []<>(msgs = 0)

(* What is written leaves KCP, also when the first update comes after it,  *)
(* if the clock is in the lower half of its range again and again.         *)
KcpFlushed == []<>(clock < Half) => []<>(unsent = 0 /\ inKcp = 0)
=============================================================================
