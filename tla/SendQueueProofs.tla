---- MODULE SendQueueProofs ----
(***************************************************************************)
(* What holds of sending for any number and size of operations, any kernel *)
(* buffer, and both kinds of transport.                                    *)
(***************************************************************************)
EXTENDS SendQueue, FiniteSetTheorems, TLAPS

(* An operation is in the loop's hands only while it is queued, and only a *)
(* transport that is gone is closed.                                       *)
Held ==
  /\ pc \in {"perform", "complete", "pop"} => queue # << >>
  /\ open <=> pc # "gone"
  /\ pc = "pop" => done # << >>
  /\ queue # << >> => open

SendInv ==
  TypeOK /\ Held /\ NoSleepWithWork /\ NoBusyPoll /\ CompletionsInOrder

LEMMA InitSend == Init => SendInv
<1> SUFFICES ASSUME Init PROVE SendInv
  OBVIOUS
<1>1. /\ open \in BOOLEAN /\ pollout \in BOOLEAN /\ again \in BOOLEAN
      /\ wait0 \in BOOLEAN /\ signalled \in BOOLEAN
  BY Zenon DEF Init
<1>2. TypeOK
  BY <1>1, SendAssumption DEF Init, TypeOK
<1>3. Held
  BY Zenon DEF Init, Held
<1>4. NoSleepWithWork /\ NoBusyPoll
  BY Zenon DEF Init, NoSleepWithWork, NoBusyPoll
<1>5. DOMAIN done = {} /\ DOMAIN queue = {} /\ Len(done) = 0 /\ Len(queue) = 0
  BY DEF Init
<1>6. ops = 0 /\ pc = "poll"
  BY DEF Init
<1>7. CompletionsInOrder
  BY <1>5, <1>6 DEF CompletionsInOrder
<1> QED
  BY <1>2, <1>3, <1>4, <1>7 DEF SendInv

(* Closing keeps the invariant, whatever the reason. *)
LEMMA CloseKeeps ==
  ASSUME SendInv, CloseTransport
  PROVE  (TypeOK /\ Held /\ NoSleepWithWork /\ NoBusyPoll)'
<1>1. open' \in BOOLEAN
  BY Zenon DEF CloseTransport
<1>2. open' = FALSE /\ pc' = "gone" /\ queue' = << >>
  BY DEF CloseTransport
<1> QED
  BY <1>1, <1>2
  DEF SendInv, TypeOK, Held, NoSleepWithWork, NoBusyPoll, CloseTransport

LEMMA SendTypes == SendInv /\ [Next]_vars => (TypeOK /\ Held /\ NoSleepWithWork /\ NoBusyPoll)'
<1> SUFFICES ASSUME SendInv, [Next]_vars
             PROVE  (TypeOK /\ Held /\ NoSleepWithWork /\ NoBusyPoll)'
  OBVIOUS
<1> USE SendAssumption DEF SendInv, TypeOK, Held, NoSleepWithWork, NoBusyPoll
<1>1. CASE WriteRejected
  BY <1>1 DEF WriteRejected
<1>2. CASE WriteAccepted
  BY <1>2 DEF WriteAccepted
<1>3. CASE WriteEmplace
  <2>1. CASE open
    <3>1. queue' = Append(queue, ops + 1) /\ ops' = ops + 1
      BY <1>3, <2>1 DEF WriteEmplace
    <3>2. queue' \in Seq(Nat) /\ queue' # << >>
      BY <3>1
    <3> QED
      BY <1>3, <3>1, <3>2 DEF WriteEmplace, Locked
  <2>2. CASE ~open
    BY <1>3, <2>2 DEF WriteEmplace
  <2> QED
    BY <2>1, <2>2
<1>4. CASE WriteWakeup
  BY <1>4 DEF WriteWakeup
<1>5. CASE Poll \/ PollOther
  BY <1>5 DEF Poll, PollOther, WakeUp
<1>6. CASE TransportLost
  BY <1>6, CloseKeeps DEF TransportLost
<1>7. CASE Peek
  BY <1>7 DEF Peek
<1>8. CASE SendAny
  BY <1>8 DEF SendAny, SendSome
<1>9. CASE SendNothing
  BY <1>9 DEF SendNothing
<1>10. CASE SendFails
  <2>1. CASE CloseTransport
    BY <2>1, CloseKeeps
  <2>2. CASE ~CloseTransport
    BY <1>10, <2>2 DEF SendFails
  <2> QED
    BY <2>1, <2>2
<1>11. CASE CompleteOp
  BY <1>11 DEF CompleteOp
<1>12. CASE HandlerWrites
  BY <1>12 DEF HandlerWrites
<1>13. CASE PopOp
  BY <1>13 DEF PopOp
<1>14. CASE Settle
  BY <1>14 DEF Settle
<1>15. CASE KernelDrains
  BY <1>15 DEF KernelDrains
<1>16. CASE UNCHANGED vars
  BY <1>16 DEF vars
<1> QED
  BY <1>1, <1>2, <1>3, <1>4, <1>5, <1>6, <1>7, <1>8, <1>9, <1>10, <1>11, <1>12,
     <1>13, <1>14, <1>15, <1>16 DEF Next, WriteSteps, Loop

(* What appending to, and taking from, a queue of consecutive numbers does. *)
LEMMA AppendNext ==
  ASSUME NEW q \in Seq(Nat), NEW n \in Nat, NEW f \in Nat,
         Len(q) = n + 1 - f, \A i \in DOMAIN q : q[i] = f + i - 1
  PROVE  /\ Len(Append(q, n + 1)) = n + 2 - f
         /\ \A i \in DOMAIN Append(q, n + 1) : Append(q, n + 1)[i] = f + i - 1
  OBVIOUS

LEMMA TailNext ==
  ASSUME NEW q \in Seq(Nat), q # << >>, NEW f \in Nat,
         \A i \in DOMAIN q : q[i] = f + i - 1
  PROVE  /\ Len(Tail(q)) = Len(q) - 1
         /\ \A i \in DOMAIN Tail(q) : Tail(q)[i] = f + 1 + i - 1
         /\ Head(q) = f
<1>1. /\ Len(q) \in Nat \ {0} /\ Head(q) = q[1] /\ DOMAIN q = 1 .. Len(q)
      /\ Tail(q) \in Seq(Nat) /\ Len(Tail(q)) = Len(q) - 1
      /\ \A i \in 1 .. Len(q) - 1 : Tail(q)[i] = q[i + 1]
  OBVIOUS
<1>2. DOMAIN Tail(q) = 1 .. Len(q) - 1
  BY <1>1
<1>3. ASSUME NEW i \in 1 .. Len(q) - 1 PROVE Tail(q)[i] = f + 1 + i - 1
  <2>1. i + 1 \in DOMAIN q /\ Tail(q)[i] = q[i + 1]
    BY <1>1
  <2>2. q[i + 1] = f + (i + 1) - 1
    BY <2>1
  <2> QED
    BY <2>1, <2>2
<1>4. 1 \in DOMAIN q
  BY <1>1
<1>5. Head(q) = f
  BY <1>1, <1>4
<1> QED
  BY <1>1, <1>2, <1>3, <1>5

First == IF pc = "pop" THEN Len(done) ELSE Len(done) + 1

LEMMA OrderStep == SendInv /\ [Next]_vars => CompletionsInOrder'
<1> SUFFICES ASSUME SendInv, [Next]_vars PROVE CompletionsInOrder'
  OBVIOUS
<1>0. /\ queue \in Seq(Nat) /\ ops \in Nat /\ First \in Nat /\ Held
      /\ done \in Seq([op : Nat, ok : BOOLEAN])
      /\ \A i \in DOMAIN done : done[i].op = i
      /\ open => Len(queue) = ops + 1 - First
      /\ open => \A i \in DOMAIN queue : queue[i] = First + i - 1
  BY DEF SendInv, TypeOK, CompletionsInOrder, First
<1>1. CASE UNCHANGED <<queue, done, ops, open>> /\ (pc = "pop" <=> pc' = "pop")
  BY <1>0, <1>1 DEF CompletionsInOrder, First
<1>2. CASE WriteEmplace /\ open
  <2>1. /\ queue' = Append(queue, ops + 1) /\ ops' = ops + 1
        /\ UNCHANGED <<done, open, pc>>
    BY <1>2 DEF WriteEmplace
  <2>2. /\ Len(queue') = ops + 2 - First
        /\ \A i \in DOMAIN queue' : queue'[i] = First + i - 1
    BY <1>0, <1>2, <2>1, AppendNext
  <2>3. First' = First
    BY <2>1 DEF First
  <2>4. Len(queue') = ops' + 1 - First'
    BY <1>0, <2>1, <2>2, <2>3
  <2> QED
    BY <1>0, <2>1, <2>2, <2>3, <2>4 DEF CompletionsInOrder, First
<1>3. CASE CloseTransport
  BY <1>0, <1>3 DEF CloseTransport, CompletionsInOrder
<1>4. CASE CompleteOp
  <2>1. Head(queue) = Len(done) + 1 /\ pc = "complete" /\ pc' = "pop"
    BY <1>0, <1>4, TailNext DEF CompleteOp, First, Held
  <2>2. \A i \in DOMAIN done' : done'[i].op = i
    BY <1>0, <1>4, <2>1 DEF CompleteOp
  <2>3. Len(done') = Len(done) + 1 /\ UNCHANGED <<queue, ops, open>>
    BY <1>0, <1>4 DEF CompleteOp
  <2> QED
    BY <1>0, <2>1, <2>2, <2>3 DEF CompletionsInOrder, First
<1>5. CASE HandlerWrites
  BY <1>0, <1>5, AppendNext DEF HandlerWrites, CompletionsInOrder, First
<1>6. CASE PopOp
  <2>1. /\ Len(queue') = Len(queue) - 1
        /\ \A i \in DOMAIN queue' : queue'[i] = First + 1 + i - 1
    BY <1>0, <1>6, TailNext DEF PopOp, Held
  <2> QED
    <3>1. /\ pc = "pop" /\ pc' # "pop" /\ open
          /\ UNCHANGED <<done, ops, open>>
      BY <1>0, <1>6 DEF PopOp, Held
    <3>2. First = Len(done) /\ First' = Len(done) + 1 /\ Len(done) \in Nat
      BY <1>0, <3>1 DEF First
    <3> QED
      BY <1>0, <2>1, <3>1, <3>2 DEF CompletionsInOrder, First
<1> QED
  BY <1>1, <1>2, <1>3, <1>4, <1>5, <1>6
  DEF Next, WriteSteps, Loop, WriteRejected, WriteAccepted, WriteEmplace, WriteWakeup,
      Poll, PollOther, WakeUp, TransportLost, Peek, SendAny, SendSome, SendNothing,
      SendFails, Settle, KernelDrains, vars

LEMMA SendInvariant == Spec => []SendInv
<1>1. SendInv /\ [Next]_vars => SendInv'
  BY SendTypes, OrderStep DEF SendInv
<1> QED
  BY <1>1, InitSend, PTL DEF Spec

(* The variables of the model keep their types. *)
THEOREM TypeCorrect == Spec => []TypeOK
<1>1. SendInv => TypeOK
  BY DEF SendInv
<1> QED
  BY <1>1, SendInvariant, PTL

(* The loop never sleeps on unsent data without a wakeup or POLLOUT to end *)
(* the sleep.                                                              *)
THEOREM NoLostWakeup == Spec => []NoSleepWithWork
<1>1. SendInv => NoSleepWithWork
  BY DEF SendInv
<1> QED
  BY <1>1, SendInvariant, PTL

(* POLLOUT is never left registered with nothing to send. *)
THEOREM NoSpinning == Spec => []NoBusyPoll
<1>1. SendInv => NoBusyPoll
  BY DEF SendInv
<1> QED
  BY <1>1, SendInvariant, PTL

(* Completion handlers run in the order of the writes, once each. *)
THEOREM CompletionsOrdered == Spec => []CompletionsInOrder
<1>1. SendInv => CompletionsInOrder
  BY DEF SendInv
<1> QED
  BY <1>1, SendInvariant, PTL

---------------------------------------------------------------------------
(* The bytes. *)

(* Bytes of later operations are not out yet, and of the first one that is *)
(* not completed offset_ bytes are.                                        *)
ByteInv ==
  /\ \A i, j \in DOMAIN sent : i < j => sent[i] <= sent[j]
  /\ \A i \in DOMAIN sent : sent[i] <= First
  /\ \A i \in DOMAIN done : done[i].ok => BytesOf(i) = OpSize
  /\ open => BytesOf(First) = offset
  /\ open /\ queue = << >> => offset = 0

LEMMA BytesFinite ==
  ASSUME TypeOK, NEW k
  PROVE  /\ IsFiniteSet({i \in DOMAIN sent : sent[i] = k})
         /\ BytesOf(k) \in Nat
         /\ (\A i \in DOMAIN sent : sent[i] # k) => BytesOf(k) = 0
<1>1. DOMAIN sent = 1 .. Len(sent) /\ Len(sent) \in Nat
  BY DEF TypeOK
<1>2. IsFiniteSet(DOMAIN sent)
  BY <1>1, FS_Interval
<1>3. {i \in DOMAIN sent : sent[i] = k} \in SUBSET DOMAIN sent
  OBVIOUS
<1>4. IsFiniteSet({i \in DOMAIN sent : sent[i] = k})
  BY <1>2, <1>3, FS_Subset
<1>5. BytesOf(k) \in Nat
  BY <1>4, FS_CardinalityType DEF BytesOf
<1>6. ASSUME \A i \in DOMAIN sent : sent[i] # k PROVE BytesOf(k) = 0
  <2>1. {i \in DOMAIN sent : sent[i] = k} = {}
    BY <1>6
  <2> QED
    BY <2>1, FS_EmptySet DEF BytesOf
<1> QED
  BY <1>4, <1>5, <1>6

(* Sending n bytes of operation k adds n to its bytes and to no other's. *)
LEMMA BytesGrow ==
  ASSUME TypeOK, NEW k \in Nat, NEW n \in Nat, sent' = sent \o [i \in 1 .. n |-> k]
  PROVE  /\ DOMAIN sent' = 1 .. Len(sent) + n /\ DOMAIN sent = 1 .. Len(sent)
         /\ Len(sent) \in Nat
         /\ \A i \in 1 .. Len(sent) : sent'[i] = sent[i] /\ sent[i] \in Nat
         /\ \A i \in Len(sent) + 1 .. Len(sent) + n : sent'[i] = k
         /\ BytesOf(k)' = BytesOf(k) + n
         /\ \A m : m # k => BytesOf(m)' = BytesOf(m)
<1>1. sent \in Seq(Nat) /\ [i \in 1 .. n |-> k] \in Seq(Nat) /\ Len([i \in 1 .. n |-> k]) = n
  BY DEF TypeOK
<1>2. /\ DOMAIN sent' = 1 .. Len(sent) + n /\ DOMAIN sent = 1 .. Len(sent)
      /\ Len(sent) \in Nat
      /\ \A i \in 1 .. Len(sent) : sent'[i] = sent[i] /\ sent[i] \in Nat
      /\ \A i \in Len(sent) + 1 .. Len(sent) + n : sent'[i] = k
  BY <1>1
<1>3. BytesOf(k)' = BytesOf(k) + n
  <2> DEFINE A == {i \in DOMAIN sent : sent[i] = k}
             B == Len(sent) + 1 .. Len(sent) + n
  <2>1. {i \in DOMAIN sent' : sent'[i] = k} = A \cup B
    BY <1>2
  <2>2. IsFiniteSet(B) /\ Cardinality(B) = n
    BY <1>2, FS_Interval
  <2>3. A \cap B = {}
    BY <1>2
  <2>4. IsFiniteSet(A) /\ Cardinality(A) \in Nat
    BY BytesFinite DEF BytesOf
  <2>5. Cardinality(A \cup B) = Cardinality(A) + Cardinality(B) - Cardinality(A \cap B)
    BY <2>2, <2>4, FS_Union
  <2>6. Cardinality(A \cap B) = 0
    BY <2>3, FS_EmptySet
  <2> HIDE DEF A, B
  <2>7. Cardinality(A \cup B) = Cardinality(A) + n
    BY <2>2, <2>4, <2>5, <2>6
  <2> USE DEF A, B
  <2> QED
    BY <2>1, <2>7 DEF BytesOf
<1>4. ASSUME NEW m, m # k PROVE BytesOf(m)' = BytesOf(m)
  <2>1. {i \in DOMAIN sent' : sent'[i] = m} = {i \in DOMAIN sent : sent[i] = m}
    BY <1>2, <1>4
  <2> QED
    BY <2>1 DEF BytesOf
<1> QED
  BY <1>2, <1>3, <1>4

LEMMA ByteStep == SendInv /\ ByteInv /\ [Next]_vars => ByteInv'
<1> SUFFICES ASSUME SendInv, ByteInv, [Next]_vars PROVE ByteInv'
  OBVIOUS
<1>0. /\ TypeOK /\ Held /\ First \in Nat /\ Len(done) \in Nat
      /\ DOMAIN done = 1 .. Len(done)
      /\ queue # << >> /\ open => Head(queue) = First
  <2>1. TypeOK /\ Held /\ CompletionsInOrder
    BY DEF SendInv
  <2>2. First \in Nat /\ Len(done) \in Nat /\ DOMAIN done = 1 .. Len(done)
    BY <2>1 DEF TypeOK, First
  <2>3. ASSUME queue # << >>, open PROVE Head(queue) = First
    <3>1. \A i \in DOMAIN queue : queue[i] = First + i - 1
      BY <2>1, <2>3 DEF CompletionsInOrder, First
    <3> QED
      BY <2>1, <2>2, <2>3, <3>1, TailNext DEF TypeOK
  <2> QED
    BY <2>1, <2>2, <2>3
<1>1. CASE /\ UNCHANGED <<sent, done, offset, open>>
           /\ pc = "pop" <=> pc' = "pop"
           /\ queue' = << >> => queue = << >>
  BY <1>1 DEF ByteInv, BytesOf, First
<1>2. CASE CloseTransport
  <2>1. /\ UNCHANGED <<sent, done>> /\ open' = FALSE
        /\ pc # "pop" => First' = First
        /\ pc = "pop" => First' = First + 1
    BY <1>0, <1>2 DEF CloseTransport, First
  <2> QED
    BY <1>0, <2>1 DEF ByteInv, BytesOf, TypeOK
<1>3. CASE SendAny
  <2>1. PICK n \in 1 .. OpSize : SendSome(n)
    BY <1>3 DEF SendAny
  <2>2. /\ pc = "perform" /\ pc' # "pop" /\ queue # << >> /\ open
        /\ sent' = sent \o [i \in 1 .. n |-> First]
        /\ offset' = offset + n /\ UNCHANGED <<queue, done, open>>
        /\ n \in Nat
    BY <1>0, <2>1, SendAssumption DEF SendSome, Held
  <2>3. First' = First /\ First = Len(done) + 1
    BY <2>2 DEF First
  <2>4. /\ DOMAIN sent' = 1 .. Len(sent) + n /\ DOMAIN sent = 1 .. Len(sent)
        /\ Len(sent) \in Nat
        /\ \A i \in 1 .. Len(sent) : sent'[i] = sent[i] /\ sent[i] \in Nat
        /\ \A i \in Len(sent) + 1 .. Len(sent) + n : sent'[i] = First
        /\ BytesOf(First)' = BytesOf(First) + n
        /\ \A m : m # First => BytesOf(m)' = BytesOf(m)
    <3>1. PICK k \in Nat : k = First
      BY <1>0
    <3>2. sent' = sent \o [i \in 1 .. n |-> k]
      BY <2>2, <3>1
    <3>3. BytesOf(First)' = BytesOf(k)' /\ BytesOf(First) = BytesOf(k)
      BY <2>3, <3>1 DEF BytesOf
    <3> QED
      BY <1>0, <2>2, <3>1, <3>2, <3>3, BytesGrow
  <2>5. \A i \in DOMAIN sent' : sent'[i] <= First'
    BY <1>0, <2>3, <2>4 DEF ByteInv
  <2>6. \A i, j \in DOMAIN sent' : i < j => sent'[i] <= sent'[j]
    <3> SUFFICES ASSUME NEW i \in DOMAIN sent', NEW j \in DOMAIN sent', i < j
                 PROVE  sent'[i] <= sent'[j]
      OBVIOUS
    <3>1. CASE j \in 1 .. Len(sent)
      BY <2>4, <3>1 DEF ByteInv
    <3>2. CASE j \notin 1 .. Len(sent)
      BY <1>0, <2>3, <2>4, <2>5, <3>2
    <3> QED
      BY <3>1, <3>2
  <2>7. \A i \in DOMAIN done' : done'[i].ok => BytesOf(i)' = OpSize
    BY <1>0, <2>2, <2>3, <2>4 DEF ByteInv
  <2>8. BytesOf(First)' = offset'
    BY <2>2, <2>4 DEF ByteInv
  <2> QED
    BY <2>2, <2>3, <2>5, <2>6, <2>7, <2>8 DEF ByteInv
<1>4. CASE CompleteOp
  <2>1. /\ UNCHANGED <<sent, queue, offset, open>> /\ queue # << >> /\ open
        /\ pc = "complete" /\ pc' = "pop"
        /\ done' = Append(done, [op |-> First, ok |-> offset = OpSize])
    BY <1>0, <1>4 DEF CompleteOp, Held
  <2>2. /\ Len(done') = Len(done) + 1 /\ DOMAIN done' = 1 .. Len(done) + 1
        /\ \A i \in DOMAIN done : done'[i] = done[i]
    BY <1>0, <2>1 DEF TypeOK
  <2>5. ASSUME offset # OpSize PROVE ~done'[Len(done) + 1].ok
    <3>1. (offset = OpSize) = FALSE
      BY <2>5
    <3>2. done' = Append(done, [op |-> First, ok |-> FALSE])
      BY <2>1, <3>1
    <3> QED
      BY <1>0, <3>2 DEF TypeOK
  <2>3. First' = First /\ First = Len(done) + 1
    BY <2>1, <2>2 DEF First
  <2>4. ASSUME NEW i \in DOMAIN done', done'[i].ok PROVE BytesOf(i) = OpSize
    <3>1. CASE i \in DOMAIN done
      BY <2>2, <2>4, <3>1 DEF ByteInv
    <3>2. CASE i = First
      BY <2>1, <2>3, <2>4, <2>5, <3>2 DEF ByteInv
    <3> QED
      BY <1>0, <2>2, <2>3, <3>1, <3>2
  <2>6. \A k : BytesOf(k)' = BytesOf(k)
    BY <2>1 DEF BytesOf
  <2> QED
    BY <2>1, <2>3, <2>4, <2>6 DEF ByteInv
<1>5. CASE PopOp
  <2>1. /\ UNCHANGED <<sent, done, open>> /\ offset' = 0 /\ First' = First + 1
    BY <1>0, <1>5 DEF PopOp, First
  <2>2. \A k : BytesOf(k)' = BytesOf(k)
    BY <2>1 DEF BytesOf
  <2>3. \A i \in DOMAIN sent : sent[i] \in Nat
    BY <1>0 DEF TypeOK
  <2>4. \A i \in DOMAIN sent : sent[i] # First + 1 /\ sent[i] <= First + 1
    BY <1>0, <2>3 DEF ByteInv
  <2>5. BytesOf(First + 1) = 0
    BY <1>0, <2>4, BytesFinite
  <2> QED
    BY <2>1, <2>2, <2>4, <2>5 DEF ByteInv
<1>6. CASE WriteEmplace \/ HandlerWrites
  <2>1. /\ UNCHANGED <<sent, done, offset, open, pc>>
        /\ queue' = << >> => queue = << >>
    BY <1>0, <1>6 DEF WriteEmplace, HandlerWrites, TypeOK
  <2> QED
    BY <1>1, <2>1
<1> QED
  BY <1>1, <1>2, <1>3, <1>4, <1>5, <1>6
  DEF Next, WriteSteps, Loop, WriteRejected, WriteAccepted, WriteWakeup,
      Poll, PollOther, WakeUp, TransportLost, Peek, SendNothing,
      SendFails, Settle, KernelDrains, vars

(* Every byte of every operation goes out once and in order: offset_       *)
(* survives partial sends, full buffers and interrupted calls.             *)
THEOREM BytesAccounted == Spec => []BytesExact
<1>1. Init => ByteInv
  <2> SUFFICES ASSUME Init PROVE ByteInv
    OBVIOUS
  <2>1. TypeOK
    BY InitSend DEF SendInv
  <2>2. DOMAIN sent = {} /\ DOMAIN done = {} /\ offset = 0
    BY DEF Init
  <2>3. BytesOf(First) = 0
    BY <2>1, <2>2, BytesFinite
  <2> QED
    BY <2>2, <2>3 DEF ByteInv
<1>2. SendInv /\ ByteInv => BytesExact
  <2> SUFFICES ASSUME SendInv, ByteInv PROVE BytesExact
    OBVIOUS
  <2>1. /\ TypeOK /\ Held /\ First \in Nat
        /\ open => \A i \in DOMAIN queue : queue[i] = First + i - 1
    BY DEF SendInv, TypeOK, CompletionsInOrder, First
  <2>2. ASSUME queue # << >> PROVE open
    BY <2>2 DEF SendInv, Held
  <2>3. ASSUME queue # << >> PROVE BytesOf(Head(queue)) = offset
    BY <2>1, <2>2, <2>3, TailNext DEF TypeOK, ByteInv
  <2>4. ASSUME NEW i \in 2 .. Len(queue) PROVE BytesOf(queue[i]) = 0
    <3>1. queue # << >> /\ i \in DOMAIN queue /\ i \in Nat
      BY <2>1 DEF TypeOK
    <3>2. queue[i] = First + i - 1
      BY <2>1, <2>2, <3>1
    <3>3. \A j \in DOMAIN sent : sent[j] \in Nat /\ sent[j] <= First
      BY <2>1 DEF TypeOK, ByteInv
    <3>4. \A j \in DOMAIN sent : sent[j] # queue[i]
      BY <2>1, <3>1, <3>2, <3>3
    <3> QED
      BY <2>1, <3>4, BytesFinite
  <2> QED
    BY <2>3, <2>4 DEF BytesExact, ByteInv
<1> QED
  BY <1>1, <1>2, ByteStep, SendInvariant, PTL DEF Spec
====
