---- MODULE EventQueueProofs ----
(***************************************************************************)
(* Proofs about EventQueue, for every set of events and all bounds: the    *)
(* double-buffered queue is a FIFO, whatever the interleaving of the two   *)
(* threads and however deep the handler nests its dispatch calls.          *)
(***************************************************************************)
EXTENDS EventQueue, SequenceTheorems, TLAPS

(* A consume in progress has an entry on the stack, and between the empty  *)
(* test and the swap nobody else can fill deal_, nor queue_ between the    *)
(* two halves of clear.                                                    *)
DrainInv ==
  /\ pc \in {"test", "swap", "drain", "handler"} => drains # << >>
  /\ pc = "swap" => deal = << >>
  /\ pc = "clearDeal" => worker = "joined" /\ queue = << >>

IInv == TypeOK /\ DrainInv

(* Leaving a consume pops its entry and resumes the caller. *)
LEMMA ReturnPops ==
  ASSUME drains \in Seq(Nat), drains # << >>, Return
  PROVE  /\ drains' \in Seq(Nat)
         /\ pc' \in {"idle", "handler"}
         /\ pc' = "handler" => drains' # << >>
BY DEF Return

(* Every step keeps the types and the drain discipline. *)
LEMMA IInvInvariant == Spec => []IInv
<1>1. Init => IInv
  BY DEF Init, IInv, TypeOK, DrainInv
<1>2. IInv /\ [Next]_vars => IInv'
  <2> SUFFICES ASSUME TypeOK, DrainInv, [Next]_vars PROVE TypeOK' /\ DrainInv'
    BY DEF IInv
  <2> USE DEF TypeOK, DrainInv
  <2>1. ASSUME NEW e \in Event, Emplace(e) PROVE TypeOK' /\ DrainInv'
    BY <2>1 DEF Emplace
  <2>2. CASE WorkerExits
    BY <2>2 DEF WorkerExits
  <2>3. ASSUME NEW n \in 1 .. MaxCount, Dispatch(n) PROVE TypeOK' /\ DrainInv'
    BY <2>3, BoundsAssumption DEF Dispatch
  <2>5. CASE ConsumeTest
    BY ReturnPops, <2>5 DEF ConsumeTest
  <2>6. CASE ConsumeSwap
    BY <2>6 DEF ConsumeSwap
  <2>7. CASE ConsumePop
    <3>1. Head(drains) = drains[1] /\ drains[1] \in Nat \ {0} /\ 1 \in DOMAIN drains
      BY <2>7 DEF ConsumePop
    <3>2. drains' \in Seq(Nat) /\ drains' # << >>
      BY <2>7, <3>1, SMTT(30) DEF ConsumePop
    <3>3. delivered' \in Seq(Event) /\ deal' \in Seq(Event)
      BY <2>7 DEF ConsumePop
    <3> QED
      BY <2>7, <3>2, <3>3 DEF ConsumePop
  <2>8. CASE HandlerReturns
    BY <2>8 DEF HandlerReturns
  <2>9. CASE ConsumeEnd
    BY ReturnPops, <2>9 DEF ConsumeEnd
  <2>10. CASE ClearQueue
    BY <2>10 DEF ClearQueue
  <2>11. CASE ClearDeal
    BY <2>11 DEF ClearDeal
  <2>12. CASE UNCHANGED vars
    BY <2>12 DEF vars
  <2> QED
    BY <2>1, <2>2, <2>3, <2>5, <2>6, <2>7, <2>8, <2>9, <2>10, <2>11, <2>12
    DEF Next, Consume
<1>3. QED
  BY <1>1, <1>2, PTL DEF Spec

(* The queue's variables always have their types: in particular the count  *)
(* left to a drain never goes below zero.                                  *)
THEOREM TypeCorrect == Spec => []TypeOK
<1>1. IInv => TypeOK
  BY DEF IInv
<1> QED
  BY <1>1, IInvInvariant, PTL

---------------------------------------------------------------------------
(* How the operations on the two halves look on their concatenation. *)

(* Appending to the second half appends to the whole. *)
LEMMA AppendToTail ==
  ASSUME NEW S, NEW d \in Seq(S), NEW q \in Seq(S), NEW e \in S
  PROVE  d \o Append(q, e) = Append(d \o q, e)
<1>1. d \o q \in Seq(S) /\ <<e>> \in Seq(S)
  BY ConcatProperties
<1>2. Append(q, e) = q \o <<e>> /\ Append(d \o q, e) = (d \o q) \o <<e>>
  BY <1>1, AppendIsConcat
<1> QED
  BY <1>1, <1>2, ConcatAssociative

(* A non-empty first half supplies the head of the whole. *)
LEMMA PopFromHead ==
  ASSUME NEW S, NEW d \in Seq(S), NEW q \in Seq(S), d # << >>
  PROVE  /\ d \o q # << >>
         /\ Head(d \o q) = Head(d)
         /\ Tail(d \o q) = Tail(d) \o q
<1>1. /\ Len(d) \in Nat \ {0} /\ Len(q) \in Nat
      /\ d \o q \in Seq(S) /\ Len(d \o q) = Len(d) + Len(q)
      /\ \A i \in 1 .. Len(d) + Len(q) : (d \o q)[i] =
           IF i <= Len(d) THEN d[i] ELSE q[i - Len(d)]
  BY EmptySeq, LenProperties, ConcatProperties
<1>2. d \o q # << >>
  BY <1>1
<1>3. Head(d \o q) = Head(d)
  BY <1>1, <1>2
<1>4. /\ Tail(d) \in Seq(S) /\ Len(Tail(d)) = Len(d) - 1
      /\ \A i \in 1 .. Len(Tail(d)) : Tail(d)[i] = d[i + 1]
  BY HeadTailProperties
<1>5. /\ Tail(d \o q) \in Seq(S) /\ Len(Tail(d \o q)) = Len(d) + Len(q) - 1
      /\ \A i \in 1 .. Len(Tail(d \o q)) : Tail(d \o q)[i] = (d \o q)[i + 1]
  BY <1>1, <1>2, HeadTailProperties
<1>6. /\ Tail(d) \o q \in Seq(S) /\ Len(Tail(d) \o q) = Len(d) - 1 + Len(q)
      /\ \A i \in 1 .. Len(d) - 1 + Len(q) : (Tail(d) \o q)[i] =
           IF i <= Len(d) - 1 THEN Tail(d)[i] ELSE q[i - (Len(d) - 1)]
  BY <1>1, <1>4, ConcatProperties
<1>7. ASSUME NEW i \in 1 .. Len(Tail(d \o q))
      PROVE  Tail(d \o q)[i] = (Tail(d) \o q)[i]
  <2>1. i \in 1 .. Len(d) - 1 + Len(q) /\ i + 1 \in 1 .. Len(d) + Len(q)
    BY <1>1, <1>5
  <2>2. CASE i <= Len(d) - 1
    BY <1>1, <1>4, <1>5, <1>6, <2>1, <2>2
  <2>3. CASE i > Len(d) - 1
    <3>1. (d \o q)[i + 1] = q[(i + 1) - Len(d)]
      BY <1>1, <2>1, <2>3
    <3>2. (Tail(d) \o q)[i] = q[i - (Len(d) - 1)]
      BY <1>1, <1>6, <2>1, <2>3
    <3>3. (i + 1) - Len(d) = i - (Len(d) - 1)
      BY <1>1, <2>1
    <3> QED
      BY <1>5, <3>1, <3>2, <3>3
  <2> QED
    BY <1>1, <2>1, <2>2, <2>3
<1>8. Tail(d \o q) = Tail(d) \o q
  BY <1>1, <1>5, <1>6, <1>7, SeqEqual
<1> QED
  BY <1>2, <1>3, <1>8

(* Moving the head of one sequence to the end of another keeps the whole. *)
LEMMA MoveHead ==
  ASSUME NEW S, NEW t \in Seq(S), NEW d \in Seq(S), d # << >>
  PROVE  Append(t, Head(d)) \o Tail(d) = t \o d
<1>1. Head(d) \in S /\ Tail(d) \in Seq(S)
  BY HeadTailProperties
<1>2. <<Head(d)>> \in Seq(S) /\ Append(t, Head(d)) = t \o <<Head(d)>>
  BY <1>1, AppendIsConcat
<1>3. (t \o <<Head(d)>>) \o Tail(d) = t \o (<<Head(d)>> \o Tail(d))
  BY <1>1, <1>2, ConcatAssociative
<1>4. <<Head(d)>> \o Tail(d) = d
  <2>1. /\ Len(d) \in Nat \ {0} /\ Len(Tail(d)) = Len(d) - 1
        /\ \A i \in 1 .. Len(Tail(d)) : Tail(d)[i] = d[i + 1]
    BY EmptySeq, HeadTailProperties
  <2>2. /\ <<Head(d)>> \o Tail(d) \in Seq(S)
        /\ Len(<<Head(d)>> \o Tail(d)) = 1 + Len(Tail(d))
        /\ \A i \in 1 .. 1 + Len(Tail(d)) : (<<Head(d)>> \o Tail(d))[i] =
             IF i <= 1 THEN <<Head(d)>>[i] ELSE Tail(d)[i - 1]
    BY <1>1, <1>2, ConcatProperties
  <2>3. \A i \in 1 .. Len(d) : (<<Head(d)>> \o Tail(d))[i] = d[i]
    BY <2>1, <2>2
  <2> QED
    BY <2>1, <2>2, <2>3, SeqEqual
<1> QED
  BY <1>2, <1>3, <1>4

---------------------------------------------------------------------------
(* Every step of the double queue is a step of the abstract FIFO or none:  *)
(* the swap, the nested calls and the returns are invisible.               *)
THEOREM ImplementsFifo == Spec => RefinesFifo
<1>1. Init => Fifo!Init
  BY ConcatEmptySeq DEF Init, Fifo!Init
<1>2. IInv /\ [Next]_vars => [Fifo!Next]_(Fifo!vars)
  <2> SUFFICES ASSUME IInv, [Next]_vars PROVE [Fifo!Next]_(Fifo!vars)
    OBVIOUS
  <2>0. queue \in Seq(Event) /\ deal \in Seq(Event) /\ delivered \in Seq(Event)
    BY DEF IInv, TypeOK
  <2>1. ASSUME NEW e \in Event, Emplace(e) PROVE Fifo!Fire(e)
    BY <2>0, <2>1, AppendToTail DEF Emplace, Fifo!Fire
  <2>2. CASE ConsumePop
    <3>1. deal # << >> /\ deal' = Tail(deal) /\ queue' = queue
          /\ delivered' = Append(delivered, Head(deal))
      BY <2>2 DEF ConsumePop
    <3>2. /\ deal \o queue # << >>
          /\ Head(deal \o queue) = Head(deal)
          /\ Tail(deal \o queue) = Tail(deal) \o queue
      BY <2>0, <3>1, PopFromHead, SMTT(30)
    <3>3. (deal \o queue)' = Tail(deal) \o queue
      BY <3>1
    <3> QED
      BY <3>1, <3>2, <3>3 DEF Fifo!Next, Fifo!Deliver
  <2>3. CASE ConsumeSwap
    BY <2>0, <2>3, ConcatEmptySeq DEF ConsumeSwap, Fifo!vars, IInv, DrainInv
  <2>4. CASE ClearQueue
    <3>1. /\ Len(deal) \in 0 .. Len(deal \o queue)
          /\ Len(deal) \in Nat
          /\ deal \o queue \in Seq(Event)
          /\ Len(deal \o queue) = Len(deal) + Len(queue)
          /\ \A i \in 1 .. Len(deal) : (deal \o queue)[i] = deal[i]
      BY <2>0, ConcatProperties, LenProperties
    <3>2. \A i \in 1 .. Len(deal) : (deal \o queue)[i] \in Event
      BY <2>0, <3>1, ElementOfSeq
    <3>3. /\ SubSeq(deal \o queue, 1, Len(deal)) \in Seq(Event)
          /\ Len(SubSeq(deal \o queue, 1, Len(deal))) = Len(deal)
          /\ \A i \in 1 .. Len(deal) :
               SubSeq(deal \o queue, 1, Len(deal))[i] = (deal \o queue)[i]
      BY <3>1, <3>2, SubSeqProperties
    <3>4. SubSeq(deal \o queue, 1, Len(deal)) = deal
      BY <2>0, <3>1, <3>3, SeqEqual
    <3>5. (deal \o queue)' = deal
      BY <2>0, <2>4, ConcatEmptySeq DEF ClearQueue
    <3>6. delivered' = delivered
      BY <2>4 DEF ClearQueue
    <3> QED
      BY <3>1, <3>4, <3>5, <3>6 DEF Fifo!Next, Fifo!Discard
  <2>5. CASE ClearDeal
    <3>1. (deal \o queue)' = << >> /\ delivered' = delivered
      BY <2>0, <2>5, ConcatEmptySeq DEF ClearDeal, IInv, DrainInv
    <3>2. Len(deal \o queue) \in Nat /\ 0 \in 0 .. Len(deal \o queue)
      BY <2>0, ConcatProperties, LenProperties
    <3>3. SubSeq(deal \o queue, 1, 0) = << >>
      BY SubSeqEmpty
    <3> QED
      BY <3>1, <3>2, <3>3 DEF Fifo!Next, Fifo!Discard
  <2>6. CASE UNCHANGED <<queue, deal, delivered>>
    BY <2>6 DEF Fifo!vars
  <2> QED
    BY <2>1, <2>2, <2>3, <2>4, <2>5, <2>6
    DEF Next, Consume, WorkerExits, Dispatch, ConsumeTest, HandlerReturns,
        ConsumeEnd, vars, Fifo!Next
<1>3. QED
  BY <1>1, <1>2, IInvInvariant, PTL DEF Spec, RefinesFifo, Fifo!Spec

---------------------------------------------------------------------------
(* Delivered and still queued events, in order. *)
Carried == delivered \o (deal \o queue)

(* s is an initial part of u, position by position. *)
Prefix(s, u) == Len(s) <= Len(u) /\ \A i \in 1 .. Len(s) : s[i] = u[i]

(* Nothing is missing while the worker runs; afterwards what clear leaves  *)
(* is still an initial part of what was fired.                             *)
HistoryInv ==
  /\ Prefix(Carried, fired)
  /\ worker = "running" => Carried = fired

(* Cutting the tail of a concatenation leaves an initial part of it. *)
LEMMA PrefixOfConcat ==
  ASSUME NEW S, NEW s \in Seq(S), NEW t \in Seq(S), NEW u \in Seq(S),
         Prefix(s \o t, u)
  PROVE  Prefix(s, u)
<1>1. /\ Len(s) \in Nat /\ Len(t) \in Nat /\ Len(u) \in Nat
      /\ Len(s \o t) = Len(s) + Len(t)
      /\ \A i \in 1 .. Len(s) + Len(t) : (s \o t)[i] =
           IF i <= Len(s) THEN s[i] ELSE t[i - Len(s)]
  BY LenProperties, ConcatProperties
<1>2. \A i \in 1 .. Len(s) : i \in 1 .. Len(s) + Len(t) /\ (s \o t)[i] = s[i]
  BY <1>1
<1> QED
  BY <1>1, <1>2 DEF Prefix

(* Associativity, for sequences of events. *)
LEMMA EventConcat ==
  \A s, t, u \in Seq(Event) : s \o (t \o u) = (s \o t) \o u
BY ConcatAssociative, SMTT(30)

(* The history invariant holds in every reachable state. *)
LEMMA HistoryInvariant == Spec => []HistoryInv
<1>1. Init => HistoryInv
  BY ConcatEmptySeq DEF Init, HistoryInv, Carried, Prefix
<1>2. IInv /\ HistoryInv /\ [Next]_vars => HistoryInv'
  <2> SUFFICES ASSUME IInv, HistoryInv, [Next]_vars PROVE HistoryInv'
    OBVIOUS
  <2>0. /\ queue \in Seq(Event) /\ deal \in Seq(Event)
        /\ delivered \in Seq(Event) /\ fired \in Seq(Event)
        /\ deal \o queue \in Seq(Event) /\ Carried \in Seq(Event)
    BY ConcatProperties DEF IInv, TypeOK, Carried
  <2>1. ASSUME NEW e \in Event, Emplace(e) PROVE HistoryInv'
    <3>1. /\ Carried = fired
          /\ deal' = deal /\ delivered' = delivered
          /\ queue' = Append(queue, e) /\ fired' = Append(fired, e)
      BY <2>1 DEF Emplace, HistoryInv
    <3>2. deal \o Append(queue, e) = Append(deal \o queue, e)
      BY <2>0, AppendToTail
    <3>3. delivered \o Append(deal \o queue, e) = Append(Carried, e)
      BY <2>0, AppendToTail DEF Carried
    <3>4. Carried' = fired'
      BY <3>1, <3>2, <3>3 DEF Carried
    <3>5. fired' \in Seq(Event)
      BY <2>0, <3>1, AppendProperties
    <3> QED
      BY <3>4, <3>5, LenProperties DEF HistoryInv, Prefix
  <2>2. CASE ConsumePop
    <3>1. /\ deal # << >> /\ deal' = Tail(deal) /\ queue' = queue
          /\ delivered' = Append(delivered, Head(deal))
          /\ fired' = fired /\ worker' = worker
      BY <2>2 DEF ConsumePop
    <3>2. Head(deal) \in Event /\ Tail(deal) \in Seq(Event)
          /\ Append(delivered, Head(deal)) \in Seq(Event)
      BY <2>0, <3>1, HeadTailProperties, AppendProperties
    <3>3. Append(delivered, Head(deal)) \o (Tail(deal) \o queue)
            = (Append(delivered, Head(deal)) \o Tail(deal)) \o queue
      <4>1. queue \in Seq(Event)
        BY <2>0
      <4> QED
        BY <3>2, <4>1, EventConcat
    <3>4. Append(delivered, Head(deal)) \o Tail(deal) = delivered \o deal
      BY <2>0, <3>1, MoveHead
    <3>5. (delivered \o deal) \o queue = Carried
      BY <2>0, ConcatAssociative DEF Carried
    <3>6. Carried' = Carried
      BY <3>1, <3>3, <3>4, <3>5 DEF Carried
    <3> QED
      BY <3>1, <3>6 DEF HistoryInv, Prefix
  <2>3. CASE ConsumeSwap
    <3>1. deal = << >> /\ deal' = queue /\ queue' = deal
          /\ UNCHANGED <<delivered, fired, worker>>
      BY <2>3 DEF ConsumeSwap, IInv, DrainInv
    <3>2. << >> \o queue = queue /\ queue \o << >> = queue
      BY <2>0, ConcatEmptySeq
    <3>4. (deal \o queue)' = deal \o queue
      BY <3>1, <3>2, Zenon
    <3>3. Carried' = Carried
      BY <3>1, <3>4 DEF Carried
    <3> QED
      BY <3>1, <3>3 DEF HistoryInv, Prefix
  <2>4. CASE ClearQueue
    <3>1. /\ deal' = deal /\ queue' = << >> /\ worker' = "joined"
          /\ UNCHANGED <<delivered, fired>>
      BY <2>4 DEF ClearQueue
    <3>2. Carried' = delivered \o deal
      BY <2>0, <3>1, ConcatEmptySeq DEF Carried
    <3>3. Carried = (delivered \o deal) \o queue
      BY <2>0, EventConcat, ZenonT(60) DEF Carried
    <3>5. delivered \o deal \in Seq(Event)
      BY <2>0, ConcatProperties, Zenon
    <3>4. Prefix(delivered \o deal, fired)
      BY <2>0, <3>3, <3>5, PrefixOfConcat DEF HistoryInv
    <3> QED
      BY <3>1, <3>2, <3>4 DEF HistoryInv, Prefix
  <2>5. CASE ClearDeal
    <3>1. /\ queue = << >> /\ queue' = << >> /\ deal' = << >> /\ worker' = "joined"
          /\ UNCHANGED <<delivered, fired>>
      BY <2>5 DEF ClearDeal, IInv, DrainInv
    <3>4. << >> \o << >> = << >> /\ delivered \o << >> = delivered
      BY <2>0, ConcatEmptySeq
    <3>2. Carried' = delivered
      BY <3>1, <3>4, Zenon DEF Carried
    <3>3. Prefix(delivered, fired)
      BY <2>0, PrefixOfConcat DEF HistoryInv, Carried
    <3> QED
      BY <3>1, <3>2, <3>3 DEF HistoryInv, Prefix
  <2>6. CASE WorkerExits
    BY <2>6 DEF WorkerExits, HistoryInv, Prefix, Carried
  <2>7. CASE UNCHANGED <<queue, deal, delivered, fired, worker>>
    BY <2>7 DEF HistoryInv, Prefix, Carried
  <2> QED
    BY <2>1, <2>2, <2>3, <2>4, <2>5, <2>6, <2>7
    DEF Next, Consume, Dispatch, ConsumeTest, HandlerReturns, ConsumeEnd, vars
<1>3. QED
  BY <1>1, <1>2, IInvInvariant, PTL DEF Spec

(* concurrent_queue loses, repeats and reorders nothing while the network  *)
(* thread runs: the handler's history, deal_ and queue_ make up exactly    *)
(* the events fired.                                                       *)
THEOREM QueueLosesNothing == Spec => []NothingLost
<1>1. IInv /\ HistoryInv => NothingLost
  <2> SUFFICES ASSUME IInv, HistoryInv PROVE NothingLost
    OBVIOUS
  <2>1. (delivered \o deal) \o queue = Carried
    BY ConcatAssociative, SMTT(30) DEF IInv, TypeOK, Carried
  <2> QED
    BY <2>1 DEF NothingLost, HistoryInv
<1> QED
  BY <1>1, IInvInvariant, HistoryInvariant, PTL

(* The handler always sees an initial part of the fired events, also when  *)
(* the events of a dead worker are thrown away in handle_stop.             *)
THEOREM DeliveryInOrder == Spec => []InOrder
<1>1. IInv /\ HistoryInv => InOrder
  <2> SUFFICES ASSUME IInv, HistoryInv PROVE InOrder
    OBVIOUS
  <2>1. /\ delivered \in Seq(Event) /\ fired \in Seq(Event)
        /\ deal \o queue \in Seq(Event)
        /\ Len(delivered) \in Nat /\ Len(fired) \in Nat
    BY ConcatProperties, LenProperties DEF IInv, TypeOK
  <2>2. Prefix(delivered, fired)
    BY <2>1, PrefixOfConcat DEF HistoryInv, Carried
  <2>3. \A i \in 1 .. Len(delivered) : fired[i] \in Event
    BY <2>1, <2>2, ElementOfSeq DEF Prefix
  <2>4. /\ SubSeq(fired, 1, Len(delivered)) \in Seq(Event)
        /\ Len(SubSeq(fired, 1, Len(delivered))) = Len(delivered)
        /\ \A i \in 1 .. Len(delivered) :
             SubSeq(fired, 1, Len(delivered))[i] = fired[i]
    BY <2>1, <2>3, SubSeqProperties
  <2>5. \A i \in 1 .. Len(delivered) :
          delivered[i] = SubSeq(fired, 1, Len(delivered))[i]
    BY <2>2, <2>4 DEF Prefix
  <2>6. delivered = SubSeq(fired, 1, Len(delivered))
    BY <2>1, <2>4, <2>5, SeqEqual
  <2> QED
    BY <2>2, <2>6 DEF InOrder, Prefix
<1> QED
  BY <1>1, IInvInvariant, HistoryInvariant, PTL
====
