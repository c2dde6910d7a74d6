---- MODULE EventFifo ----
(***************************************************************************)
(* What the service promises about its events: they reach the handler in   *)
(* the order in which the network thread fired them, each at most once,    *)
(* and only a service whose worker died may throw the tail away.           *)
(***************************************************************************)
EXTENDS Integers, Sequences

CONSTANT Event

VARIABLES pending,    \* fired and not yet handed to the handler, in order
          delivered   \* handed to the handler, in order

vars == <<pending, delivered>>

Init == pending = << >> /\ delivered = << >>

(* fire_event: the event goes to the end of what is pending. *)
Fire(e) ==
  /\ pending' = Append(pending, e)
  /\ UNCHANGED delivered

(* The handler is called with the oldest pending event. *)
Deliver ==
  /\ pending # << >>
  /\ delivered' = Append(delivered, Head(pending))
  /\ pending' = Tail(pending)

(* Events of a dead worker are thrown away from the end. *)
Discard ==
  /\ \E n \in 0 .. Len(pending) : pending' = SubSeq(pending, 1, n)
  /\ UNCHANGED delivered

Next == (\E e \in Event : Fire(e)) \/ Deliver \/ Discard

Spec == Init /\ [][Next]_vars
====
