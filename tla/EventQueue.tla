---- MODULE EventQueue ----
(***************************************************************************)
(* io_service::events_, a concurrent_queue<event_ptr, true>.  The network  *)
(* thread appends to queue_ under the mutex; the dispatching thread drains *)
(* deal_ without it and swaps the two when deal_ runs dry.  The handler is *)
(* called in the middle of the drain loop and may call dispatch again, or  *)
(* stop(), so the drains in progress form a stack.                         *)
(***************************************************************************)
EXTENDS Integers, Sequences

CONSTANTS Event,      \* the events that can be fired
          MaxFired,   \* bound: events fired in a behaviour
          MaxCount,   \* bound: the max_count argument of dispatch
          MaxNest     \* bound: drains in progress on the dispatching thread

ASSUME BoundsAssumption == /\ MaxFired \in Nat
                           /\ MaxCount \in Nat \ {0}
                           /\ MaxNest \in Nat \ {0}

VARIABLES queue,      \* queue_, filled under mtx_
          deal,       \* deal_, touched by the dispatching thread only
          pc,         \* where the innermost consume is
          drains,     \* what is left of `count` in each consume in progress,
                      \* innermost first
          worker,     \* the network thread: running, dead, or gone and joined
          fired,      \* history: events in the order fire_event ran
          delivered   \* history: events in the order the handler saw them

vars == <<queue, deal, pc, drains, worker, fired, delivered>>

TypeOK ==
  /\ queue \in Seq(Event) /\ deal \in Seq(Event)
  /\ fired \in Seq(Event) /\ delivered \in Seq(Event)
  /\ pc \in {"idle", "test", "swap", "drain", "handler", "clearDeal"}
  /\ drains \in Seq(Nat)
  /\ worker \in {"running", "dead", "joined"}

Init ==
  /\ queue = << >> /\ deal = << >>
  /\ pc = "idle" /\ drains = << >>
  /\ worker = "running"
  /\ fired = << >> /\ delivered = << >>

---------------------------------------------------------------------------
(* The network thread. *)

FrontEmplace(e) ==
  /\ worker = "running" /\ Len(fired) < MaxFired
  /\ queue' = <<e>> \o queue
  /\ fired' = Append(fired, e)
  /\ UNCHANGED <<deal, pc, drains, worker, delivered>>

(* fire_event -> emplace: one critical section.  An event that the defer   *)
(* callback takes over never gets here.                                    *)
Emplace(e) ==
  /\ worker = "running" /\ Len(fired) < MaxFired
  /\ queue' = Append(queue, e)
  /\ fired' = Append(fired, e)
  /\ UNCHANGED <<deal, pc, drains, worker, delivered>>

(* The loop ends on its own, or is terminated from outside. *)
WorkerExits ==
  /\ worker = "running"
  /\ worker' \in {"dead", "joined"}
  /\ UNCHANGED <<queue, deal, pc, drains, fired, delivered>>

---------------------------------------------------------------------------
(* The dispatching thread. *)

(* dispatch(n), at top level or from inside the event handler. *)
Dispatch(n) ==
  /\ pc \in {"idle", "handler"} /\ Len(drains) < MaxNest
  /\ drains' = <<n>> \o drains
  /\ pc' = "test"
  /\ UNCHANGED <<queue, deal, worker, fired, delivered>>

(* The innermost consume returns, to the top level or to the handler of    *)
(* the drain it was called from.                                           *)
Return ==
  /\ drains' = Tail(drains)
  /\ pc' = IF Tail(drains) = << >> THEN "idle" ELSE "handler"

NoSwapTest ==
  /\ pc = "test"
  /\ \/ deal # << >> /\ pc' = "drain" /\ UNCHANGED drains
     \/ deal = << >> /\ Return
  /\ UNCHANGED <<queue, deal, worker, fired, delivered>>

(* consume begins: deal_.empty() and queue_.empty() are read unlocked. *)
ConsumeTest ==
  /\ pc = "test"
  /\ \/ deal # << >> /\ pc' = "drain" /\ UNCHANGED drains
     \/ deal = << >> /\ queue # << >> /\ pc' = "swap" /\ UNCHANGED drains
     \/ deal = << >> /\ queue = << >> /\ Return
  /\ UNCHANGED <<queue, deal, worker, fired, delivered>>

MoveSwap ==
  /\ pc = "swap"
  /\ deal' = queue /\ UNCHANGED queue
  /\ pc' = "drain"
  /\ UNCHANGED <<drains, worker, fired, delivered>>

(* The swap, under the mutex; queue_ may have grown since the test. *)
ConsumeSwap ==
  /\ pc = "swap"
  /\ deal' = queue /\ queue' = deal
  /\ pc' = "drain"
  /\ UNCHANGED <<drains, worker, fired, delivered>>

RepeatPop ==
  /\ pc = "drain"
  /\ Head(drains) > 0 /\ deal # << >>
  /\ drains' = [drains EXCEPT ![1] = @ - 1]
  /\ delivered' = Append(delivered, Head(deal))
  /\ pc' = "handler"
  /\ UNCHANGED <<queue, deal, worker, fired>>

UncountedPop ==
  /\ pc = "drain"
  /\ deal # << >>
  /\ drains' = [drains EXCEPT ![1] = @ - 1]
  /\ delivered' = Append(delivered, Head(deal))
  /\ deal' = Tail(deal)
  /\ pc' = "handler"
  /\ UNCHANGED <<queue, worker, fired>>

(* One turn of the drain loop: the event is taken out of deal_ before the  *)
(* handler is called with it.                                              *)
ConsumePop ==
  /\ pc = "drain"
  /\ Head(drains) > 0 /\ deal # << >>
  /\ drains' = [drains EXCEPT ![1] = @ - 1]
  /\ delivered' = Append(delivered, Head(deal))
  /\ deal' = Tail(deal)
  /\ pc' = "handler"
  /\ UNCHANGED <<queue, worker, fired>>

(* The handler returns to the drain loop that called it. *)
HandlerReturns ==
  /\ pc = "handler"
  /\ pc' = "drain"
  /\ UNCHANGED <<queue, deal, drains, worker, fired, delivered>>

(* The loop ends: the count is used up or deal_ is empty. *)
ConsumeEnd ==
  /\ pc = "drain"
  /\ Head(drains) = 0 \/ deal = << >>
  /\ Return
  /\ UNCHANGED <<queue, deal, worker, fired, delivered>>

(* handle_stop after the join of a worker that died: events_.clear(),      *)
(* queue_ first under the mutex, then deal_.                               *)
ClearQueue ==
  /\ worker = "dead" /\ pc \in {"idle", "handler"}
  /\ worker' = "joined"
  /\ queue' = << >>
  /\ pc' = "clearDeal"
  /\ UNCHANGED <<deal, drains, fired, delivered>>

ClearDeal ==
  /\ pc = "clearDeal"
  /\ deal' = << >>
  /\ pc' = IF drains = << >> THEN "idle" ELSE "handler"
  /\ UNCHANGED <<queue, drains, worker, fired, delivered>>

Consume == ConsumeTest \/ ConsumeSwap \/ ConsumePop \/ HandlerReturns \/ ConsumeEnd

Next ==
  \/ \E e \in Event : Emplace(e)
  \/ WorkerExits
  \/ \E n \in 1 .. MaxCount : Dispatch(n)
  \/ Consume
  \/ ClearQueue \/ ClearDeal

(* The application keeps calling dispatch, and its thread and handlers     *)
(* make progress; the network thread owes nothing.                         *)
Fairness ==
  /\ WF_vars(Consume \/ ClearDeal)
  /\ WF_vars(pc = "idle" /\ \E n \in 1 .. MaxCount : Dispatch(n))

Spec == Init /\ [][Next]_vars
FairSpec == Spec /\ Fairness

---------------------------------------------------------------------------
(* Properties. *)

(* While the worker lives, nothing is lost, duplicated or overtaken: what  *)
(* the handler has seen, then deal_, then queue_ is exactly what was       *)
(* fired.  Both swap and nested dispatch have to keep this.                *)
NothingLost == worker = "running" => delivered \o deal \o queue = fired

(* Discarding after a dead worker may only cut the tail: the handler's     *)
(* history is always a prefix of what was fired.                           *)
InOrder ==
  /\ Len(delivered) <= Len(fired)
  /\ delivered = SubSeq(fired, 1, Len(delivered))

(* Implements the abstract queue: pending is deal_ followed by queue_. *)
Fifo == INSTANCE EventFifo WITH pending <- deal \o queue
RefinesFifo == Fifo!Spec

(* No event stays behind for ever in either half of the queue: after       *)
(* enough dispatch calls the handler has seen it, unless the worker died.  *)
EventuallyDelivered ==
  \A n \in 1 .. MaxFired : Len(fired) >= n ~> (Len(delivered) >= n \/ worker # "running")
====
