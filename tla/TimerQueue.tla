---- MODULE TimerQueue ----
(***************************************************************************)
(* timer_queue_: highp_timer's operations on the application's thread and  *)
(* in callbacks, and the loop that caches the time, computes how long it   *)
(* may sleep, polls and runs what is due.  The queue is kept in descending *)
(* order of expiry, so the earliest timer is its last, and is guarded by a *)
(* recursive mutex; expire_time_ and current_time_ are not.                *)
(*                                                                         *)
(* A poll without a timer sleeps for ever here.  The code caps it at five  *)
(* minutes; no property may rest on that.                                  *)
(***************************************************************************)
EXTENDS Integers, Sequences, Functions

CONSTANTS Timers, NoTimer,
          Durations,       \* what expires_from_now is called with
          MaxTime,         \* bound: the last instant
          MaxCalls,        \* bound: async_wait and cancel calls
          ForeignReuse     \* the application's thread sets up timers that are
                           \* waiting already, and not only idle ones

ASSUME TimerAssumption ==
  /\ NoTimer \notin Timers
  /\ Durations \subseteq Nat \ {0} /\ Durations # {}
  /\ MaxTime \in Nat /\ MaxCalls \in Nat /\ ForeignReuse \in BOOLEAN

VARIABLES now,         \* steady_clock
          cur,         \* current_time_, as cached by the loop
          expire,      \* expire_time_ of each timer
          dur,         \* duration_ of each timer
          queue,       \* timer_queue_
          signalled,   \* the interrupter is armed
          endless,     \* the poll about to begin has no time limit; ...
          until,       \* ... otherwise it ends at this instant
          tpc,         \* the loop
          firing,      \* the timer whose callback runs
          again,       \* process_timers has put a timer back
          call, about, \* the application's thread: next step, and its timer
          setups,      \* calls made
          cancelled    \* history: cancel() found and removed the timer, or
                       \* found it gone, and it was not set up since

tvars == <<now, cur, expire, dur, queue, signalled, endless, until, tpc, firing,
          again, call, about, setups, cancelled>>
timeVars == <<now, cur, expire, dur>>
pollVars == <<signalled, endless, until>>
appVars == <<call, about, setups>>

TimerTypeOK ==
  /\ now \in 0 .. MaxTime /\ cur \in 0 .. now
  /\ expire \in [Timers -> Nat] /\ dur \in [Timers -> Durations]
  /\ queue \in Seq(Timers)
  /\ signalled \in BOOLEAN /\ endless \in BOOLEAN /\ until \in Nat
  /\ tpc \in {"head", "timeout", "poll", "timers", "due", "callback", "dispatch"}
  /\ firing \in Timers \union {NoTimer} /\ again \in BOOLEAN
  /\ call \in {"none", "async", "remove"} /\ about \in Timers \union {NoTimer}
  /\ setups \in 0 .. MaxCalls
  /\ cancelled \in SUBSET Timers

TimerInit ==
  /\ now = 0 /\ cur = 0
  /\ expire = [t \in Timers |-> 0] /\ dur \in [Timers -> Durations]
  /\ queue = << >>
  /\ signalled = FALSE /\ endless = FALSE /\ until = 0
  /\ tpc = "head" /\ firing = NoTimer /\ again = FALSE
  /\ call = "none" /\ about = NoTimer /\ setups = 0
  /\ cancelled = {}

(* process_timers holds timer_queue_mtx_. *)
Locked == tpc \in {"due", "callback"}

Back(q) == q[Len(q)]
Waiting(t) == \E i \in DOMAIN queue : queue[i] = t

---------------------------------------------------------------------------
(* Operations on the queue. *)

Descending(q, ex) == \A i, j \in DOMAIN q : i < j => ex[q[i]] >= ex[q[j]]

(* The results std::sort may leave: q rearranged, ties in any order. *)
Sorts(q, ex) ==
  {p \in {[i \in DOMAIN q |-> q[f[i]]] : f \in Bijection(DOMAIN q, DOMAIN q)} :
     Descending(p, ex)}

(* find_timer, and the erase of the one entry it finds. *)
FirstOf(q, t) == {i \in DOMAIN q : q[i] = t /\ \A j \in DOMAIN q : q[j] = t => i <= j}
Erase(q, i) == SubSeq(q, 1, i - 1) \o SubSeq(q, i + 1, Len(q))

SilentSchedule(t) ==
  /\ queue' \in Sorts(IF Waiting(t) THEN queue ELSE Append(queue, t), expire')
  /\ cancelled' = cancelled \ {t}
  /\ UNCHANGED signalled

(* schedule_timer: one entry for each timer, and the loop is woken when    *)
(* the timer turns out to be the earliest.                                 *)
ScheduleTimer(t) ==
  /\ queue' \in Sorts(IF Waiting(t) THEN queue ELSE Append(queue, t), expire')
  /\ signalled' = (signalled \/ Back(queue') = t)
  /\ cancelled' = cancelled \ {t}

(* remove_timer: a shorter queue is sorted, and the loop is woken to take  *)
(* a new look at it.                                                       *)
RemoveTimer(t) ==
  /\ \/ \E i \in FirstOf(queue, t) : queue' \in Sorts(Erase(queue, i), expire)
     \/ ~Waiting(t) /\ UNCHANGED queue
  /\ signalled' = (signalled \/ (Waiting(t) /\ queue' # << >>))
  /\ cancelled' = cancelled \union {t}

---------------------------------------------------------------------------
(* The application's thread. *)

(* expires_from_now, without any lock; a call of async_wait follows. *)
ExpiresFromNow(t, d) ==
  /\ call = "none" /\ setups < MaxCalls
  /\ ForeignReuse \/ (~Waiting(t) /\ firing # t)
  /\ call' = "async" /\ about' = t /\ setups' = setups + 1
  /\ dur' = [dur EXCEPT ![t] = d] /\ expire' = [expire EXCEPT ![t] = now + d]
  /\ UNCHANGED <<now, cur, queue, pollVars, tpc, firing, again, cancelled>>

AsyncWait ==
  /\ call = "async" /\ ~Locked
  /\ call' = "none" /\ about' = NoTimer
  /\ UNCHANGED expire /\ ScheduleTimer(about)
  /\ UNCHANGED <<now, cur, dur, endless, until, tpc, firing, again, setups>>

(* cancel() tests the expiry, by the time the loop has cached, before it   *)
(* takes the lock; an expired timer is left alone.                         *)
CancelTest(t) ==
  /\ call = "none" /\ setups < MaxCalls /\ setups' = setups + 1
  /\ IF expire[t] > cur THEN call' = "remove" /\ about' = t
                        ELSE UNCHANGED <<call, about>>
  /\ UNCHANGED <<timeVars, queue, pollVars, tpc, firing, again, cancelled>>

(* remove_timer, under the lock. *)
CancelRemove ==
  /\ call = "remove" /\ ~Locked
  /\ call' = "none" /\ about' = NoTimer
  /\ RemoveTimer(about)
  /\ UNCHANGED <<timeVars, endless, until, tpc, firing, again, setups>>

AppSteps == AsyncWait \/ CancelRemove

---------------------------------------------------------------------------
(* The loop. *)

(* The head of the loop. *)
CacheTime ==
  /\ tpc = "head" /\ tpc' = "timeout"
  /\ cur' = now
  /\ UNCHANGED <<now, expire, dur, queue, pollVars, firing, again, appVars, cancelled>>

(* get_timeout: the wait ends when the earliest timer expires.  The time   *)
(* since current_time_ was cached counts as the poll returning late.       *)
GetTimeout ==
  /\ tpc = "timeout" /\ tpc' = "poll"
  /\ endless' = (queue = << >>)
  /\ until' = IF queue = << >> THEN 0 ELSE expire[Back(queue)]
  /\ UNCHANGED <<timeVars, queue, signalled, firing, again, appVars, cancelled>>

(* Without a time limit, or with one that lies ahead, the descriptors are  *)
(* polled, which consumes the interrupt; otherwise the poll is skipped.    *)
Polls == endless \/ until > cur

WakeUp ==
  /\ tpc = "poll" /\ tpc' = "timers"
  /\ signalled' = (signalled /\ ~Polls)
  /\ UNCHANGED <<timeVars, queue, endless, until, firing, again, appVars, cancelled>>

TimerPoll == (signalled \/ (~endless /\ until <= now)) /\ WakeUp

(* A descriptor becomes ready, or work left over makes the wait zero. *)
PollOther == WakeUp

(* process_timers looks at the queue without the lock, then takes it. *)
TimersEnter ==
  /\ tpc = "timers"
  /\ tpc' = IF queue = << >> THEN "dispatch" ELSE "due"
  /\ UNCHANGED <<timeVars, queue, pollVars, firing, again, appVars, cancelled>>

Due == queue # << >> /\ expire[Back(queue)] <= cur

(* The timer leaves the queue before its callback is called. *)
FireTimer ==
  /\ tpc = "due" /\ Due /\ tpc' = "callback"
  /\ firing' = Back(queue)
  /\ queue' = SubSeq(queue, 1, Len(queue) - 1)
  /\ UNCHANGED <<timeVars, pollVars, again, appVars, cancelled>>

CallbackOnce ==
  /\ tpc = "callback" /\ tpc' = "due" /\ firing' = NoTimer
  /\ UNCHANGED <<timeVars, queue, pollVars, again, appVars, cancelled>>

(* The callback wants to be called again: the timer goes to the back,      *)
(* whatever else is due.  A callback that set up its own timer again does  *)
(* not ask for this as well.                                               *)
CallbackAgain ==
  /\ tpc = "callback" /\ ~Waiting(firing)
  /\ tpc' = "due" /\ firing' = NoTimer /\ again' = TRUE
  /\ expire' = [expire EXCEPT ![firing] = now + dur[firing]]
  /\ queue' = Append(queue, firing)
  /\ UNCHANGED <<now, cur, dur, pollVars, appVars, cancelled>>

TimersDone ==
  /\ tpc = "due" /\ ~Due /\ tpc' = "dispatch" /\ again' = FALSE
  /\ IF again THEN queue' \in Sorts(queue, expire) ELSE UNCHANGED queue
  /\ UNCHANGED <<timeVars, pollVars, firing, appVars, cancelled>>

(* Timer callbacks and event handlers use timers as well, on the loop's    *)
(* own thread; the mutex is recursive.  Two threads do not set up the same *)
(* timer at once, and a callback does not cancel the timer that called it. *)
ScheduleOnLoop(t, d) ==
  /\ tpc \in {"callback", "dispatch"} /\ setups < MaxCalls /\ about # t
  /\ setups' = setups + 1
  /\ dur' = [dur EXCEPT ![t] = d] /\ expire' = [expire EXCEPT ![t] = now + d]
  /\ ScheduleTimer(t)
  /\ UNCHANGED <<now, cur, endless, until, tpc, firing, again, call, about>>

CancelOnLoop(t) ==
  /\ tpc \in {"callback", "dispatch"} /\ setups < MaxCalls /\ t # firing
  /\ setups' = setups + 1
  /\ IF expire[t] > cur THEN RemoveTimer(t) ELSE UNCHANGED <<queue, signalled, cancelled>>
  /\ UNCHANGED <<timeVars, endless, until, tpc, firing, again, call, about>>

FrameEnds ==
  /\ tpc = "dispatch" /\ tpc' = "head"
  /\ UNCHANGED <<timeVars, queue, pollVars, firing, again, appVars, cancelled>>

TimerLoop ==
  \/ CacheTime \/ GetTimeout \/ TimerPoll \/ TimersEnter \/ FireTimer
  \/ CallbackOnce \/ CallbackAgain \/ TimersDone \/ FrameEnds

Tick ==
  /\ now < MaxTime /\ now' = now + 1
  /\ UNCHANGED <<cur, expire, dur, queue, pollVars, tpc, firing, again, appVars,
                 cancelled>>

Calls ==
  \/ \E t \in Timers : CancelTest(t) \/ CancelOnLoop(t)
  \/ \E t \in Timers, d \in Durations : ExpiresFromNow(t, d) \/ ScheduleOnLoop(t, d)

TimerNext == Calls \/ AppSteps \/ TimerLoop \/ PollOther \/ Tick

(* Both threads run, callbacks return and time passes. *)
TimerFairness == WF_tvars(TimerLoop) /\ WF_tvars(AppSteps) /\ WF_tvars(Tick)

TimerSpec == TimerInit /\ [][TimerNext]_tvars
TimerFairSpec == TimerSpec /\ TimerFairness

---------------------------------------------------------------------------
(* Properties. *)

(* Whoever takes the mutex finds the earliest timer at the back, unless    *)
(* the application's thread is about to sort: a callback that is to be     *)
(* called again does not hide what is due before it.                       *)
EarliestLast == ~Locked /\ call # "async" => Descending(queue, expire)

(* The loop never sleeps past a timer: its time limit is no later than any *)
(* expiry, or a wakeup is there, or an async_wait that may wake it is      *)
(* under way.                                                              *)
NoOversleep ==
  tpc = "poll" /\ Polls =>
    \A i \in DOMAIN queue :
      \/ ~endless /\ until <= expire[queue[i]]
      \/ signalled
      \/ call = "async"

(* A timer whose cancel() took effect is not called back, also when it was *)
(* firing at that moment and wanted to be called again.                    *)
CancelHolds == \A t \in cancelled : ~Waiting(t) /\ firing # t

(* Every timer set up comes to its callback, unless it is cancelled or     *)
(* put off: others that keep coming back cannot starve it.                 *)
TimersFire ==
  \A t \in Timers :
    []<>~(Waiting(t) /\ expire[t] <= MaxTime)

(* What calls from other threads must not break: the order of the queue,   *)
(* the wait it bounds, and the silence of a cancelled timer.               *)
TimersSafe == TimerTypeOK /\ EarliestLast /\ NoOversleep /\ CancelHolds
====
