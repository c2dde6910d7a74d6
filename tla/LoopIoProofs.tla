---------------------------- MODULE LoopIoProofs ----------------------------
(***************************************************************************)
(* Proofs about what one turn of the loop is made of: the timers, the TLS  *)
(* and KCP sessions, the io watcher with its interrupter, and the cutting  *)
(* of a stream into packets.                                               *)
(***************************************************************************)
EXTENDS MCLoopIo, FiniteSetTheorems, SequenceTheorems, TLAPS

---------------------------------------------------------------------------
(* The timer queue.  Its invariant: each timer has one entry; the timer    *)
(* the application's thread is setting up is neither waiting nor firing,   *)
(* so that its expiry may be written without the lock; the queue is sorted *)
(* unless process_timers has put a timer back; and the poll about to begin *)
(* ends no later than the first expiry, or will find the interrupter       *)
(* armed.                                                                  *)
OneEntry == \A i, j \in DOMAIN queue : queue[i] = queue[j] => i = j

FiringInv == IF tpc = "callback" THEN firing \in Timers ELSE firing = NoTimer

AppInv ==
  /\ IF call = "none" THEN about = NoTimer ELSE about \in Timers
  /\ call = "async" => ~Waiting(about) /\ firing # about

SortedInv == (again => Locked) /\ (~again => Descending(queue, expire))

SleepInv ==
  tpc = "poll" =>
    signalled \/ \A i \in DOMAIN queue : ~endless /\ until <= expire[queue[i]]

TimerInv ==
  /\ TimerTypeOK /\ OneEntry /\ FiringInv /\ AppInv
  /\ SortedInv /\ SleepInv /\ CancelHolds

(* Sorting rearranges: the same entries, each as often as before. *)
Rearranged(p, q) ==
  /\ Len(p) = Len(q) /\ DOMAIN p = DOMAIN q
  /\ \A i \in DOMAIN p : \E j \in DOMAIN q : p[i] = q[j]
  /\ \A j \in DOMAIN q : \E i \in DOMAIN p : p[i] = q[j]
  /\ (\A i, j \in DOMAIN q : q[i] = q[j] => i = j)
        => (\A i, j \in DOMAIN p : p[i] = p[j] => i = j)

LEMMA SortsRearranges ==
  ASSUME NEW S, NEW q \in Seq(S), NEW ex, NEW p \in Sorts(q, ex)
  PROVE  p \in Seq(S) /\ Descending(p, ex) /\ Rearranged(p, q)
<1>1. PICK f \in Bijection(DOMAIN q, DOMAIN q) : p = [i \in DOMAIN q |-> q[f[i]]]
  BY DEF Sorts
<1>2. /\ \A i \in DOMAIN q : f[i] \in DOMAIN q
      /\ \A i, j \in DOMAIN q : f[i] = f[j] => i = j
      /\ \A j \in DOMAIN q : \E i \in DOMAIN q : f[i] = j
  BY <1>1 DEF Bijection, Injection, Surjection, IsInjective
<1>3. p \in Seq(S) /\ Len(p) = Len(q) /\ DOMAIN p = DOMAIN q
  <2>1. DOMAIN q = 1 .. Len(q) /\ Len(q) \in Nat
    OBVIOUS
  <2>2. p \in [1 .. Len(q) -> S]
    BY <1>1, <1>2, <2>1
  <2> QED BY <2>1, <2>2
<1>4. Descending(p, ex)
  BY DEF Sorts
<1>5. /\ \A i \in DOMAIN p : \E j \in DOMAIN q : p[i] = q[j]
      /\ \A j \in DOMAIN q : \E i \in DOMAIN p : p[i] = q[j]
  BY <1>1, <1>2, <1>3
<1>6. ASSUME \A i, j \in DOMAIN q : q[i] = q[j] => i = j
      PROVE  \A i, j \in DOMAIN p : p[i] = p[j] => i = j
  <2> SUFFICES ASSUME NEW i \in DOMAIN q, NEW j \in DOMAIN q, p[i] = p[j] PROVE i = j
    BY <1>3
  <2>1. f[i] \in DOMAIN q /\ f[j] \in DOMAIN q /\ q[f[i]] = q[f[j]]
    BY <1>1, <1>2
  <2> QED BY <2>1, <1>2, <1>6
<1> QED BY <1>3, <1>4, <1>5, <1>6 DEF Rearranged

(* Erasing the first entry of t leaves the others as they are. *)
LEMMA EraseFacts ==
  ASSUME NEW S, NEW q \in Seq(S), NEW t, NEW k \in FirstOf(q, t),
         \A i, j \in DOMAIN q : q[i] = q[j] => i = j
  PROVE  /\ Erase(q, k) \in Seq(S)
         /\ \A i \in DOMAIN Erase(q, k) : Erase(q, k)[i] # t
         /\ \A i \in DOMAIN Erase(q, k) : \E j \in DOMAIN q : Erase(q, k)[i] = q[j]
         /\ \A j \in DOMAIN q :
              q[j] # t => \E i \in DOMAIN Erase(q, k) : Erase(q, k)[i] = q[j]
         /\ \A i, j \in DOMAIN Erase(q, k) : Erase(q, k)[i] = Erase(q, k)[j] => i = j
<1> DEFINE e == Erase(q, k)
<1>1. k \in 1 .. Len(q) /\ q[k] = t /\ Len(q) \in Nat
  BY DEF FirstOf
<1>2. /\ e \in Seq(S) /\ Len(e) = Len(q) - 1
      /\ \A i \in 1 .. Len(q) - 1 : e[i] = IF i < k THEN q[i] ELSE q[i + 1]
  <2> DEFINE a == SubSeq(q, 1, k - 1)
             b == SubSeq(q, k + 1, Len(q))
  <2>1. /\ a \in Seq(S) /\ Len(a) = k - 1
        /\ \A i \in 1 .. k - 1 : a[i] = q[i]
    BY <1>1, SubSeqProperties
  <2>2. /\ b \in Seq(S) /\ Len(b) = Len(q) - k
        /\ \A i \in 1 .. Len(q) - k : b[i] = q[k + i]
    BY <1>1, SubSeqProperties
  <2>3. e = a \o b
    BY DEF Erase
  <2> HIDE DEF a, b, e
  <2>4. e \in Seq(S) /\ Len(e) = Len(q) - 1
    BY <1>1, <2>1, <2>2, <2>3
  <2>5. \A i \in 1 .. Len(q) - 1 : e[i] = IF i <= k - 1 THEN a[i] ELSE b[i - (k - 1)]
    BY <1>1, <2>1, <2>2, <2>3
  <2>6. ASSUME NEW i \in 1 .. Len(q) - 1
        PROVE  e[i] = IF i < k THEN q[i] ELSE q[i + 1]
    <3>1. CASE i < k
      BY <1>1, <2>1, <2>5, <3>1
    <3>2. CASE ~(i < k)
      <4>1. i - (k - 1) \in 1 .. Len(q) - k /\ k + (i - (k - 1)) = i + 1
        BY <1>1, <3>2
      <4> QED BY <1>1, <2>2, <2>5, <3>2, <4>1
    <3> QED BY <3>1, <3>2
  <2> QED BY <2>4, <2>6
<1>3. DOMAIN e = 1 .. Len(q) - 1
  BY <1>2
<1> HIDE DEF e
<1>4. \A i \in DOMAIN e : e[i] # t /\ \E j \in DOMAIN q : e[i] = q[j]
  BY <1>1, <1>2, <1>3, SMTT(30)
<1>5. \A j \in DOMAIN q : q[j] # t => \E i \in DOMAIN e : e[i] = q[j]
  <2> SUFFICES ASSUME NEW j \in DOMAIN q, q[j] # t PROVE \E i \in DOMAIN e : e[i] = q[j]
    OBVIOUS
  <2>1. CASE j < k
    BY <2>1, <1>1, <1>2, <1>3
  <2>2. CASE j > k
    <3>1. j - 1 \in DOMAIN e /\ ~(j - 1 < k)
      BY <2>2, <1>1, <1>3
    <3>2. e[j - 1] = q[j - 1 + 1]
      BY <3>1, <1>1, <1>2, <1>3
    <3> QED BY <3>1, <3>2
  <2> QED BY <2>1, <2>2, <1>1
<1>6. \A i, j \in DOMAIN e : e[i] = e[j] => i = j
  BY <1>1, <1>2, <1>3, SMTT(30)
<1> QED BY <1>2, <1>4, <1>5, <1>6 DEF e

LEMMA ScheduleFacts ==
  ASSUME TimerTypeOK, OneEntry, NEW t \in Timers, ScheduleTimer(t)
  PROVE  /\ queue' \in Seq(Timers) /\ queue' # << >> /\ OneEntry'
         /\ Descending(queue', expire')
         /\ signalled' \in BOOLEAN /\ cancelled' \in SUBSET Timers
         /\ \A i \in DOMAIN queue' : queue'[i] = t \/ Waiting(queue'[i])
         /\ \A u : Waiting(u)' <=> Waiting(u) \/ u = t
<1> DEFINE q == IF Waiting(t) THEN queue ELSE Append(queue, t)
<1>1. /\ q \in Seq(Timers) /\ q # << >>
      /\ \A i, j \in DOMAIN q : q[i] = q[j] => i = j
      /\ \A u : (\E i \in DOMAIN q : q[i] = u) <=> Waiting(u) \/ u = t
  <2>1. CASE Waiting(t)
    BY <2>1, SMTT(30) DEF TimerTypeOK, OneEntry, Waiting
  <2>2. CASE ~Waiting(t)
    <3>1. q = Append(queue, t) /\ queue \in Seq(Timers)
      BY <2>2 DEF TimerTypeOK
    <3>2. /\ q \in Seq(Timers) /\ Len(q) = Len(queue) + 1
          /\ \A i \in 1 .. Len(queue) : q[i] = queue[i]
          /\ q[Len(queue) + 1] = t
      BY <3>1
    <3>3. DOMAIN queue = 1 .. Len(queue) /\ DOMAIN q = 1 .. Len(queue) + 1 /\ Len(queue) \in Nat
      BY <3>1, <3>2
    <3>4. \A i \in DOMAIN q : (i \in DOMAIN queue /\ q[i] = queue[i]) \/ i = Len(queue) + 1
      BY <3>2, <3>3
    <3>5. \A i, j \in DOMAIN q : q[i] = q[j] => i = j
      BY <3>2, <3>3, <3>4, <2>2 DEF OneEntry, Waiting
    <3>6. \A u : (\E i \in DOMAIN q : q[i] = u) <=> Waiting(u) \/ u = t
      BY <3>2, <3>3, <3>4 DEF Waiting
    <3>7. q # << >>
      BY <3>2, <3>3
    <3> QED BY <3>2, <3>5, <3>6, <3>7
  <2> QED BY <2>1, <2>2
<1>2. queue' \in Sorts(q, expire')
  BY DEF ScheduleTimer
<1> HIDE DEF q
<1>3. /\ queue' \in Seq(Timers) /\ Len(queue') = Len(q) /\ DOMAIN queue' = DOMAIN q
      /\ Descending(queue', expire')
      /\ \A i \in DOMAIN queue' : \E j \in DOMAIN q : queue'[i] = q[j]
      /\ \A j \in DOMAIN q : \E i \in DOMAIN queue' : queue'[i] = q[j]
      /\ \A i, j \in DOMAIN queue' : queue'[i] = queue'[j] => i = j
  <2>1. queue' \in Seq(Timers) /\ Descending(queue', expire') /\ Rearranged(queue', q)
    BY <1>1, <1>2, SortsRearranges
  <2> QED BY <1>1, <2>1 DEF Rearranged
<1>4. \A u : Waiting(u)' <=> Waiting(u) \/ u = t
  <2> TAKE u
  <2>1. Waiting(u)' <=> \E i \in DOMAIN queue' : queue'[i] = u
    BY DEF Waiting
  <2>2. (\E i \in DOMAIN queue' : queue'[i] = u) <=> (\E i \in DOMAIN q : q[i] = u)
    BY <1>3
  <2> QED BY <1>1, <2>1, <2>2
<1>5. queue' # << >>
  BY <1>1, <1>3
<1>6. signalled' \in BOOLEAN /\ cancelled' \in SUBSET Timers
  BY DEF ScheduleTimer, TimerTypeOK
<1> QED BY <1>1, <1>3, <1>4, <1>5, <1>6 DEF OneEntry

LEMMA RemoveFacts ==
  ASSUME TimerTypeOK, OneEntry, NEW t \in Timers, RemoveTimer(t), UNCHANGED expire
  PROVE  /\ queue' \in Seq(Timers) /\ OneEntry'
         /\ Descending(queue, expire) => Descending(queue', expire')
         /\ signalled' \in BOOLEAN /\ (signalled => signalled')
         /\ cancelled' \in SUBSET Timers
         /\ \A i \in DOMAIN queue' : queue'[i] # t /\ Waiting(queue'[i])
         /\ \A u : Waiting(u)' <=> Waiting(u) /\ u # t
<1>1. CASE ~Waiting(t) /\ UNCHANGED queue
  BY <1>1 DEF TimerTypeOK, OneEntry, RemoveTimer, Waiting
<1>2. CASE \E i \in FirstOf(queue, t) : queue' \in Sorts(Erase(queue, i), expire)
  <2>1. PICK k \in FirstOf(queue, t) : queue' \in Sorts(Erase(queue, k), expire)
    BY <1>2
  <2> DEFINE e == Erase(queue, k)
  <2>2. /\ e \in Seq(Timers)
        /\ \A i \in DOMAIN e : e[i] # t
        /\ \A i \in DOMAIN e : \E j \in DOMAIN queue : e[i] = queue[j]
        /\ \A j \in DOMAIN queue : queue[j] # t => \E i \in DOMAIN e : e[i] = queue[j]
        /\ \A i, j \in DOMAIN e : e[i] = e[j] => i = j
    BY EraseFacts, <2>1, SMTT(30) DEF OneEntry, TimerTypeOK
  <2> HIDE DEF e
  <2>3. queue' \in Sorts(e, expire)
    BY <2>1 DEF e
  <2>4. /\ queue' \in Seq(Timers) /\ Descending(queue', expire)
        /\ \A i \in DOMAIN queue' : \E j \in DOMAIN e : queue'[i] = e[j]
        /\ \A j \in DOMAIN e : \E i \in DOMAIN queue' : queue'[i] = e[j]
        /\ \A i, j \in DOMAIN queue' : queue'[i] = queue'[j] => i = j
    <3>1. queue' \in Seq(Timers) /\ Descending(queue', expire) /\ Rearranged(queue', e)
      BY <2>2, <2>3, SortsRearranges
    <3> QED BY <2>2, <3>1 DEF Rearranged
  <2>5. \A i \in DOMAIN queue' : queue'[i] # t /\ Waiting(queue'[i])
    BY <2>2, <2>4 DEF Waiting
  <2>6. \A u : Waiting(u)' <=> Waiting(u) /\ u # t
    BY <2>2, <2>4 DEF Waiting
  <2>7. signalled' \in BOOLEAN /\ (signalled => signalled') /\ cancelled' \in SUBSET Timers
    BY DEF RemoveTimer, TimerTypeOK
  <2> QED BY <2>4, <2>5, <2>6, <2>7 DEF OneEntry
<1> QED BY <1>1, <1>2 DEF RemoveTimer

(* What the loop's waking, or a timer more, does to the wait. *)
LEMMA ScheduledSleep ==
  ASSUME TimerInv, NEW t \in Timers, ScheduleTimer(t), expire' \in [Timers -> Nat],
         \A u \in Timers : u # t => expire'[u] = expire[u],
         UNCHANGED <<endless, until>>, tpc = "poll"
  PROVE  signalled' \/ \A i \in DOMAIN queue' : ~endless' /\ until' <= expire'[queue'[i]]
<1> SUFFICES ASSUME ~signalled'
             PROVE  \A i \in DOMAIN queue' : ~endless /\ until <= expire'[queue'[i]]
  OBVIOUS
<1>1. /\ queue' \in Seq(Timers) /\ queue' # << >>
      /\ Descending(queue', expire')
      /\ \A i \in DOMAIN queue' : queue'[i] = t \/ Waiting(queue'[i])
  BY ScheduleFacts DEF TimerInv
<1>2. ~signalled /\ Back(queue') # t
  BY DEF ScheduleTimer
<1>3. Len(queue') \in DOMAIN queue' /\ Len(queue') \in Nat
  BY <1>1
<1>4. Waiting(Back(queue')) /\ Back(queue') \in Timers
  BY <1>1, <1>2, <1>3 DEF Back
<1>5. ~endless /\ until <= expire[Back(queue')]
  BY <1>2, <1>4 DEF TimerInv, SleepInv, Waiting
<1>6. expire'[Back(queue')] = expire[Back(queue')]
  BY <1>2, <1>4
<1>7. ASSUME NEW i \in DOMAIN queue' PROVE expire'[Back(queue')] <= expire'[queue'[i]]
  <2>1. i = Len(queue') \/ i < Len(queue')
    BY <1>1, <1>3
  <2>2. expire'[queue'[i]] \in Nat
    BY <1>1
  <2> QED BY <1>1, <1>3, <2>1, <2>2 DEF Descending, Back
<1>8. until \in Nat /\ \A i \in DOMAIN queue' : expire'[queue'[i]] \in Nat
  BY <1>1 DEF TimerInv, TimerTypeOK
<1>9. expire'[Back(queue')] \in Nat
  BY <1>4
<1> QED BY <1>5, <1>6, <1>7, <1>8, <1>9

LEMMA AppKeepsTimers ==
  ASSUME ~ForeignReuse, TimerInv,
         \/ AsyncWait \/ CancelRemove
         \/ \E t \in Timers : CancelTest(t)
         \/ \E t \in Timers, d \in Durations : ExpiresFromNow(t, d)
  PROVE  TimerInv'
<1> USE TimerAssumption
<1>1. CASE AsyncWait
  <2>1. about \in Timers /\ ~Waiting(about) /\ firing # about /\ call = "async"
    BY <1>1 DEF AsyncWait, TimerInv, AppInv
  <2>2. ScheduleTimer(about) /\ UNCHANGED <<now, cur, expire, dur, endless, until, tpc, firing, again, setups>>
        /\ ~Locked /\ call' = "none" /\ about' = NoTimer
    BY <1>1 DEF AsyncWait
  <2>3. PICK t \in Timers : t = about
    BY <2>1
  <2>4. /\ queue' \in Seq(Timers) /\ queue' # << >> /\ OneEntry'
        /\ Descending(queue', expire')
        /\ signalled' \in BOOLEAN /\ cancelled' \in SUBSET Timers
        /\ \A i \in DOMAIN queue' : queue'[i] = t \/ Waiting(queue'[i])
        /\ \A u : Waiting(u)' <=> Waiting(u) \/ u = t
    BY <2>2, <2>3, ScheduleFacts DEF TimerInv
  <2>5. TimerTypeOK'
    BY <2>2, <2>4 DEF TimerInv, TimerTypeOK
  <2>6. FiringInv' /\ AppInv' /\ SortedInv'
    BY <2>2, <2>4 DEF TimerInv, FiringInv, AppInv, SortedInv, Locked
  <2>7. SleepInv'
    <3>1. \A u \in Timers : u # t => expire'[u] = expire[u]
      BY <2>2
    <3>2. expire' \in [Timers -> Nat]
      BY <2>2 DEF TimerInv, TimerTypeOK
    <3> QED BY <2>2, <2>3, <3>1, <3>2, ScheduledSleep DEF SleepInv
  <2>8. CancelHolds'
    BY <2>1, <2>2, <2>3, <2>4 DEF TimerInv, CancelHolds, ScheduleTimer
  <2> QED BY <2>4, <2>5, <2>6, <2>7, <2>8 DEF TimerInv
<1>2. CASE CancelRemove
  <2>1. about \in Timers /\ firing = NoTimer
    BY <1>2 DEF CancelRemove, TimerInv, AppInv, FiringInv, Locked
  <2>2. /\ RemoveTimer(about) /\ UNCHANGED <<now, cur, expire, dur, endless, until, tpc, firing, again, setups>>
        /\ ~Locked /\ call' = "none" /\ about' = NoTimer
    BY <1>2 DEF CancelRemove, timeVars
  <2>3. PICK t \in Timers : t = about
    BY <2>1
  <2>4. /\ queue' \in Seq(Timers) /\ OneEntry'
        /\ Descending(queue, expire) => Descending(queue', expire')
        /\ signalled' \in BOOLEAN /\ (signalled => signalled')
        /\ cancelled' \in SUBSET Timers
        /\ \A i \in DOMAIN queue' : queue'[i] # t /\ Waiting(queue'[i])
        /\ \A u : Waiting(u)' <=> Waiting(u) /\ u # t
    BY <2>2, <2>3, RemoveFacts DEF TimerInv
  <2>5. TimerTypeOK'
    BY <2>2, <2>4 DEF TimerInv, TimerTypeOK
  <2>6. FiringInv' /\ AppInv' /\ SortedInv'
    BY <2>2, <2>4 DEF TimerInv, FiringInv, AppInv, SortedInv, Locked
  <2>7. SleepInv'
    BY <2>2, <2>4 DEF TimerInv, SleepInv, Waiting
  <2>8. CancelHolds'
    BY <2>1, <2>2, <2>3, <2>4 DEF TimerInv, CancelHolds, RemoveTimer
  <2> QED BY <2>4, <2>5, <2>6, <2>7, <2>8 DEF TimerInv
<1>3. CASE \E t \in Timers : CancelTest(t)
  <2>1. PICK t \in Timers : CancelTest(t)
    BY <1>3
  <2>2. UNCHANGED <<now, cur, expire, dur, queue, signalled, endless, until, tpc, firing, again, cancelled>>
    BY <2>1 DEF CancelTest, timeVars, pollVars
  <2>3. TimerTypeOK' /\ AppInv'
    BY <2>1, <2>2 DEF CancelTest, TimerInv, TimerTypeOK, AppInv, Waiting
  <2>4. OneEntry' /\ FiringInv' /\ SortedInv' /\ SleepInv' /\ CancelHolds'
    BY <2>2 DEF TimerInv, OneEntry, FiringInv, SortedInv, SleepInv, CancelHolds, Waiting, Locked, Descending
  <2> QED BY <2>3, <2>4 DEF TimerInv
<1>4. CASE \E t \in Timers, d \in Durations : ExpiresFromNow(t, d)
  <2>1. PICK t \in Timers, d \in Durations : ExpiresFromNow(t, d)
    BY <1>4
  <2>2. /\ UNCHANGED <<now, cur, queue, signalled, endless, until, tpc, firing, again, cancelled>>
        /\ expire' = [expire EXCEPT ![t] = now + d] /\ ~Waiting(t) /\ firing # t
        /\ call' = "async" /\ about' = t
    BY <2>1 DEF ExpiresFromNow, pollVars
  <2>3. TimerTypeOK' /\ AppInv'
    BY <2>1, <2>2 DEF ExpiresFromNow, TimerInv, TimerTypeOK, AppInv, Waiting
  <2>4. \A i \in DOMAIN queue : queue[i] \in Timers /\ expire'[queue[i]] = expire[queue[i]]
    BY <2>2 DEF TimerInv, TimerTypeOK, Waiting
  <2>5. SortedInv' /\ SleepInv'
    BY <2>2, <2>4 DEF TimerInv, SortedInv, SleepInv, Locked, Descending
  <2>6. OneEntry' /\ FiringInv' /\ CancelHolds'
    BY <2>2 DEF TimerInv, OneEntry, FiringInv, CancelHolds, Waiting
  <2> QED BY <2>3, <2>5, <2>6 DEF TimerInv
<1> QED BY <1>1, <1>2, <1>3, <1>4

(* A timer set up on the loop's own thread. *)
LEMMA LoopCallsKeepTimers ==
  ASSUME TimerInv,
         \/ \E t \in Timers : CancelOnLoop(t)
         \/ \E t \in Timers, d \in Durations : ScheduleOnLoop(t, d)
  PROVE  TimerInv'
<1> USE TimerAssumption
<1>1. ASSUME NEW t \in Timers, CancelOnLoop(t) PROVE TimerInv'
  <2>1. /\ UNCHANGED <<now, cur, expire, dur, endless, until, tpc, firing, again, call, about>>
        /\ tpc # "poll" /\ t # firing /\ setups' \in 0 .. MaxCalls
    BY <1>1 DEF CancelOnLoop, timeVars, TimerInv, TimerTypeOK
  <2>2. CASE UNCHANGED <<queue, signalled, cancelled>>
    BY <2>1, <2>2 DEF TimerInv, TimerTypeOK, OneEntry, FiringInv, AppInv, SortedInv, SleepInv,
                      CancelHolds, Waiting, Locked, Descending
  <2>3. CASE RemoveTimer(t)
    <3>1. /\ queue' \in Seq(Timers) /\ OneEntry'
          /\ Descending(queue, expire) => Descending(queue', expire')
          /\ signalled' \in BOOLEAN /\ cancelled' \in SUBSET Timers
          /\ \A u : Waiting(u)' <=> Waiting(u) /\ u # t
      BY <2>1, <2>3, RemoveFacts DEF TimerInv
    <3>2. TimerTypeOK'
      BY <2>1, <3>1 DEF TimerInv, TimerTypeOK
    <3>3. FiringInv' /\ AppInv' /\ SortedInv' /\ SleepInv'
      BY <2>1, <3>1 DEF TimerInv, FiringInv, AppInv, SortedInv, SleepInv, Locked
    <3>4. CancelHolds'
      BY <2>1, <2>3, <3>1 DEF TimerInv, CancelHolds, RemoveTimer
    <3> QED BY <3>1, <3>2, <3>3, <3>4 DEF TimerInv
  <2> QED BY <1>1, <2>2, <2>3 DEF CancelOnLoop
<1>2. ASSUME NEW t \in Timers, NEW d \in Durations, ScheduleOnLoop(t, d) PROVE TimerInv'
  <2>1. /\ UNCHANGED <<now, cur, endless, until, tpc, firing, again, call, about>>
        /\ ScheduleTimer(t) /\ tpc # "poll" /\ about # t
    BY <1>2 DEF ScheduleOnLoop
  <2>2. dur' \in [Timers -> Durations] /\ expire' \in [Timers -> Nat] /\ setups' \in 0 .. MaxCalls
    BY <1>2 DEF ScheduleOnLoop, TimerInv, TimerTypeOK
  <2>3. /\ queue' \in Seq(Timers) /\ OneEntry'
        /\ Descending(queue', expire')
        /\ signalled' \in BOOLEAN /\ cancelled' \in SUBSET Timers
        /\ \A u : Waiting(u)' <=> Waiting(u) \/ u = t
    BY <2>1, ScheduleFacts DEF TimerInv
  <2>4. TimerTypeOK'
    BY <2>1, <2>2, <2>3 DEF TimerInv, TimerTypeOK
  <2>5. FiringInv' /\ AppInv' /\ SortedInv' /\ SleepInv'
    BY <2>1, <2>3 DEF TimerInv, FiringInv, AppInv, SortedInv, SleepInv, Locked
  <2>6. CancelHolds'
    BY <2>1, <2>3 DEF TimerInv, CancelHolds, ScheduleTimer
  <2> QED BY <2>3, <2>4, <2>5, <2>6 DEF TimerInv
<1> QED BY <1>1, <1>2

(* What is last in a sorted queue is the earliest of it. *)
LEMMA BackIsEarliest ==
  ASSUME TimerInv, ~again, queue # << >>
  PROVE  /\ Len(queue) \in DOMAIN queue /\ Back(queue) \in Timers
         /\ \A i \in DOMAIN queue : expire[Back(queue)] <= expire[queue[i]]
<1>1. queue \in Seq(Timers) /\ Len(queue) \in DOMAIN queue /\ Len(queue) \in Nat
  BY DEF TimerInv, TimerTypeOK
<1>2. ASSUME NEW i \in DOMAIN queue PROVE expire[Back(queue)] <= expire[queue[i]]
  <2>1. i = Len(queue) \/ i < Len(queue)
    BY <1>1
  <2>2. expire[queue[i]] \in Nat
    BY <1>1 DEF TimerInv, TimerTypeOK
  <2> QED BY <1>1, <2>1, <2>2 DEF TimerInv, SortedInv, Descending, Back
<1> QED BY <1>1, <1>2 DEF Back

LEMMA LoopKeepsTimers ==
  ASSUME TimerInv, TimerLoop \/ PollOther \/ Tick
  PROVE  TimerInv'
<1> USE TimerAssumption DEF timeVars, pollVars, appVars
<1>1. CASE Tick
  BY <1>1 DEF Tick, TimerInv, TimerTypeOK, OneEntry, FiringInv, AppInv, SortedInv, SleepInv,
              CancelHolds, Waiting, Locked, Descending
<1>2. CASE CacheTime
  BY <1>2 DEF CacheTime, TimerInv, TimerTypeOK, OneEntry, FiringInv, AppInv, SortedInv, SleepInv,
              CancelHolds, Waiting, Locked, Descending
<1>3. CASE GetTimeout
  <2>1. /\ UNCHANGED <<now, cur, expire, dur, queue, signalled, firing, again, call, about, setups, cancelled>>
        /\ tpc = "timeout" /\ tpc' = "poll" /\ endless' = (queue = << >>)
        /\ until' = IF queue = << >> THEN 0 ELSE expire[Back(queue)]
    BY <1>3 DEF GetTimeout
  <2>2. ~again
    BY <2>1 DEF TimerInv, SortedInv, Locked
  <2>3. SleepInv' /\ until' \in Nat
    <3>1. CASE queue = << >>
      BY <2>1, <3>1 DEF SleepInv
    <3>2. CASE queue # << >>
      BY <2>1, <2>2, <3>2, BackIsEarliest DEF SleepInv, TimerInv, TimerTypeOK
    <3> QED BY <3>1, <3>2
  <2>4. endless' \in BOOLEAN
    BY <2>1
  <2>5. TimerTypeOK'
    BY <2>1, <2>3, <2>4 DEF TimerInv, TimerTypeOK
  <2> QED BY <2>1, <2>3, <2>5 DEF TimerInv, OneEntry, FiringInv, AppInv, SortedInv, CancelHolds,
                                  Waiting, Locked, Descending
<1>4. CASE WakeUp
  <2>1. /\ UNCHANGED <<now, cur, expire, dur, queue, endless, until, firing, again, call, about, setups, cancelled>>
        /\ tpc = "poll" /\ tpc' = "timers"
    BY <1>4 DEF WakeUp
  <2>2. signalled' \in BOOLEAN
    BY <1>4 DEF WakeUp, TimerInv, TimerTypeOK
  <2> QED BY <2>1, <2>2 DEF TimerInv, TimerTypeOK, OneEntry, FiringInv, AppInv, SortedInv, SleepInv,
                            CancelHolds, Waiting, Locked, Descending
<1>5. CASE TimersEnter
  BY <1>5 DEF TimersEnter, TimerInv, TimerTypeOK, OneEntry, FiringInv, AppInv, SortedInv, SleepInv,
              CancelHolds, Waiting, Locked, Descending
<1>6. CASE FireTimer
  <2>1. /\ UNCHANGED <<now, cur, expire, dur, signalled, endless, until, again, call, about, setups, cancelled>>
        /\ tpc = "due" /\ tpc' = "callback" /\ queue # << >>
        /\ firing' = Back(queue) /\ queue' = SubSeq(queue, 1, Len(queue) - 1)
    BY <1>6 DEF FireTimer, Due
  <2>2. /\ queue \in Seq(Timers) /\ Len(queue) \in Nat \ {0} /\ DOMAIN queue = 1 .. Len(queue)
    BY <2>1 DEF TimerInv, TimerTypeOK
  <2>3. /\ queue' \in Seq(Timers) /\ DOMAIN queue' = 1 .. Len(queue) - 1
        /\ \A i \in DOMAIN queue' : i \in DOMAIN queue /\ queue'[i] = queue[i]
    BY <2>1, <2>2
  <2>4. firing' \in Timers /\ Waiting(firing')
    BY <2>1, <2>2 DEF Back, Waiting
  <2>5. TimerTypeOK' /\ FiringInv'
    BY <2>1, <2>3, <2>4 DEF TimerInv, TimerTypeOK, FiringInv
  <2>6. \A u : Waiting(u)' => Waiting(u)
    BY <2>3 DEF Waiting
  <2>7. AppInv' /\ CancelHolds' /\ SleepInv' /\ OneEntry'
    BY <2>1, <2>3, <2>4, <2>6 DEF TimerInv, AppInv, CancelHolds, SleepInv, OneEntry
  <2>8. SortedInv'
    BY <2>1, <2>3 DEF TimerInv, SortedInv, Locked, Descending
  <2> QED BY <2>5, <2>7, <2>8 DEF TimerInv
<1>7. CASE CallbackOnce
  BY <1>7 DEF CallbackOnce, TimerInv, TimerTypeOK, OneEntry, FiringInv, AppInv, SortedInv, SleepInv,
              CancelHolds, Waiting, Locked, Descending
<1>8. CASE CallbackAgain
  <2>1. /\ UNCHANGED <<now, cur, dur, signalled, endless, until, call, about, setups, cancelled>>
        /\ tpc = "callback" /\ tpc' = "due" /\ ~Waiting(firing) /\ again' = TRUE /\ firing' = NoTimer
        /\ queue' = Append(queue, firing) /\ expire' = [expire EXCEPT ![firing] = now + dur[firing]]
    BY <1>8 DEF CallbackAgain
  <2>2. firing \in Timers /\ queue \in Seq(Timers)
    BY <2>1 DEF TimerInv, FiringInv, TimerTypeOK
  <2>3. /\ queue' \in Seq(Timers) /\ DOMAIN queue' = 1 .. Len(queue) + 1 /\ DOMAIN queue = 1 .. Len(queue)
        /\ Len(queue) \in Nat
        /\ \A i \in DOMAIN queue : queue'[i] = queue[i]
        /\ queue'[Len(queue) + 1] = firing
    BY <2>1, <2>2
  <2>4. TimerTypeOK'
    <3>1. now \in Nat /\ dur[firing] \in Durations /\ Durations \subseteq Nat
      BY <2>2 DEF TimerInv, TimerTypeOK
    <3>2. dur[firing] \in Nat
      BY ONLY <3>1
    <3>3. now + dur[firing] \in Nat
      BY ONLY <3>1, <3>2
    <3>4. expire' \in [Timers -> Nat]
      BY <2>1, <2>2, <3>3 DEF TimerInv, TimerTypeOK
    <3> QED BY <2>1, <2>3, <3>4 DEF TimerInv, TimerTypeOK
  <2>5. \A i \in DOMAIN queue' : i \in DOMAIN queue \/ i = Len(queue) + 1
    BY <2>3
  <2>6. OneEntry'
    BY <2>1, <2>3, <2>5 DEF TimerInv, OneEntry, Waiting
  <2>7. \A u : Waiting(u)' => Waiting(u) \/ u = firing
    BY <2>3, <2>5 DEF Waiting
  <2>8. FiringInv' /\ SortedInv' /\ SleepInv'
    BY <2>1 DEF FiringInv, SortedInv, SleepInv, Locked
  <2>9. AppInv' /\ CancelHolds'
    BY <2>1, <2>2, <2>7 DEF TimerInv, TimerTypeOK, AppInv, CancelHolds
  <2> QED BY <2>4, <2>6, <2>8, <2>9 DEF TimerInv
<1>9. CASE TimersDone
  <2>1. /\ UNCHANGED <<now, cur, expire, dur, signalled, endless, until, firing, call, about, setups, cancelled>>
        /\ tpc = "due" /\ tpc' = "dispatch" /\ again' = FALSE
        /\ (queue' = queue /\ ~again) \/ queue' \in Sorts(queue, expire)
    BY <1>9 DEF TimersDone
  <2>2. queue' \in Seq(Timers) /\ Descending(queue', expire) /\ OneEntry' /\ \A u : Waiting(u)' => Waiting(u)
    <3>1. CASE queue' = queue /\ ~again
      BY <3>1 DEF TimerInv, TimerTypeOK, SortedInv, OneEntry, Waiting
    <3>2. CASE queue' \in Sorts(queue, expire)
      <4>1. queue' \in Seq(Timers) /\ Descending(queue', expire) /\ Rearranged(queue', queue)
        BY <3>2, SortsRearranges DEF TimerInv, TimerTypeOK
      <4> QED BY <4>1 DEF Rearranged, TimerInv, OneEntry, Waiting
    <3> QED BY <2>1, <3>1, <3>2
  <2>3. TimerTypeOK'
    BY <2>1, <2>2 DEF TimerInv, TimerTypeOK
  <2>4. SortedInv' /\ FiringInv' /\ SleepInv'
    BY <2>1, <2>2 DEF TimerInv, SortedInv, FiringInv, SleepInv
  <2>5. AppInv' /\ CancelHolds'
    BY <2>1, <2>2 DEF TimerInv, AppInv, CancelHolds
  <2> QED BY <2>2, <2>3, <2>4, <2>5 DEF TimerInv
<1>10. CASE FrameEnds
  BY <1>10 DEF FrameEnds, TimerInv, TimerTypeOK, OneEntry, FiringInv, AppInv, SortedInv, SleepInv,
              CancelHolds, Waiting, Locked, Descending
<1> QED
  BY <1>1, <1>2, <1>3, <1>4, <1>5, <1>6, <1>7, <1>8, <1>9, <1>10
  DEF TimerLoop, TimerPoll, PollOther

(* While the application's thread sets up idle timers only, whoever takes  *)
(* timer_queue_mtx_ finds the earliest timer at the back, the loop never   *)
(* polls past an expiry without a wakeup, and a timer whose cancel() took  *)
(* effect is not called back, for any number of timers and durations and   *)
(* in every interleaving of schedule_timer and remove_timer with           *)
(* process_timers and its callbacks.                                       *)
THEOREM TimersKeepOrder ==
  ASSUME ~ForeignReuse PROVE TimerSpec => []TimersSafe
<1>1. TimerInit => TimerInv
  <2> SUFFICES ASSUME TimerInit PROVE TimerInv
    OBVIOUS
  <2>1. expire \in [Timers -> Nat] /\ queue \in Seq(Timers) /\ DOMAIN queue = {}
    BY DEF TimerInit
  <2>2. now \in 0 .. MaxTime /\ cur \in 0 .. now /\ setups \in 0 .. MaxCalls /\ until \in Nat
    BY TimerAssumption DEF TimerInit
  <2>3. TimerTypeOK
    BY <2>1, <2>2 DEF TimerInit, TimerTypeOK
  <2> QED BY <2>1, <2>3 DEF TimerInit, TimerInv, OneEntry, FiringInv, AppInv, SortedInv, SleepInv,
                            CancelHolds, Waiting, Locked, Descending
<1>2. TimerInv /\ [TimerNext]_tvars => TimerInv'
  <2>1. CASE UNCHANGED tvars
    BY <2>1 DEF tvars, TimerInv, TimerTypeOK, OneEntry, FiringInv, AppInv, SortedInv, SleepInv,
                CancelHolds, Waiting, Locked, Descending
  <2>2. CASE TimerNext
    BY <2>2, AppKeepsTimers, LoopCallsKeepTimers, LoopKeepsTimers DEF TimerNext, Calls, AppSteps
  <2> QED BY <2>1, <2>2
<1>3. TimerInv => TimersSafe
  BY DEF TimerInv, TimersSafe, EarliestLast, NoOversleep, SortedInv, SleepInv
<1> QED BY <1>1, <1>2, <1>3, PTL DEF TimerSpec

---------------------------------------------------------------------------
(* TLS and KCP sessions.  The invariant of a TLS session: buffer_ has room *)
(* for more at every moment, a packet under way is short of its size and   *)
(* then buffer_ is empty, and what the library holds is in sight of the    *)
(* loop.                                                                   *)
PartInv ==
  /\ size = 0 => part = 0
  /\ size > 0 => off = 0 /\ part < size /\ size \in TlsPackets

HeldInv ==
  held > 0 => ready /\ tls # "shaking" /\ (tls = "open" /\ turn = "poll" => nowait)

EndInv ==
  tls = "closed" /\ why # "ssl_handshake_failed" =>
    held = 0 /\ kern # <<>> /\ (Head(kern).k = "notify" => why = "eof")

SslInv ==
  /\ SslTypeOK /\ off < TlsRoom
  /\ PartInv /\ HeldInv /\ TlsBytesExact /\ EndInv

(* Packets are shorter than buffer_: one as long as it may leave the       *)
(* library's rest out of the loop's sight.                                 *)
PacketsFit == \A p \in TlsPackets : p < TlsRoom

(* A read that fills buffer_ always completes a packet with something      *)
(* behind it.                                                              *)
LEMMA UnpacksFacts ==
  ASSUME SslInv, PacketsFit, NEW p \in TlsPackets, NEW n \in Nat, n <= TlsRoom - off,
         Unpacks(off + n, p), part < p, size > 0 => size = p, used' = used + n
  PROVE  /\ off' \in 0 .. TlsRoom /\ off' < TlsRoom /\ size' \in Nat /\ part' \in Nat
         /\ whole' \in Nat /\ nowait' \in BOOLEAN
         /\ PartInv' /\ TlsBytesExact'
         /\ n = TlsRoom - off => nowait'
<1>1. /\ p \in Nat /\ p > 0 /\ p < TlsRoom /\ TlsRoom \in Nat
      /\ off \in Nat /\ part \in Nat /\ whole \in Nat /\ used \in Nat /\ nowait \in BOOLEAN
      /\ whole + part + off = used
  BY SslAssumption DEF SslInv, SslTypeOK, PacketsFit, TlsBytesExact
<1>2. CASE part + (off + n) < p
  <2>1. off' = 0 /\ part' = part + (off + n) /\ size' = p /\ whole' = whole /\ nowait' = nowait
    BY <1>2 DEF Unpacks
  <2> QED BY <1>1, <1>2, <2>1 DEF PartInv, TlsBytesExact
<1>3. CASE ~(part + (off + n) < p)
  <2>1. /\ off' = part + (off + n) - p /\ part' = 0 /\ size' = 0 /\ whole' = whole + p
        /\ nowait' = (part + (off + n) > p)
    BY <1>3 DEF Unpacks
  <2>2. nowait' \in BOOLEAN
    BY <2>1
  <2>3. n = TlsRoom - off => part + (off + n) > p
    BY <1>1
  <2>4. n = TlsRoom - off => nowait'
    BY ONLY <2>1, <2>3
  <2> QED BY <1>1, <1>3, <2>1, <2>2, <2>4 DEF PartInv, TlsBytesExact
<1> QED BY <1>2, <1>3

LEMMA ReceivesFacts ==
  ASSUME SslInv, PacketsFit, NEW n \in Nat, n <= TlsRoom - off, Receives(n)
  PROVE  /\ off' \in 0 .. TlsRoom /\ off' < TlsRoom /\ size' \in Nat /\ part' \in Nat
         /\ whole' \in Nat /\ nowait' \in BOOLEAN /\ used' \in Nat
         /\ PartInv' /\ TlsBytesExact'
         /\ n = TlsRoom - off => nowait'
<1>1. /\ used' = used + n /\ used \in Nat /\ off \in Nat /\ off < TlsRoom /\ TlsRoom \in Nat
      /\ size \in Nat
  BY SslAssumption DEF Receives, SslInv, SslTypeOK
<1>2. CASE off + n = 0
  BY <1>1, <1>2 DEF Receives, SslInv, SslTypeOK, PartInv, TlsBytesExact
<1>3. CASE off + n # 0 /\ size > 0
  <2>1. size \in TlsPackets /\ part < size /\ Unpacks(off + n, size)
    BY <1>3 DEF Receives, SslInv, PartInv
  <2>2. PICK p \in TlsPackets : p = size
    BY <2>1
  <2> QED BY <1>1, <2>1, <2>2, UnpacksFacts
<1>4. CASE off + n # 0 /\ ~(size > 0)
  <2>1. PICK p \in TlsPackets : Unpacks(off + n, p)
    BY <1>4 DEF Receives
  <2>2. part = 0 /\ p > 0
    BY <1>1, <1>4, SslAssumption DEF SslInv, PartInv
  <2> QED BY <1>1, <1>4, <2>1, <2>2, UnpacksFacts
<1> QED BY <1>2, <1>3, <1>4

LEMMA SslKeepsInv ==
  ASSUME SslInv, PacketsFit, [SslNext]_tlsvars
  PROVE  SslInv'
<1> USE SslAssumption
<1>1. CASE UNCHANGED tlsvars
  BY <1>1 DEF tlsvars, SslInv, SslTypeOK, PartInv, HeldInv, TlsBytesExact, EndInv
<1>2. CASE Arriving
  <2>1. UNCHANGED <<library, held, off, size, part, whole, ready, nowait, tls, why, turn, used>>
    BY <1>2 DEF Arriving
  <2>2. /\ inbound' \in Seq(Item) /\ kern' \in Seq(Item)
        /\ kern # <<>> => kern' # <<>> /\ Head(kern') = Head(kern)
    BY <1>2 DEF Arriving, SslInv, SslTypeOK
  <2>3. SslTypeOK' /\ (off < TlsRoom)' /\ PartInv' /\ HeldInv' /\ TlsBytesExact'
    BY <2>1, <2>2 DEF SslInv, SslTypeOK, PartInv, HeldInv, TlsBytesExact
  <2>4. EndInv'
    BY <2>1, <2>2 DEF SslInv, EndInv
  <2> QED BY <2>3, <2>4 DEF SslInv
<1>3. CASE Wait
  <2>1. /\ UNCHANGED <<library, inbound, kern, held, off, size, part, whole, tls, why, used>>
        /\ turn' = "read" /\ tls # "closed" /\ nowait' = FALSE
        /\ ready' = IF nowait THEN ready ELSE TRUE
    BY <1>3 DEF Wait
  <2>2. ready' \in BOOLEAN /\ (ready => ready')
    BY <2>1 DEF SslInv, SslTypeOK
  <2> QED BY <2>1, <2>2 DEF SslInv, SslTypeOK, PartInv, HeldInv, TlsBytesExact, EndInv
<1>4. CASE Handshakes
  <2>1. /\ UNCHANGED <<library, inbound, held, off, size, part, whole, ready, used>>
        /\ tls = "shaking" /\ turn' = "poll"
    BY <1>4 DEF Handshakes
  <2>2. /\ kern' \in Seq(Item) /\ nowait' \in BOOLEAN
        /\ \/ tls' \in {"shaking", "open"}
           \/ tls' = "closed" /\ why' = "ssl_handshake_failed"
    <3>1. CASE kern = <<>> /\ nowait' = TRUE /\ UNCHANGED <<kern, tls, why>>
      BY <2>1, <3>1 DEF SslInv, SslTypeOK
    <3>2. CASE /\ kern # <<>> /\ kern' = Tail(kern)
               /\ LET last == \A i \in DOMAIN inbound : inbound[i].k # "hello"
                      over == last /\ (kern' = <<>> \/ Head(kern').k # "hello")
                  IN  /\ tls' = IF over THEN "open" ELSE tls
                      /\ nowait' = (nowait \/ ~over)
      BY <2>1, <3>2 DEF SslInv, SslTypeOK
    <3>3. CASE tls' = "closed" /\ why' = "ssl_handshake_failed" /\ UNCHANGED <<kern, nowait>>
      BY <3>3 DEF SslInv, SslTypeOK
    <3> QED BY <1>4, <3>1, <3>2, <3>3 DEF Handshakes
  <2>3. held = 0
    BY <2>1 DEF SslInv, SslTypeOK, HeldInv
  <2> QED BY <2>1, <2>2, <2>3 DEF SslInv, SslTypeOK, PartInv, HeldInv, TlsBytesExact, EndInv
<1>5. CASE Reads
  <2>1. /\ UNCHANGED <<library, inbound, ready>>
        /\ turn = "read" /\ tls = "open" /\ turn' = "poll"
    BY <1>5 DEF Reads
  <2>2. off \in Nat /\ off < TlsRoom /\ TlsRoom \in Nat /\ held \in Nat /\ kern \in Seq(Item)
    BY DEF SslInv, SslTypeOK
  <2>3. ASSUME NEW n \in Nat, n <= TlsRoom - off, Receives(n), UNCHANGED <<tls, why>>,
               kern' \in Seq(Item), held' \in Nat, held' > 0 => ready /\ n = TlsRoom - off
        PROVE  SslInv'
    <3>1. /\ off' \in 0 .. TlsRoom /\ off' < TlsRoom /\ size' \in Nat /\ part' \in Nat
          /\ whole' \in Nat /\ nowait' \in BOOLEAN /\ used' \in Nat
          /\ PartInv' /\ TlsBytesExact'
          /\ n = TlsRoom - off => nowait'
      BY <2>3, ReceivesFacts
    <3> QED BY <2>1, <2>3, <3>1 DEF SslInv, SslTypeOK, HeldInv, EndInv
  <2>4. CASE ReadsNothing
    <3>1. held = 0
      BY <2>2, <2>4 DEF ReadsNothing, SslInv, HeldInv
    <3> QED BY <2>2, <2>3, <2>4, <3>1 DEF ReadsNothing
  <2>5. CASE ReadsHeld
    <3>1. PICK n \in Nat : n = Least(held, TlsRoom - off)
      <4>1. TlsRoom - off \in Nat
        BY <2>2
      <4> QED BY <2>2, <4>1 DEF Least
    <3>2. n <= TlsRoom - off /\ held - n \in Nat /\ (held - n > 0 => n = TlsRoom - off)
      BY <2>2, <3>1 DEF Least
    <3> QED BY <2>2, <2>3, <2>5, <3>1, <3>2 DEF ReadsHeld
  <2>6. CASE ReadsRecord
    <3>1. Head(kern) \in Item /\ Tail(kern) \in Seq(Item)
      BY <2>2, <2>6 DEF ReadsRecord
    <3>2. PICK h \in Nat : h = Head(kern).n
      BY <3>1 DEF Item
    <3>3. PICK n \in Nat : n = Least(h, TlsRoom - off)
      <4>1. TlsRoom - off \in Nat
        BY <2>2
      <4> QED BY <4>1 DEF Least
    <3>4. n <= TlsRoom - off /\ h - n \in Nat /\ (h - n > 0 => n = TlsRoom - off)
      BY <2>2, <3>3 DEF Least
    <3> QED BY <2>2, <2>3, <2>6, <3>1, <3>2, <3>3, <3>4 DEF ReadsRecord
  <2>7. CASE ReadsEnd
    <3>1. /\ UNCHANGED <<kern, held, off, size, part, whole, nowait, used>>
          /\ tls' = "closed" /\ why' = Reason(Head(kern)) /\ held = 0 /\ kern # <<>>
      BY <2>7 DEF ReadsEnd
    <3>2. Head(kern).k = "notify" => why' = "eof"
      BY <3>1 DEF Reason
    <3> QED BY <2>1, <3>1, <3>2 DEF SslInv, SslTypeOK, PartInv, HeldInv, TlsBytesExact, EndInv
  <2> QED BY <1>5, <2>4, <2>5, <2>6, <2>7 DEF Reads
<1> QED BY <1>1, <1>2, <1>3, <1>4, <1>5 DEF SslNext, SslLoop

LEMMA SslStarts == SslInit => SslInv
<1> SUFFICES ASSUME SslInit PROVE SslInv
  OBVIOUS
<1>1. inbound \in Seq(Item)
  <2>1. PICK s \in Inbounds, e \in {<<>>} \cup {<<x>> : x \in Ends} : inbound = s \o e
    BY DEF SslInit
  <2>2. Hellos \in Seq(Item)
    BY SslAssumption DEF Hellos, Hello, Item
  <2>3. s \in Seq(Item)
    <3>1. PICK body \in UNION {[1..m -> [k : {"data"}, n : TlsRecords]] : m \in 0..TlsCount} :
            s = Hellos \o body
      BY DEF Inbounds
    <3>2. PICK m \in 0..TlsCount : body \in [1..m -> [k : {"data"}, n : TlsRecords]]
      OBVIOUS
    <3>3. [k : {"data"}, n : TlsRecords] \subseteq Item
      BY SslAssumption DEF Item
    <3>4. m \in Nat /\ body \in [1..m -> Item]
      BY <3>2, <3>3, SslAssumption
    <3>5. body \in Seq(Item)
      BY <3>4
    <3> QED BY <2>2, <3>1, <3>5
  <2>4. e \in Seq(Item)
    <3>1. Ends \subseteq Item
      BY DEF Ends, Item
    <3>2. CASE e = <<>>
      BY <3>2
    <3>3. ASSUME NEW x \in Ends, e = <<x>> PROVE e \in Seq(Item)
      BY <3>1, <3>3
    <3> QED BY <3>2, <3>3
  <2> QED BY <2>1, <2>3, <2>4
<1>2. kern \in Seq(Item) /\ off \in 0..TlsRoom /\ off < TlsRoom
  BY SslAssumption DEF SslInit
<1>3. SslTypeOK
  BY <1>1, <1>2 DEF SslInit, SslTypeOK
<1>4. PartInv /\ HeldInv /\ TlsBytesExact /\ EndInv
  BY DEF SslInit, PartInv, HeldInv, TlsBytesExact, EndInv
<1> QED BY <1>2, <1>3, <1>4 DEF SslInv

(* An update that was asked for and has not been made is due at 0, which   *)
(* lies behind every time in the lower half of the clock's range.          *)
AskedInv == asked => due = 0 /\ clock >= Half

LEMMA KcpKeepsUpdated ==
  ASSUME AskedInv, [KcpNext]_kvars
  PROVE  AskedInv'
<1>1. CASE UNCHANGED kvars \/ KcpWrite \/ \E d \in Datagrams : KcpArrives(d)
  BY <1>1 DEF kvars, KcpWrite, KcpArrives, AskedInv, Half
<1>2. CASE KcpTurn
  <2>1. PICK now_ \in KcpClock :
          LET d == IF raw = <<>> THEN "none" ELSE Head(raw)
              n == IF raw = <<>> THEN 0 ELSE 1
              input == n > 0 /\ d # "refused"
              t == DueAfter(input, unsent > 0)
              runs == Reached(now_, t)
          IN  /\ asked' = ((asked \/ input \/ unsent > 0) /\ ~runs)
              /\ due' = IF runs THEN (now_ + 1) % KcpSpan ELSE t
              /\ clock' = now_
    BY <1>2 DEF KcpTurn
  <2>2. ASSUME asked' PROVE due' = 0 /\ clock' = now_ /\ ~Reached(now_, 0)
    BY <2>1, <2>2 DEF DueAfter, AskedInv
  <2>3. Reached(now_, 0) \/ now_ >= Half
    <3>1. PICK span, h : span = KcpSpan /\ h = Half
      OBVIOUS
    <3>2. span \in Nat \ {0} /\ h \in Nat /\ now_ \in Nat /\ now_ <= span - 1
      BY <2>1, <3>1, KcpAssumption DEF KcpClock, Half
    <3>3. (now_ - 0) % span = now_
      BY <3>2
    <3> QED BY <3>1, <3>2, <3>3 DEF Reached
  <2>4. Half' = Half
    BY DEF Half
  <2> QED BY <2>2, <2>3, <2>4 DEF AskedInv
<1> QED BY <1>1, <1>2 DEF KcpNext

(* A session on top of a socket keeps its accounts: every byte OpenSSL or  *)
(* mbedTLS gave out is in a delivered packet, in the packet under way or   *)
(* in buffer_; do_read never finds buffer_ full; the loop does not sleep   *)
(* on decrypted bytes; at the end of the session the library is empty, and *)
(* what the application has not got is less than a buffer and the packet   *)
(* under way; and ikcp_update is called in the turn that asks for it, but  *)
(* in the upper half of the clock's range.  For streams of any length, any *)
(* records, packets shorter than buffer_, and a clock of any width.        *)
THEOREM SessionsKept ==
  ASSUME PacketsFit PROVE MCSpec => []SessionSafe
<1> DEFINE Inv == SslInv /\ AskedInv
<1>1. MCInit => Inv
  BY SslStarts DEF MCInit, KcpInit, AskedInv
<1>2. Inv /\ [MCNext]_all => Inv'
  <2> SUFFICES ASSUME Inv, [MCNext]_all PROVE Inv'
    OBVIOUS
  <2>1. [SslNext]_tlsvars
    BY DEF MCNext, all, ButUnpack, ButTimers, ButSsl, ButKcp, ButWatcher
  <2>2. [KcpNext]_kvars
    BY DEF MCNext, all, ButUnpack, ButTimers, ButSsl, ButKcp, ButWatcher
  <2> QED BY <2>1, <2>2, SslKeepsInv, KcpKeepsUpdated
<1>3. Inv => SessionSafe
  <2> SUFFICES ASSUME Inv PROVE SessionSafe
    OBVIOUS
  <2>1. used - whole = off + part /\ off < TlsRoom
    BY SslAssumption DEF SslInv, SslTypeOK, TlsBytesExact
  <2>2. EndIsLast
    BY <2>1 DEF SslInv, EndInv, EndIsLast
  <2> QED BY <2>2 DEF SessionSafe, SslSafe, UpdatedInTurn, SslInv, NothingHidden, HeldInv, AskedInv
<1> QED BY <1>1, <1>2, <1>3, PTL DEF MCSpec

-----------------------------------------------------------------------------
(* The watcher.  Its invariant: three of the backends have one table; of   *)
(* kqueue's events_ the service's use of a descriptor says what it holds,  *)
(* and max_events_ covers the filters that are still to be counted off;    *)
(* revents_ is blank behind what the last poll reported; and the           *)
(* interrupter is signalled while a wakeup is unheard.                     *)
Watcher == [events : [Fds -> SUBSET Events], kernel : [Fds -> SUBSET Events], max : Int]

OneTable == backend # "kqueue" => w.events = w.kernel

Filters(tab) ==
  Cardinality({fd \in Fds : tab[fd] # {}}) + Cardinality({fd \in Fds : tab[fd] = Events})
Weight(evs) == (IF evs = {} THEN 0 ELSE 1) + (IF evs = Events THEN 1 ELSE 0)

KqueueHolds(fd) ==
  /\ sock[fd] = "connecting" => w.events[fd] = Events
  /\ sock[fd] = "blocked" => w.events[fd] = {"write"}
  /\ sock[fd] \in {"closed", "up"} => w.events[fd] \in {{}, {"read"}}

KqueueInv ==
  backend = "kqueue" =>
    (\A fd \in Fds : KqueueHolds(fd)) /\ w.max >= 1 + Filters(w.events)

Told(i) ==
  IF i > nrev THEN revents[i].evs = {}
  ELSE \A fd \in Fds, e \in Events :
         revents[i].fd = fd /\ e \in revents[i].evs => <<fd, e>> \in reported

ReportInv ==
  /\ lpc = "polling" => revents = Prepared /\ ~failed
  /\ lpc # "polling" /\ ~failed =>
       /\ nrev \in Nat /\ nrev <= Len(revents) /\ \A i \in DOMAIN revents : Told(i)
       /\ backend \in {"poll", "select"} => nrev = Len(revents)

WakeInv ==
  /\ lpc = "reset" => backend # "epoll"
  /\ lpc # "reset" =>
       /\ watched /\ unheard => Signalled
       /\ IF backend = "epoll" THEN armed => calls > 0 ELSE bytes > 0 => calls > 0

TableInv == w \in Watcher /\ RoomForOne /\ KernelAgrees /\ OneTable /\ KqueueInv

WatcherInv == WatcherTypeOK /\ TableInv /\ ReportInv /\ WakeInv

LEMMA FiltersChange ==
  ASSUME NEW tab \in [Fds -> SUBSET Events], NEW fd \in Fds, NEW x \in SUBSET Events
  PROVE  /\ Filters(tab) \in Nat
         /\ Filters([tab EXCEPT ![fd] = x]) = Filters(tab) + Weight(x) - Weight(tab[fd])
<1> DEFINE new == [tab EXCEPT ![fd] = x]
           A == {f \in Fds : tab[f] # {}}
           A1 == {f \in Fds : new[f] # {}}
           B == {f \in Fds : tab[f] = Events}
           B1 == {f \in Fds : new[f] = Events}
<1>1. /\ IsFiniteSet(A) /\ IsFiniteSet(A1) /\ IsFiniteSet(B) /\ IsFiniteSet(B1)
  BY IoWatcherAssumption, FS_Subset
<1>2. /\ Cardinality(A) \in Nat /\ Cardinality(A1) \in Nat
      /\ Cardinality(B) \in Nat /\ Cardinality(B1) \in Nat
  BY <1>1, FS_CardinalityType
<1>3. /\ x = {} => A1 = A \ {fd}
      /\ x # {} => A1 = A \cup {fd}
      /\ x = Events => B1 = B \cup {fd}
      /\ x # Events => B1 = B \ {fd}
      /\ fd \in A <=> tab[fd] # {}
      /\ fd \in B <=> tab[fd] = Events
  OBVIOUS
<1>4. Filters(tab) = Cardinality(A) + Cardinality(B) /\ Filters(new) = Cardinality(A1) + Cardinality(B1)
  BY DEF Filters
<1> HIDE DEF A, A1, B, B1, new
<1>5. Cardinality(A1) = Cardinality(A) + (IF x = {} THEN 0 ELSE 1) - (IF tab[fd] = {} THEN 0 ELSE 1)
  <2>1. CASE x = {}
    BY <2>1, <1>1, <1>2, <1>3, FS_RemoveElement
  <2>2. CASE x # {}
    BY <2>2, <1>1, <1>2, <1>3, FS_AddElement
  <2> QED BY <2>1, <2>2
<1>6. Cardinality(B1) = Cardinality(B) + (IF x = Events THEN 1 ELSE 0) - (IF tab[fd] = Events THEN 1 ELSE 0)
  <2>1. CASE x # Events
    BY <2>1, <1>1, <1>2, <1>3, FS_RemoveElement
  <2>2. CASE x = Events
    BY <2>2, <1>1, <1>2, <1>3, FS_AddElement
  <2> QED BY <2>1, <2>2
<1>7. PICK i \in {0, 1}, j \in {0, 1}, k \in {0, 1}, l \in {0, 1} :
        /\ i = (IF x = {} THEN 0 ELSE 1) /\ j = (IF tab[fd] = {} THEN 0 ELSE 1)
        /\ k = (IF x = Events THEN 1 ELSE 0) /\ l = (IF tab[fd] = Events THEN 1 ELSE 0)
  OBVIOUS
<1>8. Weight(x) = i + k /\ Weight(tab[fd]) = j + l
  BY <1>7 DEF Weight
<1>9. Cardinality(A1) = Cardinality(A) + i - j /\ Cardinality(B1) = Cardinality(B) + k - l
  BY <1>5, <1>6, <1>7
<1>10. Filters(new) = Filters(tab) + Weight(x) - Weight(tab[fd])
  BY <1>2, <1>4, <1>8, <1>9
<1> QED BY <1>2, <1>4, <1>10 DEF new

LEMMA EventCounts ==
  /\ Cardinality({"read"}) = 1 /\ Cardinality({"write"}) = 1 /\ Cardinality(Events) = 2
  /\ Events # {} /\ {"read"} # Events /\ {"write"} # Events /\ {"read"} # {"write"}
  /\ FilterCount({}) = 0 /\ FilterCount({"read"}) = 1 /\ FilterCount({"write"}) = 2
  /\ FilterCount(Events) = 2
  /\ Weight({}) = 0 /\ Weight({"read"}) = 1 /\ Weight({"write"}) = 1 /\ Weight(Events) = 2
<1>1. Cardinality({"read"}) = 1 /\ Cardinality({"write"}) = 1 /\ IsFiniteSet({"read"})
  BY FS_Singleton
<1>2. Cardinality(Events) = 2
  <2>1. Events = {"read"} \cup {"write"} /\ "write" \notin {"read"}
    BY DEF Events
  <2> QED BY <1>1, <2>1, FS_AddElement
<1>3. /\ Events # {} /\ {"read"} # Events /\ {"write"} # Events /\ {"read"} # {"write"}
  BY DEF Events
<1> QED BY <1>1, <1>2, <1>3 DEF FilterCount, Weight

LEMMA CountsAreNumbers ==
  /\ \A evs \in SUBSET Events : Cardinality(evs) \in Int
  /\ \A evs : FilterCount(evs) \in Int
  /\ IsFiniteSet(Events)
<1>1. IsFiniteSet(Events)
  <2>1. Events = {"read"} \cup {"write"}
    BY DEF Events
  <2> QED BY <2>1, FS_Singleton, FS_AddElement
<1>2. \A evs \in SUBSET Events : IsFiniteSet(evs)
  BY <1>1, FS_Subset
<1> QED BY <1>1, <1>2, FS_CardinalityType DEF FilterCount

(* mod_event where the table is one. *)
LEMMA TableMod ==
  ASSUME TableInv, WatcherTypeOK, backend # "kqueue",
         NEW fd \in Fds, NEW add \in SUBSET Events, NEW rem \in SUBSET Events
  PROVE  LET m == ModEvent(fd, add, rem) IN
         /\ m \in Watcher /\ m.max > 0 /\ m.events = m.kernel
         /\ m.kernel = [w.kernel EXCEPT ![fd] = (@ \cup add) \ rem]
<1> DEFINE t == [w.kernel EXCEPT ![fd] = (@ \cup add) \ rem]
<1>1. /\ w \in Watcher /\ w.events = w.kernel /\ w.max > 0
      /\ w.kernel \in [Fds -> SUBSET Events] /\ t \in [Fds -> SUBSET Events]
  BY DEF TableInv, OneTable, RoomForOne, Watcher
<1>2. CASE backend = "poll"
  <2>1. ModEvent(fd, add, rem) = [w EXCEPT !.events = t, !.kernel = t]
    BY <1>1, <1>2 DEF ModEvent, PollfdMod
  <2> HIDE DEF t
  <2> QED BY <1>1, <2>1 DEF Watcher, t
<1>3. CASE backend = "select"
  <2> DEFINE bits == [e \in Events |-> ({f \in Fds : e \in w.events[f]}
                                  \cup (IF e \in add THEN {fd} ELSE {}))
                                 \ (IF e \in rem THEN {fd} ELSE {})]
             u == [f \in Fds |-> {e \in Events : f \in bits[e]}]
  <2>1. ModEvent(fd, add, rem) = [w EXCEPT !.events = u, !.kernel = u]
    BY <1>3, Zenon DEF ModEvent, SelectMod
  <2>2. ASSUME NEW f \in Fds PROVE u[f] = t[f]
    <3>1. w.events[f] \in SUBSET Events
      BY <1>1
    <3>2. \A e \in Events : f \in bits[e] <=> (e \in w.events[f] \/ (f = fd /\ e \in add)) /\ ~(f = fd /\ e \in rem)
      OBVIOUS
    <3>3. CASE f = fd
      BY <1>1, <3>1, <3>2, <3>3
    <3>4. CASE f # fd
      BY <1>1, <3>1, <3>2, <3>4
    <3> QED BY <3>3, <3>4
  <2>3. u = t
    BY <1>1, <2>2
  <2> HIDE DEF u, t
  <2> QED BY <1>1, <2>1, <2>3 DEF Watcher, t
<1>4. CASE backend = "epoll"
  <2> DEFINE want == (w.events[fd] \cup add) \ rem
             v == [w EXCEPT !.events[fd] = want, !.kernel[fd] = want]
             n == Cardinality(Registered(v.events)) + 1
  <2>1. ModEvent(fd, add, rem) = [v EXCEPT !.max = n]
    BY <1>1, <1>4 DEF ModEvent, EpollMod
  <2>2. v \in Watcher /\ v.events = t /\ v.kernel = t
    BY <1>1 DEF Watcher
  <2>3. n \in Nat /\ n > 0
    <3>1. Registered(v.events) \subseteq Fds
      BY <1>1, <2>2 DEF Registered
    <3>2. IsFiniteSet(Registered(v.events))
      BY <3>1, IoWatcherAssumption, FS_Subset
    <3>3. Cardinality(Registered(v.events)) \in Nat
      BY <3>2, FS_CardinalityType
    <3> QED BY <3>3
  <2> HIDE DEF v, n, t
  <2> QED BY <2>1, <2>2, <2>3, SMTT(30) DEF Watcher, t
<1> QED BY <1>2, <1>3, <1>4, IoWatcherAssumption DEF WatcherTypeOK

(* mod_event of kqueue, as the service uses it: to add filters, ... *)
LEMMA KqueueAdds ==
  ASSUME TableInv, backend = "kqueue", NEW fd \in Fds, NEW add \in SUBSET Events, add # {}
  PROVE  LET m == ModEvent(fd, add, {}) IN
         /\ m \in Watcher
         /\ m.events = [w.events EXCEPT ![fd] = add]
         /\ m.kernel = [w.kernel EXCEPT ![fd] = @ \cup add]
         /\ m.max = w.max + Cardinality(add) - FilterCount(w.events[fd])
<1>1. w \in Watcher
  BY DEF TableInv
<1>2. ModEvent(fd, add, {}) = KqueueDeregister(KqueueRegister(w, fd, add), fd, {})
  BY DEF ModEvent
<1>3. ModEvent(fd, add, {}) = KqueueRegister(w, fd, add)
  BY <1>2 DEF KqueueDeregister
<1>4. Cardinality(add) \in Int /\ FilterCount(w.events[fd]) \in Int
  BY CountsAreNumbers
<1> DEFINE m == ModEvent(fd, add, {})
<1>5. m = [w EXCEPT !.events[fd] = add, !.kernel[fd] = @ \cup add,
                    !.max = @ + Cardinality(add) - FilterCount(w.events[fd])]
  BY <1>3, Zenon DEF KqueueRegister
<1>6. /\ w.events \in [Fds -> SUBSET Events] /\ w.kernel \in [Fds -> SUBSET Events] /\ w.max \in Int
  BY <1>1 DEF Watcher
<1> HIDE DEF m
<1>7. /\ m.events = [w.events EXCEPT ![fd] = add]
      /\ m.kernel = [w.kernel EXCEPT ![fd] = @ \cup add]
      /\ m.max = w.max + Cardinality(add) - FilterCount(w.events[fd])
  BY <1>1, <1>5 DEF Watcher
<1>8. m.events \in [Fds -> SUBSET Events] /\ m.kernel \in [Fds -> SUBSET Events] /\ m.max \in Int
  BY <1>4, <1>6, <1>7
<1>9. m = [events |-> m.events, kernel |-> m.kernel, max |-> m.max]
  BY <1>1, <1>5 DEF Watcher
<1> QED BY <1>7, <1>8, <1>9 DEF m, Watcher

(* ... or to take off those the kernel has. *)
LEMMA KqueueTakes ==
  ASSUME TableInv, backend = "kqueue", NEW fd \in Fds, NEW rem \in SUBSET Events, rem # {}
  PROVE  LET m == ModEvent(fd, {}, rem) IN
         /\ m \in Watcher
         /\ rem \subseteq w.kernel[fd] =>
              /\ m.events = [w.events EXCEPT ![fd] = @ \ rem]
              /\ m.kernel = [w.kernel EXCEPT ![fd] = @ \ rem]
              /\ m.max = w.max + Cardinality(rem) - FilterCount(w.events[fd])
         /\ ~(rem \subseteq w.kernel[fd]) =>
              /\ m.events = w.events /\ m.max = w.max
              /\ \E gone \in SUBSET Events : m.kernel = [w.kernel EXCEPT ![fd] = @ \ gone]
<1>1. w \in Watcher
  BY DEF TableInv
<1>2. ModEvent(fd, {}, rem) = KqueueDeregister(w, fd, rem)
  BY DEF ModEvent, KqueueRegister
<1> DEFINE gone == IF "read" \in rem /\ "read" \notin w.kernel[fd] THEN {} ELSE rem \cap w.kernel[fd]
<1>3. gone = rem <=> rem \subseteq w.kernel[fd]
  OBVIOUS
<1>4. gone \in SUBSET Events
  OBVIOUS
<1>5. KqueueDeregister(w, fd, rem) =
        IF gone # rem THEN [w EXCEPT !.kernel[fd] = @ \ gone]
        ELSE [w EXCEPT !.events[fd] = @ \ rem,
                       !.kernel[fd] = @ \ rem,
                       !.max = @ + Cardinality(rem) - FilterCount(w.events[fd])]
  BY Zenon DEF KqueueDeregister
<1> HIDE DEF gone
<1>6. Cardinality(rem) \in Int /\ FilterCount(w.events[fd]) \in Int
  BY CountsAreNumbers
<1> DEFINE m == ModEvent(fd, {}, rem)
<1>7. /\ w.events \in [Fds -> SUBSET Events] /\ w.kernel \in [Fds -> SUBSET Events] /\ w.max \in Int
  BY <1>1 DEF Watcher
<1>8. m = IF gone # rem THEN [w EXCEPT !.kernel[fd] = @ \ gone]
           ELSE [w EXCEPT !.events[fd] = @ \ rem,
                          !.kernel[fd] = @ \ rem,
                          !.max = @ + Cardinality(rem) - FilterCount(w.events[fd])]
  BY <1>2, <1>5, Zenon
<1> HIDE DEF m
<1>9. CASE rem \subseteq w.kernel[fd]
  <2>1. /\ m.events = [w.events EXCEPT ![fd] = @ \ rem]
        /\ m.kernel = [w.kernel EXCEPT ![fd] = @ \ rem]
        /\ m.max = w.max + Cardinality(rem) - FilterCount(w.events[fd])
    BY <1>1, <1>3, <1>9, <1>8 DEF Watcher
  <2>2. m.events \in [Fds -> SUBSET Events] /\ m.kernel \in [Fds -> SUBSET Events] /\ m.max \in Int
    BY <1>6, <1>7, <2>1
  <2>3. m = [events |-> m.events, kernel |-> m.kernel, max |-> m.max]
    BY <1>1, <1>3, <1>9, <1>8 DEF Watcher
  <2> QED BY <1>9, <2>1, <2>2, <2>3 DEF m, Watcher
<1>10. CASE ~(rem \subseteq w.kernel[fd])
  <2>1. /\ m.events = w.events /\ m.max = w.max
        /\ m.kernel = [w.kernel EXCEPT ![fd] = @ \ gone]
    BY <1>1, <1>3, <1>10, <1>8 DEF Watcher
  <2>2. m.events \in [Fds -> SUBSET Events] /\ m.kernel \in [Fds -> SUBSET Events] /\ m.max \in Int
    BY <1>7, <2>1
  <2>3. m = [events |-> m.events, kernel |-> m.kernel, max |-> m.max]
    BY <1>1, <1>3, <1>10, <1>8 DEF Watcher
  <2> QED BY <1>4, <1>10, <2>1, <2>2, <2>3 DEF m, Watcher
<1> QED BY <1>9, <1>10

LEMMA UsesKeepTable ==
  ASSUME WatcherTypeOK, TableInv, NEW fd \in Fds, UNCHANGED backend,
         \/ Connect(fd) \/ Accept(fd) \/ ConnectCompletion(fd) \/ PollOut(fd) \/ Drained(fd)
  PROVE  TableInv'
<1>1. PICK to \in {"connecting", "up", "blocked"}, add \in SUBSET Events, rem \in SUBSET Events :
        /\ sock' = [sock EXCEPT ![fd] = to] /\ w' = ModEvent(fd, add, rem)
        /\ \/ sock[fd] = "closed" /\ to = "connecting" /\ add = Events /\ rem = {}
           \/ sock[fd] = "closed" /\ to = "up" /\ add = {"read"} /\ rem = {}
           \/ sock[fd] = "connecting" /\ to = "up" /\ add = {} /\ rem = {"write"}
           \/ sock[fd] = "up" /\ to = "blocked" /\ add = {"write"} /\ rem = {}
           \/ sock[fd] = "blocked" /\ to = "up" /\ add = {} /\ rem = {"write"}
  BY DEF Connect, Accept, ConnectCompletion, PollOut, Drained, Use, Events
<1>2. /\ w \in Watcher /\ w.events \in [Fds -> SUBSET Events] /\ w.kernel \in [Fds -> SUBSET Events]
      /\ w.max \in Int /\ sock \in [Fds -> {"closed", "connecting", "up", "blocked"}]
  BY DEF WatcherTypeOK, TableInv, Watcher
<1>3. w.kernel[fd] = Wanted(sock[fd]) /\ (w.kernel[fd] \cup add) \ rem = Wanted(to)
  BY <1>1, EventCounts DEF TableInv, KernelAgrees, Wanted, Events
<1>4. ASSUME w'.kernel = [w.kernel EXCEPT ![fd] = (@ \cup add) \ rem]
      PROVE  KernelAgrees'
  BY <1>1, <1>2, <1>3, <1>4 DEF TableInv, KernelAgrees
<1>5. CASE backend # "kqueue"
  <2>1. /\ w' \in Watcher /\ w'.max > 0 /\ w'.events = w'.kernel
        /\ w'.kernel = [w.kernel EXCEPT ![fd] = (@ \cup add) \ rem]
    BY <1>1, <1>5, TableMod
  <2> QED BY <1>4, <1>5, <2>1 DEF TableInv, RoomForOne, OneTable, KqueueInv
<1>6. CASE backend = "kqueue"
  <2>1. KqueueHolds(fd) /\ w.max >= 1 + Filters(w.events)
    BY <1>6 DEF TableInv, KqueueInv
  <2>2. PICK x \in SUBSET Events :
          /\ w'.events = [w.events EXCEPT ![fd] = x]
          /\ to = "connecting" => x = Events
          /\ to = "blocked" => x = {"write"}
          /\ to = "up" => x \in {{}, {"read"}}
          /\ w'.max \in Int /\ w'.max - w.max >= Weight(x) - Weight(w.events[fd])
          /\ w'.kernel = [w.kernel EXCEPT ![fd] = (@ \cup add) \ rem]
    <3>1. CASE rem = {}
      <4>1. /\ w'.events = [w.events EXCEPT ![fd] = add]
            /\ w'.kernel = [w.kernel EXCEPT ![fd] = @ \cup add]
            /\ w'.max = w.max + Cardinality(add) - FilterCount(w.events[fd])
        BY <1>1, <1>6, <3>1, KqueueAdds, EventCounts
      <4>2. w.events[fd] \in {{}, {"read"}}
        BY <1>1, <2>1, <3>1, EventCounts DEF KqueueHolds
      <4>3. add \in {{"read"}, {"write"}, Events}
        BY <1>1, <3>1, EventCounts
      <4>4. w'.max \in Int /\ w'.max - w.max >= Weight(add) - Weight(w.events[fd])
        <5>1. Cardinality(add) = Weight(add) /\ Weight(add) \in Nat
          BY <4>3, EventCounts
        <5>2. FilterCount(w.events[fd]) = Weight(w.events[fd]) /\ Weight(w.events[fd]) \in Nat
          BY <4>2, EventCounts, SMTT(30)
        <5> QED BY <1>2, <4>1, <5>1, <5>2
      <4> QED BY <1>1, <3>1, <4>1, <4>4, EventCounts
    <3>2. CASE add = {} /\ rem = {"write"}
      <4>1. rem \subseteq w.kernel[fd]
        BY <1>1, <1>3, <3>2 DEF Wanted, Events
      <4>2. /\ w'.events = [w.events EXCEPT ![fd] = @ \ rem]
            /\ w'.kernel = [w.kernel EXCEPT ![fd] = @ \ rem]
            /\ w'.max = w.max + Cardinality(rem) - FilterCount(w.events[fd])
        BY <1>1, <1>6, <3>2, <4>1, KqueueTakes, EventCounts
      <4>3. \/ w.events[fd] = Events /\ w.events[fd] \ rem = {"read"}
            \/ w.events[fd] = {"write"} /\ w.events[fd] \ rem = {}
        BY <1>1, <2>1, <3>2, EventCounts DEF KqueueHolds, Events
      <4>4. w'.max \in Int /\ w'.max - w.max >= Weight(w.events[fd] \ rem) - Weight(w.events[fd])
        <5>1. w'.max = w.max - 1
          <6>1. Cardinality(rem) = 1 /\ FilterCount(w.events[fd]) = 2
            BY <3>2, <4>3, EventCounts
          <6> QED BY <1>2, <4>2, <6>1
        <5>2. Weight(w.events[fd] \ rem) - Weight(w.events[fd]) = -1
          BY <4>3, EventCounts
        <5> QED BY <1>2, <5>1, <5>2
      <4>5. to = "up" /\ w.events[fd] \ rem \in SUBSET Events
        BY <1>1, <1>2, <3>2, EventCounts
      <4> QED BY <3>2, <4>2, <4>3, <4>4, <4>5
    <3> QED BY <1>1, <3>1, <3>2
  <2>3. w' \in Watcher
    BY <1>1, <1>6, KqueueAdds, KqueueTakes, EventCounts
  <2>4. KqueueInv'
    <3>1. \A f \in Fds : KqueueHolds(f)'
      BY <1>1, <1>2, <1>6, <2>2 DEF TableInv, KqueueInv, KqueueHolds
    <3>2. Filters(w.events) \in Nat /\ Filters(w'.events) = Filters(w.events) + Weight(x) - Weight(w.events[fd])
      BY <1>2, <2>2, FiltersChange
    <3>3. Weight(x) \in Nat /\ Weight(w.events[fd]) \in Nat
      BY DEF Weight
    <3>4. w'.max >= 1 + Filters(w'.events)
      BY <1>2, <2>1, <2>2, <3>2, <3>3
    <3> QED BY <3>1, <3>4 DEF KqueueInv
  <2>5. w'.max > 0
    <3>1. Filters(w'.events) \in Nat
      BY <1>2, <2>2, <2>3, FiltersChange DEF Watcher
    <3> QED BY <1>6, <2>2, <2>4, <3>1 DEF KqueueInv
  <2> QED BY <1>4, <1>6, <2>2, <2>3, <2>4, <2>5 DEF TableInv, RoomForOne, OneTable
<1> QED BY <1>5, <1>6

LEMMA CleanupKeepsTable ==
  ASSUME WatcherTypeOK, TableInv, NEW fd \in Fds, UNCHANGED backend, CleanupIo(fd)
  PROVE  TableInv'
<1> DEFINE m == ModEvent(fd, {}, Events)
<1>1. sock' = [sock EXCEPT ![fd] = "closed"] /\ w' = [m EXCEPT !.kernel[fd] = {}]
  BY DEF CleanupIo
<1>2. /\ w \in Watcher /\ w.events \in [Fds -> SUBSET Events] /\ w.kernel \in [Fds -> SUBSET Events]
      /\ w.max \in Int /\ sock \in [Fds -> {"closed", "connecting", "up", "blocked"}]
  BY DEF WatcherTypeOK, TableInv, Watcher
<1> HIDE DEF m
<1>3. ASSUME NEW gone \in SUBSET Events, m \in Watcher,
             m.kernel = [w.kernel EXCEPT ![fd] = @ \ gone]
      PROVE  /\ w' \in Watcher /\ w'.events = m.events /\ w'.max = m.max /\ KernelAgrees'
             /\ w'.kernel = [w.kernel EXCEPT ![fd] = {}]
  <2>1. /\ m.events \in [Fds -> SUBSET Events] /\ m.kernel \in [Fds -> SUBSET Events] /\ m.max \in Int
    BY <1>3 DEF Watcher
  <2>2. w' = [m EXCEPT !.kernel = [m.kernel EXCEPT ![fd] = {}]]
    BY <1>1, <1>3 DEF Watcher
  <2>3. [m.kernel EXCEPT ![fd] = {}] = [w.kernel EXCEPT ![fd] = {}]
    BY <1>2, <1>3
  <2>4. w' \in Watcher /\ w'.events = m.events /\ w'.max = m.max /\ w'.kernel = [w.kernel EXCEPT ![fd] = {}]
    BY <1>3, <2>1, <2>2, <2>3 DEF Watcher
  <2>5. KernelAgrees'
    BY <1>1, <1>2, <2>4 DEF TableInv, KernelAgrees, Wanted
  <2> QED BY <2>4, <2>5
<1>4. CASE backend # "kqueue"
  <2>1. /\ m \in Watcher /\ m.max > 0 /\ m.events = m.kernel
        /\ m.kernel = [w.kernel EXCEPT ![fd] = (@ \cup {}) \ Events]
    BY <1>4, TableMod DEF m
  <2>2. m.kernel = [w.kernel EXCEPT ![fd] = @ \ Events] /\ m.kernel = [w.kernel EXCEPT ![fd] = {}]
    BY <1>2, <2>1
  <2>3. w' \in Watcher /\ w'.events = m.events /\ w'.max = m.max /\ KernelAgrees'
        /\ w'.kernel = [w.kernel EXCEPT ![fd] = {}]
    BY <1>3, <2>1, <2>2
  <2> QED BY <1>4, <2>1, <2>2, <2>3 DEF TableInv, RoomForOne, OneTable, KqueueInv
<1>5. CASE backend = "kqueue"
  <2>1. KqueueHolds(fd) /\ w.max >= 1 + Filters(w.events) /\ w.kernel[fd] = Wanted(sock[fd])
    BY <1>5 DEF TableInv, KqueueInv, KernelAgrees
  <2>2. PICK x \in SUBSET Events :
          /\ m \in Watcher
          /\ m.events = [w.events EXCEPT ![fd] = x] /\ x \in {{}, {"read"}}
          /\ m.max = w.max /\ Weight(x) <= Weight(w.events[fd])
          /\ \E gone \in SUBSET Events : m.kernel = [w.kernel EXCEPT ![fd] = @ \ gone]
    <3>1. CASE sock[fd] = "up"
      <4>1. ~(Events \subseteq w.kernel[fd])
        BY <2>1, <3>1 DEF Wanted, Events
      <4>2. /\ m \in Watcher /\ m.events = w.events /\ m.max = w.max
            /\ \E gone \in SUBSET Events : m.kernel = [w.kernel EXCEPT ![fd] = @ \ gone]
        <5>1. Events \in SUBSET Events /\ Events # {}
          BY EventCounts
        <5> QED BY <1>5, <4>1, <5>1, KqueueTakes, Zenon DEF m
      <4>3. w.events[fd] \in {{}, {"read"}} /\ w.events = [w.events EXCEPT ![fd] = w.events[fd]]
        BY <1>2, <2>1, <3>1 DEF KqueueHolds
      <4>4. Weight(w.events[fd]) \in Nat /\ w.events[fd] \in SUBSET Events
        BY <1>2 DEF Weight
      <4>5. Weight(w.events[fd]) <= Weight(w.events[fd])
        BY <4>4
      <4> QED BY <4>2, <4>3, <4>4, <4>5, Zenon
    <3>2. CASE sock[fd] \in {"connecting", "blocked"}
      <4>1. Events \subseteq w.kernel[fd]
        BY <2>1, <3>2 DEF Wanted
      <4>2. /\ m \in Watcher /\ m.events = [w.events EXCEPT ![fd] = @ \ Events]
            /\ m.kernel = [w.kernel EXCEPT ![fd] = @ \ Events]
            /\ m.max = w.max + Cardinality(Events) - FilterCount(w.events[fd])
        BY <1>5, <4>1, KqueueTakes, EventCounts DEF m
      <4>3. FilterCount(w.events[fd]) = 2 /\ Weight(w.events[fd]) \in {1, 2} /\ w.events[fd] \ Events = {}
        BY <1>2, <2>1, <3>2, EventCounts DEF KqueueHolds
      <4>4. m.max = w.max
        BY <1>2, <4>2, <4>3, EventCounts
      <4>5. m.events = [w.events EXCEPT ![fd] = {}]
        BY <1>2, <4>2, <4>3
      <4>6. Weight({}) = 0
        BY EventCounts
      <4>7. Weight({}) <= Weight(w.events[fd])
        BY <4>3, <4>6
      <4>8. {} \in SUBSET Events /\ Events \in SUBSET Events /\ {} \in {{}, {"read"}}
        OBVIOUS
      <4> QED BY <4>2, <4>4, <4>5, <4>7, <4>8, Zenon
    <3> QED BY <1>2, <3>1, <3>2 DEF CleanupIo
  <2>3. w' \in Watcher /\ w'.events = m.events /\ w'.max = m.max /\ KernelAgrees'
    BY <1>3, <2>2
  <2>4. Filters(w.events) \in Nat /\ Filters(w'.events) = Filters(w.events) + Weight(x) - Weight(w.events[fd])
    BY <1>2, <2>2, <2>3, FiltersChange
  <2>5. Weight(x) \in Nat /\ Weight(w.events[fd]) \in Nat
    BY DEF Weight
  <2>6. w'.max >= 1 + Filters(w'.events)
    BY <1>2, <2>1, <2>2, <2>3, <2>4, <2>5
  <2>7. Filters(w'.events) \in Nat
    BY <2>3, FiltersChange DEF Watcher
  <2>8. \A f \in Fds : KqueueHolds(f)'
    BY <1>1, <1>2, <1>5, <2>2, <2>3 DEF TableInv, KqueueInv, KqueueHolds
  <2>9. w'.max > 0
    BY <1>2, <2>2, <2>3, <2>6, <2>7
  <2> QED BY <1>5, <2>3, <2>6, <2>8, <2>9 DEF TableInv, RoomForOne, OneTable, KqueueInv
<1> QED BY <1>4, <1>5

LEMMA SetToSeqFacts ==
  ASSUME NEW S, IsFiniteSet(S)
  PROVE  /\ SetToSeq(S) \in Seq(S) /\ Len(SetToSeq(S)) = Cardinality(S)
         /\ Cardinality(S) \in Nat
         /\ \A i \in 1..Cardinality(S) : SetToSeq(S)[i] \in S
<1>1. Cardinality(S) \in Nat
  BY FS_CardinalityType
<1>2. PICK f : f \in Bijection(1..Cardinality(S), S)
  BY FS_CardinalityType DEF ExistsBijection
<1>3. f \in [1..Cardinality(S) -> S] /\ IsInjective(f)
  BY <1>2 DEF Bijection, Injection, IsInjective
<1>4. SetToSeq(S) \in [1..Cardinality(S) -> S]
  BY <1>3 DEF SetToSeq
<1> QED BY <1>1, <1>4

(* The kernel's answers: one entry at most for each pair it reports. *)
LEMMA EntriesFacts ==
  ASSUME NEW P \in SUBSET ((Fds \X Events) \cup {IntrPair})
  PROVE  /\ IsFiniteSet(EntriesOf(P)) /\ Cardinality(EntriesOf(P)) <= 2 * Cardinality(Fds) + 1
         /\ \A en \in EntriesOf(P), fd \in Fds, e \in Events :
              en.fd = fd /\ e \in en.evs => <<fd, e>> \in P
<1> DEFINE E(p) == IF backend = "kqueue" THEN [fd |-> p[1], evs |-> {p[2]}]
                   ELSE [fd |-> p[1], evs |-> {r[2] : r \in {q \in P : q[1] = p[1]}}]
           f == [p \in P |-> E(p)]
<1>1. EntriesOf(P) = {E(p) : p \in P}
  <2>1. CASE backend = "kqueue"
    BY <2>1 DEF EntriesOf
  <2>2. CASE backend # "kqueue"
    <3>1. EntriesOf(P) = {[fd |-> g, evs |-> {r[2] : r \in {q \in P : q[1] = g}}] : g \in {p[1] : p \in P}}
      BY <2>2, Zenon DEF EntriesOf
    <3> QED BY <2>2, <3>1
  <2> QED BY <2>1, <2>2
<1>2. f \in Surjection(P, EntriesOf(P))
  BY <1>1, ZenonT(60) DEF Surjection
<1>3. /\ IsFiniteSet(Fds \X Events) /\ Cardinality(Fds \X Events) = Cardinality(Fds) * 2
  <2>1. IsFiniteSet(Events) /\ Cardinality(Events) = 2 /\ IsFiniteSet(Fds)
    BY EventCounts, CountsAreNumbers, IoWatcherAssumption
  <2> QED BY <2>1, FS_Product
<1>4. /\ IsFiniteSet((Fds \X Events) \cup {IntrPair})
      /\ Cardinality((Fds \X Events) \cup {IntrPair}) <= Cardinality(Fds) * 2 + 1
  <2>1. Cardinality(Fds) \in Nat
    BY IoWatcherAssumption, FS_CardinalityType
  <2>2. PICK S : S = Fds \X Events
    OBVIOUS
  <2>3. PICK x : x = IntrPair
    OBVIOUS
  <2>4. /\ IsFiniteSet(S \cup {x})
        /\ Cardinality(S \cup {x}) = Cardinality(S) \/ Cardinality(S \cup {x}) = Cardinality(S) + 1
    BY <1>3, <2>2, FS_AddElement
  <2> QED BY <1>3, <2>1, <2>2, <2>3, <2>4
<1>5. IsFiniteSet(P) /\ Cardinality(P) <= Cardinality(Fds) * 2 + 1
  <2>1. /\ IsFiniteSet(P) /\ Cardinality(P) <= Cardinality((Fds \X Events) \cup {IntrPair})
    BY <1>4, FS_Subset
  <2>2. Cardinality(P) \in Nat /\ Cardinality((Fds \X Events) \cup {IntrPair}) \in Nat /\ Cardinality(Fds) \in Nat
    BY <1>4, <2>1, IoWatcherAssumption, FS_CardinalityType
  <2> QED BY <1>4, <2>1, <2>2
<1>6. IsFiniteSet(EntriesOf(P)) /\ Cardinality(EntriesOf(P)) <= Cardinality(P)
  BY <1>2, <1>5, FS_Surjection
<1>7. Cardinality(EntriesOf(P)) <= 2 * Cardinality(Fds) + 1
  <2>1. Cardinality(P) \in Nat /\ Cardinality(EntriesOf(P)) \in Nat /\ Cardinality(Fds) \in Nat
    BY <1>5, <1>6, IoWatcherAssumption, FS_CardinalityType
  <2> QED BY <1>5, <1>6, <2>1
<1>8. ASSUME NEW en \in EntriesOf(P), NEW fd \in Fds, NEW e \in Events, en.fd = fd, e \in en.evs
      PROVE  <<fd, e>> \in P
  <2>1. PICK p \in P : en = E(p)
    BY <1>1
  <2>2. p[1] = fd
    BY <1>8, <2>1
  <2>3. \A q \in P : q[1] = fd => q = <<q[1], q[2]>>
    BY IoWatcherAssumption DEF IntrPair, Intr
  <2>4. CASE backend = "kqueue"
    BY <1>8, <2>1, <2>2, <2>3, <2>4
  <2>5. CASE backend # "kqueue"
    <3>1. e \in {r[2] : r \in {q \in P : q[1] = fd}}
      BY <1>8, <2>1, <2>2, <2>5
    <3>2. PICK q \in P : q[1] = fd /\ q[2] = e
      BY <3>1
    <3> QED BY <2>3, <3>2
  <2> QED BY <2>4, <2>5
<1> QED BY <1>6, <1>7, <1>8

LEMMA PollReturnsKeeps ==
  ASSUME WatcherInv, PollReturns
  PROVE  ReportInv' /\ nrev' \in -1..(2 * Cardinality(Fds) + 1)
<1>1. /\ UNCHANGED <<backend, w, sock, bytes, watched, failed>>
      /\ lpc = "polling" /\ lpc' # "polling" /\ revents = Prepared /\ ~failed
  BY DEF PollReturns, WatcherInv, ReportInv
<1>2. PICK rep \in SUBSET Watching, told_ \in BOOLEAN :
        LET pairs == IF told_ THEN rep \cup {IntrPair} ELSE rep
            entries == EntriesOf(pairs)
        IN  /\ Cardinality(entries) <= Room
            /\ nrev' = Cardinality(entries)
            /\ revents' = SetToSeq(entries) \o
                 (IF backend \in {"poll", "select"} THEN <<>> ELSE SubSeq(revents, nrev' + 1, w.max))
            /\ reported' = rep
  BY DEF PollReturns
<1> DEFINE pairs == IF told_ THEN rep \cup {IntrPair} ELSE rep
           entries == EntriesOf(pairs)
           n == Cardinality(entries)
           a == SetToSeq(entries)
           b == IF backend \in {"poll", "select"} THEN <<>> ELSE SubSeq(revents, n + 1, w.max)
<1>3. n <= Room /\ nrev' = n /\ revents' = a \o b /\ reported' = rep
  BY <1>2
<1>4. rep \subseteq Fds \X Events /\ pairs \in SUBSET ((Fds \X Events) \cup {IntrPair})
  BY DEF Watching
<1>5. /\ IsFiniteSet(entries) /\ n <= 2 * Cardinality(Fds) + 1
      /\ \A en \in entries, fd \in Fds, e \in Events : en.fd = fd /\ e \in en.evs => <<fd, e>> \in pairs
  BY <1>4, EntriesFacts
<1>6. \A fd \in Fds, e \in Events : <<fd, e>> \in pairs => <<fd, e>> \in rep
  BY IoWatcherAssumption DEF IntrPair, Intr
<1> HIDE DEF pairs, entries
<1>7. a \in Seq(entries) /\ Len(a) = n /\ n \in Nat /\ \A i \in 1..n : a[i] \in entries
  BY <1>5, SetToSeqFacts
<1>8. b \in Seq({ZeroEntry}) /\ (backend \in {"poll", "select"} => b = <<>>)
  <2>1. CASE backend \in {"poll", "select"}
    BY <2>1
  <2>2. CASE backend \notin {"poll", "select"}
    <3>1. w.max \in Int /\ w.max > 0 /\ n <= w.max
      BY <1>3, <2>2 DEF Room, WatcherInv, TableInv, RoomForOne, Watcher
    <3>2. revents = [i \in 1..w.max |-> ZeroEntry]
      BY <1>1, <2>2, IoWatcherAssumption DEF Prepared, Blank, WatcherInv, WatcherTypeOK
    <3>3. revents \in Seq({ZeroEntry}) /\ Len(revents) = w.max
      BY <3>1, <3>2
    <3>4. b = SubSeq(revents, n + 1, w.max)
      BY <2>2
    <3> QED BY <1>7, <2>2, <3>1, <3>3, <3>4
  <2> QED BY <2>1, <2>2
<1> HIDE DEF a, b, n
<1>9. Len(b) \in Nat /\ \A i \in 1..Len(b) : b[i].evs = {}
  <2>1. Len(b) \in Nat /\ \A i \in 1..Len(b) : b[i] = ZeroEntry
    BY <1>8
  <2> QED BY <2>1 DEF ZeroEntry
<1>10. /\ a \in Seq(entries \cup {ZeroEntry}) /\ b \in Seq(entries \cup {ZeroEntry})
  BY <1>7, <1>8
<1>11. /\ revents' \in Seq(entries \cup {ZeroEntry}) /\ Len(revents') = n + Len(b)
       /\ \A i \in 1..Len(revents') : revents'[i] = IF i <= n THEN a[i] ELSE b[i - n]
  <2>1. PICK r : r = a \o b
    OBVIOUS
  <2>2. /\ r \in Seq(entries \cup {ZeroEntry}) /\ Len(r) = Len(a) + Len(b)
        /\ \A i \in 1..Len(a) + Len(b) : r[i] = IF i <= Len(a) THEN a[i] ELSE b[i - Len(a)]
    BY <1>10, <2>1, ConcatProperties
  <2> QED BY <1>3, <1>7, <2>1, <2>2
<1>12. ASSUME NEW i \in DOMAIN revents' PROVE Told(i)'
  <2>1. i \in Nat /\ i >= 1 /\ i <= n + Len(b)
    BY <1>7, <1>11
  <2>2. CASE i > n
    <3>1. i - n \in 1..Len(b) /\ revents'[i] = b[i - n]
      BY <1>7, <1>11, <2>1, <2>2
    <3> QED BY <1>3, <1>9, <2>2, <3>1 DEF Told
  <2>3. CASE ~(i > n)
    <3>1. i \in 1..n /\ revents'[i] = a[i]
      BY <1>7, <1>11, <2>1, <2>3
    <3>2. a[i] \in entries
      BY <1>7, <3>1
    <3> QED BY <1>3, <1>5, <1>6, <2>3, <3>1, <3>2 DEF Told
  <2> QED BY <2>2, <2>3
<1>13. ReportInv'
  BY <1>1, <1>3, <1>7, <1>8, <1>9, <1>11, <1>12 DEF ReportInv
<1>14. Cardinality(Fds) \in Nat
  BY IoWatcherAssumption, FS_CardinalityType
<1>15. nrev' \in -1..(2 * Cardinality(Fds) + 1)
  BY <1>3, <1>5, <1>7, <1>14 DEF n
<1> QED BY <1>13, <1>15

LEMMA WatcherKeepsInv ==
  ASSUME WatcherInv, [WatcherNext]_wvars
  PROVE  WatcherInv'
<1> USE IoWatcherAssumption
<1>0. ASSUME UNCHANGED <<backend, w, sock>> PROVE TableInv'
  BY <1>0 DEF WatcherInv, TableInv, RoomForOne, KernelAgrees, OneTable, KqueueInv, KqueueHolds
<1>13. Cardinality(Fds) \in Nat /\ 0 \in 0..MaxWakeups /\ 0 \in -1..(2 * Cardinality(Fds) + 1)
  BY FS_CardinalityType
<1>14. ASSUME UNCHANGED <<backend, w, sock>>, nrev' \in -1..(2 * Cardinality(Fds) + 1),
              failed' \in BOOLEAN, bytes' \in Nat, armed' \in BOOLEAN, watched' \in BOOLEAN,
              lpc' \in {"top", "polling", "reset", "process"},
              calls' \in 0..MaxWakeups, unheard' \in BOOLEAN
       PROVE  WatcherTypeOK'
  BY <1>14 DEF WatcherInv, WatcherTypeOK
<1>15. /\ nrev \in -1..(2 * Cardinality(Fds) + 1)
       /\ failed \in BOOLEAN /\ bytes \in Nat /\ armed \in BOOLEAN /\ watched \in BOOLEAN
       /\ lpc \in {"top", "polling", "reset", "process"}
       /\ calls \in 0..MaxWakeups /\ unheard \in BOOLEAN
  BY DEF WatcherInv, WatcherTypeOK
<1>1. ASSUME NEW fd \in Fds, TableInv', UNCHANGED backend,
             sock' \in [Fds -> {"closed", "connecting", "up", "blocked"}], lpc = "process",
             UNCHANGED <<revents, nrev, bytes, armed, watched, lpc, reported, failed, calls, unheard>>
      PROVE  WatcherInv'
  <2>1. WatcherTypeOK'
    BY <1>1 DEF WatcherInv, WatcherTypeOK, TableInv, Watcher
  <2>2. ReportInv' /\ WakeInv'
    BY <1>1 DEF WatcherInv, ReportInv, WakeInv, Told, Signalled
  <2> QED BY <1>1, <2>1, <2>2 DEF WatcherInv
<1>2. ASSUME NEW fd \in Fds, \/ Connect(fd) \/ Accept(fd) \/ ConnectCompletion(fd)
                              \/ PollOut(fd) \/ Drained(fd)
      PROVE  WatcherInv'
  <2>1. PICK to \in {"connecting", "up", "blocked"} :
          /\ sock' = [sock EXCEPT ![fd] = to] /\ lpc = "process"
          /\ UNCHANGED <<backend, revents, nrev, bytes, armed, watched, lpc, reported, failed, calls, unheard>>
    BY <1>2 DEF Connect, Accept, ConnectCompletion, PollOut, Drained, Use
  <2>2. TableInv'
    BY <1>2, <2>1, UsesKeepTable DEF WatcherInv
  <2>3. sock' \in [Fds -> {"closed", "connecting", "up", "blocked"}]
    BY <2>1 DEF WatcherInv, WatcherTypeOK
  <2> QED BY <1>1, <2>1, <2>2, <2>3
<1>3. ASSUME NEW fd \in Fds, CleanupIo(fd) PROVE WatcherInv'
  <2>1. /\ sock' = [sock EXCEPT ![fd] = "closed"] /\ lpc = "process"
        /\ UNCHANGED <<backend, revents, nrev, bytes, armed, watched, lpc, reported, failed, calls, unheard>>
    BY <1>3 DEF CleanupIo
  <2>2. TableInv'
    BY <1>3, <2>1, CleanupKeepsTable DEF WatcherInv
  <2>3. sock' \in [Fds -> {"closed", "connecting", "up", "blocked"}]
    BY <2>1 DEF WatcherInv, WatcherTypeOK
  <2> QED BY <1>1, <2>1, <2>2, <2>3
<1>4. CASE Wakeup
  <2>1. /\ UNCHANGED <<backend, w, sock, revents, nrev, watched, lpc, reported, failed>>
        /\ calls < MaxWakeups /\ calls' = calls + 1 /\ unheard' = TRUE
        /\ IF backend = "epoll" THEN armed' = TRUE /\ UNCHANGED bytes
           ELSE bytes' = bytes + 1 /\ UNCHANGED armed
    BY <1>4 DEF Wakeup
  <2>2. WatcherTypeOK'
    <3>1. calls' \in 0..MaxWakeups
      BY <1>15, <2>1
    <3>2. bytes' \in Nat
      BY <1>15, <2>1
    <3>3. armed' \in BOOLEAN /\ unheard' \in BOOLEAN
      BY <1>15, <2>1, Zenon
    <3> QED BY <1>14, <1>15, <2>1, <3>1, <3>2, <3>3
  <2>3. ReportInv'
    BY <2>1 DEF WatcherInv, ReportInv, Told, Prepared, EntriesOf, Watching
  <2>4. WakeInv'
    BY <2>1 DEF WatcherInv, WatcherTypeOK, WakeInv, Signalled
  <2> QED BY <1>0, <2>1, <2>2, <2>3, <2>4 DEF WatcherInv
<1>5. CASE SkipPoll
  <2>1. ReportInv'
    BY <1>5 DEF SkipPoll, WatcherInv, ReportInv, Told
  <2> QED BY <1>0, <1>5, <2>1 DEF SkipPoll, WatcherInv, WatcherTypeOK, WakeInv, Signalled
<1>6. CASE StartPoll
  <2>1. Prepared' = Prepared
    BY <1>6 DEF StartPoll, Prepared, EntriesOf, Watching
  <2>2. ReportInv'
    BY <1>6, <2>1 DEF StartPoll, ReportInv
  <2>3. WatcherTypeOK'
    <3>1. failed' \in BOOLEAN /\ nrev' \in -1..(2 * Cardinality(Fds) + 1)
      BY <1>6, <1>13 DEF StartPoll
    <3> QED BY <1>6, <1>14, <1>15, <3>1 DEF StartPoll
  <2> QED BY <1>0, <1>6, <2>2, <2>3 DEF StartPoll, WatcherInv, WakeInv, Signalled
<1>7. CASE PollReturns
  <2>1. ReportInv' /\ nrev' \in -1..(2 * Cardinality(Fds) + 1)
    BY <1>7, PollReturnsKeeps
  <2>2. PICK told_ \in BOOLEAN :
          /\ told_ => Signalled
          /\ IF told_ /\ backend # "epoll" THEN lpc' = "reset" /\ UNCHANGED <<calls, unheard>>
             ELSE /\ lpc' = "process" /\ unheard' = FALSE
                  /\ calls' = IF told_ THEN 0 ELSE calls
          /\ armed' = (armed /\ ~told_)
    BY <1>7 DEF PollReturns
  <2>3. lpc = "polling" /\ UNCHANGED <<backend, w, sock, bytes, watched, failed>>
    BY <1>7 DEF PollReturns
  <2>4. WatcherTypeOK'
    <3>1. armed' \in BOOLEAN /\ lpc' \in {"reset", "process"} /\ unheard' \in BOOLEAN
      BY <1>15, <2>2
    <3>2. calls' \in 0..MaxWakeups
      BY <1>13, <1>15, <2>2
    <3> QED BY <1>14, <1>15, <2>1, <2>3, <3>1, <3>2
  <2>5. WakeInv'
    BY <2>2, <2>3 DEF WatcherInv, WatcherTypeOK, WakeInv, Signalled
  <2> QED BY <1>0, <2>1, <2>3, <2>4, <2>5 DEF WatcherInv
<1>8. CASE PollFails
  <2>1. /\ UNCHANGED <<backend, w, sock, revents, bytes, armed, watched, reported, calls, unheard>>
        /\ lpc = "polling" /\ lpc' = "top" /\ failed' = TRUE
        /\ nrev' = IF backend \in {"poll", "select"} THEN Len(revents) ELSE -1
    BY <1>8 DEF PollFails
  <2>2. Cardinality(Fds) \in Nat
    BY FS_CardinalityType
  <2>3. nrev' \in -1..(2 * Cardinality(Fds) + 1)
    <3>1. revents = Prepared
      BY <2>1 DEF WatcherInv, ReportInv
    <3>2. CASE backend = "poll"
      BY <2>1, <2>2, <3>1, <3>2 DEF Prepared
    <3>3. CASE backend = "select"
      <4>1. Watching \in SUBSET ((Fds \X Events) \cup {IntrPair})
        BY DEF Watching
      <4>2. PICK S : S = EntriesOf(Watching)
        OBVIOUS
      <4>3. IsFiniteSet(S) /\ Cardinality(S) <= 2 * Cardinality(Fds) + 1
        BY <4>1, <4>2, EntriesFacts
      <4>4. Len(SetToSeq(S)) = Cardinality(S) /\ Cardinality(S) \in Nat
        BY <4>3, SetToSeqFacts
      <4>5. nrev' = Len(SetToSeq(S))
        BY <2>1, <3>1, <3>3, <4>2 DEF Prepared
      <4> QED BY <2>2, <4>3, <4>4, <4>5
    <3>4. CASE backend \notin {"poll", "select"}
      BY <2>1, <2>2, <3>4
    <3> QED BY <3>2, <3>3, <3>4
  <2>4. WatcherTypeOK'
    BY <2>1, <2>3 DEF WatcherInv, WatcherTypeOK
  <2>5. ReportInv' /\ WakeInv'
    BY <2>1 DEF WatcherInv, ReportInv, WakeInv, Signalled
  <2> QED BY <1>0, <2>1, <2>4, <2>5 DEF WatcherInv
<1>9. CASE Reset
  <2>1. PICK most \in Nat : ResetReads(most)
    BY <1>9 DEF Reset, EventfdReset, PipeReset, SocketReset
  <2>2. /\ UNCHANGED <<backend, w, sock, revents, nrev, armed, watched, reported, failed>>
        /\ lpc = "reset"
    BY <1>9 DEF Reset
  <2>3. bytes' \in Nat
    BY <2>1 DEF ResetReads, WatcherInv, WatcherTypeOK
  <2>4. \/ lpc' = "reset" /\ UNCHANGED <<calls, unheard>>
        \/ lpc' = "process" /\ calls' = 0 /\ unheard' = FALSE /\ bytes' = 0
    BY <2>1, <2>2 DEF ResetReads, WatcherInv, WatcherTypeOK
  <2>5. WatcherTypeOK' /\ WakeInv'
    <3>1. lpc' \in {"reset", "process"} /\ unheard' \in BOOLEAN
      BY <1>15, <2>4
    <3>2. calls' \in 0..MaxWakeups
      BY <1>13, <1>15, <2>4
    <3>3. WatcherTypeOK'
      BY <1>14, <1>15, <2>2, <2>3, <3>1, <3>2
    <3>4. WakeInv'
      BY <2>2, <2>3, <2>4 DEF WatcherInv, WakeInv, Signalled
    <3> QED BY <3>3, <3>4
  <2>6. ReportInv'
    BY <2>2, <2>4 DEF WatcherInv, ReportInv, Told
  <2> QED BY <1>0, <2>2, <2>5, <2>6 DEF WatcherInv
<1>10. CASE Recreate
  <2>1. /\ UNCHANGED <<backend, w, sock, revents, nrev, armed, reported, failed>>
        /\ lpc = "reset" /\ lpc' = "process" /\ calls' = 0 /\ unheard' = FALSE /\ bytes' = 0
        /\ watched' \in BOOLEAN
    BY <1>10 DEF Recreate
  <2>2. WatcherTypeOK' /\ WakeInv'
    <3>1. bytes' \in Nat /\ unheard' \in BOOLEAN /\ calls' \in 0..MaxWakeups
      BY <1>13, <2>1
    <3>2. WatcherTypeOK'
      BY <1>14, <1>15, <2>1, <3>1
    <3>3. WakeInv'
      BY <2>1 DEF WatcherInv, WakeInv, Signalled
    <3> QED BY <3>2, <3>3
  <2>3. ReportInv'
    BY <2>1 DEF WatcherInv, ReportInv, Told
  <2> QED BY <1>0, <2>1, <2>2, <2>3 DEF WatcherInv
<1>11. CASE TurnEnds
  <2>1. ReportInv'
    BY <1>11 DEF TurnEnds, WatcherInv, ReportInv, Told
  <2> QED BY <1>0, <1>11, <2>1 DEF TurnEnds, WatcherInv, WatcherTypeOK, WakeInv, Signalled
<1>12. CASE UNCHANGED wvars
  <2>1. ReportInv'
    BY <1>12 DEF wvars, WatcherInv, ReportInv, Told, Prepared, EntriesOf, Watching
  <2> QED BY <1>0, <1>12, <2>1 DEF wvars, WatcherInv, WatcherTypeOK, WakeInv, Signalled
<1> QED
  BY <1>2, <1>3, <1>4, <1>5, <1>6, <1>7, <1>8, <1>9, <1>10, <1>11, <1>12
  DEF WatcherNext, WatcherLoop

LEMMA ReadyWasReported ==
  ASSUME WatcherInv
  PROVE  ReadyIsReported
<1> SUFFICES ASSUME lpc = "process", ~failed, NEW fd \in Fds, NEW e \in Events,
                    TRUE \in IsReady(fd, {e})
             PROVE  <<fd, e>> \in reported
  BY DEF ReadyIsReported
<1>1. /\ nrev \in Nat /\ nrev <= Len(revents) /\ \A i \in DOMAIN revents : Told(i)
      /\ backend \in {"poll", "select"} => nrev = Len(revents)
  BY DEF WatcherInv, ReportInv
<1>2. nrev # -1
  BY <1>1
<1>3. ASSUME NEW i \in DOMAIN revents, revents[i].fd = fd, e \in revents[i].evs
      PROVE  <<fd, e>> \in reported
  BY <1>1, <1>3 DEF Told
<1>4. nrev + 1 \in DOMAIN revents => revents[nrev + 1].evs = {}
  <2>1. nrev + 1 > nrev
    BY <1>1
  <2> QED BY <1>1, <2>1 DEF Told
<1>5. CASE backend = "poll"
  <2>1. PollIsReady(fd, {e})
    BY <1>2, <1>5 DEF IsReady
  <2> QED BY <1>3, <1>4, <2>1 DEF PollIsReady, FoundAt
<1>6. CASE backend = "select"
  <2>1. SelectIsReady(fd, {e})
    BY <1>2, <1>6 DEF IsReady
  <2> QED BY <1>3, <2>1 DEF SelectIsReady
<1>7. CASE backend = "epoll"
  <2>1. EpollIsReady(fd, {e})
    BY <1>2, <1>7 DEF IsReady
  <2> QED BY <1>3, <1>4, <2>1 DEF EpollIsReady, FoundAt
<1>8. CASE backend = "kqueue"
  <2>1. KqueueIsReady(fd, {e})
    BY <1>2, <1>8 DEF IsReady
  <2> QED BY <1>3, <1>4, <2>1 DEF KqueueIsReady, FoundAt
<1> QED BY <1>5, <1>6, <1>7, <1>8, IoWatcherAssumption DEF WatcherInv, WatcherTypeOK

(* The io watcher of any of the four backends, over any descriptors and    *)
(* with wakeups of any threads: the kernel watches what the service asked  *)
(* for, max_events_ never falls to 0, is_ready confirms only what the last *)
(* poll reported, and the interrupter neither loses a wakeup nor makes one *)
(* up.                                                                     *)
THEOREM WatcherFaithful == WatcherSpec => []WatcherSafe
<1>1. WatcherInit => WatcherInv
  <2> SUFFICES ASSUME WatcherInit PROVE WatcherInv
    OBVIOUS
  <2> USE IoWatcherAssumption DEF WatcherInit
  <2>1. Cardinality(Fds) \in Nat /\ 0 \in 0..MaxWakeups /\ 0 \in -1..(2 * Cardinality(Fds) + 1)
    BY FS_CardinalityType
  <2>2. w \in Watcher /\ w.max = 1 /\ w.events = w.kernel /\ \A fd \in Fds : w.events[fd] = {}
    BY DEF Watcher
  <2>3. Filters(w.events) = 0
    <3>1. {fd \in Fds : w.events[fd] # {}} = {} /\ {fd \in Fds : w.events[fd] = Events} = {}
      BY <2>2 DEF Events
    <3>2. Cardinality({}) = 0
      BY FS_EmptySet
    <3>3. Filters(w.events) = Cardinality({}) + Cardinality({})
      BY <3>1 DEF Filters
    <3> QED BY <3>2, <3>3
  <2>4. WatcherTypeOK
    BY <2>1, <2>2 DEF WatcherTypeOK, Watcher
  <2>5. TableInv
    BY <2>2, <2>3 DEF TableInv, RoomForOne, KernelAgrees, Wanted, OneTable, KqueueInv, KqueueHolds
  <2>6. ReportInv /\ WakeInv
    BY DEF ReportInv, WakeInv, Signalled
  <2> QED BY <2>4, <2>5, <2>6 DEF WatcherInv
<1>2. WatcherInv /\ [WatcherNext]_wvars => WatcherInv'
  BY WatcherKeepsInv
<1>3. WatcherInv => WatcherSafe
  <2> SUFFICES ASSUME WatcherInv PROVE WatcherSafe
    OBVIOUS
  <2>1. NoLostWakeup /\ NoSpuriousWake
    BY DEF WatcherInv, WakeInv, NoLostWakeup, NoSpuriousWake, Signalled
  <2> QED BY <2>1, ReadyWasReported DEF WatcherInv, TableInv, WatcherSafe
<1> QED BY <1>1, <1>2, <1>3, PTL DEF WatcherSpec

---------------------------------------------------------------------------
(* Cutting a stream into packets.  First induction: the library's theorems *)
(* take the predicate as a parameter; here it is a set of numbers.         *)
LEMMA Inductive ==
  ASSUME NEW S \in SUBSET Nat, 0 \in S, \A n \in S : n + 1 \in S
  PROVE  S = Nat
<1>1. SUFFICES ASSUME S # Nat PROVE FALSE
  OBVIOUS
<1>2. PICK x \in Nat \ S : \A y \in Nat \ S : ~(<<y, x>> \in OpToRel(<, Nat))
  <2>1. Nat \ S \subseteq Nat /\ Nat \ S # {}
    BY <1>1
  <2> QED BY <2>1, NatLessThanWellFounded, WFMin
<1>3. \A y \in Nat \ S : ~(y < x)
  BY <1>2, Zenon DEF OpToRel
<1>4. x \in Nat /\ x \notin S
  OBVIOUS
<1> HIDE <1>2
<1>5. x # 0 /\ x - 1 \in Nat /\ x - 1 < x /\ (x - 1) + 1 = x
  BY <1>4
<1>6. x - 1 \in S
  BY <1>3, <1>5
<1> QED BY <1>4, <1>5, <1>6

(* A recursive function along 1..n: from v, by F, with values in V.        *)
Walkable(V, v, n, F) == v \in V /\ n \in Nat /\ F \in [(1..n) \X V -> V]
IsWalk(V, v, n, F, g) == g \in [0..n -> V] /\ g[0] = v /\ \A i \in 1..n : g[i] = F[<<i, g[i - 1]>>]

LEMMA WalkExists ==
  ASSUME NEW V, NEW v, NEW n, NEW F, Walkable(V, v, n, F)
  PROVE  \E g : IsWalk(V, v, n, F, g)
<1> USE DEF Walkable
<1> DEFINE Q(k) == \E g \in [0..k -> V] : g[0] = v /\ \A i \in 1..k : g[i] = F[<<i, g[i - 1]>>]
           S == {k \in Nat : k <= n => Q(k)}
<1>1. 0 \in S
  <2>1. [i \in 0..0 |-> v] \in [0..0 -> V] /\ [i \in 0..0 |-> v][0] = v /\ 1..0 = {}
    OBVIOUS
  <2>2. Q(0)
    BY <2>1
  <2> QED BY <2>2
<1>2. ASSUME NEW k \in S PROVE k + 1 \in S
  <2>1. SUFFICES ASSUME k + 1 <= n PROVE Q(k + 1)
    OBVIOUS
  <2>2. k \in Nat /\ k <= n
    BY <2>1
  <2>3. PICK g \in [0..k -> V] : g[0] = v /\ \A i \in 1..k : g[i] = F[<<i, g[i - 1]>>]
    BY <2>2
  <2>4. PICK x : x = F[<<k + 1, g[k]>>]
    OBVIOUS
  <2>5. x \in V
    <3>1. k + 1 \in 1..n /\ g[k] \in V
      BY <2>1, <2>2
    <3> QED BY <2>4, <3>1
  <2>6. PICK h : h = [i \in 0..(k + 1) |-> IF i = k + 1 THEN x ELSE g[i]]
    OBVIOUS
  <2>7. h \in [0..(k + 1) -> V]
    BY <2>2, <2>5, <2>6
  <2>8. h[k + 1] = x /\ \A i \in 0..k : h[i] = g[i]
    BY <2>2, <2>6
  <2>9. h[0] = v
    BY <2>2, <2>3, <2>8
  <2>10. ASSUME NEW i \in 1..(k + 1) PROVE h[i] = F[<<i, h[i - 1]>>]
    <3>1. CASE i = k + 1
      <4>1. i - 1 = k /\ h[k] = g[k]
        BY <2>2, <2>8, <3>1
      <4> QED BY <2>4, <2>8, <3>1, <4>1
    <3>2. CASE i \in 1..k
      <4>1. i - 1 \in 0..k /\ i \in 0..k
        BY <2>2, <3>2
      <4> QED BY <2>3, <2>8, <3>2, <4>1
    <3> QED BY <2>2, <3>1, <3>2
  <2> QED BY <2>7, <2>9, <2>10
<1> HIDE DEF Q
<1>3. S = Nat
  BY <1>1, <1>2, Inductive
<1>4. Q(n)
  BY <1>3
<1> QED BY <1>4 DEF Q, IsWalk

(* The invariant.  Until a bad frame has been fired, between packets the   *)
(* buffer is the part of the stream from the end of the last packet fired  *)
(* to the last byte read; within one, the buffer is empty and the packet   *)
(* begun is the part from behind the stripped bytes; and the frame it is   *)
(* of is not a bad one.  From then on only the sizes are kept.             *)
(*                                                                         *)
(* s is the n bytes of the stream behind the first p.                      *)
IsPart(s, p, n) ==
  /\ s \in Seq(Byte) /\ Len(s) = n
  /\ \A i \in 1 .. n : s[i] = Stream[p + i]

Current == Len(out) + 1

AtRest ==
  /\ pkt = << >> /\ StreamEnds[Len(out)] <= taken
  /\ IsPart(buf, StreamEnds[Len(out)], taken - StreamEnds[Len(out)])

InPacket ==
  /\ Len(out) < NFrames /\ ~Bad(Current) /\ expected = frames[Current]
  /\ buf = << >> /\ StreamEnds[Len(out)] + Strip <= taken /\ taken < StreamEnds[Current]
  /\ IsPart(pkt, StreamEnds[Len(out)] + Strip, taken - (StreamEnds[Len(out)] + Strip))

UnpackTypes ==
  /\ frames \in [1 .. NFrames -> Sizes]
  /\ arrived \in 0 .. Len(Stream) /\ taken \in 0 .. arrived
  /\ end \in {"none", "fin", "reset"} /\ readable \in BOOLEAN /\ wait0 \in BOOLEAN
  /\ buf \in Seq(Byte) /\ pkt \in Seq(Byte) /\ out \in Seq(Seq(Byte))
  /\ Len(buf) <= BufSize /\ Len(pkt) <= MaxFrame /\ Len(out) + Len(buf) <= taken
  /\ \/ expected = -1 /\ pkt = << >>
     \/ expected \in Strip .. MaxFrame /\ buf = << >> /\ Len(pkt) + Strip < expected
  /\ upc \in {"poll", "read", "failed", "ended"}

Derailed == \E j \in 1 .. NFrames : j <= Len(out) /\ Bad(j)
OnTrack == Sane(Len(out)) /\ (upc # "failed" => IF expected = -1 THEN AtRest ELSE InPacket)

FullOnlyOnBad == Len(buf) = BufSize => BadMet

UnpackInv ==
  /\ UnpackTypes /\ PacketsExact /\ FailsOnlyOnBad /\ EndsRight /\ FullOnlyOnBad
  /\ Derailed \/ OnTrack

(* What a frame takes on the wire. *)
LEMMA WireOf ==
  ASSUME frames \in [1 .. NFrames -> Sizes]
  PROVE  \A k \in 1 .. NFrames : /\ frames[k] \in Int /\ Wire(k) \in Nat \ {0}
                                 /\ Wire(k) >= HeaderEnd /\ Wire(k) >= frames[k]
                                 /\ frames[k] >= HeaderEnd => Wire(k) = frames[k]
<1> SUFFICES ASSUME NEW k \in 1 .. NFrames
             PROVE  /\ frames[k] \in Int /\ Wire(k) \in Nat \ {0}
                    /\ Wire(k) >= HeaderEnd /\ Wire(k) >= frames[k]
                    /\ frames[k] >= HeaderEnd => Wire(k) = frames[k]
  OBVIOUS
<1>1. frames[k] \in Int /\ HeaderEnd \in Nat \ {0}
  BY UnpackAssumption
<1> QED BY <1>1 DEF Wire

LEMMA StreamEndsOf ==
  ASSUME frames \in [1 .. NFrames -> Sizes]
  PROVE  /\ StreamEnds \in [0 .. NFrames -> Nat] /\ StreamEnds[0] = 0
         /\ \A k \in 1 .. NFrames : StreamEnds[k] = StreamEnds[k - 1] + Wire(k)
<1> DEFINE E == CHOOSE g : g = [k \in 0 .. NFrames |-> IF k = 0 THEN 0 ELSE g[k - 1] + Wire(k)]
<1>1. StreamEnds = E
  BY DEF StreamEnds
<1>2. NFrames \in Nat /\ \A k \in 1 .. NFrames : Wire(k) \in Nat
  BY UnpackAssumption, WireOf
<1>3. PICK f : f = [q \in (1 .. NFrames) \X Nat |-> q[2] + Wire(q[1])]
  OBVIOUS
<1>4. Walkable(Nat, 0, NFrames, f)
  <2>1. f \in [(1 .. NFrames) \X Nat -> Nat]
    BY <1>2, <1>3
  <2> QED BY <1>2, <2>1 DEF Walkable
<1>5. PICK g : IsWalk(Nat, 0, NFrames, f, g)
  BY <1>4, WalkExists
<1>6. g \in [0 .. NFrames -> Nat] /\ g[0] = 0 /\ \A k \in 1 .. NFrames : g[k] = g[k - 1] + Wire(k)
  <2>1. g \in [0 .. NFrames -> Nat] /\ g[0] = 0 /\ \A k \in 1 .. NFrames : g[k] = f[<<k, g[k - 1]>>]
    BY <1>5 DEF IsWalk
  <2>2. \A k \in 1 .. NFrames : k - 1 \in 0 .. NFrames
    BY <1>2
  <2>3. \A k \in 1 .. NFrames : <<k, g[k - 1]>> \in (1 .. NFrames) \X Nat
    BY <2>1, <2>2
  <2> QED BY <1>3, <2>1, <2>3
<1>7. g = [k \in 0 .. NFrames |-> IF k = 0 THEN 0 ELSE g[k - 1] + Wire(k)]
  <2>1. \A k \in 0 .. NFrames : g[k] = IF k = 0 THEN 0 ELSE g[k - 1] + Wire(k)
    <3>1. \A k \in 0 .. NFrames : k = 0 \/ k \in 1 .. NFrames
      BY <1>2
    <3> QED BY <1>6, <3>1
  <2>2. g = [k \in 0 .. NFrames |-> g[k]]
    BY <1>6
  <2> QED BY <2>1, <2>2, Zenon
<1>8. E = [k \in 0 .. NFrames |-> IF k = 0 THEN 0 ELSE E[k - 1] + Wire(k)]
  BY <1>7
<1> HIDE DEF E
<1>9. E[0] = 0 /\ \A k \in 1 .. NFrames : E[k] = E[k - 1] + Wire(k)
  <2>1. 0 \in 0 .. NFrames /\ \A k \in 1 .. NFrames : k \in 0 .. NFrames /\ k # 0
    BY <1>2
  <2> QED BY <1>8, <2>1
<1>10. \A k \in 0 .. NFrames : E[k] \in Nat
  <2> DEFINE Q == {k \in Nat : k <= NFrames => E[k] \in Nat}
  <2>1. 0 \in Q
    BY <1>9
  <2>2. ASSUME NEW k \in Q PROVE k + 1 \in Q
    <3> SUFFICES ASSUME k + 1 <= NFrames PROVE E[k + 1] \in Nat
      OBVIOUS
    <3>1. k \in Nat /\ k + 1 \in 1 .. NFrames /\ (k + 1) - 1 = k /\ E[k] \in Nat
      BY <1>2
    <3> QED BY <1>2, <1>9, <3>1
  <2>3. Q = Nat
    BY <2>1, <2>2, Inductive
  <2> QED BY <1>2, <2>3
<1>11. E \in [0 .. NFrames -> Nat]
  BY <1>8, <1>10
<1> QED BY <1>1, <1>9, <1>11

(* The stream, byte by byte. *)
LEMMA StreamOf ==
  ASSUME frames \in [1 .. NFrames -> Sizes]
  PROVE  /\ Stream \in Seq(Byte) /\ Len(Stream) = StreamEnds[NFrames]
         /\ \A k \in 1 .. NFrames : StreamEnds[k] <= Len(Stream)
         /\ \A k \in 1 .. NFrames : \A j \in 1 .. Wire(k) : Stream[StreamEnds[k - 1] + j] = <<k, j>>
<1> DEFINE E == StreamEnds
           B == [k \in 1 .. NFrames |-> Bytes(k)]
           W == CHOOSE g : g = [i \in 1 .. Len(B) |-> IF i = 1 THEN B[i] ELSE g[i - 1] \o B[i]]
<1>1. NFrames \in Nat /\ \A k \in 1 .. NFrames : Wire(k) \in Nat
  BY UnpackAssumption, WireOf
<1>2. /\ E \in [0 .. NFrames -> Nat] /\ E[0] = 0
      /\ \A k \in 1 .. NFrames : E[k] = E[k - 1] + Wire(k)
  BY StreamEndsOf
<1>3. \A k \in 1 .. NFrames : /\ Bytes(k) \in Seq(Byte) /\ Len(Bytes(k)) = Wire(k)
                              /\ \A j \in 1 .. Wire(k) : Bytes(k)[j] = <<k, j>>
  <2> SUFFICES ASSUME NEW k \in 1 .. NFrames
               PROVE  /\ Bytes(k) \in Seq(Byte) /\ Len(Bytes(k)) = Wire(k)
                      /\ \A j \in 1 .. Wire(k) : Bytes(k)[j] = <<k, j>>
    OBVIOUS
  <2>1. \A j \in 1 .. Wire(k) : <<k, j>> \in Byte
    BY <1>1 DEF Byte
  <2>2. Bytes(k) \in [1 .. Wire(k) -> Byte] /\ \A j \in 1 .. Wire(k) : Bytes(k)[j] = <<k, j>>
    BY <2>1 DEF Bytes
  <2>3. PICK m, t : m = Wire(k) /\ t = Bytes(k)
    OBVIOUS
  <2>4. m \in Nat /\ t \in [1 .. m -> Byte]
    BY <1>1, <2>2, <2>3
  <2>5. t \in Seq(Byte)
    BY <2>4, SeqDef
  <2>6. Len(t) = m
    BY <2>4, <2>5, LenProperties
  <2> QED BY <2>2, <2>3, <2>5, <2>6
<1>4. B \in Seq(Seq(Byte)) /\ Len(B) = NFrames /\ \A k \in 1 .. NFrames : B[k] = Bytes(k)
  <2>1. B \in [1 .. NFrames -> Seq(Byte)]
    BY <1>3
  <2> QED BY <1>1, <2>1, SeqDef, LenProperties
<1>5. Stream = IF Len(B) = 0 THEN B ELSE W[Len(B)]
  BY DEF Stream, FlattenSeq
<1> HIDE DEF B, E
<1>6. PICK V, v : V = Seq(Byte) /\ v = << >>
  OBVIOUS
<1>7. PICK f : f = [q \in (1 .. NFrames) \X V |-> q[2] \o B[q[1]]]
  OBVIOUS
<1>8. Walkable(V, v, NFrames, f)
  <2>1. << >> \in Seq(Byte)
    OBVIOUS
  <2>2. ASSUME NEW q \in (1 .. NFrames) \X V PROVE f[q] \in V
    <3>1. q[1] \in 1 .. NFrames /\ q[2] \in Seq(Byte) /\ B[q[1]] \in Seq(Byte)
      BY <1>3, <1>4, <1>6
    <3>2. q[2] \o B[q[1]] \in Seq(Byte)
      BY <3>1, ConcatProperties
    <3> QED BY <1>6, <1>7, <3>2
  <2>3. f \in [(1 .. NFrames) \X V -> V]
    BY <1>7, <2>2
  <2> QED BY <1>1, <1>6, <2>1, <2>3 DEF Walkable
<1>9. PICK g : IsWalk(V, v, NFrames, f, g)
  BY <1>8, WalkExists
<1>10. g[0] = << >> /\ g \in [0 .. NFrames -> Seq(Byte)] /\ \A i \in 1 .. NFrames : g[i] = g[i - 1] \o B[i]
  <2>1. g[0] = << >> /\ g \in [0 .. NFrames -> V] /\ \A i \in 1 .. NFrames : g[i] = f[<<i, g[i - 1]>>]
    BY <1>6, <1>9 DEF IsWalk
  <2>2. ASSUME NEW i \in 1 .. NFrames PROVE f[<<i, g[i - 1]>>] = g[i - 1] \o B[i]
    <3>1. i - 1 \in 0 .. NFrames
      BY <1>1
    <3>2. <<i, g[i - 1]>> \in (1 .. NFrames) \X V
      BY <2>1, <3>1
    <3> QED BY <1>7, <3>2
  <2> QED BY <1>6, <2>1, <2>2
<1>11. PICK h : h = [i \in 1 .. NFrames |-> g[i]]
  OBVIOUS
<1>12. h = [i \in 1 .. NFrames |-> IF i = 1 THEN B[i] ELSE h[i - 1] \o B[i]]
  <2>1. ASSUME NEW i \in 1 .. NFrames PROVE h[i] = IF i = 1 THEN B[i] ELSE h[i - 1] \o B[i]
    <3>1. h[i] = g[i - 1] \o B[i]
      BY <1>10, <1>11
    <3>2. CASE i = 1
      <4>1. i - 1 = 0 /\ B[i] \in Seq(Byte)
        BY <1>3, <1>4, <3>2
      <4>2. << >> \o B[i] = B[i]
        BY <4>1, ConcatEmptySeq
      <4> QED BY <1>10, <3>1, <3>2, <4>1, <4>2
    <3>3. CASE i # 1
      <4>1. i - 1 \in 1 .. NFrames
        BY <1>1, <3>3
      <4> QED BY <1>11, <3>1, <3>3, <4>1, ZenonT(60)
    <3> QED BY <3>2, <3>3
  <2>2. h = [i \in 1 .. NFrames |-> h[i]]
    BY <1>11
  <2> QED BY <2>1, <2>2, Zenon
<1>13. W = [i \in 1 .. NFrames |-> IF i = 1 THEN B[i] ELSE W[i - 1] \o B[i]]
  BY <1>4, <1>12, ZenonT(60)
<1> HIDE DEF W
<1> DEFINE P(i) == IF i = 0 THEN << >> ELSE W[i]
<1>14. \A i \in 1 .. NFrames : P(i) = P(i - 1) \o Bytes(i)
  <2> SUFFICES ASSUME NEW i \in 1 .. NFrames PROVE P(i) = P(i - 1) \o Bytes(i)
    OBVIOUS
  <2>0. i # 0 /\ B[i] = Bytes(i)
    BY <1>1, <1>4
  <2>1. P(i) = W[i] /\ W[i] = IF i = 1 THEN B[i] ELSE W[i - 1] \o B[i]
    BY <1>13, <2>0
  <2>2. << >> \o Bytes(i) = Bytes(i)
    BY <1>3, ConcatEmptySeq
  <2>3. CASE i = 1
    <3>1. P(i - 1) = << >>
      BY <2>3
    <3> HIDE DEF P
    <3> QED BY <2>0, <2>1, <2>2, <2>3, <3>1
  <2>4. CASE i # 1
    <3>1. i - 1 # 0
      BY <1>1, <2>4
    <3>2. P(i - 1) = W[i - 1]
      BY <3>1
    <3> HIDE DEF P
    <3> QED BY <2>0, <2>1, <2>4, <3>2
  <2> QED BY <2>3, <2>4
<1>15. Stream = P(NFrames)
  BY <1>4, <1>5
<1> HIDE DEF P
<1> DEFINE J(i) == /\ P(i) \in Seq(Byte) /\ Len(P(i)) = E[i]
                   /\ \A k \in 1 .. i : E[k] <= E[i]
                   /\ \A k \in 1 .. i : \A j \in 1 .. Wire(k) : P(i)[E[k - 1] + j] = <<k, j>>
           Q == {i \in Nat : i <= NFrames => J(i)}
<1>16. 0 \in Q
  <2>1. P(0) = << >> /\ << >> \in Seq(Byte) /\ Len(<< >>) = 0 /\ 1 .. 0 = {}
    BY DEF P
  <2> QED BY <1>2, <2>1
<1>17. ASSUME NEW i \in Q PROVE i + 1 \in Q
  <2> HIDE DEF J
  <2>1. SUFFICES ASSUME i + 1 <= NFrames PROVE J(i + 1)
    OBVIOUS
  <2> USE DEF J
  <2>2. i \in Nat /\ i + 1 \in 1 .. NFrames /\ (i + 1) - 1 = i /\ J(i)
    BY <1>1, <2>1
  <2>3. PICK s, t : s = P(i) /\ t = Bytes(i + 1)
    OBVIOUS
  <2>4. s \in Seq(Byte) /\ t \in Seq(Byte) /\ Len(s) = E[i] /\ Len(t) = Wire(i + 1) /\ P(i + 1) = s \o t
    BY <1>3, <1>14, <2>2, <2>3
  <2>5. /\ s \o t \in Seq(Byte) /\ Len(s \o t) = Len(s) + Len(t)
        /\ \A m \in 1 .. Len(s) + Len(t) : (s \o t)[m] = IF m <= Len(s) THEN s[m] ELSE t[m - Len(s)]
    BY <2>4, ConcatProperties, ZenonT(60)
  <2>6. E[i + 1] = E[i] + Wire(i + 1) /\ E[i] \in Nat /\ Wire(i + 1) \in Nat /\ E[i + 1] \in Nat
    BY <1>1, <1>2, <2>2
  <2>7. \A k \in 1 .. (i + 1) : E[k] <= E[i + 1]
    <3> SUFFICES ASSUME NEW k \in 1 .. (i + 1) PROVE E[k] <= E[i + 1]
      OBVIOUS
    <3>1. CASE k = i + 1
      BY <2>6, <3>1
    <3>2. CASE k \in 1 .. i
      <4>0. k \in 0 .. NFrames
        BY <1>1, <2>2, <3>2
      <4>1. E[k] <= E[i] /\ E[k] \in Nat
        BY <1>2, <2>2, <3>2, <4>0
      <4> QED BY <2>6, <4>1
    <3> QED BY <2>2, <3>1, <3>2
  <2>8. ASSUME NEW k \in 1 .. (i + 1), NEW j \in 1 .. Wire(k) PROVE (s \o t)[E[k - 1] + j] = <<k, j>>
    <3>1. CASE k = i + 1
      <4>1. E[k - 1] + j \in 1 .. Len(s) + Len(t) /\ ~(E[k - 1] + j <= Len(s)) /\ (E[k - 1] + j) - Len(s) = j
        BY <2>2, <2>4, <2>6, <3>1
      <4>2. t[j] = <<k, j>>
        BY <1>3, <2>2, <2>3, <3>1
      <4> QED BY <2>5, <4>1, <4>2
    <3>2. CASE k \in 1 .. i
      <4>1. /\ E[k] <= E[i] /\ k \in 1 .. NFrames /\ k - 1 \in 0 .. NFrames /\ E[k] = E[k - 1] + Wire(k)
            /\ E[k - 1] \in Nat /\ Wire(k) \in Nat /\ E[k] \in Nat
        BY <1>1, <1>2, <2>1, <2>2, <3>2
      <4>5. PICK a, b, c, d : a = E[k - 1] /\ b = E[i] /\ c = Wire(i + 1) /\ d = Wire(k)
        OBVIOUS
      <4>6. a \in Nat /\ b \in Nat /\ c \in Nat /\ d \in Nat /\ a + d <= b /\ j \in Nat /\ 1 <= j /\ j <= d
        BY <2>6, <2>8, <4>1, <4>5
      <4>7. Len(s) = b /\ Len(t) = c
        BY <2>4, <4>5
      <4>2. E[k - 1] + j \in 1 .. Len(s) + Len(t) /\ E[k - 1] + j <= Len(s)
        <5>1. a + j \in 1 .. (b + c) /\ a + j <= b
          BY <4>6
        <5> QED BY <4>5, <4>7, <5>1
      <4>3. s[E[k - 1] + j] = <<k, j>>
        BY <2>2, <2>3, <3>2
      <4> QED BY <2>5, <4>2, <4>3
    <3>3. k = i + 1 \/ k \in 1 .. i
      BY <2>2
    <3> QED BY <3>1, <3>2, <3>3
  <2> QED BY <2>4, <2>5, <2>6, <2>7, <2>8
<1>18. J(NFrames)
  <2> HIDE DEF J
  <2>1. Q = Nat
    BY <1>16, <1>17, Inductive
  <2> QED BY <1>1, <2>1
<1> QED BY <1>15, <1>18 DEF E

(* Parts of the stream: a part of a part, and two that are next to each    *)
(* other.                                                                  *)
LEMMA PartSub ==
  ASSUME NEW s, NEW p \in Nat, NEW n \in Nat, IsPart(s, p, n), NEW a \in Nat, NEW b \in Nat, a <= b, b <= n
  PROVE  IsPart(SubSeq(s, a + 1, b), p + a, b - a)
<1>1. s \in Seq(Byte) /\ Len(s) = n /\ \A i \in 1 .. n : s[i] = Stream[p + i]
  BY DEF IsPart
<1>2. PICK t, m : t = SubSeq(s, a + 1, b) /\ m = b - a
  OBVIOUS
<1>3. \A i \in (a + 1) .. b : i \in 1 .. Len(s)
  BY <1>1
<1>4. m \in Nat /\ (IF a + 1 <= b THEN b - (a + 1) + 1 ELSE 0) = m
  BY <1>2
<1>5. t \in Seq(Byte) /\ Len(t) = m
  BY <1>1, <1>2, <1>3, <1>4, SubSeqProperties
<1>6. \A i \in 1 .. m : t[i] = s[a + i]
  <2>1. \A i \in 1 .. (b - (a + 1) + 1) : t[i] = s[(a + 1) + i - 1]
    BY <1>1, <1>2, <1>3, SubSeqProperties
  <2>2. b - (a + 1) + 1 = m /\ \A i \in 1 .. m : (a + 1) + i - 1 = a + i
    BY <1>2, <1>4
  <2> QED BY <2>1, <2>2
<1>7. ASSUME NEW i \in 1 .. m PROVE t[i] = Stream[(p + a) + i]
  <2>1. a + i \in 1 .. n /\ p + (a + i) = (p + a) + i
    BY <1>2
  <2> QED BY <1>1, <1>6, <2>1
<1> QED BY <1>2, <1>5, <1>7 DEF IsPart

LEMMA PartConcat ==
  ASSUME NEW s, NEW t, NEW p \in Nat, NEW m \in Nat, NEW n \in Nat, IsPart(s, p, m), IsPart(t, p + m, n)
  PROVE  IsPart(s \o t, p, m + n)
<1>1. s \in Seq(Byte) /\ Len(s) = m /\ \A i \in 1 .. m : s[i] = Stream[p + i]
  BY DEF IsPart
<1>2. t \in Seq(Byte) /\ Len(t) = n /\ \A i \in 1 .. n : t[i] = Stream[(p + m) + i]
  BY DEF IsPart
<1>3. /\ s \o t \in Seq(Byte) /\ Len(s \o t) = m + n
      /\ \A i \in 1 .. (m + n) : (s \o t)[i] = IF i <= m THEN s[i] ELSE t[i - m]
  BY <1>1, <1>2, ConcatProperties, ZenonT(60)
<1>4. ASSUME NEW i \in 1 .. (m + n) PROVE (s \o t)[i] = Stream[p + i]
  <2>1. CASE i <= m
    <3>1. i \in 1 .. m
      BY <2>1
    <3> QED BY <1>1, <1>3, <2>1, <3>1
  <2>2. CASE ~(i <= m)
    <3>1. i - m \in 1 .. n /\ (p + m) + (i - m) = p + i
      BY <2>2
    <3> QED BY <1>2, <1>3, <2>2, <3>1
  <2> QED BY <2>1, <2>2
<1> QED BY <1>3, <1>4 DEF IsPart

LEMMA PartOfStream ==
  ASSUME frames \in [1 .. NFrames -> Sizes], NEW a \in Nat, NEW b \in Nat, a <= b, b <= Len(Stream)
  PROVE  IsPart(SubSeq(Stream, a + 1, b), a, b - a)
<1>1. Stream \in Seq(Byte)
  BY StreamOf
<1>2. Len(Stream) \in Nat
  BY <1>1, LenProperties
<1>3. IsPart(Stream, 0, Len(Stream))
  BY <1>1, <1>2 DEF IsPart
<1>4. IsPart(SubSeq(Stream, a + 1, b), 0 + a, b - a)
  BY <1>2, <1>3, PartSub
<1> QED BY <1>4

(* What lies Strip bytes behind the begin of frame k is its packet.        *)
LEMMA PacketIs ==
  ASSUME frames \in [1 .. NFrames -> Sizes], NEW k \in 1 .. NFrames, Strip <= frames[k],
         NEW s, IsPart(s, StreamEnds[k - 1] + Strip, frames[k] - Strip)
  PROVE  s = Packet(k)
<1>1. PICK m, e, wire : m = frames[k] /\ e = StreamEnds[k - 1] /\ wire = Wire(k)
  OBVIOUS
<1>2. m \in Nat /\ Strip \in Nat /\ Strip <= m /\ e \in Nat /\ wire \in Nat /\ m <= wire
  <2>1. k - 1 \in 0 .. NFrames
    BY UnpackAssumption
  <2>2. m \in Int /\ wire \in Nat /\ m <= wire
    BY <1>1, WireOf
  <2> QED BY <1>1, <2>1, <2>2, UnpackAssumption, StreamEndsOf
<1>3. s \in Seq(Byte) /\ Len(s) = m - Strip /\ \A i \in 1 .. (m - Strip) : s[i] = Stream[(e + Strip) + i]
  BY <1>1 DEF IsPart
<1>4. \A j \in 1 .. wire : Stream[e + j] = <<k, j>>
  BY <1>1, StreamOf
<1>5. PICK t : t = Bytes(k)
  OBVIOUS
<1>6. t \in Seq((1 .. NFrames) \X Nat) /\ Len(t) = wire /\ \A j \in 1 .. wire : t[j] = <<k, j>>
  <2>1. t = [j \in 1 .. wire |-> <<k, j>>]
    BY <1>1, <1>5 DEF Bytes
  <2>2. t \in [1 .. wire -> (1 .. NFrames) \X Nat]
    BY <1>2, <2>1
  <2>3. t \in Seq((1 .. NFrames) \X Nat)
    BY <1>2, <2>2, SeqDef
  <2> QED BY <1>2, <2>1, <2>2, <2>3, LenProperties
<1>7. PICK u : u = SubSeq(t, Strip + 1, m)
  OBVIOUS
<1>8. \A i \in (Strip + 1) .. m : i \in 1 .. Len(t)
  BY <1>2, <1>6
<1>9. u \in Seq((1 .. NFrames) \X Nat) /\ Len(u) = m - Strip
  <2>1. (IF Strip + 1 <= m THEN m - (Strip + 1) + 1 ELSE 0) = m - Strip
    BY <1>2
  <2> QED BY <1>2, <1>6, <1>7, <1>8, <2>1, SubSeqProperties
<1>10. \A i \in 1 .. (m - Strip) : u[i] = t[Strip + i]
  <2>1. \A i \in 1 .. (m - (Strip + 1) + 1) : u[i] = t[(Strip + 1) + i - 1]
    BY <1>2, <1>6, <1>7, <1>8, SubSeqProperties
  <2>2. m - (Strip + 1) + 1 = m - Strip /\ \A i \in 1 .. (m - Strip) : (Strip + 1) + i - 1 = Strip + i
    BY <1>2
  <2> QED BY <2>1, <2>2
<1>11. ASSUME NEW i \in 1 .. (m - Strip) PROVE s[i] = u[i]
  <2>1. Strip + i \in 1 .. wire /\ (e + Strip) + i = e + (Strip + i)
    BY <1>2
  <2>2. s[i] = Stream[e + (Strip + i)]
    BY <1>3, <2>1
  <2> QED BY <1>4, <1>6, <1>10, <2>1, <2>2
<1>12. s = u
  <2>1. s = [i \in 1 .. (m - Strip) |-> s[i]] /\ u = [i \in 1 .. (m - Strip) |-> u[i]]
    BY <1>3, <1>9, LenProperties
  <2> QED BY <1>11, <2>1, Zenon
<1> QED BY <1>1, <1>5, <1>7, <1>12 DEF Packet

LEMMA MinTwo ==
  ASSUME NEW a \in Int, NEW b \in Int
  PROVE  Min({a, b}) = IF a <= b THEN a ELSE b
<1>1. PICK m : m = IF a <= b THEN a ELSE b
  OBVIOUS
<1>2. m \in {a, b} /\ \A y \in {a, b} : m =< y
  BY <1>1
<1>3. Min({a, b}) \in {a, b} /\ \A y \in {a, b} : Min({a, b}) =< y
  BY <1>2 DEF Min
<1>4. PICK x : x = Min({a, b})
  OBVIOUS
<1>5. (x = a \/ x = b) /\ x <= a /\ x <= b
  BY <1>3, <1>4
<1> QED BY <1>4, <1>5

LEMMA UnpackNumbers ==
  ASSUME UnpackTypes
  PROVE  /\ taken \in Nat /\ arrived \in Nat /\ taken <= arrived /\ Len(Stream) \in Nat /\ arrived <= Len(Stream)
         /\ Len(buf) \in Nat /\ Len(pkt) \in Nat /\ Len(out) \in Nat
         /\ BufSize \in Nat /\ MaxFrame \in Nat /\ Strip \in Nat /\ NFrames \in Nat
         /\ HeaderEnd \in Nat /\ HeaderEnd > 0 /\ HeaderEnd <= BufSize
<1>1. frames \in [1 .. NFrames -> Sizes] /\ arrived \in 0 .. Len(Stream) /\ taken \in 0 .. arrived
  BY DEF UnpackTypes
<1>2. Len(Stream) \in Nat
  BY <1>1, StreamOf, LenProperties
<1>3. Len(buf) \in Nat /\ Len(pkt) \in Nat /\ Len(out) \in Nat
  BY LenProperties DEF UnpackTypes
<1> QED BY <1>1, <1>2, <1>3, UnpackAssumption

(* What a recv returns has arrived and fits into the buffer.               *)
LEMMA ReceivedOf ==
  ASSUME UnpackTypes, NEW n \in Received
  PROVE  n \in Nat /\ taken + n \in Nat /\ taken + n <= arrived /\ Len(buf) + n <= BufSize
<1>1. taken \in Nat /\ arrived \in Nat /\ taken <= arrived
  BY UnpackNumbers
<1>2. BufSize \in Nat /\ Len(buf) \in Nat /\ Len(buf) <= BufSize
  BY UnpackNumbers DEF UnpackTypes
<1>3. PICK c, d : c = arrived - taken /\ d = BufSize - Len(buf)
  OBVIOUS
<1>4. c \in Int /\ d \in Int /\ c >= 0 /\ d >= 0
  BY <1>1, <1>2, <1>3
<1>5. PICK m : m = Min({c, d})
  OBVIOUS
<1>6. m \in Int /\ m <= c /\ m <= d
  BY <1>4, <1>5, MinTwo
<1>7. n = 0 \/ n \in 1 .. m
  BY <1>3, <1>5 DEF Received
<1>8. n \in Nat /\ n <= c /\ n <= d
  <2>1. CASE n = 0
    BY <1>4, <2>1
  <2>2. CASE n \in 1 .. m
    BY <1>4, <1>6, <2>2
  <2> QED BY <1>7, <2>1, <2>2
<1> QED BY <1>1, <1>2, <1>3, <1>8

(* At the begin of a frame the decoder reads that frame's length.          *)
LEMMA DecodeOf ==
  ASSUME frames \in [1 .. NFrames -> Sizes], NEW m \in 0 .. NFrames, NEW n \in Nat,
         NEW s, IsPart(s, StreamEnds[m], n), StreamEnds[m] + n <= Len(Stream)
  PROVE  /\ n < HeaderEnd => Decode(s) = {0}
         /\ n >= HeaderEnd => /\ m < NFrames
                              /\ Decode(s) = IF frames[m + 1] > MaxFrame THEN {-1} ELSE {frames[m + 1]}
<1>1. s \in Seq(Byte) /\ Len(s) = n /\ \A i \in 1 .. n : s[i] = Stream[StreamEnds[m] + i]
  BY DEF IsPart
<1>2. CASE n < HeaderEnd
  <2>1. ~(n >= HeaderEnd)
    BY <1>2, UnpackAssumption
  <2> QED BY <1>1, <1>2, <2>1 DEF Decode
<1>3. CASE ~(n < HeaderEnd)
  <2>1. n >= HeaderEnd /\ 1 \in 1 .. n
    BY <1>3, UnpackAssumption
  <2>2. m \in Nat /\ NFrames \in Nat /\ m <= NFrames
    BY UnpackAssumption
  <2>3. Len(Stream) = StreamEnds[NFrames] /\ StreamEnds[m] \in Nat
    BY StreamOf, StreamEndsOf
  <2>4. m # NFrames
    <3> SUFFICES ASSUME m = NFrames PROVE FALSE
      OBVIOUS
    <3>1. PICK e : e = StreamEnds[m]
      OBVIOUS
    <3>2. e \in Nat /\ e + n <= e /\ n >= 1
      BY <2>1, <2>3, <3>1
    <3> QED BY <3>2
  <2>5. m < NFrames /\ m + 1 \in 1 .. NFrames /\ (m + 1) - 1 = m
    BY <2>2, <2>4
  <2>6. Wire(m + 1) \in Nat \ {0} /\ 1 \in 1 .. Wire(m + 1)
    BY <2>5, WireOf
  <2>7. Stream[StreamEnds[m] + 1] = <<m + 1, 1>>
    BY <2>5, <2>6, StreamOf
  <2>8. s[1] = <<m + 1, 1>>
    BY <1>1, <2>1, <2>7
  <2>9. s[1][1] = m + 1 /\ s[1][2] = 1
    BY <2>8
  <2> QED BY <1>1, <1>3, <2>1, <2>5, <2>9 DEF Decode
<1> QED BY <1>2, <1>3

(* Whatever bytes begin the buffer, a length is refused or at most         *)
(* max_frame_length, and 0 before the header is complete.                  *)
LEMMA DecodeBounds ==
  ASSUME frames \in [1 .. NFrames -> Sizes], NEW s \in Seq(Byte), NEW length \in Decode(s)
  PROVE  length \in Int /\ length <= MaxFrame /\ (length # 0 => Len(s) >= HeaderEnd)
<1>1. MaxFrame \in Nat /\ HeaderEnd \in Nat /\ HeaderEnd > 0 /\ Len(s) \in Nat
  BY UnpackAssumption, LenProperties
<1>2. CASE Len(s) < HeaderEnd
  BY <1>1, <1>2 DEF Decode
<1>3. CASE ~(Len(s) < HeaderEnd)
  <2>1. Len(s) >= HeaderEnd /\ 1 \in 1 .. Len(s)
    BY <1>1, <1>3
  <2>2. s[1] \in Byte
    BY <2>1, ElementOfSeq
  <2>3. s[1][1] \in 1 .. NFrames
    BY <2>2 DEF Byte
  <2>4. frames[s[1][1]] \in Int
    BY <2>3, WireOf
  <2>5. length \in -1 .. MaxFrame \/ length = -1 \/ (length = frames[s[1][1]] /\ ~(frames[s[1][1]] > MaxFrame))
    BY <1>3 DEF Decode
  <2>6. PICK x : x = frames[s[1][1]]
    OBVIOUS
  <2>7. length \in Int /\ length <= MaxFrame
    BY <1>1, <2>4, <2>5, <2>6
  <2> QED BY <2>1, <2>7
<1> QED BY <1>2, <1>3

(* unpack moves what it is given and no more, for any begin of the buffer. *)
LEMMA UnpackTyped ==
  ASSUME UnpackTypes, NEW avail \in Seq(Byte), NEW e \in Nat, NEW strip \in Nat, NEW want \in Nat, NEW full \in Nat,
         Len(avail) = e, e <= BufSize, Len(out) + e <= taken', taken' \in Nat,
         strip <= e, strip <= want, want > 0, full <= MaxFrame, Strip <= full,
         full = want - strip + Len(pkt) + Strip,
         Unpack(avail, want, strip, full)
  PROVE  /\ buf' \in Seq(Byte) /\ pkt' \in Seq(Byte) /\ out' \in Seq(Seq(Byte)) /\ wait0' \in BOOLEAN
         /\ Len(buf') <= BufSize /\ Len(pkt') <= MaxFrame /\ Len(out') + Len(buf') <= taken'
         /\ \/ expected' = -1 /\ pkt' = << >>
            \/ expected' \in Strip .. MaxFrame /\ buf' = << >> /\ Len(pkt') + Strip < expected'
         /\ upc' = "poll"
<1>1. /\ Len(pkt) \in Nat /\ Len(out) \in Nat /\ BufSize \in Nat /\ MaxFrame \in Nat /\ Strip \in Nat
      /\ pkt \in Seq(Byte) /\ out \in Seq(Seq(Byte)) /\ wait0 \in BOOLEAN
  BY UnpackNumbers DEF UnpackTypes
<1>2. PICK x : x = Min({want, Len(avail)})
  OBVIOUS
<1>3. x = (IF want <= e THEN want ELSE e) /\ ~(strip > x) /\ x \in Nat /\ strip <= x /\ x <= e
  BY <1>2, MinTwo
<1>4. PICK r, body : r = SubSeq(avail, strip + 1, x) /\ body = pkt \o r
  OBVIOUS
<1>5. r \in Seq(Byte) /\ Len(r) = x - strip
  <2>1. \A i \in (strip + 1) .. x : i \in 1 .. Len(avail)
    BY <1>3
  <2>2. (IF strip + 1 <= x THEN x - (strip + 1) + 1 ELSE 0) = x - strip
    BY <1>3
  <2> QED BY <1>3, <1>4, <2>1, <2>2, SubSeqProperties
<1>6. body \in Seq(Byte) /\ Len(body) = Len(pkt) + (x - strip)
  BY <1>1, <1>4, <1>5, ConcatProperties
<1>7. /\ upc' = "poll"
      /\ IF e >= want
           THEN /\ buf' = SubSeq(avail, want + 1, e)
                /\ wait0' = (e > want)
                /\ out' = Append(out, body) /\ pkt' = << >> /\ expected' = -1
           ELSE /\ buf' = << >> /\ pkt' = body /\ expected' = full
                /\ UNCHANGED <<wait0, out>>
  BY <1>2, <1>3, <1>4 DEF Unpack
<1>8. << >> \in Seq(Byte) /\ Len(<< >>) = 0
  OBVIOUS
<1>9. CASE e >= want
  <2>1. PICK b : b = SubSeq(avail, want + 1, e)
    OBVIOUS
  <2>2. b \in Seq(Byte) /\ Len(b) = e - want
    <3>1. \A i \in (want + 1) .. e : i \in 1 .. Len(avail)
      OBVIOUS
    <3>2. (IF want + 1 <= e THEN e - (want + 1) + 1 ELSE 0) = e - want
      BY <1>9
    <3> QED BY <2>1, <3>1, <3>2, SubSeqProperties
  <2>3. buf' = b /\ pkt' = << >> /\ expected' = -1 /\ out' = Append(out, body)
    BY <1>7, <1>9, <2>1
  <2>4. wait0' \in BOOLEAN
    BY <1>7, <1>9
  <2>5. out' \in Seq(Seq(Byte)) /\ Len(out') = Len(out) + 1
    BY <1>1, <1>6, <2>3, AppendProperties
  <2>6. Len(b) <= BufSize /\ (Len(out) + 1) + Len(b) <= taken'
    BY <1>1, <1>9, <2>2
  <2> QED BY <1>1, <1>7, <1>8, <2>2, <2>3, <2>4, <2>5, <2>6
<1>10. CASE ~(e >= want)
  <2>1. buf' = << >> /\ pkt' = body /\ expected' = full /\ wait0' = wait0 /\ out' = out
    BY <1>7, <1>10
  <2>2. x = e /\ e < want
    BY <1>3, <1>10
  <2>3. Len(body) + Strip < full /\ Len(body) <= MaxFrame /\ full \in Strip .. MaxFrame
    BY <1>1, <1>6, <2>2
  <2>4. Len(out) + 0 <= taken' /\ 0 <= BufSize
    BY <1>1
  <2> QED BY <1>1, <1>6, <1>7, <1>8, <2>1, <2>3, <2>4
<1> QED BY <1>9, <1>10

(* What do_read has to work on.                                            *)
LEMMA AvailOf ==
  ASSUME UnpackTypes, NEW n, n \in Received
  PROVE  /\ n \in Nat /\ taken + n \in Nat /\ taken + n <= arrived
         /\ buf \o SubSeq(Stream, taken + 1, taken + n) \in Seq(Byte)
         /\ Len(buf \o SubSeq(Stream, taken + 1, taken + n)) = Len(buf) + n
         /\ Len(buf) + n <= BufSize
         /\ IsPart(SubSeq(Stream, taken + 1, taken + n), taken, n)
<1>1. n \in Nat /\ taken + n \in Nat /\ taken + n <= arrived /\ Len(buf) + n <= BufSize
  BY ReceivedOf
<1>2. frames \in [1 .. NFrames -> Sizes] /\ buf \in Seq(Byte)
  BY DEF UnpackTypes
<1>3. /\ taken \in Nat /\ arrived \in Nat /\ Len(Stream) \in Nat /\ taken + n <= Len(Stream)
      /\ taken <= taken + n /\ (taken + n) - taken = n
  BY <1>1, UnpackNumbers
<1>4. PICK r : r = SubSeq(Stream, taken + 1, taken + n)
  OBVIOUS
<1>5. IsPart(r, taken, n)
  <2>1. IsPart(SubSeq(Stream, taken + 1, taken + n), taken, (taken + n) - taken)
    BY <1>1, <1>2, <1>3, PartOfStream
  <2> QED BY <1>3, <1>4, <2>1
<1>6. buf \o r \in Seq(Byte) /\ Len(buf \o r) = Len(buf) + n
  <2>1. r \in Seq(Byte) /\ Len(r) = n
    BY <1>5 DEF IsPart
  <2> QED BY <1>2, <2>1, ConcatProperties
<1> QED BY <1>1, <1>4, <1>5, <1>6

LEMMA DoReadTyped ==
  ASSUME UnpackTypes, Strip <= HeaderEnd, NEW n, DoRead(n)
  PROVE  UnpackTypes' /\ upc' \in {"poll", "failed"}
<1>1. PICK avail, e : avail = buf \o SubSeq(Stream, taken + 1, taken + n) /\ e = Len(buf) + n
  OBVIOUS
<1>2. /\ n \in Nat /\ taken' = taken + n /\ taken' \in Nat /\ taken' <= arrived
      /\ avail \in Seq(Byte) /\ Len(avail) = e /\ e <= BufSize
  BY <1>1, AvailOf DEF DoRead
<1>3. /\ taken \in Nat /\ arrived \in Nat /\ Len(buf) \in Nat /\ Len(pkt) \in Nat /\ Len(out) \in Nat
      /\ MaxFrame \in Nat /\ Strip \in Nat /\ HeaderEnd \in Nat /\ HeaderEnd > 0 /\ BufSize \in Nat
  BY UnpackNumbers
<1>4. e \in Nat /\ Len(out) + e <= taken'
  <2>1. Len(out) + Len(buf) <= taken
    BY DEF UnpackTypes
  <2> QED BY <1>1, <1>2, <1>3, <2>1
<1>5. frames' = frames /\ arrived' = arrived /\ end' = end /\ readable' = readable
  BY DEF DoRead
<1>6. Stream' = Stream /\ Byte' = Byte
  BY <1>5 DEF Stream, Bytes, Byte, Wire
<1>7. IF expected # -1 THEN Unpack(avail, expected - (Len(pkt) + Strip), 0, expected)
      ELSE \E length \in Decode(avail) : DecodeAndCut(avail, length)
  BY <1>1 DEF DoRead
<1>8. /\ buf' \in Seq(Byte) /\ pkt' \in Seq(Byte) /\ out' \in Seq(Seq(Byte)) /\ wait0' \in BOOLEAN
      /\ Len(buf') <= BufSize /\ Len(pkt') <= MaxFrame /\ Len(out') + Len(buf') <= taken'
      /\ \/ expected' = -1 /\ pkt' = << >>
         \/ expected' \in Strip .. MaxFrame /\ buf' = << >> /\ Len(pkt') + Strip < expected'
      /\ upc' \in {"poll", "failed"}
  <2>1. CASE expected # -1
    <3>1. PICK full, want : full = expected /\ want = expected - (Len(pkt) + Strip)
      OBVIOUS
    <3>2. full \in Strip .. MaxFrame /\ Len(pkt) + Strip < full
      BY <2>1, <3>1 DEF UnpackTypes
    <3>3. /\ full \in Nat /\ want \in Nat /\ want > 0 /\ full <= MaxFrame /\ Strip <= full
          /\ full = want - 0 + Len(pkt) + Strip /\ 0 \in Nat /\ 0 <= e /\ 0 <= want
      BY <1>3, <1>4, <3>1, <3>2
    <3>4. Unpack(avail, want, 0, full)
      BY <1>7, <2>1, <3>1
    <3> QED BY <1>2, <1>4, <3>3, <3>4, UnpackTyped
  <2>2. CASE expected = -1
    <3>1. PICK length \in Decode(avail) : DecodeAndCut(avail, length)
      BY <1>7, <2>2
    <3>2. pkt = << >> /\ Len(<< >>) = 0 /\ << >> \in Seq(Byte)
      BY <1>3, <2>2 DEF UnpackTypes
    <3>3. length \in Int /\ length <= MaxFrame /\ (length # 0 => e >= HeaderEnd)
      BY <1>2, DecodeBounds DEF UnpackTypes
    <3>4. CASE length = 0 /\ buf' = avail /\ upc' = "poll" /\ UNCHANGED <<expected, pkt, wait0, out>>
      BY <1>2, <1>3, <1>4, <2>2, <3>2, <3>4 DEF UnpackTypes
    <3>5. CASE upc' = "failed" /\ UNCHANGED <<buf, expected, pkt, wait0, out>>
      <4>1. Len(out) + Len(buf) <= taken'
        BY <1>1, <1>2, <1>3, <1>4
      <4> QED BY <1>3, <2>2, <3>2, <3>5, <4>1 DEF UnpackTypes
    <3>6. CASE length > 0 /\ length >= Strip /\ Unpack(avail, length, Strip, length)
      <4>1. /\ length \in Nat /\ length > 0 /\ Strip <= length /\ Strip <= e /\ length <= MaxFrame
            /\ length = length - Strip + Len(pkt) + Strip
        BY <1>3, <1>4, <3>2, <3>3, <3>6
      <4> QED BY <1>2, <1>3, <1>4, <3>6, <4>1, UnpackTyped
    <3> QED BY <3>1, <3>4, <3>5, <3>6 DEF DecodeAndCut
  <2> QED BY <2>1, <2>2
<1>9. taken' \in 0 .. arrived' /\ arrived' \in 0 .. Len(Stream)'
  <2>1. arrived \in 0 .. Len(Stream)
    BY DEF UnpackTypes
  <2> QED BY <1>2, <1>5, <1>6, <2>1
<1>10. /\ frames' \in [1 .. NFrames -> Sizes] /\ end' \in {"none", "fin", "reset"} /\ readable' \in BOOLEAN
  BY <1>5 DEF UnpackTypes
<1> QED BY <1>6, <1>8, <1>9, <1>10 DEF UnpackTypes

(* unpack leaves the buffer less than full.                                *)
LEMMA UnpackRoom ==
  ASSUME UnpackTypes, NEW avail \in Seq(Byte), NEW e \in Nat, NEW strip \in Nat, NEW want \in Nat \ {0}, NEW full,
         Len(avail) = e, e <= BufSize, strip <= e, strip <= want, Unpack(avail, want, strip, full)
  PROVE  upc' = "poll" /\ Len(buf') < BufSize
<1>1. BufSize \in Nat /\ BufSize > 0
  BY UnpackNumbers
<1>2. PICK x : x = Min({want, Len(avail)})
  OBVIOUS
<1>3. ~(strip > x)
  BY <1>2, MinTwo
<1>4. upc' = "poll" /\ buf' = IF e >= want THEN SubSeq(avail, want + 1, e) ELSE << >>
  BY <1>2, <1>3 DEF Unpack
<1>5. CASE e >= want
  <2>1. PICK b : b = SubSeq(avail, want + 1, e)
    OBVIOUS
  <2>2. Len(b) = e - want
    <3>1. \A i \in (want + 1) .. e : i \in 1 .. Len(avail)
      OBVIOUS
    <3>2. (IF want + 1 <= e THEN e - (want + 1) + 1 ELSE 0) = e - want
      BY <1>5
    <3> QED BY <2>1, <3>1, <3>2, SubSeqProperties
  <2>3. e - want < BufSize
    BY <1>1
  <2> QED BY <1>4, <1>5, <2>1, <2>2, <2>3
<1>6. CASE ~(e >= want)
  <2>1. Len(<< >>) = 0
    OBVIOUS
  <2> QED BY <1>1, <1>4, <1>6, <2>1
<1> QED BY <1>5, <1>6

(* A step that leaves the cutting alone.                                   *)
LEMMA SameOnTrack ==
  ASSUME UNCHANGED <<frames, taken, buf, expected, pkt, out>>, upc' # "failed" => upc # "failed"
  PROVE  OnTrack => OnTrack'
<1>1. /\ Stream' = Stream /\ Byte' = Byte /\ StreamEnds' = StreamEnds
      /\ \A i : Bad(i)' = Bad(i) /\ Sane(i)' = Sane(i)
  BY DEF Stream, Bytes, Byte, StreamEnds, Wire, Bad, Refused, Sane
<1>2. AtRest => AtRest'
  BY <1>1 DEF AtRest, IsPart
<1>3. InPacket => InPacket'
  BY <1>1 DEF InPacket, IsPart, Current
<1>4. Sane(Len(out)) => Sane(Len(out))'
  BY DEF Sane, Bad, Refused
<1> QED BY <1>2, <1>3, <1>4 DEF OnTrack

(* Behind a bad frame that was fired, nothing more is claimed.             *)
LEMMA DerailedStays ==
  ASSUME UnpackTypes, PacketsExact, Derailed, frames' = frames, UnpackTypes',
         out' = out \/ \E body : out' = Append(out, body)
  PROVE  Derailed' /\ BadMet' /\ PacketsExact'
<1>1. Len(out) \in Nat /\ out \in Seq(Seq(Byte)) /\ Len(out') \in Nat /\ NFrames \in Nat
  <2>1. Len(out') \in Nat
    BY LenProperties DEF UnpackTypes
  <2> QED BY <2>1, UnpackNumbers DEF UnpackTypes
<1>2. \A i : /\ Packet(i)' = Packet(i) /\ Bad(i)' = Bad(i) /\ Refused(i)' = Refused(i)
             /\ Sane(i)' = Sane(i)
  BY DEF Packet, Bytes, Wire, Bad, Refused, Sane
<1>3. /\ Len(out') = Len(out) \/ Len(out') = Len(out) + 1
      /\ \A i \in 1 .. Len(out) : out'[i] = out[i]
  <2>1. CASE out' = out
    BY <2>1
  <2>2. ASSUME NEW body, out' = Append(out, body)
        PROVE  /\ Len(out') = Len(out) \/ Len(out') = Len(out) + 1
               /\ \A i \in 1 .. Len(out) : out'[i] = out[i]
    <3>1. Len(out') = Len(out) + 1
      BY <1>1, <2>2, LenProperties
    <3>2. \A i \in 1 .. Len(out) : out'[i] = out[i]
      BY <1>1, <2>2
    <3> QED BY <3>1, <3>2
  <2> QED BY <2>1, <2>2
<1>4. PICK j \in 1 .. NFrames : j <= Len(out) /\ Bad(j)
  BY DEF Derailed
<1>5. j <= Len(out') /\ j <= Len(out') + 1
  BY <1>1, <1>3, <1>4
<1>6. Derailed' /\ BadMet'
  BY <1>2, <1>4, <1>5 DEF Derailed, BadMet
<1>7. ASSUME NEW k \in 1 .. Len(out'), Sane(k - 1)
      PROVE  k <= NFrames /\ ~Refused(k) /\ out'[k] = Packet(k)
  <2>1. ~(j \in 1 .. (k - 1))
    BY <1>4, <1>7 DEF Sane
  <2>2. k \in 1 .. Len(out)
    BY <1>1, <1>3, <1>4, <2>1
  <2> QED BY <1>3, <1>7, <2>2 DEF PacketsExact
<1> QED BY <1>2, <1>6, <1>7 DEF PacketsExact

(* unpack, with the bytes avail from position a of the stream on in the    *)
(* buffer and the packet of the current frame begun: what is left in the   *)
(* buffer, begun or fired is again the right part of the stream, unless    *)
(* the frame is a short one and is fired.                                  *)
LEMMA UnpackKeeps ==
  ASSUME UnpackTypes, PacketsExact, Sane(Len(out)), frames' = frames,
         Len(out) < NFrames, ~Refused(Current),
         NEW avail, NEW a \in Nat, NEW n \in Nat, NEW q \in Nat, NEW strip \in Nat, NEW want \in Nat \ {0},
         IsPart(pkt, StreamEnds[Len(out)] + Strip, q), StreamEnds[Len(out)] + Strip + q = a + strip,
         IsPart(avail, a, n), taken' = a + n,
         strip <= n, strip <= want, a + want = StreamEnds[Len(out)] + frames[Current],
         n >= want \/ ~Bad(Current),
         Unpack(avail, want, strip, frames[Current])
  PROVE  PacketsExact' /\ (Derailed' \/ OnTrack')
<1>1. frames \in [1 .. NFrames -> Sizes] /\ out \in Seq(Seq(Byte))
  BY DEF UnpackTypes
<1>2. Stream' = Stream /\ Byte' = Byte /\ StreamEnds' = StreamEnds
  BY DEF Stream, Bytes, Byte, StreamEnds, Wire
<1>3. PICK k, m, p, b, l : k = Current /\ m = frames[k] /\ p = StreamEnds[Len(out)] /\ b = StreamEnds[k] /\ l = Len(out)
  OBVIOUS
<1>4. /\ l \in Nat /\ k = l + 1 /\ k - 1 = l /\ k \in 1 .. NFrames /\ l \in 0 .. NFrames /\ k \in 0 .. NFrames
      /\ k <= NFrames /\ NFrames \in Nat
  BY <1>1, <1>3, UnpackAssumption, LenProperties, SMTT(30) DEF Current
<1>5. m \in Int /\ Strip \in Nat /\ MaxFrame \in Nat /\ p \in Nat /\ b \in Nat
  BY <1>1, <1>3, <1>4, UnpackAssumption, StreamEndsOf, WireOf
<1>6. m <= MaxFrame /\ Strip <= m /\ m > 0 /\ m \in Nat
  <2>1. ~(m > MaxFrame) /\ ~(m < Strip) /\ ~(m =< 0)
    BY <1>3 DEF Refused
  <2> QED BY <1>5, <2>1
<1>7. ~Bad(k) => b = p + m
  <2>1. b = p + Wire(k)
    BY <1>1, <1>3, <1>4, StreamEndsOf
  <2>2. ~Bad(k) => m >= HeaderEnd
    <3>1. ~Bad(k) => ~(m < HeaderEnd)
      BY <1>3 DEF Bad
    <3> QED BY <1>5, <3>1, UnpackAssumption
  <2> QED BY <1>1, <1>3, <1>4, <2>1, <2>2, WireOf
<1>8. p + Strip + q = a + strip /\ a + want = p + m
  BY <1>3
<1>9. Len(avail) = n /\ avail \in Seq(Byte)
  BY DEF IsPart
<1>10. PICK x : x = Min({want, Len(avail)})
  OBVIOUS
<1>11. x = (IF want <= n THEN want ELSE n) /\ ~(strip > x) /\ x \in Nat /\ strip <= x /\ x <= n
  BY <1>9, <1>10, MinTwo
<1>12. PICK body : body = pkt \o SubSeq(avail, strip + 1, x)
  OBVIOUS
<1>13. /\ upc' = "poll"
       /\ IF n >= want
            THEN /\ buf' = SubSeq(avail, want + 1, n)
                 /\ out' = Append(out, body) /\ pkt' = << >> /\ expected' = -1
            ELSE /\ buf' = << >> /\ pkt' = body /\ expected' = m
                 /\ out' = out
  BY <1>3, <1>9, <1>10, <1>11, <1>12 DEF Unpack
<1>14. IsPart(body, p + Strip, q + (x - strip))
  <2>1. IsPart(SubSeq(avail, strip + 1, x), a + strip, x - strip)
    BY <1>11, PartSub
  <2>2. (p + Strip) + q = a + strip /\ p + Strip \in Nat /\ x - strip \in Nat
    BY <1>5, <1>8, <1>11
  <2>3. IsPart(pkt, p + Strip, q)
    BY <1>3
  <2> QED BY <1>12, <2>1, <2>2, <2>3, PartConcat
<1>15. \A i : /\ Packet(i)' = Packet(i) /\ Bad(i)' = Bad(i) /\ Refused(i)' = Refused(i) /\ Sane(i)' = Sane(i)
  BY DEF Packet, Bytes, Wire, Bad, Refused, Sane
<1>16. \A i \in 1 .. l : ~Bad(i)
  BY <1>3 DEF Sane
<1>17. CASE n >= want
  <2>0. want \in Nat /\ want > 0 /\ want <= n /\ n \in Nat /\ a \in Nat
    BY <1>17
  <2>1. x = want
    BY <1>11, <1>17
  <2>2. q + (x - strip) = m - Strip
    BY <1>5, <1>6, <1>8, <2>1
  <2>3. body = Packet(k)
    <3>1. IsPart(body, StreamEnds[k - 1] + Strip, frames[k] - Strip)
      BY <1>3, <1>4, <1>14, <2>2
    <3> QED BY <1>1, <1>3, <1>4, <1>6, <3>1, PacketIs
  <2>4. body \in Seq(Byte)
    BY <1>14 DEF IsPart
  <2>5. out' = Append(out, body) /\ pkt' = << >> /\ expected' = -1 /\ upc' = "poll"
    BY <1>13, <1>17
  <2>6. /\ Len(out') = k /\ out'[k] = body
        /\ \A i \in 1 .. l : out'[i] = out[i]
    BY <1>1, <1>3, <1>4, <2>4, <2>5, AppendProperties
  <2>9. PacketsExact'
    <3> SUFFICES ASSUME NEW i \in 1 .. Len(out'), Sane(i - 1)
                 PROVE  i <= NFrames /\ ~Refused(i) /\ out'[i] = Packet(i)
      BY <1>15 DEF PacketsExact
    <3>1. i = k \/ i \in 1 .. l
      BY <1>4, <2>6
    <3>2. CASE i = k
      BY <1>3, <1>4, <2>3, <2>6, <3>2
    <3>3. CASE i \in 1 .. l
      BY <1>1, <1>3, <2>6, <3>3 DEF PacketsExact
    <3> QED BY <3>1, <3>2, <3>3
  <2>10. CASE Bad(k)
    <3>1. k <= Len(out') /\ Bad(k)'
      BY <1>4, <1>15, <2>6, <2>10
    <3>2. Derailed'
      BY <1>4, <3>1 DEF Derailed
    <3> QED BY <2>9, <3>2
  <2>11. CASE ~Bad(k)
    <3>1. b = a + want /\ b <= a + n /\ (a + n) - b = n - want
      BY <1>7, <1>8, <2>0, <2>11
    <3>2. IsPart(SubSeq(avail, want + 1, n), a + want, n - want)
      <4>1. want \in Nat /\ a \in Nat /\ n \in Nat /\ want <= n /\ n <= n /\ IsPart(avail, a, n)
        BY <2>0
      <4> HIDE <2>0
      <4> QED BY <4>1, PartSub
    <3>3. IsPart(buf', b, (a + n) - b)
      BY <1>13, <1>17, <3>1, <3>2
    <3>4. Sane(Len(out'))
      <4>1. \A i \in 1 .. k : i = k \/ i \in 1 .. l
        BY <1>4
      <4>2. \A i \in 1 .. k : ~Bad(i)
        BY <1>16, <2>11, <4>1
      <4> QED BY <1>4, <2>6, <4>2 DEF Sane
    <3>5. AtRest'
      <4>1. StreamEnds'[Len(out')] = b /\ taken' = a + n
        BY <1>2, <1>3, <2>6
      <4>2. IsPart(buf, b, (a + n) - b)'
        BY <1>2, <3>3 DEF IsPart
      <4> QED BY <2>5, <3>1, <4>1, <4>2 DEF AtRest, IsPart
    <3>6. Sane(Len(out))'
      BY <3>4 DEF Sane, Bad, Refused
    <3> QED BY <2>5, <2>9, <3>5, <3>6 DEF OnTrack
  <2> QED BY <2>10, <2>11
<1>18. CASE ~(n >= want)
  <2>1. x = n /\ n < want /\ ~Bad(k)
    BY <1>3, <1>11, <1>18
  <2>2. q + (x - strip) = (a + n) - (p + Strip) /\ b = p + m
    BY <1>5, <1>6, <1>7, <1>8, <2>1
  <2>3. p + Strip <= a + n /\ a + n < b
    BY <1>5, <1>6, <1>8, <1>11, <2>1, <2>2
  <2>4. buf' = << >> /\ pkt' = body /\ expected' = m /\ out' = out /\ upc' = "poll"
    BY <1>13, <1>18
  <2>5. IsPart(body, p + Strip, (a + n) - (p + Strip))
    BY <1>14, <2>2
  <2>8. InPacket'
    <3>1. /\ Len(out)' < NFrames /\ Current' = k /\ expected' = frames'[k] /\ buf' = << >>
          /\ StreamEnds'[Len(out')] = p /\ StreamEnds'[k] = b /\ taken' = a + n
      BY <1>2, <1>3, <2>4 DEF Current
    <3>2. IsPart(pkt, p + Strip, (a + n) - (p + Strip))'
      BY <1>2, <2>4, <2>5 DEF IsPart
    <3>3. ~Bad(Current)'
      BY <1>15, <2>1, <3>1 DEF Bad, Refused
    <3> QED BY <2>3, <3>1, <3>2, <3>3 DEF InPacket, IsPart
  <2>9. PacketsExact'
    BY <1>1, <1>15, <2>4 DEF PacketsExact
  <2>10. expected' # -1
    BY <1>5, <1>6, <2>4
  <2>11. Sane(Len(out))'
    BY <2>4 DEF Sane, Bad, Refused
  <2> QED BY <2>8, <2>9, <2>10, <2>11 DEF OnTrack
<1> QED BY <1>17, <1>18

LEMMA UnpackStarts ==
  ASSUME UnpackInit
  PROVE  UnpackInv
<1> USE DEF UnpackInit
<1>1. /\ frames \in [1 .. NFrames -> Sizes] /\ NFrames \in Nat /\ 0 <= BufSize /\ 0 <= MaxFrame
      /\ 0 \in 0 .. 0 /\ MaxFrame \in Nat
  BY UnpackAssumption
<1>2. StreamEnds[0] = 0 /\ Len(Stream) \in Nat
  BY <1>1, StreamEndsOf, StreamOf, LenProperties
<1>3. << >> \in Seq(Byte) /\ << >> \in Seq(Seq(Byte)) /\ Len(<< >>) = 0 /\ 1 .. 0 = {}
  OBVIOUS
<1>4. PacketsExact /\ FailsOnlyOnBad /\ EndsRight /\ FullOnlyOnBad
  <2>1. Len(buf) # BufSize
    BY <1>3, UnpackAssumption
  <2> QED BY <1>3, <2>1 DEF PacketsExact, FailsOnlyOnBad, EndsRight, FullOnlyOnBad
<1>5. AtRest
  BY <1>2, <1>3 DEF AtRest, IsPart
<1>6. Sane(Len(out))
  BY <1>1, <1>3 DEF Sane
<1>7. UnpackTypes
  <2>1. arrived \in 0 .. Len(Stream) /\ taken \in 0 .. arrived
    BY <1>2
  <2>2. Len(buf) <= BufSize /\ Len(pkt) <= MaxFrame /\ Len(out) + Len(buf) <= taken
    BY <1>1, <1>3
  <2>3. buf \in Seq(Byte) /\ pkt \in Seq(Byte) /\ out \in Seq(Seq(Byte)) /\ readable \in BOOLEAN /\ wait0 \in BOOLEAN
    BY <1>3
  <2> QED BY <1>1, <2>1, <2>2, <2>3 DEF UnpackTypes
<1> QED BY <1>4, <1>5, <1>6, <1>7 DEF UnpackInv, OnTrack

LEMMA DoReadKeeps ==
  ASSUME UnpackInv, Strip <= HeaderEnd, NEW n, DoRead(n)
  PROVE  UnpackInv'
<1>1. UnpackTypes /\ PacketsExact /\ FailsOnlyOnBad /\ (Derailed \/ OnTrack)
  BY DEF UnpackInv
<1>2. UnpackTypes' /\ upc' \in {"poll", "failed"}
  BY <1>1, DoReadTyped
<1>3. EndsRight'
  BY <1>2 DEF EndsRight
<1>4. frames' = frames /\ upc = "read"
  BY DEF DoRead
<1>5. PICK avail, r, e : r = SubSeq(Stream, taken + 1, taken + n) /\ avail = buf \o r /\ e = Len(buf) + n
  OBVIOUS
<1>6. /\ n \in Nat /\ taken' = taken + n /\ taken + n \in Nat /\ taken + n <= arrived
      /\ avail \in Seq(Byte) /\ Len(avail) = e /\ e <= BufSize /\ IsPart(r, taken, n)
  BY <1>1, <1>5, AvailOf DEF DoRead
<1>7. IF expected # -1 THEN Unpack(avail, expected - (Len(pkt) + Strip), 0, expected)
      ELSE \E length \in Decode(avail) : DecodeAndCut(avail, length)
  BY <1>5 DEF DoRead
<1>8. out' = out \/ \E body : out' = Append(out, body)
  BY <1>7, Zenon DEF Unpack, DecodeAndCut
<1>9. CASE Derailed
  <2>1. Derailed' /\ BadMet' /\ PacketsExact'
    BY <1>1, <1>2, <1>4, <1>8, <1>9, DerailedStays
  <2>2. FailsOnlyOnBad' /\ FullOnlyOnBad'
    BY <2>1 DEF FailsOnlyOnBad, FullOnlyOnBad
  <2> QED BY <1>2, <1>3, <2>1, <2>2 DEF UnpackInv
<1>10. CASE OnTrack
  <2>1. Sane(Len(out)) /\ IF expected = -1 THEN AtRest ELSE InPacket
    BY <1>4, <1>10 DEF OnTrack
  <2>2. PICK l, p : l = Len(out) /\ p = StreamEnds[l]
    OBVIOUS
  <2>3. /\ frames \in [1 .. NFrames -> Sizes] /\ l \in Nat /\ NFrames \in Nat /\ l <= NFrames /\ l \in 0 .. NFrames
        /\ Strip \in Nat /\ MaxFrame \in Nat /\ HeaderEnd \in Nat /\ HeaderEnd > 0 /\ taken \in Nat /\ arrived \in Nat
        /\ arrived <= Len(Stream) /\ Len(Stream) \in Nat
    BY <1>1, <2>1, <2>2, UnpackNumbers DEF UnpackTypes, Sane
  <2>4. p \in Nat
    BY <2>2, <2>3, StreamEndsOf
  <2>5. Stream' = Stream /\ Byte' = Byte /\ StreamEnds' = StreamEnds
    BY <1>4 DEF Stream, Bytes, Byte, StreamEnds, Wire
  <2>6. \A i : /\ Packet(i)' = Packet(i) /\ Bad(i)' = Bad(i) /\ Refused(i)' = Refused(i) /\ Sane(i)' = Sane(i)
    BY <1>4 DEF Packet, Bytes, Wire, Bad, Refused, Sane
  <2>7. CASE expected = -1
    <3>1. pkt = << >> /\ p <= taken /\ IsPart(buf, p, taken - p)
      BY <2>1, <2>2, <2>7 DEF AtRest
    <3>2. PICK d : d = taken - p
      OBVIOUS
    <3>3. d \in Nat /\ p + d = taken /\ Len(buf) = d
      BY <2>3, <2>4, <3>1, <3>2 DEF IsPart
    <3>4. e \in Nat /\ e = d + n /\ p + e = taken + n
      BY <1>5, <1>6, <2>3, <2>4, <3>3
    <3>5. IsPart(avail, p, e)
      <4>1. IsPart(buf, p, d) /\ IsPart(r, p + d, n)
        BY <1>6, <3>1, <3>2, <3>3
      <4> QED BY <1>5, <1>6, <2>4, <3>3, <3>4, <4>1, PartConcat
    <3>6. /\ e < HeaderEnd => Decode(avail) = {0}
          /\ e >= HeaderEnd => /\ l < NFrames
                               /\ Decode(avail) = IF frames[l + 1] > MaxFrame THEN {-1} ELSE {frames[l + 1]}
      <4>1. p + e <= Len(Stream) /\ IsPart(avail, StreamEnds[l], e)
        BY <1>6, <2>2, <2>3, <3>4, <3>5
      <4> QED BY <2>2, <2>3, <3>4, <4>1, DecodeOf
    <3>7. PICK length \in Decode(avail) : DecodeAndCut(avail, length)
      BY <1>7, <2>7
    <3>8. ASSUME length = 0, buf' = avail, upc' = "poll", UNCHANGED <<expected, pkt, wait0, out>>
          PROVE  UnpackInv'
      <4>1. AtRest'
        <5>1. StreamEnds'[Len(out')] = p /\ taken' = p + e /\ p <= taken' /\ taken' - p = e
          BY <1>6, <2>2, <2>4, <2>5, <3>4, <3>8
        <5>2. IsPart(buf, p, e)'
          BY <2>5, <3>5, <3>8 DEF IsPart
        <5> QED BY <3>1, <3>8, <5>1, <5>2 DEF AtRest, IsPart
      <4>2. PacketsExact' /\ FailsOnlyOnBad'
        BY <1>1, <2>6, <3>8 DEF PacketsExact, FailsOnlyOnBad
      <4>3. Sane(Len(out))'
        BY <1>4, <2>1, <3>8 DEF Sane, Bad, Refused
      <4>4. FullOnlyOnBad'
        <5> SUFFICES ASSUME e = BufSize PROVE BadMet'
          BY <1>6, <3>8 DEF FullOnlyOnBad
        <5>1. e >= HeaderEnd
          BY UnpackAssumption
        <5>2. l + 1 \in 1 .. NFrames /\ frames[l + 1] = 0
          BY <2>3, <3>6, <3>8, <5>1
        <5>3. Bad(l + 1)'
          BY <2>6, <5>2 DEF Bad, Refused
        <5> QED BY <2>2, <2>3, <3>8, <5>2, <5>3 DEF BadMet
      <4> QED BY <1>2, <1>3, <2>7, <3>8, <4>1, <4>2, <4>3, <4>4 DEF UnpackInv, OnTrack
    <3>9. CASE length = 0
      BY <3>7, <3>8, <3>9 DEF DecodeAndCut
    <3>10. CASE length # 0
      <4>1. e >= HeaderEnd
        BY <2>3, <3>4, <3>6, <3>10
      <4>2. PICK k, m : k = Current /\ m = frames[k]
        OBVIOUS
      <4>3. k = l + 1 /\ k \in 1 .. NFrames /\ l < NFrames
        BY <2>2, <2>3, <3>6, <4>1, <4>2 DEF Current
      <4>4. m \in Int
        BY <2>3, <4>2, <4>3, UnpackAssumption
      <4>5. length = (IF m > MaxFrame THEN -1 ELSE m)
        BY <3>6, <4>1, <4>2, <4>3
      <4>6. CASE length < 0 \/ length \in 1 .. (Strip - 1)
        <5>1. upc' = "failed" /\ UNCHANGED <<buf, expected, pkt, wait0, out>>
          <6>1. ~(length > 0 /\ length >= Strip)
            BY <2>3, <4>4, <4>5, <4>6
          <6> QED BY <3>7, <3>10, <6>1 DEF DecodeAndCut
        <5>2. Refused(k)
          BY <2>3, <4>2, <4>4, <4>5, <4>6 DEF Refused
        <5>3. BadMet'
          <6>1. Bad(k)' /\ k <= Len(out') + 1
            BY <2>2, <2>3, <2>6, <4>3, <5>1, <5>2 DEF Bad
          <6> QED BY <4>3, <6>1 DEF BadMet
        <5>4. PacketsExact'
          BY <1>1, <2>6, <5>1 DEF PacketsExact
        <5>5. Sane(Len(out))'
          BY <1>4, <2>1, <5>1 DEF Sane, Bad, Refused
        <5> QED BY <1>2, <1>3, <5>1, <5>3, <5>4, <5>5 DEF UnpackInv, OnTrack, FailsOnlyOnBad, FullOnlyOnBad
      <4>7. CASE ~(length < 0 \/ length \in 1 .. (Strip - 1))
        <5>1. length = m /\ m > 0 /\ m >= Strip /\ m <= MaxFrame /\ m \in Nat \ {0}
          BY <2>3, <3>10, <4>4, <4>5, <4>7
        <5>2. Unpack(avail, m, Strip, frames[Current])
          BY <3>7, <3>10, <4>2, <4>7, <5>1 DEF DecodeAndCut
        <5>3. ~Refused(Current)
          BY <2>3, <4>2, <5>1 DEF Refused
        <5>4. e >= m \/ ~Bad(Current)
          BY <2>3, <3>4, <4>1, <4>2, <5>1, <5>3 DEF Bad
        <5>5. IsPart(pkt, StreamEnds[Len(out)] + Strip, 0)
          <6>1. << >> \in Seq(Byte) /\ Len(<< >>) = 0 /\ 1 .. 0 = {}
            OBVIOUS
          <6> QED BY <3>1, <6>1 DEF IsPart
        <5>6. /\ StreamEnds[Len(out)] + Strip + 0 = p + Strip /\ p + m = StreamEnds[Len(out)] + frames[Current]
              /\ Strip <= e /\ Strip <= m /\ 0 \in Nat /\ taken' = p + e /\ Len(out) < NFrames
          <6>1. StreamEnds[Len(out)] = p /\ frames[Current] = m /\ taken' = p + e /\ Len(out) < NFrames
            BY <1>6, <2>2, <3>4, <4>2, <4>3
          <6>2. Strip <= e /\ Strip <= m /\ p + Strip + 0 = p + Strip
            BY <2>3, <2>4, <3>4, <4>1, <5>1
          <6> QED BY <6>1, <6>2
        <5>7. PacketsExact' /\ (Derailed' \/ OnTrack')
          BY <1>1, <1>4, <2>1, <2>3, <2>4, <3>4, <3>5, <5>1, <5>2, <5>3, <5>4, <5>5, <5>6, UnpackKeeps
        <5>8. upc' = "poll" /\ Len(buf') < BufSize
          BY <1>1, <1>6, <2>3, <3>4, <5>1, <5>2, <5>6, UnpackRoom
        <5> QED BY <1>2, <1>3, <2>3, <5>7, <5>8, UnpackAssumption DEF UnpackInv, FailsOnlyOnBad, FullOnlyOnBad
      <4> QED BY <4>6, <4>7
    <3> QED BY <3>9, <3>10
  <2>8. CASE expected # -1
    <3>1. InPacket
      BY <2>1, <2>8
    <3>2. PICK k, m, b : k = Current /\ m = frames[k] /\ b = StreamEnds[k]
      OBVIOUS
    <3>3. k = l + 1 /\ k \in 1 .. NFrames /\ k - 1 = l /\ l < NFrames
      BY <2>2, <2>3, <3>1, <3>2 DEF Current, InPacket
    <3>4. /\ ~Bad(Current) /\ expected = m /\ buf = << >> /\ p + Strip <= taken /\ taken < b
          /\ IsPart(pkt, p + Strip, taken - (p + Strip))
      BY <2>2, <3>1, <3>2 DEF InPacket
    <3>5. m \in Int /\ b \in Nat /\ b = p + m
      <4>1. m \in Int /\ Wire(k) \in Nat /\ (m >= HeaderEnd => Wire(k) = m)
        BY <2>3, <3>2, <3>3, WireOf
      <4>2. m >= HeaderEnd
        BY <2>3, <3>2, <3>4, <4>1 DEF Bad
      <4>3. b = p + Wire(k)
        BY <2>2, <2>3, <3>2, <3>3, StreamEndsOf
      <4> QED BY <2>4, <4>1, <4>2, <4>3
    <3>6. avail = r
      BY <1>5, <1>6, <3>4, ConcatEmptySeq DEF IsPart
    <3>7. PICK q, want : q = taken - (p + Strip) /\ want = b - taken
      OBVIOUS
    <3>8. /\ q \in Nat /\ want \in Nat \ {0} /\ p + Strip + q = taken + 0 /\ taken + want = p + m
          /\ 0 <= want /\ 0 <= n /\ 0 \in Nat
      BY <1>6, <2>3, <2>4, <3>4, <3>5, <3>7
    <3>9. Len(pkt) = q
      BY <3>4, <3>7 DEF IsPart
    <3>10. expected - (Len(pkt) + Strip) = want
      BY <2>3, <2>4, <3>4, <3>5, <3>7, <3>9
    <3>11. Unpack(avail, want, 0, frames[Current])
      BY <1>7, <2>8, <3>2, <3>4, <3>10
    <3>12. /\ Len(out) < NFrames /\ IsPart(pkt, StreamEnds[Len(out)] + Strip, q) /\ IsPart(avail, taken, n)
           /\ StreamEnds[Len(out)] + Strip + q = taken + 0 /\ taken + want = StreamEnds[Len(out)] + frames[Current]
      BY <1>6, <2>2, <3>2, <3>3, <3>4, <3>6, <3>7, <3>8
    <3>13. ~Refused(Current)
      BY <3>4 DEF Bad
    <3>14. PacketsExact' /\ (Derailed' \/ OnTrack')
      BY <1>1, <1>4, <1>6, <2>1, <2>3, <3>4, <3>8, <3>11, <3>12, <3>13, UnpackKeeps
    <3>15. upc' = "poll" /\ Len(buf') < BufSize
      <4>1. Len(avail) = n /\ n <= BufSize
        BY <1>6, <3>6 DEF IsPart
      <4> QED BY <1>1, <1>6, <3>8, <3>11, <4>1, UnpackRoom
    <3> QED BY <1>2, <1>3, <2>3, <3>14, <3>15, UnpackAssumption DEF UnpackInv, FailsOnlyOnBad, FullOnlyOnBad
  <2> QED BY <2>7, <2>8
<1> QED BY <1>1, <1>9, <1>10

(* Where recv fails, or returns 0 behind the last byte of the stream or    *)
(* into a full buffer, the transport is closed and the rest is kept.       *)
LEMMA ReadFailsKeeps ==
  ASSUME UnpackInv, ReadFails
  PROVE  UnpackInv'
<1>1. UnpackTypes /\ PacketsExact /\ FullOnlyOnBad /\ (Derailed \/ OnTrack)
  BY DEF UnpackInv
<1>2. /\ UNCHANGED <<frames, arrived, end, taken, readable, buf, expected, pkt, wait0, out>>
      /\ upc = "read" /\ upc' = "ended"
      /\ Len(buf) = BufSize \/ end = "reset" \/ (end = "fin" /\ arrived = taken)
  BY DEF ReadFails
<1>3. /\ Stream' = Stream /\ Byte' = Byte /\ StreamEnds' = StreamEnds
      /\ \A i : /\ Packet(i)' = Packet(i) /\ Bad(i)' = Bad(i) /\ Refused(i)' = Refused(i)
                /\ Sane(i)' = Sane(i)
  BY <1>2 DEF Stream, Bytes, Byte, StreamEnds, Wire, Packet, Bad, Refused, Sane
<1>4. BadMet' <=> BadMet
  BY <1>2, <1>3 DEF BadMet
<1>5. PacketsExact' /\ FailsOnlyOnBad' /\ FullOnlyOnBad'
  BY <1>1, <1>2, <1>3, <1>4 DEF PacketsExact, FailsOnlyOnBad, FullOnlyOnBad
<1>6. EndsRight'
  BY <1>1, <1>2, <1>4 DEF EndsRight, FullOnlyOnBad
<1>7. UnpackTypes'
  BY <1>1, <1>2, <1>3 DEF UnpackTypes
<1>8. Derailed => Derailed'
  BY <1>2, <1>3 DEF Derailed
<1>9. OnTrack => OnTrack'
  BY <1>2, SameOnTrack
<1> QED BY <1>1, <1>5, <1>6, <1>7, <1>8, <1>9 DEF UnpackInv

LEMMA UnpackStep ==
  ASSUME UnpackInv, Strip <= HeaderEnd, [UnpackNext]_uvars
  PROVE  UnpackInv'
<1>1. /\ UnpackTypes /\ PacketsExact /\ FailsOnlyOnBad /\ EndsRight /\ FullOnlyOnBad
      /\ Derailed \/ OnTrack
  BY DEF UnpackInv
<1> DEFINE Same == UNCHANGED <<frames, taken, buf, expected, pkt, out>>
<1>2. ASSUME Same,
             /\ arrived' \in 0 .. Len(Stream) /\ taken \in 0 .. arrived'
             /\ end' \in {"none", "fin", "reset"} /\ readable' \in BOOLEAN /\ wait0' \in BOOLEAN
             /\ upc' \in {"poll", "read", "failed", "ended"},
             upc' = upc \/ (upc' = "read" /\ upc # "failed"),
             upc' = "ended" => end = "none" \/ UNCHANGED <<end, arrived>>
      PROVE  UnpackInv'
  <2>1. /\ Stream' = Stream /\ Byte' = Byte
        /\ \A i : /\ Packet(i)' = Packet(i) /\ Bad(i)' = Bad(i) /\ Refused(i)' = Refused(i)
                  /\ Sane(i)' = Sane(i)
    BY <1>2 DEF Stream, Bytes, Byte, Wire, Packet, Bad, Refused, Sane
  <2>2. BadMet' <=> BadMet
    BY <1>2, <2>1 DEF BadMet
  <2>3. PacketsExact' /\ FailsOnlyOnBad' /\ FullOnlyOnBad'
    BY <1>1, <1>2, <2>1, <2>2 DEF PacketsExact, FailsOnlyOnBad, FullOnlyOnBad
  <2>4. EndsRight'
    BY <1>1, <1>2, <2>2 DEF EndsRight
  <2>5. UnpackTypes'
    BY <1>1, <1>2, <2>1 DEF UnpackTypes
  <2>6. Derailed => Derailed'
    BY <1>2, <2>1 DEF Derailed
  <2>7. OnTrack => OnTrack'
    BY <1>2, SameOnTrack
  <2> QED BY <1>1, <2>3, <2>4, <2>5, <2>6, <2>7 DEF UnpackInv
<1>3. /\ arrived \in 0 .. Len(Stream) /\ taken \in 0 .. arrived /\ end \in {"none", "fin", "reset"}
      /\ readable \in BOOLEAN /\ wait0 \in BOOLEAN /\ upc \in {"poll", "read", "failed", "ended"}
      /\ Len(Stream) \in Nat
  BY <1>1, UnpackNumbers DEF UnpackTypes
<1>4. CASE Arrive
  <2>1. arrived' \in 0 .. Len(Stream) /\ taken \in 0 .. arrived'
    BY <1>3, <1>4 DEF Arrive
  <2> QED BY <1>2, <1>3, <1>4, <2>1 DEF Arrive
<1>5. CASE PeerEnds
  BY <1>2, <1>3, <1>5 DEF PeerEnds
<1>6. CASE UnpackPoll
  BY <1>2, <1>3, <1>6 DEF UnpackPoll
<1>7. CASE OtherTurn
  BY <1>2, <1>3, <1>7 DEF OtherTurn
<1>8. CASE \E n \in 0 .. BufSize : DoRead(n)
  BY <1>8, DoReadKeeps
<1>9. CASE ReadFails
  BY <1>9, ReadFailsKeeps
<1>10. CASE UNCHANGED uvars
  BY <1>2, <1>3, <1>10 DEF uvars
<1> QED BY <1>4, <1>5, <1>6, <1>7, <1>8, <1>9, <1>10 DEF UnpackNext, UnpackLoop

LEMMA UnpackInvImplies ==
  ASSUME UnpackInv
  PROVE  UnpackSafe
<1>1. UnpackTypes /\ PacketsExact /\ FailsOnlyOnBad /\ EndsRight /\ (Derailed \/ OnTrack)
  BY DEF UnpackInv
<1>2. (\A i \in DOMAIN buf : buf[i] \in Byte) /\ \A i \in DOMAIN pkt : pkt[i] \in Byte
  <2>1. buf \in Seq(Byte) /\ pkt \in Seq(Byte)
    BY <1>1 DEF UnpackTypes
  <2>2. DOMAIN buf = 1 .. Len(buf) /\ DOMAIN pkt = 1 .. Len(pkt)
    BY <2>1, LenProperties
  <2>3. (\A i \in 1 .. Len(buf) : buf[i] \in Byte) /\ \A i \in 1 .. Len(pkt) : pkt[i] \in Byte
    BY <2>1, ElementOfSeq
  <2> QED BY <2>2, <2>3
<1>3. UnpackTypeOK /\ NeverAborted
  BY <1>1, <1>2 DEF UnpackTypes, UnpackTypeOK, NeverAborted
<1>4. NothingLost
  <2> SUFFICES ASSUME Sane(Len(out)), upc # "failed"
               PROVE  taken = StreamEnds[Len(out)] + IF expected = -1 THEN Len(buf) ELSE Strip + Len(pkt)
    BY DEF NothingLost
  <2>1. /\ Len(out) \in Nat /\ Len(out) <= NFrames /\ NFrames \in Nat /\ taken \in Nat /\ Strip \in Nat
        /\ frames \in [1 .. NFrames -> Sizes]
    BY <1>1, UnpackNumbers DEF Sane, UnpackTypes
  <2>2. PICK e : e = StreamEnds[Len(out)]
    OBVIOUS
  <2>3. e \in Nat
    BY <2>1, <2>2, StreamEndsOf
  <2>4. ~Derailed
    BY <2>1 DEF Derailed, Sane
  <2>5. IF expected = -1 THEN AtRest ELSE InPacket
    BY <1>1, <2>4 DEF OnTrack
  <2>6. CASE expected = -1
    <3>1. Len(buf) = taken - e
      BY <2>2, <2>5, <2>6 DEF AtRest, IsPart
    <3> QED BY <2>1, <2>2, <2>3, <2>6, <3>1
  <2>7. CASE expected # -1
    <3>1. Len(pkt) = taken - (e + Strip)
      BY <2>2, <2>5, <2>7 DEF InPacket, IsPart
    <3> QED BY <2>1, <2>2, <2>3, <2>7, <3>1
  <2> QED BY <2>6, <2>7
<1> QED BY <1>1, <1>3, <1>4 DEF UnpackSafe

(* Whatever lengths the peer announces, however recv splits and coalesces  *)
(* its bytes, and wherever it ends or resets the connection: the packets   *)
(* do_read and unpack fire are the frames it sent, byte for byte and in    *)
(* order, up to the first one whose announced length is not a frame's; no  *)
(* transport is closed as invalid or as ended without a bad frame, a fin   *)
(* or a reset; every byte read is in a packet fired or still held, which   *)
(* is what a close loses; and no insert has its begin behind its end.  The *)
(* last needs what the option leaves to the caller: no more is stripped    *)
(* than the length field's end.                                            *)
THEOREM PacketsCut ==
  ASSUME Strip <= HeaderEnd
  PROVE  UnpackSpec => []UnpackSafe
<1>1. UnpackInit => UnpackInv
  BY UnpackStarts
<1>2. UnpackInv /\ [UnpackNext]_uvars => UnpackInv'
  BY UnpackStep
<1>3. UnpackInv => UnpackSafe
  BY UnpackInvImplies
<1> QED BY <1>1, <1>2, <1>3, PTL DEF UnpackSpec
===========================================================================
