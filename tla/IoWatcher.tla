----------------------------- MODULE IoWatcher -----------------------------
(***************************************************************************)
(* The io watcher of a service: which descriptors the kernel watches       *)
(* (mod_event), what the last poll reported (revents_, nrevents_), what    *)
(* is_ready makes of it, and the interrupter by which other threads end a  *)
(* poll.  Four of the backends are modelled: poll and select, which hand   *)
(* their table to the kernel at every poll, and epoll and kqueue, which    *)
(* keep a second table in the kernel.                                      *)
(***************************************************************************)
EXTENDS Integers, FiniteSets, SequencesExt

CONSTANTS
  Fds,         \* descriptor numbers that sockets may get
  Backends,    \* the backends to check
  Chunk,       \* what the interrupter's reset reads at once (1024 bytes)
  MaxWakeups,  \* bound: wakeups between two reports of the interrupter
  MaxRoom      \* bound: max_events_, which kqueue's counting lets grow

Events == {"read", "write"}
Intr == 0      \* the interrupter's read descriptor

ASSUME IoWatcherAssumption ==
  /\ Fds \subseteq Nat \ {0} /\ IsFiniteSet(Fds)
  /\ Backends \subseteq {"poll", "select", "epoll", "kqueue"}
  /\ Chunk \in Nat \ {0}
  /\ MaxWakeups \in Nat /\ MaxRoom \in Nat

VARIABLES
  backend,  \* the backend this service was built with
  w,        \* the watcher: events_ (asked), kernel (watched), max_events_
  sock,     \* what each descriptor is used for
  revents,  \* revents_: entries [fd, evs]
  nrev,     \* nrevents_; the length of revents_ where there is no such field
  bytes,    \* what is in the interrupter's pipe, socket or eventfd
  armed,    \* epoll: the one-shot registration of the interrupter is live
  watched,  \* the interrupter's current descriptor is registered
  lpc,      \* where the loop is
  reported, \* observer: the pairs <<fd, event>> of the last poll
  failed,   \* observer: the last poll failed
  calls,    \* observer: wakeups since the interrupter was last reported
  unheard   \* observer: a wakeup came and the loop has not gone on since

wvars == <<backend, w, sock, revents, nrev, bytes, armed, watched, lpc,
           reported, failed, calls, unheard>>

ZeroEntry == [fd |-> -1, evs |-> {}]

(* What the service asks for: read while a connection is up, both while it *)
(* connects or its send buffer is full.                                    *)
Wanted(s) == CASE s = "closed" -> {}
               [] s = "up" -> {"read"}
               [] OTHER -> Events

(***************************************************************************)
(* Registration.                                                           *)
(***************************************************************************)
Registered(tab) == {fd \in DOMAIN tab : tab[fd] # {}}

(* poll and select hand one table to the kernel: an array of entries, from *)
(* which an entry without events is erased, and a bit map for each event.  *)
PollfdMod(fd, add, rem) ==
  LET t == [w.events EXCEPT ![fd] = (@ \cup add) \ rem]
  IN  [w EXCEPT !.events = t, !.kernel = t]

SelectMod(fd, add, rem) ==
  LET bits == [e \in Events |-> ({f \in Fds : e \in w.events[f]}
                                  \cup (IF e \in add THEN {fd} ELSE {}))
                                 \ (IF e \in rem THEN {fd} ELSE {})]
      t == [f \in Fds |-> {e \in Events : f \in bits[e]}]
  IN  [w EXCEPT !.events = t, !.kernel = t]

(* epoll: the kernel refuses to modify what it does not know.              *)
EpollMod(fd, add, rem) ==
  LET want == (w.events[fd] \cup add) \ rem
      ok == want = {} \/ (w.events[fd] # {} <=> w.kernel[fd] # {})
      t == [w EXCEPT !.events[fd] = IF ok THEN want ELSE @,
                     !.kernel[fd] = IF ok THEN want ELSE @]
  IN  [t EXCEPT !.max = Cardinality(Registered(t.events)) + 1]

(* kqueue: filters of a set of events, as the code counts them.            *)
FilterCount(evs) == CASE evs = {} -> 0
                      [] evs = {"read"} -> 1
                      [] OTHER -> 2

KqueueRegister(v, fd, add) ==
  IF add = {} THEN v
  ELSE [v EXCEPT !.events[fd] = add,
                 !.kernel[fd] = @ \cup add,
                 !.max = @ + Cardinality(add) - FilterCount(v.events[fd])]

(* The changes are applied in order, up to the first filter that is absent.*)
KqueueDeregister(v, fd, rem) ==
  LET gone == IF "read" \in rem /\ "read" \notin v.kernel[fd] THEN {}
              ELSE rem \cap v.kernel[fd]
  IN  IF rem = {} THEN v
      ELSE IF gone # rem THEN [v EXCEPT !.kernel[fd] = @ \ gone]
      ELSE [v EXCEPT !.events[fd] = @ \ rem,
                     !.kernel[fd] = @ \ rem,
                     !.max = @ + Cardinality(rem) - FilterCount(v.events[fd])]

ModEvent(fd, add, rem) ==
  CASE backend = "poll" -> PollfdMod(fd, add, rem)
    [] backend = "select" -> SelectMod(fd, add, rem)
    [] backend = "epoll" -> EpollMod(fd, add, rem)
    [] backend = "kqueue" -> KqueueDeregister(KqueueRegister(w, fd, add), fd, rem)

(***************************************************************************)
(* The service's use of it, between two polls.                             *)
(***************************************************************************)
Use(fd, from, to, add, rem) ==
  /\ lpc = "process"
  /\ sock[fd] \in from
  /\ sock' = [sock EXCEPT ![fd] = to]
  /\ w' = ModEvent(fd, add, rem)
  /\ UNCHANGED <<backend, revents, nrev, bytes, armed, watched, lpc, reported, failed,
                 calls, unheard>>

Connect(fd) == w.max < MaxRoom /\ Use(fd, {"closed"}, "connecting", Events, {})
Accept(fd) == w.max < MaxRoom /\ Use(fd, {"closed"}, "up", {"read"}, {})
ConnectCompletion(fd) == Use(fd, {"connecting"}, "up", {}, {"write"})
PollOut(fd) == Use(fd, {"up"}, "blocked", {"write"}, {})
Drained(fd) == Use(fd, {"blocked"}, "up", {}, {"write"})

(* cleanup_io: the descriptor leaves the watcher, then it is closed, and   *)
(* the kernel forgets it in any case.                                      *)
CleanupIo(fd) ==
  /\ lpc = "process"
  /\ sock[fd] # "closed"
  /\ sock' = [sock EXCEPT ![fd] = "closed"]
  /\ w' = [ModEvent(fd, {}, Events) EXCEPT !.kernel[fd] = {}]
  /\ UNCHANGED <<backend, revents, nrev, bytes, armed, watched, lpc, reported, failed,
                 calls, unheard>>

(***************************************************************************)
(* The interrupter: any thread, at any moment.  epoll keeps the descriptor *)
(* readable for good and re-arms its one-shot registration.                *)
(***************************************************************************)
Wakeup ==
  /\ calls < MaxWakeups /\ calls' = calls + 1
  /\ IF backend = "epoll" THEN armed' = TRUE /\ UNCHANGED bytes
     ELSE bytes' = bytes + 1 /\ UNCHANGED armed
  /\ unheard' = TRUE
  /\ UNCHANGED <<backend, w, sock, revents, nrev, watched, lpc, reported, failed>>

Signalled == watched /\ (IF backend = "epoll" THEN armed ELSE bytes > 0)

(***************************************************************************)
(* poll_io.  The kernel reports any of what it watches, the interrupter    *)
(* when it is signalled, and no more entries than it was given room for.   *)
(***************************************************************************)
Watching == {x \in Fds \X Events : x[2] \in w.kernel[x[1]]}

EntriesOf(rep) ==
  CASE backend = "kqueue" -> {[fd |-> p[1], evs |-> {p[2]}] : p \in rep}
    [] OTHER -> {[fd |-> f, evs |-> {p[2] : p \in {q \in rep : q[1] = f}}]
                  : f \in {p[1] : p \in rep}}

Room == IF backend \in {"poll", "select"} THEN Cardinality(Fds) * 2 + 1 ELSE w.max

Blank(n) == [i \in 1..n |-> ZeroEntry]

(* What poll_io puts into revents_ before it waits.                        *)
Prepared ==
  CASE backend = "poll" -> <<>>
    [] backend = "select" -> SetToSeq(EntriesOf(Watching))
    [] OTHER -> Blank(w.max)

(* The epoll entry of a wakeup carries a pointer in place of a descriptor, *)
(* so no search for a descriptor finds it.                                 *)
IntrPair == <<IF backend = "epoll" THEN -2 ELSE Intr, "read">>

(* With no time to wait the loop goes on with the last poll's answers.     *)
SkipPoll ==
  /\ lpc = "top"
  /\ lpc' = "process" /\ unheard' = FALSE
  /\ UNCHANGED <<backend, w, sock, revents, nrev, bytes, armed, watched,
                 reported, failed, calls>>

(* nrevents_ is assigned when the poll has returned; nothing reads it      *)
(* before.                                                                 *)
StartPoll ==
  /\ lpc = "top"
  /\ lpc' = "polling"
  /\ revents' = Prepared /\ reported' = {} /\ failed' = FALSE /\ nrev' = 0
  /\ UNCHANGED <<backend, w, sock, bytes, armed, watched, calls, unheard>>

PollReturns ==
  /\ lpc = "polling"
  /\ \E rep \in SUBSET Watching, told \in {s \in BOOLEAN : s => Signalled} :
       LET all == IF told THEN rep \cup {IntrPair} ELSE rep
           entries == EntriesOf(all)
       IN  /\ all # {}
           /\ Cardinality(entries) <= Room
           /\ (Signalled /\ ~told) => Cardinality(entries) = Room
           /\ nrev' = Cardinality(entries)
           /\ revents' = SetToSeq(entries) \o
                (IF backend \in {"poll", "select"} THEN <<>> ELSE SubSeq(revents, nrev' + 1, w.max))
           /\ reported' = rep
           /\ IF told /\ backend # "epoll" THEN lpc' = "reset" /\ UNCHANGED <<calls, unheard>>
              ELSE /\ lpc' = "process" /\ unheard' = FALSE
                   /\ calls' = IF told THEN 0 ELSE calls
           /\ armed' = (armed /\ ~told)
  /\ UNCHANGED <<backend, w, sock, bytes, watched, failed>>

(* The poll fails, with EINTR say: run() tries again.                      *)
PollFails ==
  /\ lpc = "polling"
  /\ lpc' = "top"
  /\ nrev' = IF backend \in {"poll", "select"} THEN Len(revents) ELSE -1
  /\ failed' = TRUE
  /\ UNCHANGED <<backend, w, sock, revents, bytes, armed, watched, reported,
                 calls, unheard>>

(* reset(): one read of the interrupter; a full chunk is read on.  The     *)
(* count of an eventfd is read, and cleared, as a whole.                   *)
ResetReads(most) ==
  /\ bytes' = IF bytes < most THEN 0 ELSE bytes - most
  /\ IF bytes >= most THEN UNCHANGED <<lpc, calls, unheard>>
                      ELSE lpc' = "process" /\ calls' = 0 /\ unheard' = FALSE

EventfdReset == ResetReads(MaxWakeups + 1)
PipeReset == ResetReads(Chunk)
SocketReset == ResetReads(Chunk)

Reset ==
  /\ lpc = "reset"
  /\ EventfdReset \/ PipeReset \/ SocketReset
  /\ UNCHANGED <<backend, w, sock, revents, nrev, armed, watched, reported, failed>>

(* The other end is gone: recreate() opens a new pair.  Its number may be  *)
(* the old one, which is all that poll and select need; kqueue's kernel    *)
(* table has lost it with the close.                                       *)
Recreate ==
  /\ lpc = "reset" /\ watched
  /\ bytes' = 0
  /\ watched' \in IF backend = "kqueue" THEN {FALSE} ELSE BOOLEAN
  /\ lpc' = "process" /\ calls' = 0 /\ unheard' = FALSE
  /\ UNCHANGED <<backend, w, sock, revents, nrev, armed, reported, failed>>

(* The entry a search for the first hit ends at; one that fails ends at    *)
(* the entry after the reported ones, if there is one.                     *)
FoundAt(hits) ==
  {i \in DOMAIN revents : IF hits = {} THEN i = nrev + 1
                          ELSE i \in hits /\ \A j \in hits : i <= j}

EpollIsReady(fd, evs) ==
  \E at \in FoundAt({i \in 1..nrev : revents[i].fd = fd}) : revents[at].evs \cap evs # {}
PollIsReady(fd, evs) ==
  \E at \in FoundAt({i \in DOMAIN revents : revents[i].fd = fd}) : revents[at].evs \cap evs # {}
KqueueIsReady(fd, evs) ==
  \E at \in FoundAt({i \in 1..nrev : revents[i].fd = fd /\ revents[i].evs \cap evs # {}}) :
    revents[at].evs # {}
SelectIsReady(fd, evs) ==
  \E i \in DOMAIN revents : revents[i].fd = fd /\ revents[i].evs \cap evs # {}

(* What is_ready may answer.  After a failed poll the search of epoll and  *)
(* of kqueue starts beyond its end: whatever lies there.                   *)
IsReady(fd, evs) ==
  IF nrev = -1 THEN BOOLEAN
  ELSE {CASE backend = "poll" -> PollIsReady(fd, evs)
          [] backend = "select" -> SelectIsReady(fd, evs)
          [] backend = "epoll" -> EpollIsReady(fd, evs)
          [] backend = "kqueue" -> KqueueIsReady(fd, evs)}

LateReset ==
  /\ lpc = "process"
  /\ lpc' = "top" /\ bytes' = 0
  /\ UNCHANGED <<backend, w, sock, revents, nrev, armed, watched, reported,
                 failed, calls, unheard>>

TurnEnds ==
  /\ lpc = "process"
  /\ lpc' = "top"
  /\ UNCHANGED <<backend, w, sock, revents, nrev, bytes, armed, watched,
                 reported, failed, calls, unheard>>

WatcherInit ==
  /\ backend \in Backends
  /\ w = [events |-> [fd \in Fds |-> {}], kernel |-> [fd \in Fds |-> {}], max |-> 1]
  /\ sock = [fd \in Fds |-> "closed"]
  /\ revents = <<>> /\ nrev = 0 /\ reported = {} /\ failed = FALSE
  /\ bytes = 0 /\ armed = FALSE /\ watched = TRUE
  /\ lpc = "top" /\ calls = 0 /\ unheard = FALSE

WatcherLoop == SkipPoll \/ StartPoll \/ PollReturns \/ Reset \/ Recreate \/ TurnEnds

WatcherNext ==
  \/ WatcherLoop \/ PollFails \/ Wakeup
  \/ \E fd \in Fds : \/ Connect(fd) \/ Accept(fd) \/ ConnectCompletion(fd)
                     \/ PollOut(fd) \/ Drained(fd) \/ CleanupIo(fd)

(* The worker's thread runs, and polls do not fail for ever.               *)
WatcherSpec == WatcherInit /\ [][WatcherNext]_wvars
               /\ WF_wvars(WatcherLoop) /\ SF_wvars(PollReturns)

-----------------------------------------------------------------------------
(* Types.                                                                  *)
WatcherTypeOK ==
  /\ backend \in Backends
  /\ w.events \in [Fds -> SUBSET Events] /\ w.kernel \in [Fds -> SUBSET Events]
  /\ w.max \in Int
  /\ sock \in [Fds -> {"closed", "connecting", "up", "blocked"}]
  /\ nrev \in -1..(2 * Cardinality(Fds) + 1) /\ failed \in BOOLEAN
  /\ bytes \in Nat /\ armed \in BOOLEAN /\ watched \in BOOLEAN
  /\ lpc \in {"top", "polling", "reset", "process"}
  /\ calls \in 0..MaxWakeups /\ unheard \in BOOLEAN

(* However connections come, block, drain and go, and whatever descriptor  *)
(* numbers they reuse, the kernel watches each open socket for exactly     *)
(* what the service asked of mod_event.                                    *)
KernelAgrees == \A fd \in Fds : w.kernel[fd] = Wanted(sock[fd])

(* The assertion of the pollers, max_events_ > 0, under kqueue's           *)
(* bookkeeping of differences too.                                         *)
RoomForOne == w.max > 0

(* is_ready never calls a descriptor ready for an event the last poll did  *)
(* not report, unless that poll failed.                                    *)
ReadyIsReported ==
  (lpc = "process" /\ ~failed) =>
    \A fd \in Fds, e \in Events : TRUE \in IsReady(fd, {e}) => <<fd, e>> \in reported

(* A wakeup that the loop has not answered ends the poll it is in or the   *)
(* one it will make, unless the interrupter was recreated.                 *)
NoLostWakeup == (watched /\ unheard /\ lpc \in {"top", "polling"}) => Signalled

(* The interrupter ends a poll only for a wakeup that came since it last   *)
(* ended one: the loop does not spin.                                      *)
NoSpuriousWake == (Signalled /\ lpc # "reset") => calls > 0

(* Every wakeup is answered, however often polls fail.                     *)
WakeupHeard == []<>~(unheard /\ watched)

(* The watcher in one: kernel and tables agree, readiness is never made    *)
(* up, no wakeup is lost and none is felt twice.                           *)
WatcherSafe ==
  /\ WatcherTypeOK /\ KernelAgrees /\ RoomForOne
  /\ ReadyIsReported /\ NoLostWakeup /\ NoSpuriousWake
=============================================================================
