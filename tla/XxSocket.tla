------------------------------ MODULE XxSocket ------------------------------
(***************************************************************************)
(* xxsocket: objects that own a descriptor, used from several threads of   *)
(* one process, and the transfers with a time limit, send_n and recv_n,    *)
(* over select.                                                            *)
(*                                                                         *)
(* The kernel gives the lowest free descriptor; a generation tells apart   *)
(* the sockets that have had the same number.                              *)
(***************************************************************************)
EXTENDS Integers, FiniteSets

CONSTANTS
  Objects,   \* xxsocket objects
  Fds,       \* descriptors
  MaxGen,    \* bound: sockets ever opened
  IoLen,     \* bytes send_n or recv_n is asked for
  IoTime     \* and the time it is given

ASSUME SocketAssumption == Fds \subseteq Nat /\ MaxGen \in Nat /\ IoLen \in Nat /\ IoTime \in Nat

NoFd == -1

VARIABLES
  kern,    \* Fds -> the generation open there, 0 for a free one
  sock,    \* Objects -> fd, and the generation it was given with it
  gens,    \* generations so far
  rawfds,  \* sockets the application holds outside any object
  broken,  \* objects whose socket connect_n has closed
  stray,   \* objects that have closed a socket that was not theirs
  io       \* a transfer: where it is, bytes done, time left, what the kernel has

sockvars == <<kern, sock, gens, rawfds, broken, stray, io>>

Hold(fd, gen) == [fd |-> fd, gen |-> gen]
Invalid == Hold(NoFd, 0)
FreeFds == {f \in Fds : kern[f] = 0}
LowestFree == CHOOSE f \in FreeFds : \A g \in FreeFds : f <= g

(***************************************************************************)
(* Ownership.                                                              *)
(***************************************************************************)
(* open: nothing when there is a descriptor already.                       *)
SockOpen(o) ==
  /\ sock[o].fd = NoFd /\ FreeFds # {} /\ gens < MaxGen
  /\ gens' = gens + 1
  /\ kern' = [kern EXCEPT ![LowestFree] = gens + 1]
  /\ sock' = [sock EXCEPT ![o] = Hold(LowestFree, gens + 1)]
  /\ UNCHANGED <<rawfds, broken, stray>>

CloseKeepsFd(o) ==
  /\ sock[o].fd # NoFd
  /\ kern' = [kern EXCEPT ![sock[o].fd] = 0]
  /\ stray' = stray \cup (IF kern[sock[o].fd] \notin {0, sock[o].gen} THEN {o} ELSE {})
  /\ UNCHANGED <<sock, gens, rawfds, broken>>

(* close, from the destructor and from reopen: whatever is open under that *)
(* number.                                                                 *)
SockClose(o) ==
  /\ sock[o].fd # NoFd
  /\ kern' = [kern EXCEPT ![sock[o].fd] = 0]
  /\ stray' = stray \cup (IF kern[sock[o].fd] \notin {0, sock[o].gen} THEN {o} ELSE {})
  /\ sock' = [sock EXCEPT ![o] = Invalid]
  /\ broken' = broken \ {o}
  /\ UNCHANGED <<gens, rawfds>>

(* connect_n with a time limit. Refused at once, or when SO_ERROR cannot   *)
(* be read, it leaves the socket alone; otherwise a failure closes the     *)
(* descriptor, and the object keeps its number.                            *)
ConnectTimedFails(o) ==
  /\ sock[o].fd # NoFd /\ o \notin broken
  /\ kern[sock[o].fd] = sock[o].gen
  /\ kern' = [kern EXCEPT ![sock[o].fd] = 0]
  /\ broken' = broken \cup {o}
  /\ UNCHANGED <<sock, gens, rawfds, stray>>

(* Move assignment swaps, so the other object closes what was here.        *)
SockMove(o, p) ==
  /\ o # p
  /\ sock' = [sock EXCEPT ![o] = sock[p], ![p] = sock[o]]
  /\ broken' = {IF b = o THEN p ELSE IF b = p THEN o ELSE b : b \in broken}
  /\ UNCHANGED <<kern, gens, rawfds, stray>>

(* accept hands out a descriptor without an object, release_handle gives   *)
(* one up, and assignment of a descriptor takes it unless there is one.    *)
SockAccept ==
  /\ FreeFds # {} /\ gens < MaxGen
  /\ gens' = gens + 1
  /\ kern' = [kern EXCEPT ![LowestFree] = gens + 1]
  /\ rawfds' = rawfds \cup {Hold(LowestFree, gens + 1)}
  /\ UNCHANGED <<sock, broken, stray>>

SockRelease(o) ==
  /\ sock[o].fd # NoFd /\ o \notin broken
  /\ rawfds' = rawfds \cup {sock[o]}
  /\ sock' = [sock EXCEPT ![o] = Invalid]
  /\ UNCHANGED <<kern, gens, broken, stray>>

SockAssign(o) ==
  \E h \in rawfds :
    /\ sock[o].fd = NoFd
    /\ sock' = [sock EXCEPT ![o] = h] /\ rawfds' = rawfds \ {h}
    /\ UNCHANGED <<kern, gens, broken, stray>>

(***************************************************************************)
(* A transfer. ready is what the kernel can take or give now, moved what   *)
(* it has taken or given in all.                                           *)
(***************************************************************************)
IoStart == [pc |-> "try", done |-> 0, time |-> IoTime, ready |-> 0, moved |-> 0, failed |-> FALSE]

(* send or recv: some bytes, or EAGAIN, or the error or end of file that   *)
(* ends the loop.                                                          *)
IoTry ==
  /\ io.pc = "try" /\ io.done < IoLen
  /\ \/ \E n \in 1..io.ready :
          /\ n <= IoLen - io.done
          /\ io' = [io EXCEPT !.done = @ + n, !.moved = @ + n, !.ready = @ - n]
     \/ io.ready = 0 /\ io' = [io EXCEPT !.pc = "wait"]
     \/ io' = [io EXCEPT !.pc = "out", !.failed = TRUE]

IoDone == io.pc = "try" /\ io.done = IoLen /\ io' = [io EXCEPT !.pc = "out"]

(* Whether the loop goes on after select.                                  *)
GoesOn(rtn, left) == rtn # -1 /\ left > 0

(* select: ready or not after t, interrupted (and then entered again with  *)
(* what is left), or an error; the time spent is taken off. It returns     *)
(* late, by one at most here.                                              *)
IoWait ==
  /\ io.pc = "wait"
  /\ \E t \in 0..(io.time + 1), rtn \in {-1, 0, 1} :
       /\ rtn = 0 => t >= io.time
       /\ rtn = 1 => io.ready > 0
       /\ io' = [io EXCEPT !.time = @ - t, !.failed = (rtn = -1),
                           !.pc = IF GoesOn(rtn, io.time - t) THEN "try" ELSE "out"]

IoInterrupted ==
  /\ io.pc = "wait"
  /\ \E t \in 1..(io.time + 1) :
       io' = [io EXCEPT !.time = @ - t, !.pc = IF io.time - t > 0 THEN "wait" ELSE "out"]

(* The peer reads or writes.                                               *)
IoPeer == io.pc # "out" /\ io.ready + io.moved < IoLen + 1 /\ io' = [io EXCEPT !.ready = @ + 1]

IoNext == (IoTry \/ IoDone \/ IoWait \/ IoInterrupted \/ IoPeer) /\ UNCHANGED <<kern, sock, gens, rawfds, broken, stray>>

SockInit ==
  /\ kern = [f \in Fds |-> 0] /\ sock = [o \in Objects |-> Invalid] /\ gens = 0
  /\ rawfds = {} /\ broken = {} /\ stray = {} /\ io = IoStart

ObjectNext ==
  /\ \/ \E o \in Objects : SockOpen(o) \/ SockClose(o) \/ ConnectTimedFails(o) \/ SockRelease(o) \/ SockAssign(o)
     \/ \E o, p \in Objects : SockMove(o, p)
     \/ SockAccept
  /\ UNCHANGED io

SockNext == (io = IoStart /\ ObjectNext) \/ (gens = 0 /\ IoNext)

-----------------------------------------------------------------------------
(* Every open socket has one holder, an object or the application, and no  *)
(* object closes a socket of another, as long as no connect_n with a time  *)
(* limit has failed after the connection was begun: that one closes the    *)
(* descriptor and leaves its number in the object.                         *)
OneHolder ==
  (broken = {} /\ stray = {}) =>
    \A f \in Fds : kern[f] # 0 =>
      Cardinality({o \in Objects : sock[o].fd = f}) + Cardinality({h \in rawfds : h.fd = f}) = 1

(* The first stray close comes from an object connect_n has left with a    *)
(* number that is not its own; whoever it hits may be next.                *)
StrayOnlyBroken == [][stray = {} => stray' \subseteq broken]_sockvars

(* send_n and recv_n return the bytes the kernel moved, and fewer than     *)
(* asked for only after a failure or when the time is up: a wakeup just in *)
(* time, an interrupted select or a partial transfer is not one.           *)
TransferExact ==
  /\ io.done = io.moved /\ io.done <= IoLen
  /\ (io.pc = "out" /\ io.done < IoLen) => io.failed \/ io.time <= 0

(* Descriptors have one owner and transfers report what was moved.         *)
SocketSafe == [](OneHolder /\ TransferExact) /\ StrayOnlyBroken
=============================================================================
