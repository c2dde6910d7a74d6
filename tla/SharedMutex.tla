----------------------------- MODULE SharedMutex -----------------------------
(***************************************************************************)
(* cxx17::shared_mutex: a reader-writer lock of one mutex and two          *)
(* condition variables.  mut_ makes every critical section one step; a     *)
(* thread at a gate sleeps until it is notified, then tests again.         *)
(***************************************************************************)
EXTENDS Integers, FiniteSets

CONSTANTS
  Lockers,    \* threads
  NReaders    \* n_readers_, the largest reader count

ASSUME LockAssumption == IsFiniteSet(Lockers) /\ NReaders \in Nat /\ NReaders >= Cardinality(Lockers)

VARIABLES
  entered,    \* the write_entered_ bit of state_
  count,      \* the reader bits of state_
  at          \* where each thread is

lockvars == <<entered, count, at>>

Move(ts, place) == [t \in Lockers |-> IF t \in ts THEN place ELSE at[t]]
At(place) == {t \in Lockers : at[t] = place}

(* The tests of the two waits of lock() and of the one of lock_shared().   *)
NoWriter == ~entered
NoReaders == count = 0
NoWriterNoMaxReaders == ~entered /\ count # NReaders

(* lock(): the first gate, then the second with the bit set.               *)
LockGate1(t) ==
  /\ at[t] \in {"idle", "wGate1"}
  /\ IF NoWriter
     THEN /\ entered' = TRUE
          /\ at' = Move({t}, IF NoReaders THEN "writing" ELSE "wait2")
     ELSE at' = Move({t}, "wait1w") /\ UNCHANGED entered
  /\ UNCHANGED count

LockGate2(t) ==
  /\ at[t] = "wGate2"
  /\ at' = Move({t}, IF NoReaders THEN "writing" ELSE "wait2")
  /\ UNCHANGED <<entered, count>>

TryLock(t) ==
  /\ at[t] = "idle" /\ NoWriter /\ NoReaders
  /\ entered' = TRUE /\ at' = Move({t}, "writing")
  /\ UNCHANGED count

NotifyOneWriter(t) ==
  /\ at[t] = "writing"
  /\ entered' = FALSE /\ count' = 0
  /\ \/ \E u \in At("wait1w") : at' = [Move({t}, "idle") EXCEPT ![u] = "wGate1"]
     \/ \E u \in At("wait1r") : at' = [Move({t}, "idle") EXCEPT ![u] = "rGate1"]
     \/ At("wait1w") \cup At("wait1r") = {} /\ at' = Move({t}, "idle")

(* unlock(): everyone at the first gate is woken.                          *)
Unlock(t) ==
  /\ at[t] = "writing"
  /\ entered' = FALSE /\ count' = 0
  /\ at' = [u \in Lockers |-> CASE u = t -> "idle"
                                [] at[u] = "wait1w" -> "wGate1"
                                [] at[u] = "wait1r" -> "rGate1"
                                [] OTHER -> at[u]]

SharedIgnoresWriter(t) ==
  /\ at[t] \in {"idle", "rGate1"}
  /\ count' = count + 1 /\ at' = Move({t}, "reading")
  /\ UNCHANGED entered

LockShared(t) ==
  /\ at[t] \in {"idle", "rGate1"}
  /\ IF NoWriterNoMaxReaders
     THEN count' = count + 1 /\ at' = Move({t}, "reading")
     ELSE at' = Move({t}, "wait1r") /\ UNCHANGED count
  /\ UNCHANGED entered

TryLockShared(t) ==
  /\ at[t] = "idle" /\ NoWriterNoMaxReaders
  /\ count' = count + 1 /\ at' = Move({t}, "reading")
  /\ UNCHANGED entered

(* unlock_shared(): the last reader lets the waiting writer in; one that   *)
(* leaves a full lock lets one of the first gate in.                       *)
Wakes(gate, woken, t) ==
  IF At(gate) = {} THEN at' = Move({t}, "idle")
  ELSE \E u \in At(gate) : at' = [Move({t}, "idle") EXCEPT ![u] = woken]

UnlockSharedAtOne(t) ==
  /\ at[t] = "reading"
  /\ count' = count - 1
  /\ IF entered /\ count' = 1 THEN Wakes("wait2", "wGate2", t) ELSE at' = Move({t}, "idle")
  /\ UNCHANGED entered

UnlockShared(t) ==
  /\ at[t] = "reading"
  /\ count' = count - 1
  /\ CASE NoWriter /\ count' = NReaders - 1 -> Wakes("wait1r", "rGate1", t)
       [] ~NoWriter /\ count' = 0 -> Wakes("wait2", "wGate2", t)
       [] OTHER -> at' = Move({t}, "idle")
  /\ UNCHANGED entered

(* A condition variable may wake without being notified.                   *)
Spurious(t) ==
  /\ at[t] \in {"wait1w", "wait1r", "wait2"}
  /\ at' = Move({t}, CASE at[t] = "wait1w" -> "wGate1" [] at[t] = "wait1r" -> "rGate1"
                       [] at[t] = "wait2" -> "wGate2")
  /\ UNCHANGED <<entered, count>>

LockInit == entered = FALSE /\ count = 0 /\ at = [t \in Lockers |-> "idle"]

Woken(t) ==
  \/ at[t] = "wGate1" /\ LockGate1(t)
  \/ LockGate2(t)
  \/ at[t] = "rGate1" /\ LockShared(t)
Leaves(t) == Unlock(t) \/ UnlockShared(t)

LockNext ==
  \E t \in Lockers :
    \/ LockGate1(t) \/ LockGate2(t) \/ TryLock(t) \/ Unlock(t)
    \/ LockShared(t) \/ TryLockShared(t) \/ UnlockShared(t) \/ Spurious(t)

(* Owners leave, and a thread that was notified runs.                      *)
LockSpec ==
  LockInit /\ [][LockNext]_lockvars /\ \A t \in Lockers : WF_lockvars(Woken(t) \/ Leaves(t))

-----------------------------------------------------------------------------
LockTypeOK ==
  /\ entered \in BOOLEAN /\ count \in 0..NReaders
  /\ at \in [Lockers -> {"idle", "wGate1", "wGate2", "rGate1", "wait1w", "wait1r", "wait2",
                          "writing", "reading"}]

(* state_ is exact: its count is the readers there are, its bit the one    *)
(* writer that has entered, and a writer that owns the lock is alone.      *)
StateExact ==
  /\ count = Cardinality(At("reading"))
  /\ Cardinality(At("writing") \cup At("wait2") \cup At("wGate2")) = (IF entered THEN 1 ELSE 0)
  /\ At("writing") # {} => At("reading") = {}

(* Nobody sleeps at a gate that is open: whoever sleeps at the first gate  *)
(* has a writer before it, and who sleeps at the second has a reader.      *)
NoSleeper ==
  /\ At("wait1w") \cup At("wait1r") # {} => entered
  /\ At("wait2") # {} => count > 0

(* A writer that has set the bit owns the lock in the end, although new    *)
(* readers keep asking.                                                    *)
WriterGets == \A t \in Lockers : []<>(at[t] \notin {"wait2", "wGate2"})

RW == INSTANCE RwLock WITH Callers <- Lockers, readers <- At("reading"), writers <- At("writing")

(* The mutex implements the reader-writer lock.                            *)
RefinesRwLock == RW!RwSpec

(* state_ counts the holders, and no thread sleeps at a gate that is open. *)
LockSafe == LockTypeOK /\ StateExact /\ NoSleeper
=============================================================================
