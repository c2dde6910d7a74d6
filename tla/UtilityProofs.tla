--------------------------- MODULE UtilityProofs ---------------------------
(***************************************************************************)
(* Proofs about the utilities: shared_mutex, which keeps its accounts and  *)
(* implements the abstract reader-writer lock for any finite number of     *)
(* threads that the reader count can hold; the reference counts, the       *)
(* singleton, the object pool and the vector; and the addresses, in the    *)
(* order of the routes and in the hands of the connectors, and urls.       *)
(***************************************************************************)
EXTENDS LibraryProofs

-----------------------------------------------------------------------------
(* The places of a thread, and of a writer that has set the bit.           *)
LockPlaces == {"idle", "wGate1", "wGate2", "rGate1", "wait1w", "wait1r", "wait2", "writing", "reading"}
WritePlaces == {"writing", "wait2", "wGate2"}

Counted == count = Cardinality(At("reading"))
OneWriter == \A t, u \in Lockers : at[t] \in WritePlaces /\ at[u] \in WritePlaces => t = u
BitExact == entered <=> \E t \in Lockers : at[t] \in WritePlaces
WriterAlone == \A t, u \in Lockers : at[t] = "writing" => at[u] # "reading"
AwakeAtOpenGates ==
  /\ \A t \in Lockers : at[t] \in {"wait1w", "wait1r"} => entered
  /\ \A t \in Lockers : at[t] = "wait2" => count > 0

(* The inductive invariant: mutual exclusion rests on the count and the    *)
(* bit being exact, and those on there being one writer past the gate.     *)
LockInv == LockTypeOK /\ Counted /\ OneWriter /\ BitExact /\ WriterAlone /\ AwakeAtOpenGates

-----------------------------------------------------------------------------
(* The readers are finite in number, and the count is zero without them.   *)
LEMMA ReadersFinite ==
  /\ IsFiniteSet(At("reading"))
  /\ Cardinality(At("reading")) \in Nat
  /\ Cardinality(At("reading")) = 0 <=> At("reading") = {}
<1>1. At("reading") \subseteq Lockers
  BY DEF At
<1>2. IsFiniteSet(At("reading"))
  BY <1>1, LockAssumption, FS_Subset DEF LockAssumption
<1> QED
  BY <1>2, FS_CardinalityType, FS_EmptySet

(* While a thread is not reading the count is below its limit.             *)
LEMMA RoomForReader ==
  ASSUME NEW t \in Lockers, at[t] # "reading"
  PROVE  Cardinality(At("reading")) < NReaders
<1>1. At("reading") \subseteq Lockers /\ t \notin At("reading")
  BY DEF At
<1>2. IsFiniteSet(At("reading")) /\ Cardinality(At("reading")) \in Nat
  BY ReadersFinite
<1>3. Cardinality(At("reading") \cup {t}) = Cardinality(At("reading")) + 1
  BY <1>1, <1>2, FS_AddElement
<1>4. Cardinality(At("reading") \cup {t}) <= Cardinality(Lockers) /\ Cardinality(Lockers) \in Nat
  BY <1>1, LockAssumption, FS_Subset, FS_CardinalityType DEF LockAssumption
<1> QED
  BY <1>2, <1>3, <1>4, LockAssumption DEF LockAssumption

(* What a step needs to know of the count.                                 *)
LEMMA CountFacts ==
  ASSUME LockInv
  PROVE  /\ count \in Nat
         /\ count = 0 <=> \A u \in Lockers : at[u] # "reading"
         /\ \A u \in Lockers : at[u] # "reading" => count < NReaders
<1>1. count \in Nat /\ (count = 0 <=> At("reading") = {})
  BY ReadersFinite DEF LockInv, Counted
<1>2. \A u \in Lockers : at[u] # "reading" => count < NReaders
  BY RoomForReader DEF LockInv, Counted
<1> QED
  BY <1>1, <1>2 DEF At

(* Steps that make no thread a reader and take none away keep the count.   *)
LEMMA SameReaders ==
  ASSUME LockInv, count' = count,
         \A u \in Lockers : at'[u] = "reading" <=> at[u] = "reading"
  PROVE  Counted'
<1>1. At("reading")' = At("reading")
  BY DEF At
<1> QED
  BY <1>1 DEF LockInv, Counted

LEMMA OneMoreReader ==
  ASSUME LockInv, NEW t \in Lockers, at[t] # "reading", count' = count + 1,
         at' = Move({t}, "reading")
  PROVE  Counted'
<1>1. At("reading")' = At("reading") \cup {t} /\ t \notin At("reading")
  BY DEF At, Move
<1>2. IsFiniteSet(At("reading"))
  BY ReadersFinite
<1> QED
  BY <1>1, <1>2, FS_AddElement DEF LockInv, Counted

LEMMA OneReaderLess ==
  ASSUME LockInv, NEW t \in Lockers, at[t] = "reading", count' = count - 1,
         \A u \in Lockers : at'[u] = "reading" <=> at[u] = "reading" /\ u # t
  PROVE  Counted'
<1>1. At("reading")' = At("reading") \ {t} /\ t \in At("reading")
  BY DEF At
<1>2. IsFiniteSet(At("reading"))
  BY ReadersFinite
<1> QED
  BY <1>1, <1>2, FS_RemoveElement DEF LockInv, Counted

-----------------------------------------------------------------------------
LEMMA LockGate1Keeps ==
  ASSUME LockInv, NEW t \in Lockers, LockGate1(t)
  PROVE  LockInv'
<1> USE DEF LockInv, LockGate1, Move, NoWriter, NoReaders
<1>1. LockTypeOK'
  BY DEF LockTypeOK
<1>2. Counted'
  BY <1>1, SameReaders DEF LockTypeOK
<1>3. OneWriter' /\ BitExact'
  BY DEF OneWriter, BitExact, WritePlaces, LockTypeOK
<1>4. WriterAlone'
  BY CountFacts DEF WriterAlone, LockTypeOK
<1>5. AwakeAtOpenGates'
  BY CountFacts DEF AwakeAtOpenGates, LockTypeOK
<1> QED
  BY <1>1, <1>2, <1>3, <1>4, <1>5

LEMMA LockGate2Keeps ==
  ASSUME LockInv, NEW t \in Lockers, LockGate2(t)
  PROVE  LockInv'
<1> USE DEF LockInv, LockGate2, Move, NoReaders
<1>1. LockTypeOK'
  BY DEF LockTypeOK
<1>2. Counted'
  BY <1>1, SameReaders DEF LockTypeOK
<1>3. OneWriter' /\ BitExact'
  BY DEF OneWriter, BitExact, WritePlaces, LockTypeOK
<1>4. WriterAlone'
  BY CountFacts DEF WriterAlone, LockTypeOK
<1>5. AwakeAtOpenGates'
  BY CountFacts DEF AwakeAtOpenGates, LockTypeOK
<1> QED
  BY <1>1, <1>2, <1>3, <1>4, <1>5

LEMMA TryLockKeeps ==
  ASSUME LockInv, NEW t \in Lockers, TryLock(t)
  PROVE  LockInv'
<1> USE DEF LockInv, TryLock, Move, NoWriter, NoReaders
<1>1. LockTypeOK'
  BY DEF LockTypeOK
<1>2. Counted'
  BY <1>1, SameReaders DEF LockTypeOK
<1>3. OneWriter' /\ BitExact'
  BY DEF OneWriter, BitExact, WritePlaces, LockTypeOK
<1>4. WriterAlone'
  BY CountFacts DEF WriterAlone, LockTypeOK
<1>5. AwakeAtOpenGates'
  BY DEF AwakeAtOpenGates, LockTypeOK
<1> QED
  BY <1>1, <1>2, <1>3, <1>4, <1>5

(* unlock() zeroes the count, which is zero: the writer was alone.         *)
LEMMA UnlockKeeps ==
  ASSUME LockInv, NEW t \in Lockers, Unlock(t)
  PROVE  LockInv'
<1> USE DEF LockInv, Unlock
<1>0. count = 0
  BY CountFacts DEF WriterAlone
<1>1. LockTypeOK'
  BY <1>0 DEF LockTypeOK
<1>2. Counted'
  BY <1>0, <1>1, SameReaders DEF LockTypeOK
<1>3. OneWriter' /\ BitExact'
  BY DEF OneWriter, BitExact, WritePlaces, LockTypeOK
<1>4. WriterAlone'
  BY DEF WriterAlone, OneWriter, WritePlaces, LockTypeOK
<1>5. AwakeAtOpenGates'
  BY DEF AwakeAtOpenGates, OneWriter, WritePlaces, LockTypeOK
<1> QED
  BY <1>1, <1>2, <1>3, <1>4, <1>5

LEMMA LockSharedKeeps ==
  ASSUME LockInv, NEW t \in Lockers, LockShared(t) \/ TryLockShared(t)
  PROVE  LockInv'
<1> USE DEF LockInv, LockShared, TryLockShared, Move, NoWriterNoMaxReaders
<1>0. at[t] \in {"idle", "rGate1"} /\ count < NReaders /\ NReaders \in Nat /\ count \in Nat
  BY CountFacts, LockAssumption DEF LockAssumption
<1>1. LockTypeOK'
  BY <1>0 DEF LockTypeOK
<1>2. Counted'
  <2>1. CASE NoWriterNoMaxReaders
    BY <1>0, <2>1, OneMoreReader
  <2>2. CASE ~NoWriterNoMaxReaders
    BY <1>0, <1>1, <2>2, SameReaders DEF LockTypeOK
  <2> QED
    BY <2>1, <2>2
<1>3. OneWriter' /\ BitExact'
  BY <1>0 DEF OneWriter, BitExact, WritePlaces, LockTypeOK
<1>4. WriterAlone'
  BY <1>0 DEF WriterAlone, BitExact, WritePlaces, LockTypeOK
<1>5. AwakeAtOpenGates'
  BY <1>0 DEF AwakeAtOpenGates, LockTypeOK
<1> QED
  BY <1>1, <1>2, <1>3, <1>4, <1>5

(* Waking one at the second gate is enough: there is one at most.          *)
LEMMA UnlockSharedKeeps ==
  ASSUME LockInv, NEW t \in Lockers, UnlockShared(t)
  PROVE  LockInv'
<1> USE DEF LockInv
<1>0. at[t] = "reading" /\ count' = count - 1 /\ count \in Nat /\ count > 0 /\ entered' = entered
  BY CountFacts DEF UnlockShared
<1>1. /\ at' \in [Lockers -> LockPlaces]
      /\ \A u \in Lockers : at'[u] = "reading" <=> at[u] = "reading" /\ u # t
      /\ \A u \in Lockers : at'[u] \in WritePlaces <=> at[u] \in WritePlaces
      /\ \A u \in Lockers : at'[u] = "writing" <=> at[u] = "writing"
      /\ \A u \in Lockers : at'[u] \in {"wait1w", "wait1r"} => at[u] \in {"wait1w", "wait1r"}
      /\ \A u \in Lockers : at'[u] = "wait2" => at[u] = "wait2"
  <2>1. CASE at' = Move({t}, "idle")
    BY <1>0, <2>1 DEF LockTypeOK, Move, LockPlaces, WritePlaces
  <2>2. CASE \E u \in At("wait1r") : at' = [Move({t}, "idle") EXCEPT ![u] = "rGate1"]
    BY <1>0, <2>2 DEF LockTypeOK, Move, At, LockPlaces, WritePlaces
  <2>3. CASE \E u \in At("wait2") : at' = [Move({t}, "idle") EXCEPT ![u] = "wGate2"]
    BY <1>0, <2>3 DEF LockTypeOK, Move, At, LockPlaces, WritePlaces
  <2> QED
    BY <2>1, <2>2, <2>3 DEF UnlockShared, Wakes
<1>2. Counted'
  BY <1>0, <1>1, OneReaderLess
<1>3. OneWriter' /\ BitExact'
  BY <1>0, <1>1 DEF OneWriter, BitExact
<1>4. WriterAlone'
  BY <1>1 DEF WriterAlone
<1>5. ASSUME NEW u \in Lockers, at'[u] = "wait2"
      PROVE  count' > 0
  <2>1. at[u] = "wait2" /\ entered
    BY <1>1, <1>5 DEF BitExact, WritePlaces
  <2>2. \A v \in At("wait2") : v = u
    BY <2>1 DEF OneWriter, WritePlaces, At
  <2>3. CASE count' = 0
    <3>1. Wakes("wait2", "wGate2", t)
      BY <2>1, <2>3 DEF UnlockShared, NoWriter
    <3>2. PICK v \in At("wait2") : at' = [Move({t}, "idle") EXCEPT ![v] = "wGate2"]
      BY <2>1, <3>1 DEF Wakes, At
    <3> QED
      BY <1>5, <2>2, <3>2 DEF Move
  <2> QED
    BY <1>0, <2>3
<1>6. AwakeAtOpenGates'
  BY <1>0, <1>1, <1>5 DEF AwakeAtOpenGates
<1>7. LockTypeOK'
  <2>1. count' \in 0..NReaders
    BY <1>0, LockAssumption DEF LockTypeOK, LockAssumption
  <2>2. entered' \in BOOLEAN
    BY <1>0 DEF LockTypeOK
  <2> QED
    BY <1>1, <2>1, <2>2 DEF LockTypeOK, LockPlaces
<1> QED
  BY <1>2, <1>3, <1>4, <1>6, <1>7

LEMMA SpuriousKeeps ==
  ASSUME LockInv, NEW t \in Lockers, Spurious(t)
  PROVE  LockInv'
<1> USE DEF LockInv, Spurious, Move
<1>1. LockTypeOK'
  BY DEF LockTypeOK
<1>2. Counted'
  BY <1>1, SameReaders DEF LockTypeOK
<1>3. OneWriter' /\ BitExact'
  BY DEF OneWriter, BitExact, WritePlaces, LockTypeOK
<1>4. WriterAlone'
  BY DEF WriterAlone, LockTypeOK
<1>5. AwakeAtOpenGates'
  BY DEF AwakeAtOpenGates, LockTypeOK
<1> QED
  BY <1>1, <1>2, <1>3, <1>4, <1>5

LEMMA LockInvariant == LockSpec => []LockInv
<1>1. LockInit => LockInv
  <2> SUFFICES ASSUME LockInit PROVE LockInv
    OBVIOUS
  <2>1. At("reading") = {}
    BY DEF LockInit, At
  <2>2. Counted
    BY <2>1, FS_EmptySet DEF Counted, LockInit
  <2>3. LockTypeOK
    <3>1. 0 \in 0..NReaders
      BY LockAssumption DEF LockAssumption
    <3> QED
      BY <3>1 DEF LockTypeOK, LockInit
  <2> QED
    BY <2>2, <2>3 DEF LockInv, LockInit, OneWriter, BitExact, WriterAlone, AwakeAtOpenGates, WritePlaces
<1>2. LockInv /\ [LockNext]_lockvars => LockInv'
  <2> SUFFICES ASSUME LockInv, [LockNext]_lockvars PROVE LockInv'
    OBVIOUS
  <2>1. CASE UNCHANGED lockvars
    BY <2>1 DEF lockvars, LockInv, LockTypeOK, Counted, OneWriter, BitExact, WriterAlone,
                AwakeAtOpenGates, At
  <2>2. CASE LockNext
    BY <2>2, LockGate1Keeps, LockGate2Keeps, TryLockKeeps, UnlockKeeps, LockSharedKeeps,
       UnlockSharedKeeps, SpuriousKeeps DEF LockNext
  <2> QED
    BY <2>1, <2>2
<1> QED
  BY <1>1, <1>2, PTL DEF LockSpec

(* In every state of shared_mutex the count and the bit of state_ are      *)
(* those of the threads inside, a writer is alone, and no thread sleeps at *)
(* a gate that is open: the notifications of unlock and unlock_shared are  *)
(* enough.                                                                 *)
THEOREM LockAccounts == LockSpec => []LockSafe
<1>1. LockInv => LockSafe
  <2> SUFFICES ASSUME LockInv PROVE LockSafe
    OBVIOUS
  <2> DEFINE W == At("writing") \cup At("wait2") \cup At("wGate2")
  <2>1. CASE entered
    <3>1. PICK t \in Lockers : at[t] \in WritePlaces
      BY <2>1 DEF LockInv, BitExact
    <3>2. W = {t}
      BY <3>1 DEF LockInv, OneWriter, WritePlaces, At
    <3> QED
      BY <2>1, <3>2, FS_Singleton
      DEF LockInv, LockSafe, StateExact, NoSleeper, Counted, WriterAlone, AwakeAtOpenGates, At
  <2>2. CASE ~entered
    <3>1. W = {}
      BY <2>2 DEF LockInv, BitExact, WritePlaces, At
    <3> QED
      BY <2>2, <3>1, FS_EmptySet
      DEF LockInv, LockSafe, StateExact, NoSleeper, Counted, WriterAlone, AwakeAtOpenGates, At
  <2> QED
    BY <2>1, <2>2
<1> QED
  BY <1>1, LockInvariant, PTL

-----------------------------------------------------------------------------
SameOwners == At("reading")' = At("reading") /\ At("writing")' = At("writing")

(* A step of shared_mutex is a step of the reader-writer lock or leaves    *)
(* its owners alone.                                                       *)
LEMMA StepsRefine ==
  ASSUME LockInv, LockInv', LockNext
  PROVE  RW!RwNext \/ SameOwners
<1> PICK t \in Lockers :
      \/ LockGate1(t) \/ LockGate2(t) \/ TryLock(t) \/ Unlock(t)
      \/ LockShared(t) \/ TryLockShared(t) \/ UnlockShared(t) \/ Spurious(t)
  BY DEF LockNext
<1>1. ASSUME at[t] \notin {"reading", "writing"}, NoReaders, at' = Move({t}, "writing"),
             NoWriter \/ at[t] = "wGate2"
      PROVE  RW!RwNext
  <2>1. At("reading") = {} /\ At("reading")' = {}
    BY <1>1, CountFacts DEF At, Move, NoReaders
  <2>2. At("writing") = {}
    BY <1>1 DEF At, NoWriter, LockInv, BitExact, OneWriter, WritePlaces
  <2>3. At("writing")' = {t}
    BY <1>1, <2>2 DEF At, Move
  <2> QED
    BY <2>1, <2>2, <2>3 DEF RW!RwNext, RW!RwWrite
<1>2. ASSUME \A u \in Lockers : /\ at'[u] = "reading" <=> at[u] = "reading"
                                /\ at'[u] = "writing" <=> at[u] = "writing"
      PROVE  SameOwners
  BY <1>2 DEF SameOwners, At
<1>3. ASSUME at[t] \in {"idle", "rGate1"}, NoWriter, at' = Move({t}, "reading")
      PROVE  RW!RwNext
  <2>1. At("writing") = {} /\ At("writing")' = {}
    BY <1>3 DEF At, Move, NoWriter, LockInv, BitExact, WritePlaces
  <2>2. t \notin At("reading") /\ At("reading")' = At("reading") \cup {t}
    BY <1>3 DEF At, Move
  <2> QED
    BY <2>1, <2>2 DEF RW!RwNext, RW!RwRead
<1>4. ASSUME at[t] \in {"reading", "writing"}, at'[t] = "idle",
             \A u \in Lockers \ {t} : /\ at'[u] = "reading" <=> at[u] = "reading"
                                      /\ at'[u] = "writing" <=> at[u] = "writing"
      PROVE  RW!RwNext
  <2>1. t \in At("reading") \cup At("writing")
    BY <1>4 DEF At
  <2>2. At("reading")' = At("reading") \ {t} /\ At("writing")' = At("writing") \ {t}
    BY <1>4 DEF At
  <2> QED
    BY <2>1, <2>2 DEF RW!RwNext, RW!RwLeave
<1>5. CASE LockGate1(t)
  <2>1. CASE NoWriter /\ NoReaders
    BY <1>1, <1>5, <2>1 DEF LockGate1
  <2>2. CASE ~(NoWriter /\ NoReaders)
    BY <1>2, <1>5, <2>2 DEF LockGate1, Move, LockInv, LockTypeOK
  <2> QED
    BY <2>1, <2>2
<1>6. CASE LockGate2(t)
  <2>1. CASE NoReaders
    BY <1>1, <1>6, <2>1 DEF LockGate2
  <2>2. CASE ~NoReaders
    BY <1>2, <1>6, <2>2 DEF LockGate2, Move, LockInv, LockTypeOK
  <2> QED
    BY <2>1, <2>2
<1>7. CASE TryLock(t)
  BY <1>1, <1>7 DEF TryLock
<1>8. CASE Unlock(t)
  BY <1>4, <1>8 DEF Unlock, LockInv, LockTypeOK
<1>9. CASE LockShared(t) \/ TryLockShared(t)
  <2>1. CASE NoWriterNoMaxReaders
    BY <1>3, <1>9, <2>1 DEF LockShared, TryLockShared, NoWriterNoMaxReaders, NoWriter
  <2>2. CASE ~NoWriterNoMaxReaders
    BY <1>2, <1>9, <2>2 DEF LockShared, TryLockShared, Move, LockInv, LockTypeOK
  <2> QED
    BY <2>1, <2>2
<1>10. CASE UnlockShared(t)
  <2>1. CASE at' = Move({t}, "idle")
    BY <1>4, <1>10, <2>1 DEF UnlockShared, Move
  <2>2. CASE \E u \in At("wait1r") : at' = [Move({t}, "idle") EXCEPT ![u] = "rGate1"]
    BY <1>4, <1>10, <2>2 DEF UnlockShared, Move, At
  <2>3. CASE \E u \in At("wait2") : at' = [Move({t}, "idle") EXCEPT ![u] = "wGate2"]
    BY <1>4, <1>10, <2>3 DEF UnlockShared, Move, At
  <2> QED
    BY <1>10, <2>1, <2>2, <2>3 DEF UnlockShared, Wakes
<1>11. CASE Spurious(t)
  BY <1>2, <1>11 DEF Spurious, Move, LockInv, LockTypeOK
<1> QED
  BY <1>5, <1>6, <1>7, <1>8, <1>9, <1>10, <1>11

(* shared_mutex implements the reader-writer lock: with the threads that   *)
(* are inside as its readers and writers, every step of lock, try_lock,    *)
(* unlock and their shared forms, and every wakeup, is a step of RwLock or *)
(* none.                                                                   *)
THEOREM ImplementsRwLock == LockSpec => RefinesRwLock
<1>1. LockInit => RW!RwInit
  BY DEF LockInit, RW!RwInit, At
<1>2. LockInv /\ LockInv' /\ [LockNext]_lockvars
        => [RW!RwNext]_<<At("reading"), At("writing")>>
  <2> SUFFICES ASSUME LockInv, LockInv', [LockNext]_lockvars
               PROVE  RW!RwNext \/ SameOwners
    BY DEF SameOwners
  <2>1. CASE UNCHANGED lockvars
    BY <2>1 DEF lockvars, SameOwners, At
  <2> QED
    BY <2>1, StepsRefine
<1> QED
  BY <1>1, <1>2, LockInvariant, PTL DEF LockSpec, RefinesRwLock, RW!RwSpec

-----------------------------------------------------------------------------
(* Reference counts.  An object has at least as many references as handles *)
(* hold it, and one more while its maker does.                             *)
Holding(p, o) == {h \in Handles : p[h] = o}
Count(p, o) == Cardinality(Holding(p, o))
Pointees == Targets \cup {NoObject}
Owed(o) == IF o \in raw THEN 1 ELSE 0

RefInv ==
  /\ ptr \in [Handles -> Targets \cup {NoObject}] /\ raw \subseteq Targets
  /\ strong \in [Targets -> Int] /\ \A o \in Targets : strong[o] <= MaxRefs
  /\ NoDangling

LEMMA HoldersFinite ==
  ASSUME NEW p, NEW o
  PROVE  IsFiniteSet(Holding(p, o)) /\ Cardinality(Holding(p, o)) \in Nat
<1>1. Holding(p, o) \subseteq Handles
  BY DEF Holding
<1>2. IsFiniteSet(Holding(p, o))
  BY <1>1, OwnAssumption, FS_Subset
<1> QED BY <1>2, FS_CardinalityType

(* One handle is set to another object.                                    *)
Sets(p, q, h, x) ==
  p \in [Handles -> Pointees] /\ h \in Handles /\ x \in Pointees /\ q = [p EXCEPT ![h] = x]
Shifts(p, q, h, x, o) ==
  /\ x = p[h] => Count(q, o) = Count(p, o)
  /\ x # p[h] /\ o = x => Count(q, o) = Count(p, o) + 1
  /\ x # p[h] /\ o = p[h] => Count(q, o) = Count(p, o) - 1
  /\ o # x /\ o # p[h] => Count(q, o) = Count(p, o)

LEMMA HoldersChange ==
  ASSUME NEW p, NEW q, NEW h, NEW x, Sets(p, q, h, x), NEW o
  PROVE  Shifts(p, q, h, x, o)
<1> USE DEF Count, Sets, Shifts
<1>1. q \in [Handles -> Pointees]
  OBVIOUS
<1>2. q[h] = x /\ \A g \in Handles \ {h} : q[g] = p[g]
  BY <1>1
<1>3. ASSUME x = p[h] PROVE Holding(q, o) = Holding(p, o)
  BY <1>2, <1>3 DEF Holding
<1>4. ASSUME x # p[h], o = x PROVE Cardinality(Holding(q, o)) = Cardinality(Holding(p, o)) + 1
  <2>1. Holding(q, o) = Holding(p, o) \cup {h} /\ h \notin Holding(p, o)
    BY <1>2, <1>4 DEF Holding
  <2> QED BY <2>1, HoldersFinite, FS_AddElement
<1>5. ASSUME x # p[h], o = p[h] PROVE Cardinality(Holding(q, o)) = Cardinality(Holding(p, o)) - 1
  <2>1. Holding(q, o) = Holding(p, o) \ {h} /\ h \in Holding(p, o)
    BY <1>2, <1>5 DEF Holding
  <2> QED BY <2>1, HoldersFinite, FS_RemoveElement, ZenonT(60)
<1>6. ASSUME o # x, o # p[h] PROVE Holding(q, o) = Holding(p, o)
  BY <1>2, <1>6 DEF Holding
<1> QED BY <1>3, <1>4, <1>5, <1>6

LEMMA RefStep ==
  ASSUME RefInv, RefNext
  PROVE  RefInv'
<1>1. /\ ptr \in [Handles -> Pointees] /\ raw \subseteq Targets /\ strong \in [Targets -> Int]
      /\ \A o \in Targets : strong[o] <= MaxRefs
      /\ NoObject \notin Targets /\ MaxRefs \in Nat /\ MaxRefs >= 1
  BY OwnAssumption DEF RefInv, Pointees
<1> USE DEF Pointees
<1>2. \A p, o : Count(p, o) \in Nat
  BY HoldersFinite DEF Count
<1>3. \A o \in Targets : strong[o] >= Count(ptr, o) + Owed(o)
  BY DEF RefInv, NoDangling, Count, Holding, Owed
<1>4. ASSUME ptr' \in [Handles -> Pointees], raw' \subseteq Targets, strong' \in [Targets -> Int],
             \A o \in Targets : strong'[o] <= MaxRefs /\ strong'[o] >= Count(ptr', o) + (IF o \in raw' THEN 1 ELSE 0)
      PROVE  RefInv'
  BY <1>4 DEF RefInv, NoDangling, Pointees, Count, Holding
<1>6. ASSUME NEW o \in Targets, New(o) PROVE RefInv'
  <2>1. /\ ptr' = ptr /\ strong' = [strong EXCEPT ![o] = 1] /\ raw' = raw \cup {o}
        /\ \A h \in Handles : ptr[h] # o
    BY <1>6 DEF New
  <2>2. Count(ptr, o) = 0
    <3>1. Holding(ptr, o) = {}
      BY <2>1 DEF Holding
    <3> QED BY <3>1, FS_EmptySet DEF Count
  <2>3. ASSUME NEW e \in Targets
        PROVE  strong'[e] <= MaxRefs /\ strong'[e] >= Count(ptr', e) + (IF e \in raw' THEN 1 ELSE 0)
    <3>1. CASE e = o
      BY <1>1, <2>1, <2>2, <3>1
    <3>2. CASE e # o
      BY <1>1, <1>3, <2>1, <3>2 DEF Owed
    <3> QED BY <3>1, <3>2
  <2>4. ptr' \in [Handles -> Pointees] /\ raw' \subseteq Targets /\ strong' \in [Targets -> Int]
    BY <1>1, <2>1
  <2> QED BY <1>4, <2>3, <2>4
<1>7. ASSUME NEW h \in Handles, NEW o \in Targets, Adopt(h, o) PROVE RefInv'
  <2>1. /\ o \in raw /\ raw' = raw \ {o} /\ strong' = Reset(strong, h, o) /\ ptr' = [ptr EXCEPT ![h] = o]
    BY <1>7 DEF Adopt
  <2>2. PICK a \in Pointees : a = ptr[h]
    BY <1>1
  <2>3. strong' = IF a = o \/ a = NoObject THEN strong ELSE [strong EXCEPT ![a] = @ - 1]
    BY <2>1, <2>2 DEF Reset, Released
  <2>4. ASSUME NEW e \in Targets
        PROVE  strong'[e] <= MaxRefs /\ strong'[e] >= Count(ptr', e) + (IF e \in raw' THEN 1 ELSE 0)
    <3>1. /\ o = a => Count(ptr', e) = Count(ptr, e)
          /\ o # a /\ e = o => Count(ptr', e) = Count(ptr, e) + 1
          /\ o # a /\ e = a => Count(ptr', e) = Count(ptr, e) - 1
          /\ e # o /\ e # a => Count(ptr', e) = Count(ptr, e)
      <4>1. Sets(ptr, ptr', h, o)
        BY <1>1, <2>1, <2>2 DEF Sets
      <4> QED BY <2>1, <2>2, <4>1, HoldersChange DEF Shifts
    <3>2. strong[e] >= Count(ptr, e) + Owed(e) /\ strong[e] \in Int /\ strong[e] <= MaxRefs /\ Count(ptr, e) \in Nat
      BY <1>1, <1>2, <1>3
    <3>3. strong'[e] = IF e = a /\ a # o THEN strong[e] - 1 ELSE strong[e]
      BY <1>1, <2>3
    <3> QED BY <1>1, <2>1, <3>1, <3>2, <3>3 DEF Owed
  <2>5. ptr' \in [Handles -> Pointees] /\ raw' \subseteq Targets /\ strong' \in [Targets -> Int]
    BY <1>1, <2>1, <2>2, <2>3
  <2> QED BY <1>4, <2>4, <2>5
<1>8. ASSUME NEW h \in Handles, NEW g \in Handles, CopyAssign(h, g) PROVE RefInv'
  <2>1. PICK a \in Pointees, o \in Pointees : a = ptr[h] /\ o = ptr[g]
    BY <1>1
  <2>2. /\ o # NoObject => strong[o] < MaxRefs
        /\ strong' = Retained(Reset(strong, h, o), o) /\ ptr' = [ptr EXCEPT ![h] = o] /\ raw' = raw
    BY <1>8, <2>1 DEF CopyAssign
  <2>3. PICK s : s = IF a = o \/ a = NoObject THEN strong ELSE [strong EXCEPT ![a] = @ - 1]
    OBVIOUS
  <2>4. strong' = IF o = NoObject THEN s ELSE [s EXCEPT ![o] = @ + 1]
    BY <2>1, <2>2, <2>3 DEF Retained, Reset, Released
  <2>5. s \in [Targets -> Int] /\ \A e \in Targets : s[e] = IF e = a /\ a # o THEN strong[e] - 1 ELSE strong[e]
    BY <1>1, <2>1, <2>3
  <2>6. /\ strong' \in [Targets -> Int]
        /\ \A e \in Targets : strong'[e] = IF e = o THEN s[e] + 1 ELSE s[e]
    BY <1>1, <2>1, <2>4, <2>5
  <2>7. ASSUME NEW e \in Targets
        PROVE  strong'[e] <= MaxRefs /\ strong'[e] >= Count(ptr', e) + (IF e \in raw' THEN 1 ELSE 0)
    <3>1. /\ o = a => Count(ptr', e) = Count(ptr, e)
          /\ o # a /\ e = o => Count(ptr', e) = Count(ptr, e) + 1
          /\ o # a /\ e = a => Count(ptr', e) = Count(ptr, e) - 1
          /\ e # o /\ e # a => Count(ptr', e) = Count(ptr, e)
      <4>1. Sets(ptr, ptr', h, o)
        BY <1>1, <2>1, <2>2 DEF Sets
      <4> QED BY <2>1, <2>2, <4>1, HoldersChange DEF Shifts
    <3>2. /\ strong[e] >= Count(ptr, e) + Owed(e) /\ strong[e] \in Int /\ strong[e] <= MaxRefs /\ Count(ptr, e) \in Nat
          /\ e = o => strong[e] < MaxRefs
      BY <1>1, <1>2, <1>3, <2>2
    <3>3. strong'[e] = IF e = o THEN strong[e] + 1 ELSE IF e = a THEN strong[e] - 1 ELSE strong[e]
      BY <2>5, <2>6, <3>2
    <3> QED BY <1>1, <2>2, <3>1, <3>2, <3>3 DEF Owed
  <2>8. ptr' \in [Handles -> Pointees] /\ raw' \subseteq Targets
    BY <1>1, <2>1, <2>2
  <2> QED BY <1>4, <2>6, <2>7, <2>8
<1>9. ASSUME NEW h \in Handles, NEW g \in Handles, MoveAssign(h, g) PROVE RefInv'
  <2>1. PICK o \in Pointees : o = ptr[g]
    BY <1>1
  <2>2. PICK p : p = [ptr EXCEPT ![g] = NoObject]
    OBVIOUS
  <2>3. p \in [Handles -> Pointees]
    BY <1>1, <2>2
  <2>4. PICK a \in Pointees : a = p[h]
    BY <2>3
  <2>5. /\ strong' = (IF a = o THEN strong ELSE Released(strong, a)) /\ ptr' = [p EXCEPT ![h] = o] /\ raw' = raw
    BY <1>9, <2>1, <2>2, <2>4 DEF MoveAssign
  <2>6. strong' = IF a = o \/ a = NoObject THEN strong ELSE [strong EXCEPT ![a] = @ - 1]
    BY <2>5 DEF Released
  <2>7. /\ strong' \in [Targets -> Int]
        /\ \A e \in Targets : strong'[e] = IF e = a /\ a # o THEN strong[e] - 1 ELSE strong[e]
    BY <1>1, <2>4, <2>6
  <2>8. ASSUME NEW e \in Targets
        PROVE  strong'[e] <= MaxRefs /\ strong'[e] >= Count(ptr', e) + (IF e \in raw' THEN 1 ELSE 0)
    <3>1. /\ o = a => Count(ptr', e) = Count(p, e)
          /\ o # a /\ e = o => Count(ptr', e) = Count(p, e) + 1
          /\ o # a /\ e = a => Count(ptr', e) = Count(p, e) - 1
          /\ e # o /\ e # a => Count(ptr', e) = Count(p, e)
      <4>1. Sets(p, ptr', h, o)
        BY <2>3, <2>5 DEF Sets
      <4> QED BY <2>4, <4>1, HoldersChange DEF Shifts
    <3>2. /\ o = NoObject => Count(p, e) = Count(ptr, e)
          /\ o # NoObject /\ e = o => Count(p, e) = Count(ptr, e) - 1
          /\ e # NoObject /\ e # o => Count(p, e) = Count(ptr, e)
      <4>1. Sets(ptr, p, g, NoObject)
        BY <1>1, <2>2 DEF Sets
      <4> QED BY <2>1, <4>1, HoldersChange DEF Shifts
    <3>3. /\ strong[e] >= Count(ptr, e) + Owed(e) /\ strong[e] \in Int /\ strong[e] <= MaxRefs /\ Count(ptr, e) \in Nat
          /\ e # NoObject
      BY <1>1, <1>2, <1>3
    <3>5. strong'[e] = IF e = a /\ a # o THEN strong[e] - 1 ELSE strong[e]
      BY <2>7
    <3> QED BY <1>1, <2>5, <3>1, <3>2, <3>3, <3>5 DEF Owed
  <2>9. ptr' \in [Handles -> Pointees] /\ raw' \subseteq Targets
    BY <1>1, <2>1, <2>3, <2>5
  <2> QED BY <1>4, <2>7, <2>8, <2>9
<1>10. ASSUME NEW h \in Handles, Drop(h) PROVE RefInv'
  <2>1. PICK a \in Targets : a = ptr[h]
    BY <1>1, <1>10 DEF Drop, Pointees
  <2>2. strong' = [strong EXCEPT ![a] = @ - 1] /\ ptr' = [ptr EXCEPT ![h] = NoObject] /\ raw' = raw
    BY <1>1, <1>10, <2>1 DEF Drop, Released
  <2>3. ASSUME NEW e \in Targets
        PROVE  strong'[e] <= MaxRefs /\ strong'[e] >= Count(ptr', e) + (IF e \in raw' THEN 1 ELSE 0)
    <3>1. (e = a => Count(ptr', e) = Count(ptr, e) - 1) /\ (e # a => Count(ptr', e) = Count(ptr, e))
      <4>1. NoObject \in Pointees /\ NoObject # a /\ e # NoObject
        BY <1>1 DEF Pointees
      <4>2. Sets(ptr, ptr', h, NoObject)
        BY <1>1, <2>2 DEF Sets
      <4> QED BY <2>1, <4>1, <4>2, HoldersChange DEF Shifts
    <3>2. strong[e] >= Count(ptr, e) + Owed(e) /\ strong[e] \in Int /\ strong[e] <= MaxRefs /\ Count(ptr, e) \in Nat
      BY <1>1, <1>2, <1>3
    <3>3. strong'[e] = IF e = a THEN strong[e] - 1 ELSE strong[e]
      BY <1>1, <2>2
    <3> QED BY <1>1, <2>2, <3>1, <3>2, <3>3 DEF Owed
  <2>4. ptr' \in [Handles -> Pointees] /\ raw' \subseteq Targets /\ strong' \in [Targets -> Int]
    BY <1>1, <2>1, <2>2
  <2> QED BY <1>4, <2>3, <2>4
<1> QED BY <1>6, <1>7, <1>8, <1>9, <1>10 DEF RefNext

(* The singleton.  What was deleted was made, and what is published was.   *)
OneInv ==
  /\ made \in 0..MaxMade /\ single \in 0..made /\ ended \subseteq 1..made
  /\ user \in [Users -> [at : {"out", "lock", "load"}, got : Nat]]
  /\ OneInstance /\ SameInstance

LEMMA OneStep ==
  ASSUME OneInv, OneNext
  PROVE  OneInv'
<1>1. /\ made \in Nat /\ MaxMade \in Nat /\ made <= MaxMade /\ single \in Nat /\ single <= made
      /\ \A i \in ended : i \in Nat /\ 1 <= i /\ i <= made
      /\ user \in [Users -> [at : {"out", "lock", "load"}, got : Nat]]
  BY OwnAssumption DEF OneInv
<1>2. /\ \A i \in Nat : 1 <= i /\ i <= made /\ i \notin ended <=> single # 0 /\ i = single
      /\ \A u \in Users : user[u].got <= made
      /\ (\A i : i \notin ended) /\ made > 0 => \A u \in Users : user[u].got \in {0, single}
  <2>1. 1..made \ ended = (IF single = 0 THEN {} ELSE {single})
    BY DEF OneInv, OneInstance
  <2>2. \A i \in Nat : 1 <= i /\ i <= made /\ i \notin ended <=> i \in 1..made \ ended
    BY <1>1
  <2>3. \A u \in Users : user[u].got <= made
    BY <1>1 DEF OneInv, OneInstance
  <2>4. (\A i : i \notin ended) => ended = {}
    OBVIOUS
  <2> QED BY <1>1, <2>1, <2>2, <2>3, <2>4 DEF OneInv, SameInstance
<1>3. ASSUME /\ made' \in Nat /\ made' <= MaxMade /\ single' \in Nat /\ single' <= made'
             /\ \A i \in ended' : i \in Nat /\ 1 <= i /\ i <= made'
             /\ user' \in [Users -> [at : {"out", "lock", "load"}, got : Nat]]
             /\ \A i \in Nat : 1 <= i /\ i <= made' /\ i \notin ended' <=> single' # 0 /\ i = single'
             /\ \A u \in Users : user'[u].got <= made'
             /\ (\A i : i \notin ended') /\ made' > 0 => \A u \in Users : user'[u].got \in {0, single'}
      PROVE  OneInv'
  <2>1. made' \in 0..MaxMade /\ single' \in 0..made' /\ ended' \subseteq 1..made'
    BY <1>1, <1>3
  <2>2. 1..made' \ ended' = (IF single' = 0 THEN {} ELSE {single'})
    <3>1. \A i : i \in 1..made' \ ended' <=> i \in Nat /\ 1 <= i /\ i <= made' /\ i \notin ended'
      BY <1>3
    <3>2. \A i : i \in 1..made' \ ended' <=> single' # 0 /\ i = single'
      BY <1>3, <3>1
    <3> QED BY <3>2
  <2>3. \A u \in Users : user'[u].got \in 0..made'
    BY <1>3
  <2>4. ended' = {} => \A i : i \notin ended'
    OBVIOUS
  <2> QED BY <1>3, <2>1, <2>2, <2>3, <2>4 DEF OneInv, OneInstance, SameInstance
<1>4. ASSUME NEW u \in Users, Instance(u) PROVE OneInv'
  <2>1. PICK a \in {"lock", "load"} : user' = [user EXCEPT ![u] = [at |-> a, got |-> 0]]
    BY <1>4 DEF Instance
  <2>2. UNCHANGED <<single, made, ended>>
    BY <1>4 DEF Instance
  <2>3. user' \in [Users -> [at : {"out", "lock", "load"}, got : Nat]]
    BY <1>1, <2>1
  <2>4. \A v \in Users : user'[v].got = 0 \/ user'[v].got = user[v].got
    BY <1>1, <2>1
  <2> QED BY <1>1, <1>2, <1>3, <2>2, <2>3, <2>4
<1>5. ASSUME NEW u \in Users, Construct(u) PROVE OneInv'
  <2>1. /\ user' = [user EXCEPT ![u].at = "load"] /\ ended' = ended
        /\ IF single = 0 THEN made < MaxMade /\ made' = made + 1 /\ single' = made + 1
           ELSE UNCHANGED <<made, single>>
    BY <1>5 DEF Construct
  <2>2. user' \in [Users -> [at : {"out", "lock", "load"}, got : Nat]]
    BY <1>1, <2>1
  <2>3. \A v \in Users : user'[v].got = user[v].got /\ user[v].got \in Nat
    BY <1>1, <2>1
  <2>4. CASE single # 0
    BY <1>1, <1>2, <1>3, <2>1, <2>2, <2>3, <2>4
  <2>5. CASE single = 0
    <3>1. made' = made + 1 /\ single' = made + 1 /\ made < MaxMade
      BY <2>1, <2>5
    <3>2. made + 1 \notin ended /\ \A i \in Nat : 1 <= i /\ i <= made => i \in ended
      BY <1>1, <1>2, <2>5
    <3>3. \A i \in Nat : 1 <= i /\ i <= made' /\ i \notin ended' <=> single' # 0 /\ i = single'
      BY <1>1, <2>1, <3>1, <3>2
    <3>4. (\A i : i \notin ended') => \A v \in Users : user'[v].got = 0
      <4> SUFFICES ASSUME \A i : i \notin ended, NEW v \in Users PROVE user[v].got = 0
        BY <2>1, <2>3
      <4>1. made = 0
        BY <1>1, <3>2
      <4> QED BY <1>2, <2>3, <4>1
    <3>5. \A v \in Users : user'[v].got <= made'
      BY <1>1, <1>2, <2>3, <3>1
    <3>6. /\ made' \in Nat /\ made' <= MaxMade /\ single' \in Nat /\ single' <= made'
          /\ \A i \in ended' : i \in Nat /\ 1 <= i /\ i <= made'
      BY <1>1, <2>1, <3>1
    <3> QED BY <1>3, <2>2, <3>3, <3>4, <3>5, <3>6
  <2> QED BY <2>4, <2>5
<1>6. ASSUME NEW u \in Users, ReturnInstance(u) PROVE OneInv'
  <2>1. user' = [user EXCEPT ![u] = [at |-> "out", got |-> single]] /\ UNCHANGED <<single, made, ended>>
    BY <1>6 DEF ReturnInstance
  <2>2. user' \in [Users -> [at : {"out", "lock", "load"}, got : Nat]]
    BY <1>1, <2>1
  <2>3. \A v \in Users : user'[v].got = single \/ user'[v].got = user[v].got
    BY <1>1, <2>1
  <2> QED BY <1>1, <1>2, <1>3, <2>1, <2>2, <2>3
<1>7. ASSUME DestroyInstance PROVE OneInv'
  <2>1. single # 0 /\ ended' = ended \cup {single} /\ single' = 0 /\ made' = made /\ user' = user
    BY <1>7 DEF DestroyInstance
  <2>2. \A i \in Nat : 1 <= i /\ i <= made' /\ i \notin ended' <=> single' # 0 /\ i = single'
    BY <1>1, <1>2, <2>1
  <2>3. ~(\A i : i \notin ended')
    BY <2>1
  <2> QED BY <1>1, <1>2, <1>3, <2>1, <2>2, <2>3
<1> QED BY <1>4, <1>5, <1>6, <1>7 DEF OneNext

LEMMA OwnersSafe ==
  ASSUME RefInv, OneInv
  PROVE  OwnTypeOK /\ NoDangling /\ OneInstance /\ SameInstance
<1>1. MaxRefs \in Nat /\ MaxMade \in Nat
  BY OwnAssumption
<1>2. ASSUME NEW o \in Targets PROVE strong[o] \in 0..MaxRefs
  <2>1. PICK n : n = Cardinality({h \in Handles : ptr[h] = o})
    OBVIOUS
  <2>2. n \in Nat
    BY <2>1, HoldersFinite DEF Holding
  <2>3. strong[o] \in Int /\ strong[o] <= MaxRefs /\ strong[o] >= n + (IF o \in raw THEN 1 ELSE 0)
    BY <2>1 DEF RefInv, NoDangling
  <2> QED BY <1>1, <2>2, <2>3
<1>3. single \in 0..MaxMade /\ made \in 0..MaxMade /\ ended \subseteq 1..MaxMade
  <2>1. made \in Nat /\ made <= MaxMade /\ single \in 0..made /\ ended \subseteq 1..made
    BY <1>1 DEF OneInv
  <2> QED BY <1>1, <2>1
<1> QED BY <1>2, <1>3 DEF RefInv, OneInv, OwnTypeOK

(* The object pool.  q lists the n elements of F from h on, link by link.  *)
FreeList(n, q, h, links, F) ==
  /\ n \in Nat /\ q \in [1..n -> F]
  /\ \A i, j \in 1..n : q[i] = q[j] => i = j
  /\ \A e \in F : \E i \in 1..n : q[i] = e
  /\ h = (IF n = 0 THEN Null ELSE q[1])
  /\ \A i \in 1..n : links[q[i]] = IF i = n THEN Null ELSE q[i + 1]

PoolInv ==
  /\ chunks \in 0..MaxChunks /\ used \subseteq Elements(chunks)
  /\ next = [e \in Elements(chunks) |-> next[e]]
  /\ \E n, q : FreeList(n, q, head, next, Elements(chunks) \ used)

(* Chunk c + 1 lies behind the first c.                                    *)
LEMMA ChunkAt ==
  ASSUME NEW c \in Nat
  PROVE  /\ PoolCount \in Nat /\ PoolCount >= 1 /\ c * PoolCount \in Nat
         /\ FirstOf(c + 1) = c * PoolCount + 1 /\ LastOf(c + 1) = c * PoolCount + PoolCount
         /\ Elements(c) = 1..(c * PoolCount) /\ Elements(c + 1) = 1..(c * PoolCount + PoolCount)
<1>1. PoolCount \in Nat /\ PoolCount >= 1
  BY PoolAssumption
<1>2. c * PoolCount \in Nat /\ (c + 1) - 1 = c /\ (c + 1) * PoolCount = c * PoolCount + PoolCount
  BY <1>1
<1> QED BY <1>1, <1>2 DEF FirstOf, LastOf, Elements

LEMMA ChunksApart ==
  ASSUME NEW c \in Nat, NEW d \in Nat, c < d
  PROVE  LastOf(c) + PoolCount <= LastOf(d)
<1>1. PoolCount \in Nat
  BY PoolAssumption
<1>2. PICK k \in Nat : d = c + 1 + k
  <2>1. d - (c + 1) \in Nat /\ d = c + 1 + (d - (c + 1))
    OBVIOUS
  <2> QED BY <2>1
<1>3. d * PoolCount = c * PoolCount + PoolCount + k * PoolCount
  BY <1>1, <1>2
<1>4. k * PoolCount \in Nat /\ c * PoolCount \in Nat
  BY <1>1
<1> QED BY <1>1, <1>3, <1>4 DEF LastOf

(* A new chunk is a list, from any of its elements on.                     *)
LEMMA ChunkList ==
  ASSUME NEW a \in Nat, NEW p \in Nat, NEW links,
         \A e \in (a + 1)..(a + p) : links[e] = IF e = a + p THEN Null ELSE e + 1
  PROVE  FreeList(p, [i \in 1..p |-> a + i], IF p = 0 THEN Null ELSE a + 1, links, (a + 1)..(a + p))
<1>1. PICK q : q = [i \in 1..p |-> a + i]
  OBVIOUS
<1>2. \A i \in 1..p : q[i] = a + i /\ a + i \in (a + 1)..(a + p)
  BY <1>1
<1>3. q \in [1..p -> (a + 1)..(a + p)] /\ \A i, j \in 1..p : q[i] = q[j] => i = j
  BY <1>1, <1>2
<1>4. ASSUME NEW e \in (a + 1)..(a + p) PROVE \E i \in 1..p : q[i] = e
  <2>1. e - a \in 1..p /\ a + (e - a) = e
    OBVIOUS
  <2> QED BY <1>2, <2>1
<1>5. (IF p = 0 THEN Null ELSE a + 1) = (IF p = 0 THEN Null ELSE q[1])
  <2>1. p # 0 => 1 \in 1..p
    OBVIOUS
  <2> QED BY <1>2, <2>1
<1>6. ASSUME NEW i \in 1..p PROVE links[q[i]] = IF i = p THEN Null ELSE q[i + 1]
  <2>1. links[q[i]] = IF a + i = a + p THEN Null ELSE (a + i) + 1
    BY <1>2
  <2>2. CASE i = p
    BY <2>1, <2>2
  <2>3. CASE i # p
    <3>1. i + 1 \in 1..p /\ a + (i + 1) = (a + i) + 1 /\ a + i # a + p
      BY <2>3
    <3> QED BY <1>2, <2>1, <2>3, <3>1
  <2> QED BY <2>2, <2>3
<1> QED BY <1>1, <1>3, <1>4, <1>5, <1>6 DEF FreeList

(* One list behind another.                                                *)
Linked(links, m, s, h, left, E, right) ==
  /\ m > 0 /\ \A i \in 1..m : links[s[i]] = IF i = m THEN h ELSE left[s[i]]
  /\ \A e \in E : links[e] = right[e]

LEMMA ListsJoin ==
  ASSUME NEW m, NEW s, NEW g, NEW F, NEW n, NEW q, NEW h, NEW E, NEW left, NEW right, NEW links,
         FreeList(m, s, g, left, F), FreeList(n, q, h, right, E), F \cap E = {},
         Linked(links, m, s, h, left, E, right)
  PROVE  \E k, r : FreeList(k, r, g, links, F \cup E)
<1> USE DEF FreeList, Linked
<1>1. m \in Nat /\ n \in Nat /\ s \in [1..m -> F] /\ q \in [1..n -> E]
  OBVIOUS
<1>2. PICK r : r = [i \in 1..(m + n) |-> IF i <= m THEN s[i] ELSE q[i - m]]
  OBVIOUS
<1>3. \A i \in 1..m : i \in 1..(m + n) /\ r[i] = s[i] /\ r[i] \in F
  BY <1>1, <1>2
<1>4. \A i \in 1..n : m + i \in 1..(m + n) /\ r[m + i] = q[i] /\ r[m + i] \in E
  BY <1>1, <1>2
<1>5. \A i \in 1..(m + n) : i \in 1..m \/ (i - m \in 1..n /\ m + (i - m) = i)
  BY <1>1
<1>6. r \in [1..(m + n) -> F \cup E]
  BY <1>2, <1>3, <1>4, <1>5
<1>7. ASSUME NEW i \in 1..(m + n), NEW j \in 1..(m + n), r[i] = r[j] PROVE i = j
  <2>1. CASE i \in 1..m /\ j \in 1..m
    BY <1>3, <1>7, <2>1
  <2>2. CASE i \in 1..m /\ j - m \in 1..n /\ m + (j - m) = j
    BY <1>3, <1>4, <1>7, <2>2
  <2>3. CASE j \in 1..m /\ i - m \in 1..n /\ m + (i - m) = i
    BY <1>3, <1>4, <1>7, <2>3
  <2>4. CASE i - m \in 1..n /\ m + (i - m) = i /\ j - m \in 1..n /\ m + (j - m) = j
    <3>1. q[i - m] = q[j - m]
      BY <1>4, <1>7, <2>4
    <3>2. i - m = j - m
      BY <2>4, <3>1
    <3> QED BY <2>4, <3>2
  <2> QED BY <1>5, <2>1, <2>2, <2>3, <2>4
<1>8. ASSUME NEW e \in F \cup E PROVE \E i \in 1..(m + n) : r[i] = e
  <2>1. CASE e \in F
    <3>1. PICK i \in 1..m : s[i] = e
      BY <2>1
    <3> QED BY <1>3, <3>1
  <2>2. CASE e \in E
    <3>1. PICK i \in 1..n : q[i] = e
      BY <2>2
    <3> QED BY <1>4, <3>1
  <2> QED BY <2>1, <2>2
<1>9. m + n \in Nat /\ m + n # 0 /\ 1 \in 1..m
  BY <1>1
<1>10. g = r[1]
  BY <1>1, <1>3, <1>9
<1>11. ASSUME NEW i \in 1..(m + n) PROVE links[r[i]] = IF i = m + n THEN Null ELSE r[i + 1]
  <2>1. CASE i \in 1..m /\ i # m
    <3>1. i + 1 \in 1..m /\ i # m + n
      BY <1>1, <2>1
    <3>2. left[s[i]] = s[i + 1] /\ links[s[i]] = left[s[i]]
      BY <2>1, <3>1
    <3> QED BY <1>3, <2>1, <3>1, <3>2
  <2>2. CASE i = m
    <3>1. links[r[i]] = h
      BY <1>1, <1>3, <1>9, <2>2
    <3>2. CASE n = 0
      BY <1>1, <2>2, <3>1, <3>2
    <3>3. CASE n # 0
      <4>1. 1 \in 1..n /\ i # m + n /\ i + 1 = m + 1
        BY <1>1, <2>2, <3>3
      <4>2. r[m + 1] = q[1]
        BY <1>4, <4>1
      <4> QED BY <3>1, <3>3, <4>1, <4>2
    <3> QED BY <3>2, <3>3
  <2>3. CASE i - m \in 1..n /\ m + (i - m) = i
    <3>1. PICK j \in 1..n : j = i - m
      BY <2>3
    <3>2. i = m + j /\ r[i] = q[j] /\ q[j] \in E
      BY <1>4, <2>3, <3>1
    <3>3. links[r[i]] = IF j = n THEN Null ELSE q[j + 1]
      BY <3>2
    <3>4. CASE j = n
      BY <1>1, <3>2, <3>3, <3>4
    <3>5. CASE j # n
      <4>0. j \in Nat /\ 1 <= j /\ j < n
        BY <1>1, <3>1, <3>5
      <4>1. j + 1 \in 1..n /\ i # m + n /\ i + 1 = m + (j + 1)
        BY <1>1, <3>2, <4>0
      <4>2. r[i + 1] = q[j + 1]
        BY <1>4, <4>1
      <4> QED BY <3>3, <3>5, <4>1, <4>2
    <3> QED BY <3>4, <3>5
  <2> QED BY <1>5, <2>1, <2>2, <2>3
<1>12. FreeList(m + n, r, g, links, F \cup E)
  BY <1>6, <1>7, <1>8, <1>9, <1>10, <1>11
<1> HIDE DEF FreeList, Linked
<1> QED BY <1>12

LEMMA PoolStarts ==
  ASSUME PoolInit
  PROVE  PoolInv
<1>1. PICK p \in Nat : p = PoolCount /\ p >= 1
  BY PoolAssumption
<1>2. FirstOf(1) = 1 /\ FirstOf(0 + 1) = 1 /\ LastOf(0 + 1) = p /\ Elements(1) = 1..p
  BY <1>1 DEF FirstOf, LastOf, Elements
<1>3. next = [e \in 1..p |-> IF e = p THEN Null ELSE e + 1]
  <2>1. DOMAIN << >> \cup 1..p = 1..p
    OBVIOUS
  <2>2. Tidy(<< >>, 0 + 1) = [e \in 1..p |-> IF e \in 1..(p - 1) THEN e + 1 ELSE Null]
    BY <1>2, <2>1 DEF Tidy
  <2>3. \A e \in 1..p : e \in 1..(p - 1) <=> e # p
    OBVIOUS
  <2>4. next = [[e \in 1..p |-> IF e \in 1..(p - 1) THEN e + 1 ELSE Null] EXCEPT ![p] = Null]
    BY <1>2, <2>2 DEF PoolInit, NewChunk
  <2> QED BY <1>1, <2>3, <2>4
<1>4. FreeList(p, [i \in 1..p |-> 0 + i], IF p = 0 THEN Null ELSE 0 + 1, next, (0 + 1)..(0 + p))
  <2>1. \A e \in (0 + 1)..(0 + p) : next[e] = IF e = 0 + p THEN Null ELSE e + 1
    BY <1>1, <1>3
  <2> QED BY <2>1, ChunkList
<1>5. (0 + 1)..(0 + p) = Elements(1) \ used /\ (IF p = 0 THEN Null ELSE 0 + 1) = head
  BY <1>1, <1>2 DEF PoolInit
<1>6. \E n, q : FreeList(n, q, head, next, Elements(chunks) \ used)
  BY <1>4, <1>5 DEF PoolInit
<1>7. chunks \in 0..MaxChunks /\ used \subseteq Elements(chunks)
  BY PoolAssumption DEF PoolInit
<1>8. next = [e \in Elements(chunks) |-> next[e]]
  BY <1>2, <1>3 DEF PoolInit
<1> QED BY <1>6, <1>7, <1>8 DEF PoolInv

LEMMA PoolAllocates ==
  ASSUME PoolInv, Allocate
  PROVE  PoolInv'
<1>1. PICK c \in Nat : c = chunks /\ c <= MaxChunks
  BY PoolAssumption DEF PoolInv
<1>2. PICK a, p : a = c * PoolCount /\ p = PoolCount
  OBVIOUS
<1>3. /\ p \in Nat /\ p >= 1 /\ a \in Nat /\ FirstOf(c + 1) = a + 1 /\ LastOf(c + 1) = a + p
      /\ Elements(c) = 1..a /\ Elements(c + 1) = 1..(a + p)
  BY <1>2, ChunkAt
<1>4. next = [e \in 1..a |-> next[e]] /\ used \subseteq 1..a
  BY <1>1, <1>3 DEF PoolInv
<1>5. PICK n, q : FreeList(n, q, head, next, 1..a \ used)
  BY <1>1, <1>3 DEF PoolInv
<1>6. /\ n \in Nat /\ q \in [1..n -> 1..a \ used] /\ head = (IF n = 0 THEN Null ELSE q[1])
      /\ \A i, j \in 1..n : q[i] = q[j] => i = j
      /\ \A e \in 1..a \ used : \E i \in 1..n : q[i] = e
      /\ \A i \in 1..n : next[q[i]] = IF i = n THEN Null ELSE q[i + 1]
  BY <1>5 DEF FreeList
<1>7. CASE n # 0
  <2>1. 1 \in 1..n
    BY <1>6, <1>7
  <2>2. q[1] \in 1..a /\ q[1] \notin used /\ head = q[1] /\ head # Null
    BY <1>3, <1>6, <1>7, <2>1 DEF Null
  <2>3. head' = next[head] /\ used' = used \cup {head} /\ next' = [next EXCEPT ![head] = Junk] /\ chunks' = chunks
    BY <2>2 DEF Allocate
  <2>4. PICK F : F = 1..a \ used'
    OBVIOUS
  <2>5. PICK r : r = [i \in 1..(n - 1) |-> q[i + 1]]
    OBVIOUS
  <2>6. \A i \in 1..(n - 1) : i + 1 \in 1..n /\ i + 1 # 1 /\ r[i] = q[i + 1]
    BY <1>6, <2>5
  <2>7. \A i \in 1..(n - 1) : r[i] \in F /\ r[i] # head /\ r[i] \in 1..a
    BY <1>6, <2>1, <2>2, <2>3, <2>4, <2>6
  <2>8. r \in [1..(n - 1) -> F] /\ n - 1 \in Nat
    BY <1>6, <1>7, <2>5, <2>7
  <2>9. ASSUME NEW i \in 1..(n - 1), NEW j \in 1..(n - 1), r[i] = r[j] PROVE i = j
    <3>1. i + 1 = j + 1
      BY <1>6, <2>6, <2>9
    <3> QED BY <3>1, <2>8, <2>9
  <2>10. ASSUME NEW e \in F PROVE \E i \in 1..(n - 1) : r[i] = e
    <3>1. e \in 1..a \ used /\ e # head
      BY <2>3, <2>4
    <3>2. PICK i \in 1..n : q[i] = e
      BY <1>6, <3>1
    <3>3. i # 1
      BY <2>2, <3>1, <3>2
    <3>4. i - 1 \in 1..(n - 1) /\ (i - 1) + 1 = i
      BY <1>6, <3>3
    <3> QED BY <2>6, <3>2, <3>4
  <2>11. head' = IF n - 1 = 0 THEN Null ELSE r[1]
    <3>1. head' = IF 1 = n THEN Null ELSE q[1 + 1]
      BY <1>6, <2>1, <2>2, <2>3
    <3>2. CASE n = 1
      BY <3>1, <3>2
    <3>3. CASE n # 1
      <4>1. n - 1 # 0 /\ 1 \in 1..(n - 1)
        BY <1>6, <1>7, <3>3
      <4> QED BY <2>6, <3>1, <3>3, <4>1
    <3> QED BY <3>2, <3>3
  <2>12. ASSUME NEW i \in 1..(n - 1) PROVE next'[r[i]] = IF i = n - 1 THEN Null ELSE r[i + 1]
    <3>1. next'[r[i]] = next[q[i + 1]] /\ next[q[i + 1]] = IF i + 1 = n THEN Null ELSE q[(i + 1) + 1]
      BY <1>4, <1>6, <2>3, <2>6, <2>7
    <3>2. CASE i = n - 1
      <4>1. i + 1 = n
        BY <1>6, <3>2
      <4> QED BY <3>1, <3>2, <4>1
    <3>3. CASE i # n - 1
      <4>1. i + 1 \in 1..(n - 1) /\ i + 1 # n
        BY <1>6, <3>3
      <4> QED BY <2>6, <3>1, <3>3, <4>1
    <3> QED BY <3>2, <3>3
  <2>13. FreeList(n - 1, r, head', next', F)
    BY <2>8, <2>9, <2>10, <2>11, <2>12 DEF FreeList
  <2>14. next' = [e \in 1..a |-> next'[e]] /\ used' \subseteq 1..a
    BY <1>4, <2>2, <2>3
  <2>15. Elements(chunks)' = 1..a /\ chunks' \in 0..MaxChunks
    BY <1>1, <1>3, <2>3, PoolAssumption DEF PoolInv, Elements
  <2> QED BY <2>4, <2>13, <2>14, <2>15 DEF PoolInv
<1>8. CASE n = 0
  <2>1. 1..a \ used = {} /\ head = Null
    <3>1. 1..n = {}
      BY <1>8
    <3> QED BY <1>6, <1>8, <3>1
  <2>2. PICK links : links = NewChunk(next, c)
    OBVIOUS
  <2>3. /\ chunks' = c + 1 /\ c < MaxChunks /\ head' = links[a + 1] /\ next' = [links EXCEPT ![a + 1] = Junk]
        /\ used' = used \cup {a + 1}
    BY <1>1, <1>3, <2>1, <2>2 DEF Allocate
  <2>4. /\ links = [e \in 1..(a + p) |-> links[e]]
        /\ \A e \in (a + 1)..(a + p) : links[e] = IF e = a + p THEN Null ELSE e + 1
    <3>1. DOMAIN next \cup (a + 1)..(a + p) = 1..(a + p)
      <4>1. DOMAIN next = 1..a
        BY <1>4
      <4>2. 1..a \cup (a + 1)..(a + p) = 1..(a + p)
        BY <1>3
      <4> QED BY <4>1, <4>2
    <3>2. PICK t : t = Tidy(next, c + 1)
      OBVIOUS
    <3>3. t = [e \in 1..(a + p) |-> IF e \in (a + 1)..((a + p) - 1) THEN e + 1
                                   ELSE IF e \in DOMAIN next THEN next[e] ELSE Null]
      BY <1>3, <3>1, <3>2 DEF Tidy
    <3>4. links = [t EXCEPT ![a + p] = Null]
      BY <1>3, <2>2, <3>2 DEF NewChunk
    <3>5. links = [e \in 1..(a + p) |-> links[e]]
      BY <3>3, <3>4
    <3>6. ASSUME NEW e \in (a + 1)..(a + p) PROVE links[e] = IF e = a + p THEN Null ELSE e + 1
      <4>1. e \in 1..(a + p) /\ (e # a + p => e \in (a + 1)..((a + p) - 1))
        BY <1>3
      <4> QED BY <3>3, <3>4, <4>1
    <3> QED BY <3>5, <3>6
  <2>5. PICK b, r : b = a + 1 /\ r = p - 1
    OBVIOUS
  <2>6. b \in Nat /\ r \in Nat /\ b + r = a + p /\ 1..(a + p) \ used' = (b + 1)..(b + r) /\ b \in (a + 1)..(a + p)
    <3>1. b \in Nat /\ r \in Nat /\ b + r = a + p /\ b \in (a + 1)..(a + p)
      BY <1>3, <2>5
    <3>2. \A e : e \in used' <=> e \in 1..a \/ e = a + 1
      BY <1>4, <2>1, <2>3
    <3>3. \A e : e \in 1..(a + p) \ used' <=> e \in (b + 1)..(b + r)
      BY <1>3, <2>5, <3>1, <3>2
    <3> QED BY <3>1, <3>3
  <2>7. \A e \in (b + 1)..(b + r) : next'[e] = IF e = b + r THEN Null ELSE e + 1
    <3> SUFFICES ASSUME NEW e \in (b + 1)..(b + r) PROVE next'[e] = IF e = b + r THEN Null ELSE e + 1
      OBVIOUS
    <3>1. e \in (a + 1)..(a + p) /\ e # a + 1 /\ e \in 1..(a + p)
      BY <1>3, <2>5, <2>6
    <3>2. next'[e] = links[e]
      BY <2>3, <2>4, <3>1
    <3> QED BY <2>4, <2>6, <3>1, <3>2
  <2>8. head' = IF r = 0 THEN Null ELSE b + 1
    <3>1. head' = IF a + 1 = a + p THEN Null ELSE (a + 1) + 1
      BY <2>3, <2>4, <2>5, <2>6
    <3>2. r = 0 <=> a + 1 = a + p
      BY <1>3, <2>5
    <3> QED BY <2>5, <3>1, <3>2
  <2>9. FreeList(r, [i \in 1..r |-> b + i], head', next', (b + 1)..(b + r))
    BY <2>6, <2>7, <2>8, ChunkList
  <2>10. chunks' \in 0..MaxChunks /\ Elements(chunks)' = 1..(a + p)
    BY <1>3, <2>3, PoolAssumption DEF Elements
  <2>11. used' \subseteq 1..(a + p) /\ next' = [e \in 1..(a + p) |-> next'[e]]
    <3>1. \A e \in 1..a : e \in 1..(a + p)
      BY <1>3
    <3>2. a + 1 \in 1..(a + p)
      BY <1>3
    <3> QED BY <1>4, <2>3, <2>4, <3>1, <3>2
  <2> QED BY <2>6, <2>9, <2>10, <2>11 DEF PoolInv
<1> QED BY <1>7, <1>8

LEMMA PoolReleases ==
  ASSUME PoolInv, NEW e \in used, PoolRelease(e)
  PROVE  PoolInv'
<1>1. PICK E : E = Elements(chunks)
  OBVIOUS
<1>2. PICK n, q : FreeList(n, q, head, next, E \ used)
  BY <1>1 DEF PoolInv
<1>3. /\ n \in Nat /\ q \in [1..n -> E \ used] /\ head = (IF n = 0 THEN Null ELSE q[1])
      /\ \A i, j \in 1..n : q[i] = q[j] => i = j
      /\ \A x \in E \ used : \E i \in 1..n : q[i] = x
      /\ \A i \in 1..n : next[q[i]] = IF i = n THEN Null ELSE q[i + 1]
  BY <1>2 DEF FreeList
<1>4. next' = [next EXCEPT ![e] = head] /\ head' = e /\ used' = used \ {e} /\ chunks' = chunks
  BY DEF PoolRelease
<1>5. e \in E /\ used \subseteq E /\ next = [x \in E |-> next[x]]
  BY <1>1 DEF PoolInv
<1>6. FreeList(1, [i \in 1..1 |-> e], e, [x \in {e} |-> Null], {e})
  <2>1. 1..1 = {1}
    OBVIOUS
  <2>2. PICK s, l : s = [i \in 1..1 |-> e] /\ l = [x \in {e} |-> Null]
    OBVIOUS
  <2>3. s \in [1..1 -> {e}] /\ s[1] = e /\ l[s[1]] = Null
    BY <2>1, <2>2
  <2>4. \A i \in 1..1 : i = 1
    OBVIOUS
  <2> QED BY <2>2, <2>3, <2>4 DEF FreeList
<1>7. {e} \cap (E \ used) = {} /\ {e} \cup (E \ used) = E \ used' /\ 1 > 0
  BY <1>4, <1>5
<1>8. \A i \in 1..1 : next'[[k \in 1..1 |-> e][i]] = IF i = 1 THEN head ELSE [x \in {e} |-> Null][[k \in 1..1 |-> e][i]]
  <2>1. \A i \in 1..1 : i = 1 /\ [k \in 1..1 |-> e][i] = e
    OBVIOUS
  <2>2. next'[e] = head
    BY <1>4, <1>5
  <2> QED BY <2>1, <2>2
<1>9. \A x \in E \ used : next'[x] = next[x]
  BY <1>4, <1>5
<1>10. PICK s, l : s = [k \in 1..1 |-> e] /\ l = [x \in {e} |-> Null]
  OBVIOUS
<1>11. FreeList(1, s, e, l, {e}) /\ \A i \in 1..1 : next'[s[i]] = IF i = 1 THEN head ELSE l[s[i]]
  BY <1>6, <1>8, <1>10
<1>12. \E k, r : FreeList(k, r, e, next', {e} \cup (E \ used))
  <2>1. PICK G, H, links : G = {e} /\ H = E \ used /\ links = next'
    OBVIOUS
  <2>2. Linked(links, 1, s, head, l, H, next) /\ G \cap H = {}
    BY <1>7, <1>9, <1>11, <2>1 DEF Linked
  <2>3. FreeList(1, s, e, l, G) /\ FreeList(n, q, head, next, H)
    BY <1>2, <1>11, <2>1
  <2>4. \E k, r : FreeList(k, r, e, links, G \cup H)
    BY <2>2, <2>3, ListsJoin
  <2> QED BY <2>1, <2>4
<1>13. Elements(chunks)' = E /\ chunks' \in 0..MaxChunks
  BY <1>1, <1>4 DEF PoolInv, Elements
<1>14. used' \subseteq E /\ next' = [x \in E |-> next'[x]]
  BY <1>4, <1>5
<1>15. \E k, r : FreeList(k, r, head', next', (Elements(chunks) \ used)')
  <2>1. {e} \cup (E \ used) = (Elements(chunks) \ used)'
    BY <1>7, <1>13
  <2> QED BY <1>4, <1>12, <2>1
<1> QED BY <1>13, <1>14, <1>15 DEF PoolInv

(* cleanup: by induction over the chunks, the newest in front.             *)
CleanHead(n) == IF n = 0 THEN Null ELSE FirstOf(n)

InFront(links, right, h, a, p) ==
  /\ links = [e \in 1..(a + p) |-> links[e]]
  /\ \A e \in 1..a : links[e] = right[e]
  /\ \A e \in (a + 1)..((a + p) - 1) : links[e] = e + 1
  /\ links[a + p] = h

LEMMA CleanupLinksOf ==
  ASSUME NEW n \in Nat, NEW a, NEW p, a = n * PoolCount, p = PoolCount
  PROVE  InFront(CleanupLinks(n + 1), CleanupLinks(n), CleanHead(n), a, p)
<1>1. /\ p \in Nat /\ p >= 1 /\ a \in Nat /\ LastOf(n + 1) = a + p /\ LastOf(n) = a
      /\ Elements(n) = 1..a /\ Elements(n + 1) = 1..(a + p)
  BY ChunkAt DEF LastOf
<1>2. \A c \in 1..n : LastOf(c) <= a /\ LastOf(c) \in Nat
  <2> SUFFICES ASSUME NEW c \in 1..n PROVE LastOf(c) <= a /\ LastOf(c) \in Nat
    OBVIOUS
  <2>1. c \in Nat /\ (c = n \/ c < n)
    OBVIOUS
  <2>2. LastOf(c) \in Nat
    BY <1>1, <2>1 DEF LastOf
  <2> QED BY <1>1, <2>1, <2>2, ChunksApart
<1>3. \A c, d \in 1..(n + 1) : LastOf(c) = LastOf(d) => c = d
  <2> SUFFICES ASSUME NEW c \in 1..(n + 1), NEW d \in 1..(n + 1), c < d PROVE LastOf(c) # LastOf(d)
    OBVIOUS
  <2>1. c \in Nat /\ d \in Nat /\ LastOf(c) \in Nat /\ LastOf(d) \in Nat
    BY <1>1 DEF LastOf
  <2> QED BY <1>1, <2>1, ChunksApart
<1>4. \A c \in 1..(n + 1) : c \in 1..n \/ c = n + 1
  OBVIOUS
<1> DEFINE ChunkOf(e, k) == CHOOSE c \in 1..k : e = LastOf(c)
           L(k) == {LastOf(c) : c \in 1..k}
<1>5. PICK g, h : g = CleanupLinks(n + 1) /\ h = CleanupLinks(n)
  OBVIOUS
<1>6. g = [e \in 1..(a + p) |-> IF e \notin L(n + 1) THEN e + 1
                               ELSE IF e = LastOf(1) THEN Null ELSE FirstOf(ChunkOf(e, n + 1) - 1)]
  BY <1>1, <1>5 DEF CleanupLinks
<1>7. h = [e \in 1..a |-> IF e \notin L(n) THEN e + 1
                         ELSE IF e = LastOf(1) THEN Null ELSE FirstOf(ChunkOf(e, n) - 1)]
  BY <1>1, <1>5 DEF CleanupLinks
<1>8. ASSUME NEW c \in 1..(n + 1) PROVE ChunkOf(LastOf(c), n + 1) = c
  BY <1>3
<1>9. ASSUME NEW c \in 1..n PROVE ChunkOf(LastOf(c), n) = c
  <2>1. \A d \in 1..n : d \in 1..(n + 1)
    OBVIOUS
  <2> QED BY <1>3, <2>1
<1> HIDE DEF ChunkOf
<1>10. ASSUME NEW e \in 1..a PROVE g[e] = h[e]
  <2>1. e \in 1..(a + p) /\ e # LastOf(n + 1)
    BY <1>1
  <2>2. e \in L(n + 1) <=> e \in L(n)
    <3>1. \A c \in 1..n : c \in 1..(n + 1)
      OBVIOUS
    <3> QED BY <1>4, <2>1, <3>1
  <2>3. CASE e \notin L(n)
    BY <1>6, <1>7, <2>1, <2>2, <2>3
  <2>4. CASE e \in L(n)
    <3>1. PICK c \in 1..n : e = LastOf(c)
      BY <2>4
    <3>2. c \in 1..(n + 1)
      OBVIOUS
    <3>3. ChunkOf(e, n) = c /\ ChunkOf(e, n + 1) = c
      BY <1>8, <1>9, <3>1, <3>2
    <3> HIDE DEF L
    <3> QED BY <1>6, <1>7, <2>1, <2>2, <2>4, <3>3
  <2> QED BY <2>3, <2>4
<1>11. ASSUME NEW e \in (a + 1)..((a + p) - 1) PROVE g[e] = e + 1
  <2>1. e \in 1..(a + p) /\ e # LastOf(n + 1)
    BY <1>1
  <2>2. \A c \in 1..n : e # LastOf(c)
    BY <1>1, <1>2
  <2>3. e \notin L(n + 1)
    BY <1>4, <2>1, <2>2
  <2> HIDE DEF L
  <2> QED BY <1>6, <2>1, <2>3
<1>12. g[a + p] = CleanHead(n)
  <2>1. a + p \in 1..(a + p) /\ n + 1 \in 1..(n + 1) /\ a + p = LastOf(n + 1)
    BY <1>1
  <2>2. a + p \in L(n + 1)
    BY <2>1
  <2>3. ChunkOf(a + p, n + 1) = n + 1 /\ (n + 1) - 1 = n
    BY <1>8, <2>1
  <2>4. a + p = LastOf(1) <=> n = 0
    <3>1. 1 \in 1..(n + 1)
      OBVIOUS
    <3>2. LastOf(n + 1) = LastOf(1) <=> n + 1 = 1
      BY <1>3, <2>1, <3>1
    <3> QED BY <2>1, <3>2
  <2> HIDE DEF L
  <2> QED BY <1>6, <2>1, <2>2, <2>3, <2>4 DEF CleanHead
<1> USE DEF InFront
<1>13. g = [e \in 1..(a + p) |-> g[e]]
  BY <1>6
<1> QED BY <1>5, <1>10, <1>11, <1>12, <1>13

LEMMA CleanupList ==
  ASSUME NEW n \in Nat
  PROVE  \E m, q : FreeList(m, q, CleanHead(n), CleanupLinks(n), Elements(n))
<1> DEFINE Q(k) == \E m, q : FreeList(m, q, CleanHead(k), CleanupLinks(k), Elements(k))
           S == {k \in Nat : Q(k)}
<1>1. 0 \in S
  <2>1. Elements(0) = {} /\ CleanHead(0) = Null /\ 1..0 = {}
    BY PoolAssumption DEF Elements, CleanHead
  <2>2. PICK q : q = [i \in 1..0 |-> 0]
    OBVIOUS
  <2>3. q \in [1..0 -> {}]
    BY <2>1, <2>2
  <2>4. FreeList(0, q, CleanHead(0), CleanupLinks(0), Elements(0))
    BY <2>1, <2>3 DEF FreeList
  <2> QED BY <2>4
<1>2. ASSUME NEW k \in S PROVE k + 1 \in S
  <2>1. k \in Nat /\ Q(k)
    OBVIOUS
  <2>2. PICK a, p, links, right, h, E :
          /\ a = k * PoolCount /\ p = PoolCount /\ links = CleanupLinks(k + 1) /\ right = CleanupLinks(k)
          /\ h = CleanHead(k) /\ E = Elements(k)
    OBVIOUS
  <2>3. /\ p \in Nat /\ p >= 1 /\ a \in Nat /\ FirstOf(k + 1) = a + 1
        /\ E = 1..a /\ Elements(k + 1) = 1..(a + p)
    BY <2>1, <2>2, ChunkAt
  <2>4. /\ \A e \in 1..a : links[e] = right[e]
        /\ \A e \in (a + 1)..((a + p) - 1) : links[e] = e + 1
        /\ links[a + p] = h
        /\ links = [e \in 1..(a + p) |-> links[e]]
    <3>1. InFront(links, right, h, a, p)
      BY <2>1, <2>2, CleanupLinksOf
    <3> QED BY <3>1 DEF InFront
  <2>5. PICK m, q : FreeList(m, q, h, right, E)
    BY <2>1, <2>2
  <2>6. PICK s, left, F, g : /\ s = [i \in 1..p |-> a + i] /\ left = [links EXCEPT ![a + p] = Null]
                             /\ F = (a + 1)..(a + p) /\ g = IF p = 0 THEN Null ELSE a + 1
    OBVIOUS
  <2>7. links = [e \in 1..(a + p) |-> links[e]]
    BY <2>4
  <2>8. \A e \in F : left[e] = IF e = a + p THEN Null ELSE e + 1
    <3> SUFFICES ASSUME NEW e \in F PROVE left[e] = IF e = a + p THEN Null ELSE e + 1
      OBVIOUS
    <3>1. e \in 1..(a + p) /\ (e # a + p => e \in (a + 1)..((a + p) - 1)) /\ a + p \in 1..(a + p)
      BY <2>3, <2>6
    <3> QED BY <2>4, <2>6, <2>7, <3>1
  <2>9. FreeList(p, s, g, left, F)
    BY <2>3, <2>6, <2>8, ChunkList
  <2>10. Linked(links, p, s, h, left, E, right)
    <3>0. p > 0
      BY <2>3
    <3>1. \A e \in E : links[e] = right[e]
      BY <2>3, <2>4
    <3>2. ASSUME NEW i \in 1..p PROVE links[s[i]] = IF i = p THEN h ELSE left[s[i]]
      <4>1. s[i] = a + i /\ a + i \in 1..(a + p) /\ (i # p => a + i # a + p)
        BY <2>3, <2>6
      <4> QED BY <2>4, <2>6, <2>7, <4>1
    <3> QED BY <3>0, <3>1, <3>2 DEF Linked
  <2>11. F \cap E = {} /\ F \cup E = Elements(k + 1) /\ g = CleanHead(k + 1)
    <3>1. F \cap E = {}
      BY <2>3, <2>6
    <3>2. F \cup E = 1..(a + p)
      BY <2>3, <2>6
    <3>3. k + 1 # 0 /\ p # 0
      BY <2>1, <2>3
    <3> QED BY <2>3, <2>6, <3>1, <3>2, <3>3 DEF CleanHead
  <2>12. \E j, r : FreeList(j, r, g, links, F \cup E)
    BY <2>5, <2>9, <2>10, <2>11, ListsJoin
  <2>13. Q(k + 1)
    BY <2>2, <2>11, <2>12
  <2> QED BY <2>1, <2>13
<1> HIDE DEF Q
<1>3. S = Nat
  BY <1>1, <1>2, Inductive
<1>4. Q(n)
  BY <1>3
<1> QED BY <1>4 DEF Q

LEMMA PoolStep ==
  ASSUME PoolInv, PoolNext
  PROVE  PoolInv'
<1>1. CASE Cleanup
  <2>1. PICK c \in Nat : c = chunks /\ c # 0
    BY <1>1, PoolAssumption DEF Cleanup, PoolInv
  <2>2. next' = CleanupLinks(c) /\ head' = CleanHead(c) /\ chunks' = c /\ used' = {}
    BY <1>1, <2>1 DEF Cleanup, CleanHead
  <2>3. Elements(chunks)' = Elements(c) /\ chunks' \in 0..MaxChunks
    BY <2>1, <2>2 DEF Elements, PoolInv
  <2>4. next' = [e \in Elements(c) |-> next'[e]]
    BY <2>2 DEF CleanupLinks
  <2>5. \E m, q : FreeList(m, q, head', next', Elements(c) \ used')
    <3>1. Elements(c) \ used' = Elements(c)
      BY <2>2
    <3> QED BY <2>2, <3>1, CleanupList
  <2> QED BY <2>2, <2>3, <2>4, <2>5 DEF PoolInv
<1>2. CASE Purge
  <2>1. chunks' = 0 /\ next' = << >> /\ head' = Null /\ used' = {}
    BY <1>2 DEF Purge
  <2>2. Elements(chunks)' = {} /\ 1..0 = {}
    BY <2>1, PoolAssumption DEF Elements
  <2>3. next' = [e \in {} |-> next'[e]]
    BY <2>1
  <2>4. PICK q : q = [i \in 1..0 |-> 0]
    OBVIOUS
  <2>5. q \in [1..0 -> {}]
    BY <2>2, <2>4
  <2>6. FreeList(0, q, head', next', {})
    BY <2>1, <2>2, <2>5 DEF FreeList
  <2>7. (Elements(chunks) \ used)' = {} /\ used' \subseteq Elements(chunks)' /\ chunks' \in 0..MaxChunks
    BY <2>1, <2>2, PoolAssumption
  <2> QED BY <2>2, <2>3, <2>6, <2>7 DEF PoolInv
<1> QED BY <1>1, <1>2, PoolAllocates, PoolReleases DEF PoolNext

(* Following the links is walking along the list.                          *)
LEMMA WalkOf ==
  ASSUME NEW N \in Nat, N = chunks * PoolCount
  PROVE  \A i \in 0..N : Walk[i] = IF i = 0 THEN head ELSE IF Walk[i - 1] \in DOMAIN next THEN next[Walk[i - 1]] ELSE Null
<1> DEFINE W == CHOOSE g : g = [i \in 0..N |-> IF i = 0 THEN head ELSE IF g[i - 1] \in DOMAIN next THEN next[g[i - 1]] ELSE Null]
<1>1. Walk = W
  BY DEF Walk
<1>2. PICK V : V = {head, Null} \cup {next[e] : e \in DOMAIN next}
  OBVIOUS
<1>3. PICK f : f = [z \in (1..N) \X V |-> IF z[2] \in DOMAIN next THEN next[z[2]] ELSE Null]
  OBVIOUS
<1>4. Walkable(V, head, N, f)
  <2>1. head \in V
    BY <1>2
  <2>2. \A x : (IF x \in DOMAIN next THEN next[x] ELSE Null) \in V
    BY <1>2
  <2>3. f \in [(1..N) \X V -> V]
    BY <1>3, <2>2
  <2> QED BY <2>1, <2>3 DEF Walkable
<1>5. PICK g : IsWalk(V, head, N, f, g)
  BY <1>4, WalkExists
<1>6. g \in [0..N -> V] /\ g[0] = head /\ \A i \in 1..N : g[i] = f[<<i, g[i - 1]>>]
  BY <1>5 DEF IsWalk
<1>7. \A i \in 1..N : g[i] = IF g[i - 1] \in DOMAIN next THEN next[g[i - 1]] ELSE Null
  <2>1. \A i \in 1..N : i - 1 \in 0..N
    OBVIOUS
  <2>2. \A i \in 1..N : <<i, g[i - 1]>> \in (1..N) \X V
    BY <1>6, <2>1
  <2> QED BY <1>3, <1>6, <2>2
<1>8. g = [i \in 0..N |-> IF i = 0 THEN head ELSE IF g[i - 1] \in DOMAIN next THEN next[g[i - 1]] ELSE Null]
  <2>1. \A i \in 0..N : g[i] = IF i = 0 THEN head ELSE IF g[i - 1] \in DOMAIN next THEN next[g[i - 1]] ELSE Null
    <3>1. \A i \in 0..N : i = 0 \/ i \in 1..N
      OBVIOUS
    <3> QED BY <1>6, <1>7, <3>1
  <2>2. g = [i \in 0..N |-> g[i]]
    BY <1>6
  <2> QED BY <2>1, <2>2, Zenon
<1>9. W = [i \in 0..N |-> IF i = 0 THEN head ELSE IF W[i - 1] \in DOMAIN next THEN next[W[i - 1]] ELSE Null]
  BY <1>8
<1> HIDE DEF W
<1> QED BY <1>1, <1>9

LEMMA PoolSafe ==
  ASSUME PoolInv
  PROVE  PoolTypeOK /\ FreeListExact
<1>1. PICK c \in Nat : c = chunks
  BY PoolAssumption DEF PoolInv
<1>2. PICK N \in Nat : N = c * PoolCount
  BY ChunkAt
<1>3. Elements(chunks) = 1..N
  BY <1>1, <1>2 DEF Elements
<1>4. PICK F : F = 1..N \ used
  OBVIOUS
<1>5. PICK n, q : FreeList(n, q, head, next, F)
  BY <1>3, <1>4 DEF PoolInv
<1>6. /\ n \in Nat /\ q \in [1..n -> F] /\ head = (IF n = 0 THEN Null ELSE q[1])
      /\ \A i, j \in 1..n : q[i] = q[j] => i = j
      /\ \A e \in F : \E i \in 1..n : q[i] = e
      /\ \A i \in 1..n : next[q[i]] = IF i = n THEN Null ELSE q[i + 1]
  BY <1>5 DEF FreeList
<1>7. DOMAIN next = 1..N /\ used \subseteq 1..N /\ chunks \in 0..MaxChunks
  <2>1. next = [e \in 1..N |-> next[e]]
    BY <1>3 DEF PoolInv
  <2>2. DOMAIN [e \in 1..N |-> next[e]] = 1..N
    OBVIOUS
  <2>3. DOMAIN next = 1..N
    BY <2>1, <2>2, Zenon
  <2> QED BY <1>3, <2>3 DEF PoolInv
<1>8. head \in 1..N \cup {Null}
  <2>1. n # 0 => 1 \in 1..n
    BY <1>6
  <2> QED BY <1>4, <1>6, <2>1
<1>9. Cardinality(F) = n
  <2>1. q \in Bijection(1..n, F)
    BY <1>6 DEF Bijection, Injection, Surjection, IsInjective
  <2> QED BY <1>6, <2>1, FS_CountingElements DEF ExistsBijection
<1>10. n <= N
  <2>1. IsFiniteSet(1..N) /\ Cardinality(1..N) = N
    <3>1. Cardinality(1..N) = (IF 1 > N THEN 0 ELSE N - 1 + 1) /\ IsFiniteSet(1..N)
      BY FS_Interval
    <3> QED BY <3>1
  <2>2. F \in SUBSET (1..N)
    BY <1>4
  <2>3. Cardinality(F) <= Cardinality(1..N)
    BY <2>1, <2>2, FS_Subset
  <2> QED BY <1>9, <2>1, <2>3
<1>11. \A i \in 0..N : Walk[i] = IF i = 0 THEN head ELSE IF Walk[i - 1] \in DOMAIN next THEN next[Walk[i - 1]] ELSE Null
  BY <1>1, <1>2, WalkOf
<1> DEFINE S == {i \in Nat : i <= n => Walk[i] = IF i = n THEN Null ELSE q[i + 1]}
<1>12. 0 \in S
  <2>1. 0 \in 0..N
    OBVIOUS
  <2> QED BY <1>6, <1>11, <2>1
<1>13. ASSUME NEW i \in S PROVE i + 1 \in S
  <2>1. SUFFICES ASSUME i + 1 <= n PROVE Walk[i + 1] = IF i + 1 = n THEN Null ELSE q[(i + 1) + 1]
    OBVIOUS
  <2>2. i \in Nat /\ i # n /\ i <= n /\ i + 1 \in 1..n /\ i + 1 \in 0..N /\ i + 1 # 0 /\ (i + 1) - 1 = i
    BY <1>6, <1>10, <2>1
  <2>3. Walk[i] = q[i + 1]
    BY <2>2
  <2>4. q[i + 1] \in DOMAIN next
    BY <1>4, <1>6, <1>7, <2>2
  <2>5. Walk[i + 1] = next[q[i + 1]]
    BY <1>11, <2>2, <2>3, <2>4
  <2> QED BY <1>6, <2>2, <2>5
<1>14. S = Nat
  BY <1>12, <1>13, Inductive
<1>15. Walk[n] = Null /\ \A i \in 0..(n - 1) : Walk[i] = q[i + 1] /\ i + 1 \in 1..n
  <2>1. \A i \in 0..(n - 1) : i \in Nat /\ i <= n /\ i # n /\ i + 1 \in 1..n
    BY <1>6
  <2>2. n \in Nat /\ n <= n
    BY <1>6
  <2> QED BY <1>14, <2>1, <2>2
<1>16. {Walk[i] : i \in 0..(n - 1)} = F
  <2>1. \A i \in 0..(n - 1) : Walk[i] \in F
    BY <1>6, <1>15
  <2>2. ASSUME NEW e \in F PROVE \E i \in 0..(n - 1) : Walk[i] = e
    <3>1. PICK i \in 1..n : q[i] = e
      BY <1>6
    <3>2. i - 1 \in 0..(n - 1) /\ (i - 1) + 1 = i
      BY <1>6
    <3>3. Walk[i - 1] = e
      BY <1>15, <3>1, <3>2
    <3> QED BY <3>2, <3>3
  <2> QED BY <2>1, <2>2
<1>17. FreeListExact
  <2>1. Elements(chunks) \ used = F
    BY <1>3, <1>4
  <2>2. (IF F = {} THEN {} ELSE F) = F
    OBVIOUS
  <2> QED BY <1>9, <1>15, <1>16, <2>1, <2>2 DEF FreeListExact
<1> QED BY <1>3, <1>7, <1>8, <1>17 DEF PoolTypeOK

(* The vector.  What a vector is, and what is in the cells it uses: each   *)
(* operation is a lemma on the cells, and the lemmas compose.              *)
IsVec(v) ==
  /\ v = [mem |-> v.mem, size |-> v.size]
  /\ v.mem \in Seq(Int) /\ Len(v.mem) <= PodMax /\ v.size \in Nat

Kept(v, w) ==
  /\ w \in Seq(Int) /\ Len(w) = v.size /\ v.size <= Len(v.mem)
  /\ \A i \in 1..Len(w) : w[i] # Unwritten => v.mem[i] = w[i]

PodInv == IsVec(vec) /\ Kept(vec, want)

LEMMA SequenceIs ==
  ASSUME NEW n \in Nat, NEW S, NEW s \in [1..n -> S]
  PROVE  s \in Seq(S) /\ Len(s) = n
<1>1. s \in Seq(S)
  BY SeqDef
<1> QED BY <1>1, LenProperties

LEMMA ReallocateOf ==
  ASSUME NEW v, IsVec(v), NEW n \in Nat, n <= PodMax
  PROVE  LET r == Reallocate(v, n) IN
         /\ IsVec(r) /\ r.size = v.size /\ Len(r.mem) = n
         /\ \A i \in 1..n : i <= Len(v.mem) => r.mem[i] = v.mem[i]
<1>1. PICK r, l : r = Reallocate(v, n) /\ l = Len(v.mem)
  OBVIOUS
<1>2. v.mem \in Seq(Int) /\ l \in Nat /\ v.size \in Nat
  BY <1>1, LenProperties DEF IsVec
<1>3. PICK s : s = [i \in 1..n |-> IF i <= l THEN v.mem[i] ELSE Unwritten]
  OBVIOUS
<1>4. s \in [1..n -> Int]
  <2>1. ASSUME NEW i \in 1..n PROVE (IF i <= l THEN v.mem[i] ELSE Unwritten) \in Int
    <3>1. i <= l => i \in 1..Len(v.mem)
      BY <1>1, <1>2
    <3> QED BY <1>2, <3>1, ElementOfSeq DEF Unwritten
  <2> QED BY <1>3, <2>1
<1>5. s \in Seq(Int) /\ Len(s) = n
  BY <1>4, SequenceIs
<1>6. r = [mem |-> s, size |-> v.size]
  <2>1. PICK m, z : m = v.mem /\ z = v.size
    OBVIOUS
  <2>2. v = [mem |-> m, size |-> z]
    BY <2>1 DEF IsVec
  <2>3. r = [v EXCEPT !.mem = s]
    BY <1>1, <1>3 DEF Reallocate, Cap
  <2> QED BY <2>1, <2>2, <2>3
<1> QED BY <1>1, <1>2, <1>3, <1>5, <1>6 DEF IsVec

LEMMA SizeOf ==
  ASSUME NEW v, IsVec(v), NEW n \in Nat
  PROVE  LET r == [v EXCEPT !.size = n] IN IsVec(r) /\ r.size = n /\ r.mem = v.mem
<1>1. PICK m, z : m = v.mem /\ z = v.size
  OBVIOUS
<1>2. v = [mem |-> m, size |-> z] /\ m \in Seq(Int) /\ Len(m) <= PodMax
  BY <1>1 DEF IsVec
<1>3. [v EXCEPT !.size = n] = [mem |-> m, size |-> n]
  BY <1>2
<1> QED BY <1>1, <1>2, <1>3 DEF IsVec

LEMMA GrowthOf ==
  ASSUME NEW cap \in Nat, NEW n \in Nat, cap <= PodMax, n <= PodMax
  PROVE  Growth(cap, n) \in Nat /\ Growth(cap, n) >= n /\ Growth(cap, n) <= PodMax
<1>1. PodMax \in Nat /\ cap \div 2 \in Nat
  BY PodAssumption
<1> QED BY <1>1 DEF Growth

(* resize and _Expand: room for n elements, and the old ones in place.     *)
Grows(r, v, n) ==
  /\ IsVec(r) /\ r.size = n /\ n <= Len(r.mem) /\ Len(r.mem) \in Nat
  /\ \A i \in 1..Len(v.mem) : i <= Len(r.mem) => r.mem[i] = v.mem[i]

LEMMA GrowsBy ==
  ASSUME NEW v, IsVec(v), NEW n \in Nat, NEW cap \in Nat, n <= cap, cap <= PodMax
  PROVE  Grows([(IF Len(v.mem) < n THEN Reallocate(v, cap) ELSE v) EXCEPT !.size = n], v, n)
<1>1. Len(v.mem) \in Nat /\ v.mem \in Seq(Int)
  BY LenProperties DEF IsVec
<1>2. PICK u : u = IF Len(v.mem) < n THEN Reallocate(v, cap) ELSE v
  OBVIOUS
<1>3. /\ IsVec(u) /\ n <= Len(u.mem) /\ Len(u.mem) \in Nat
      /\ \A i \in 1..Len(v.mem) : i <= Len(u.mem) => u.mem[i] = v.mem[i]
  <2>1. CASE Len(v.mem) < n
    <3>1. PICK w : w = Reallocate(v, cap)
      OBVIOUS
    <3>2. IsVec(w) /\ Len(w.mem) = cap /\ \A i \in 1..cap : i <= Len(v.mem) => w.mem[i] = v.mem[i]
      BY <3>1, ReallocateOf
    <3>3. \A i \in 1..Len(v.mem) : i <= cap => i \in 1..cap /\ i <= Len(v.mem)
      BY <1>1
    <3> QED BY <1>2, <2>1, <3>1, <3>2, <3>3
  <2>2. CASE ~(Len(v.mem) < n)
    BY <1>1, <1>2, <2>2
  <2> QED BY <2>1, <2>2
<1>4. PICK r : r = [u EXCEPT !.size = n]
  OBVIOUS
<1>5. IsVec(r) /\ r.size = n /\ r.mem = u.mem
  BY <1>3, <1>4, SizeOf
<1> QED BY <1>2, <1>3, <1>4, <1>5 DEF Grows

LEMMA ResizeOf ==
  ASSUME NEW v, IsVec(v), NEW n \in Nat, n <= PodMax
  PROVE  Grows(Resize(v, n), v, n)
<1>1. Grows([(IF Len(v.mem) < n THEN Reallocate(v, n) ELSE v) EXCEPT !.size = n], v, n)
  BY GrowsBy
<1> QED BY <1>1 DEF Resize, Cap

LEMMA ExpandOf ==
  ASSUME NEW v, IsVec(v), NEW n \in Nat, v.size + n <= PodMax
  PROVE  Grows(Expand(v, n), v, v.size + n)
<1>1. Len(v.mem) \in Nat /\ Len(v.mem) <= PodMax /\ v.size + n \in Nat
  BY LenProperties DEF IsVec
<1>2. PICK cap, m : cap = Growth(Len(v.mem), v.size + n) /\ m = v.size + n
  OBVIOUS
<1>3. cap \in Nat /\ m \in Nat /\ m <= cap /\ cap <= PodMax
  BY <1>1, <1>2, GrowthOf
<1>4. Grows([(IF Len(v.mem) < m THEN Reallocate(v, cap) ELSE v) EXCEPT !.size = m], v, m)
  BY <1>3, GrowsBy
<1> QED BY <1>2, <1>4 DEF Expand, Cap

(* copy_n into the storage.                                                *)
Filled(r, v, off, xs) ==
  /\ IsVec(r) /\ r.size = v.size /\ Len(r.mem) = Len(v.mem) /\ Len(v.mem) \in Nat
  /\ \A i \in 1..Len(v.mem) : r.mem[i] = IF off < i /\ i <= off + Len(xs) THEN xs[i - off] ELSE v.mem[i]

LEMMA FillOf ==
  ASSUME NEW v, IsVec(v), NEW off \in Nat, NEW xs \in Seq(Int)
  PROVE  Filled(Fill(v, off, xs), v, off, xs)
<1>1. PICK l, n, m, z : l = Len(v.mem) /\ n = Len(xs) /\ m = v.mem /\ z = v.size
  OBVIOUS
<1>2. m \in Seq(Int) /\ l \in Nat /\ n \in Nat /\ z \in Nat /\ v = [mem |-> m, size |-> z] /\ l <= PodMax /\ l = Len(m)
  BY <1>1, LenProperties DEF IsVec
<1>3. PICK s : s = [i \in 1..l |-> IF i \in (off + 1)..(off + n) THEN xs[i - off] ELSE m[i]]
  OBVIOUS
<1>4. \A i \in 1..l : i \in (off + 1)..(off + n) <=> off < i /\ i <= off + n
  BY <1>2
<1>5. s \in [1..l -> Int]
  <2>1. ASSUME NEW i \in 1..l PROVE (IF i \in (off + 1)..(off + n) THEN xs[i - off] ELSE m[i]) \in Int
    <3>1. i \in (off + 1)..(off + n) => i - off \in 1..Len(xs)
      BY <1>1, <1>2
    <3>2. i \in 1..Len(m)
      BY <1>2
    <3> QED BY <1>2, <3>1, <3>2, ElementOfSeq
  <2> QED BY <1>3, <2>1
<1>6. s \in Seq(Int) /\ Len(s) = l
  BY <1>2, <1>5, SequenceIs
<1>7. PICK r : r = Fill(v, off, xs)
  OBVIOUS
<1>8. r = [mem |-> s, size |-> z]
  <2>1. r = [v EXCEPT !.mem = s]
    BY <1>1, <1>3, <1>7 DEF Fill, Cap
  <2> QED BY <1>2, <2>1
<1>9. IsVec(r) /\ r.size = v.size /\ r.mem = s
  BY <1>1, <1>2, <1>6, <1>8 DEF IsVec
<1>10. \A i \in 1..l : s[i] = IF off < i /\ i <= off + n THEN xs[i - off] ELSE m[i]
  BY <1>3, <1>4
<1> QED BY <1>1, <1>2, <1>6, <1>7, <1>9, <1>10 DEF Filled

(* A sequence without its elements from a + 1 to b, with xs in their place. *)
IsSpliced(s, w, a, b, xs) ==
  /\ s \in Seq(Int) /\ Len(s) = a + Len(xs) + (Len(w) - b)
  /\ \A i \in 1..Len(s) : s[i] = IF i <= a THEN w[i] ELSE IF i <= a + Len(xs) THEN xs[i - a]
                                 ELSE w[(i - (a + Len(xs))) + b]

LEMMA PartOf ==
  ASSUME NEW w \in Seq(Int), NEW a \in Nat, NEW b \in Nat, a <= b, b <= Len(w)
  PROVE  /\ SubSeq(w, a + 1, b) \in Seq(Int) /\ Len(SubSeq(w, a + 1, b)) = b - a
         /\ \A i \in 1..(b - a) : SubSeq(w, a + 1, b)[i] = w[a + i]
<1>1. \A i \in (a + 1)..b : w[i] \in Int
  <2>1. Len(w) \in Nat
    BY LenProperties
  <2>2. \A i \in (a + 1)..b : i \in 1..Len(w)
    BY <2>1
  <2> QED BY <2>2, ElementOfSeq
<1>2. PICK s : s = SubSeq(w, a + 1, b)
  OBVIOUS
<1>3. (IF a + 1 <= b THEN b - (a + 1) + 1 ELSE 0) = b - a
  OBVIOUS
<1>4. s \in Seq(Int) /\ Len(s) = b - a
  BY <1>1, <1>2, <1>3, SubSeqProperties
<1>5. \A i \in 1..(b - (a + 1) + 1) : s[i] = w[(a + 1) + i - 1]
  BY <1>1, <1>2, SubSeqProperties
<1>6. b - (a + 1) + 1 = b - a /\ \A i \in 1..(b - a) : (a + 1) + i - 1 = a + i
  OBVIOUS
<1> QED BY <1>2, <1>4, <1>5, <1>6

LEMMA SplicedOf ==
  ASSUME NEW w \in Seq(Int), NEW a \in Nat, NEW b \in Nat, a <= b, b <= Len(w), NEW xs \in Seq(Int)
  PROVE  IsSpliced(SubSeq(w, 1, a) \o xs \o SubSeq(w, b + 1, Len(w)), w, a, b, xs)
<1>1. PICK p, t, l, n : p = SubSeq(w, 1, a) /\ t = SubSeq(w, b + 1, Len(w)) /\ l = Len(w) /\ n = Len(xs)
  OBVIOUS
<1>2. l \in Nat /\ n \in Nat /\ 0 \in Nat /\ 0 + 1 = 1 /\ a <= l /\ b <= l
  BY <1>1, LenProperties
<1>3. p \in Seq(Int) /\ Len(p) = a /\ \A i \in 1..a : p[i] = w[i]
  <2>1. /\ SubSeq(w, 0 + 1, a) \in Seq(Int) /\ Len(SubSeq(w, 0 + 1, a)) = a - 0
        /\ \A i \in 1..(a - 0) : SubSeq(w, 0 + 1, a)[i] = w[0 + i]
    BY <1>1, <1>2, PartOf
  <2>2. a - 0 = a /\ \A i \in 1..a : 0 + i = i
    OBVIOUS
  <2> QED BY <1>1, <1>2, <2>1, <2>2
<1>4. t \in Seq(Int) /\ Len(t) = l - b /\ \A i \in 1..(l - b) : t[i] = w[b + i]
  BY <1>1, <1>2, PartOf
<1>5. PICK u : u = p \o xs
  OBVIOUS
<1>6. u \in Seq(Int) /\ Len(u) = a + n /\ \A i \in 1..(a + n) : u[i] = IF i <= a THEN p[i] ELSE xs[i - a]
  BY <1>1, <1>3, <1>5, ConcatProperties, SMTT(30)
<1>7. PICK s : s = u \o t
  OBVIOUS
<1>8. /\ s \in Seq(Int) /\ Len(s) = (a + n) + (l - b)
      /\ \A i \in 1..((a + n) + (l - b)) : s[i] = IF i <= a + n THEN u[i] ELSE t[i - (a + n)]
  <2>1. PICK m, k : m = a + n /\ k = l - b
    OBVIOUS
  <2>2. u \in Seq(Int) /\ t \in Seq(Int) /\ Len(u) = m /\ Len(t) = k
    BY <1>4, <1>6, <2>1
  <2>3. u \o t \in Seq(Int) /\ Len(u \o t) = m + k
        /\ \A i \in 1..(m + k) : (u \o t)[i] = IF i <= m THEN u[i] ELSE t[i - m]
    <3> HIDE <1>1, <1>3, <1>4, <1>6, <2>1
    <3>1. /\ u \o t \in Seq(Int) /\ Len(u \o t) = Len(u) + Len(t)
          /\ \A i \in 1..(Len(u) + Len(t)) : (u \o t)[i] = IF i <= Len(u) THEN u[i] ELSE t[i - Len(u)]
      BY <2>2, ConcatProperties
    <3> QED BY <2>2, <3>1, Zenon
  <2> QED BY <1>7, <2>1, <2>3
<1>9. ASSUME NEW i \in 1..Len(s)
      PROVE  s[i] = IF i <= a THEN w[i] ELSE IF i <= a + n THEN xs[i - a] ELSE w[(i - (a + n)) + b]
  <2>0. i \in 1..((a + n) + (l - b))
    BY <1>8
  <2>1. CASE i <= a
    <3>1. i \in 1..a /\ i \in 1..(a + n) /\ i <= a + n
      BY <1>2, <2>0, <2>1
    <3> QED BY <1>3, <1>6, <1>8, <2>0, <2>1, <3>1
  <2>2. CASE ~(i <= a) /\ i <= a + n
    <3>1. i \in 1..(a + n)
      BY <1>2, <2>0, <2>2
    <3> QED BY <1>6, <1>8, <2>0, <2>2, <3>1
  <2>3. CASE ~(i <= a) /\ ~(i <= a + n)
    <3>1. i - (a + n) \in 1..(l - b) /\ b + (i - (a + n)) = (i - (a + n)) + b
      BY <1>2, <2>0, <2>3
    <3> QED BY <1>4, <1>8, <2>0, <2>3, <3>1
  <2> QED BY <1>2, <2>1, <2>2, <2>3
<1>10. IsSpliced(s, w, a, b, xs)
  BY <1>1, <1>8, <1>9 DEF IsSpliced
<1> QED BY <1>1, <1>5, <1>7, <1>10

(* The same of a vector, and insert and erase are it.                      *)
Splices(r, v, a, b, xs) ==
  /\ IsVec(r) /\ r.size = a + Len(xs) + (v.size - b) /\ r.size <= Len(r.mem)
  /\ \A i \in 1..r.size : r.mem[i] = IF i <= a THEN v.mem[i] ELSE IF i <= a + Len(xs) THEN xs[i - a]
                                     ELSE v.mem[(i - (a + Len(xs))) + b]

LEMMA SplicedKept ==
  ASSUME NEW v, NEW w, Kept(v, w), NEW a \in Nat, NEW b \in Nat, a <= b, b <= Len(w), NEW xs \in Seq(Int),
         NEW r, Splices(r, v, a, b, xs), NEW s, IsSpliced(s, w, a, b, xs)
  PROVE  Kept(r, s)
<1>1. PICK l, n : l = Len(w) /\ n = Len(xs)
  OBVIOUS
<1>2. l \in Nat /\ n \in Nat /\ l = v.size /\ \A i \in 1..l : w[i] # Unwritten => v.mem[i] = w[i]
  BY <1>1, LenProperties DEF Kept
<1>3. /\ s \in Seq(Int) /\ Len(s) = (a + n) + (l - b) /\ r.size = Len(s) /\ r.size <= Len(r.mem)
  BY <1>1, <1>2 DEF IsSpliced, Splices
<1>4. ASSUME NEW i \in 1..Len(s), s[i] # Unwritten PROVE r.mem[i] = s[i]
  <2>1. s[i] = IF i <= a THEN w[i] ELSE IF i <= a + n THEN xs[i - a] ELSE w[(i - (a + n)) + b]
    BY <1>1 DEF IsSpliced
  <2>2. r.mem[i] = IF i <= a THEN v.mem[i] ELSE IF i <= a + n THEN xs[i - a] ELSE v.mem[(i - (a + n)) + b]
    BY <1>1, <1>3 DEF Splices
  <2>3. CASE i <= a
    <3>1. i \in 1..l
      BY <1>1, <1>2, <2>3
    <3> QED BY <1>2, <1>4, <2>1, <2>2, <2>3, <3>1
  <2>4. CASE ~(i <= a) /\ i <= a + n
    BY <2>1, <2>2, <2>4
  <2>5. CASE ~(i <= a) /\ ~(i <= a + n)
    <3>1. i \in 1..((a + n) + (l - b))
      BY <1>3
    <3>2. (i - (a + n)) + b \in 1..l
      BY <1>1, <1>2, <2>5, <3>1
    <3> QED BY <1>2, <1>4, <2>1, <2>2, <2>5, <3>2
  <2> QED BY <2>3, <2>4, <2>5
<1> QED BY <1>3, <1>4 DEF Kept

LEMMA InsertOf ==
  ASSUME NEW v, IsVec(v), v.size <= Len(v.mem), NEW off \in Nat, off <= v.size, NEW xs \in Seq(Int),
         v.size + Len(xs) <= PodMax
  PROVE  Splices(Insert(v, off, xs), v, off, off, xs)
<1>1. PICK l, n, z : l = Len(v.mem) /\ n = Len(xs) /\ z = v.size
  OBVIOUS
<1>2. l \in Nat /\ n \in Nat /\ z \in Nat /\ v.mem \in Seq(Int) /\ z <= l /\ off <= z /\ z + n <= PodMax
  BY <1>1, LenProperties DEF IsVec
<1>3. PICK r : r = Insert(v, off, xs)
  OBVIOUS
<1>4. CASE xs = << >>
  <2>1. r = v /\ n = 0
    BY <1>1, <1>3, <1>4 DEF Insert
  <2>2. \A i \in 1..z : i <= off \/ (~(i <= off) /\ ~(i <= off + n) /\ (i - (off + n)) + off = i)
    BY <1>2, <2>1
  <2>3. r.size = off + n + (z - off)
    BY <1>1, <1>2, <2>1
  <2> QED BY <1>1, <1>2, <1>3, <2>1, <2>2, <2>3 DEF Splices
<1>5. PICK w, k : w = Expand(v, n) /\ k = Len(w.mem)
  OBVIOUS
<1>6. /\ IsVec(w) /\ w.size = z + n /\ z + n <= k /\ k \in Nat
      /\ \A i \in 1..z : i \in 1..k /\ w.mem[i] = v.mem[i]
  <2>1. Grows(w, v, z + n)
    BY <1>1, <1>2, <1>5, ExpandOf
  <2>2. /\ IsVec(w) /\ w.size = z + n /\ z + n <= k /\ k \in Nat
        /\ \A i \in 1..l : i <= k => w.mem[i] = v.mem[i]
    BY <1>1, <1>5, <2>1 DEF Grows
  <2>3. \A i \in 1..z : i \in 1..l /\ i \in 1..k /\ i <= k
    BY <1>2, <2>2
  <2> QED BY <2>2, <2>3
<1>7. CASE xs # << >> /\ off = z
  <2>1. r = Fill(w, z, xs)
    BY <1>1, <1>3, <1>5, <1>7 DEF Insert, PodAppend
  <2>2. /\ IsVec(r) /\ r.size = z + n /\ Len(r.mem) = k
        /\ \A i \in 1..k : r.mem[i] = IF z < i /\ i <= z + n THEN xs[i - z] ELSE w.mem[i]
    <3>1. Filled(r, w, z, xs)
      BY <1>2, <1>6, <2>1, FillOf
    <3> QED BY <1>1, <1>5, <1>6, <3>1 DEF Filled
  <2>3. ASSUME NEW i \in 1..(z + n)
        PROVE  r.mem[i] = IF i <= z THEN v.mem[i] ELSE IF i <= z + n THEN xs[i - z]
                          ELSE v.mem[(i - (z + n)) + z]
    <3>1. i \in 1..k
      BY <1>2, <1>6
    <3>2. CASE i <= z
      <4>1. ~(z < i) /\ i \in 1..z
        BY <1>2, <3>2
      <4> QED BY <1>6, <2>2, <3>1, <3>2, <4>1
    <3>3. CASE ~(i <= z)
      <4>1. z < i /\ i <= z + n
        BY <1>2, <3>3
      <4> QED BY <2>2, <3>1, <3>3, <4>1
    <3> QED BY <3>2, <3>3
  <2>4. r.size = z + n + (z - z) /\ r.size <= Len(r.mem)
    BY <1>2, <1>6, <2>2
  <2> QED BY <1>1, <1>3, <1>7, <2>2, <2>3, <2>4 DEF Splices
<1>8. CASE xs # << >> /\ off # z
  <2>1. PICK t, u : t = SubSeq(w.mem, off + 1, z) /\ u = Fill(w, off + n, t)
    OBVIOUS
  <2>2. r = Fill(u, off, xs)
    BY <1>1, <1>3, <1>5, <1>8, <2>1 DEF Insert
  <2>3. t \in Seq(Int) /\ Len(t) = z - off /\ \A i \in 1..(z - off) : t[i] = w.mem[off + i]
    <3>1. PICK m : m = w.mem
      OBVIOUS
    <3>2. m \in Seq(Int) /\ z \in Nat /\ off <= z /\ z <= Len(m)
      BY <1>2, <1>5, <1>6, <3>1 DEF IsVec
    <3>3. /\ SubSeq(m, off + 1, z) \in Seq(Int) /\ Len(SubSeq(m, off + 1, z)) = z - off
          /\ \A i \in 1..(z - off) : SubSeq(m, off + 1, z)[i] = m[off + i]
      <4> HIDE <1>1, <1>2, <1>3, <1>5, <1>6
      <4> QED BY <3>2, PartOf
    <3> QED BY <2>1, <3>1, <3>3
  <2>4. /\ IsVec(u) /\ u.size = z + n /\ Len(u.mem) = k
        /\ \A i \in 1..k : u.mem[i] = IF off + n < i /\ i <= (off + n) + (z - off) THEN t[i - (off + n)] ELSE w.mem[i]
    <3>0. off + n \in Nat
      BY <1>2
    <3>1. Filled(u, w, off + n, t)
      BY <1>6, <2>1, <2>3, <3>0, FillOf
    <3> QED BY <1>5, <1>6, <2>3, <3>1 DEF Filled
  <2>5. /\ IsVec(r) /\ r.size = z + n /\ Len(r.mem) = k
        /\ \A i \in 1..k : r.mem[i] = IF off < i /\ i <= off + n THEN xs[i - off] ELSE u.mem[i]
    <3>1. Filled(r, u, off, xs)
      BY <1>2, <2>2, <2>4, FillOf
    <3> QED BY <1>1, <2>4, <3>1 DEF Filled
  <2>6. ASSUME NEW i \in 1..(z + n)
        PROVE  r.mem[i] = IF i <= off THEN v.mem[i] ELSE IF i <= off + n THEN xs[i - off]
                          ELSE v.mem[(i - (off + n)) + off]
    <3>1. i \in 1..k
      BY <1>2, <1>6
    <3>2. CASE i <= off
      <4>1. ~(off < i) /\ ~(off + n < i) /\ i \in 1..z
        BY <1>2, <3>2
      <4> QED BY <1>6, <2>4, <2>5, <3>1, <3>2, <4>1
    <3>3. CASE ~(i <= off) /\ i <= off + n
      <4>1. off < i
        BY <3>3
      <4> QED BY <2>5, <3>1, <3>3, <4>1
    <3>4. CASE ~(i <= off) /\ ~(i <= off + n)
      <4>1. /\ off + n < i /\ i <= (off + n) + (z - off) /\ i - (off + n) \in 1..(z - off)
            /\ off + (i - (off + n)) = (i - (off + n)) + off /\ (i - (off + n)) + off \in 1..z
        BY <1>2, <3>4
      <4>2. r.mem[i] = u.mem[i]
        BY <2>5, <3>1, <3>4
      <4>3. u.mem[i] = t[i - (off + n)]
        BY <2>4, <3>1, <4>1
      <4>4. t[i - (off + n)] = w.mem[(i - (off + n)) + off]
        BY <2>3, <4>1
      <4> QED BY <1>6, <3>4, <4>1, <4>2, <4>3, <4>4
    <3> QED BY <3>2, <3>3, <3>4
  <2>7. r.size = off + n + (z - off) /\ r.size <= Len(r.mem)
    BY <1>2, <1>6, <2>5
  <2> QED BY <1>1, <1>3, <2>5, <2>6, <2>7 DEF Splices
<1> QED BY <1>4, <1>7, <1>8

LEMMA EraseOf ==
  ASSUME NEW v, IsVec(v), v.size <= Len(v.mem), NEW a \in Nat, NEW b \in Nat, a <= b, b <= v.size
  PROVE  Splices(Erase(v, a, b), v, a, b, << >>)
<1>1. PICK l, z : l = Len(v.mem) /\ z = v.size
  OBVIOUS
<1>2. l \in Nat /\ z \in Nat /\ v.mem \in Seq(Int) /\ z <= l /\ b <= z /\ Len(<< >>) = 0
  BY <1>1, LenProperties DEF IsVec
<1>3. PICK t, u, r : t = SubSeq(v.mem, b + 1, z) /\ u = Fill(v, a, t) /\ r = Erase(v, a, b)
  OBVIOUS
<1>4. t \in Seq(Int) /\ Len(t) = z - b /\ \A i \in 1..(z - b) : t[i] = v.mem[b + i]
  <2>1. PICK w : w = v.mem
    OBVIOUS
  <2>2. w \in Seq(Int) /\ z \in Nat /\ b <= z /\ z <= Len(w)
    BY <1>1, <1>2, <2>1
  <2>3. /\ SubSeq(w, b + 1, z) \in Seq(Int) /\ Len(SubSeq(w, b + 1, z)) = z - b
        /\ \A i \in 1..(z - b) : SubSeq(w, b + 1, z)[i] = w[b + i]
    <3> HIDE <1>1, <1>2, <1>3
    <3> QED BY <2>2, PartOf
  <2> QED BY <1>3, <2>1, <2>3
<1>5. /\ IsVec(u) /\ Len(u.mem) = l
      /\ \A i \in 1..l : u.mem[i] = IF a < i /\ i <= a + (z - b) THEN t[i - a] ELSE v.mem[i]
  <2>1. Filled(u, v, a, t)
    BY <1>3, <1>4, FillOf
  <2> QED BY <1>1, <1>4, <2>1 DEF Filled
<1>6. PICK m : m = z - (b - a)
  OBVIOUS
<1>7. m \in Nat /\ m <= l /\ m = a + (z - b)
  BY <1>2, <1>6
<1>8. IsVec(r) /\ r.size = m /\ r.mem = u.mem
  <2>1. r = [u EXCEPT !.size = m]
    BY <1>1, <1>3, <1>6 DEF Erase
  <2> QED BY <1>5, <1>7, <2>1, SizeOf
<1>9. ASSUME NEW i \in 1..m
      PROVE  r.mem[i] = IF i <= a THEN v.mem[i] ELSE IF i <= a + 0 THEN << >>[i - a] ELSE v.mem[(i - (a + 0)) + b]
  <2>1. i \in 1..l
    BY <1>2, <1>7
  <2>2. CASE i <= a
    <3>1. ~(a < i)
      BY <1>7, <2>2
    <3> QED BY <1>5, <1>8, <2>1, <2>2, <3>1
  <2>3. CASE ~(i <= a)
    <3>1. a < i /\ i <= a + (z - b) /\ i - a \in 1..(z - b) /\ b + (i - a) = (i - (a + 0)) + b /\ ~(i <= a + 0)
      BY <1>2, <1>7, <2>3
    <3> QED BY <1>4, <1>5, <1>8, <2>1, <2>3, <3>1
  <2> QED BY <2>2, <2>3
<1>10. m = a + 0 + (z - b)
  BY <1>2, <1>7
<1> QED BY <1>1, <1>2, <1>3, <1>5, <1>7, <1>8, <1>9, <1>10 DEF Splices

LEMMA SplicesInv ==
  ASSUME NEW v, NEW w, IsVec(v), Kept(v, w), NEW a \in Nat, NEW b \in Nat, a <= b, b <= Len(w), NEW xs \in Seq(Int),
         NEW r, Splices(r, v, a, b, xs)
  PROVE  IsVec(r) /\ Kept(r, SubSeq(w, 1, a) \o xs \o SubSeq(w, b + 1, Len(w)))
<1>1. IsVec(r) /\ w \in Seq(Int)
  BY DEF Splices, Kept
<1>2. PICK s : s = SubSeq(w, 1, a) \o xs \o SubSeq(w, b + 1, Len(w))
  OBVIOUS
<1>3. IsSpliced(s, w, a, b, xs)
  BY <1>1, <1>2, SplicedOf
<1>4. Kept(r, s)
  BY <1>3, SplicedKept
<1> QED BY <1>1, <1>2, <1>4

LEMMA RangesAre ==
  ASSUME NEW xs \in Ranges
  PROVE  xs \in Seq(Int) /\ Len(xs) \in Nat
<1>1. PICK n \in 0..2 : xs \in [1..n -> PodValues]
  BY DEF Ranges
<1>2. n \in Nat /\ PodValues \subseteq Int
  BY PodAssumption
<1>3. xs \in [1..n -> Int]
  BY <1>1, <1>2
<1> QED BY <1>2, <1>3, SequenceIs

LEMMA PodKeepsInsert ==
  ASSUME PodInv, PodInsert
  PROVE  PodInv'
<1>1. PICK xs \in Ranges, off \in 0..vec.size :
        /\ vec.size + Len(xs) <= PodMax
        /\ vec' = Insert(vec, off, xs)
        /\ want' = SubSeq(want, 1, off) \o xs \o SubSeq(want, off + 1, Len(want))
  BY DEF PodInsert, Room
<1>2. /\ IsVec(vec) /\ Kept(vec, want) /\ vec.size \in Nat /\ Len(want) = vec.size /\ vec.size <= Len(vec.mem)
      /\ xs \in Seq(Int)
  BY RangesAre DEF PodInv, IsVec, Kept
<1>3. off \in Nat /\ off <= vec.size /\ off <= off /\ off <= Len(want)
  BY <1>2
<1>4. Splices(vec', vec, off, off, xs)
  BY <1>1, <1>2, <1>3, InsertOf
<1> QED BY <1>1, <1>2, <1>3, <1>4, SplicesInv DEF PodInv

(* upper_bound finds the place the sorted insert has in the sequence.      *)
LEMMA PodKeepsInsertSorted ==
  ASSUME PodInv, PodInsertSorted
  PROVE  PodInv'
<1>1. PICK x \in PodValues, off \in 0..Len(want) :
        /\ vec.size + 1 <= PodMax /\ \A i \in DOMAIN want : want[i] # Unwritten
        /\ vec' = Insert(vec, UpperBound(vec, x), <<x>>)
        /\ \A j \in 1..off : want[j] <= x
        /\ \A j \in (off + 1)..Len(want) : want[j] > x
        /\ want' = SubSeq(want, 1, off) \o <<x>> \o SubSeq(want, off + 1, Len(want))
  BY DEF PodInsertSorted, Room
<1>2. PICK z, m, w : z = vec.size /\ m = vec.mem /\ w = want
  OBVIOUS
<1>3. /\ IsVec(vec) /\ Kept(vec, want) /\ z \in Nat /\ Len(w) = z /\ z <= Len(m) /\ w \in Seq(Int)
      /\ \A i \in 1..z : w[i] # Unwritten => m[i] = w[i]
  BY <1>2 DEF PodInv, IsVec, Kept
<1>4. \A i \in 1..z : m[i] = w[i] /\ w[i] \in Int
  <2>1. \A i \in 1..z : i \in DOMAIN w /\ i \in 1..Len(w)
    BY <1>3, LenProperties
  <2> QED BY <1>1, <1>2, <1>3, <2>1, ElementOfSeq
<1>5. x \in Int /\ off \in 0..z
  BY <1>1, <1>2, <1>3, PodAssumption
<1> DEFINE P(i) == (\A j \in 1..i : m[j] <= x) /\ (i < z => m[i + 1] > x)
<1>6. UpperBound(vec, x) = CHOOSE i \in 0..z : P(i)
  BY <1>2 DEF UpperBound
<1>7. P(off)
  <2>1. \A j \in 1..off : m[j] <= x
    <3>1. \A j \in 1..off : j \in 1..z
      BY <1>3, <1>5
    <3> QED BY <1>1, <1>2, <1>4, <3>1
  <2>2. ASSUME off < z PROVE m[off + 1] > x
    <3>1. off + 1 \in 1..z /\ off + 1 \in (off + 1)..Len(w)
      BY <1>3, <1>5, <2>2
    <3> QED BY <1>1, <1>2, <1>4, <3>1
  <2> QED BY <2>1, <2>2
<1>8. ASSUME NEW i \in 0..z, P(i) PROVE i = off
  <2>1. CASE i < off
    <3>1. i + 1 \in 1..off /\ i + 1 \in 1..z /\ i < z
      BY <1>3, <1>5, <2>1
    <3>2. m[i + 1] \in Int /\ m[i + 1] <= x /\ m[i + 1] > x
      BY <1>4, <1>7, <1>8, <3>1
    <3> QED BY <1>5, <3>2
  <2>2. CASE off < i
    <3>1. off + 1 \in 1..i /\ off + 1 \in 1..z /\ off < z
      BY <1>3, <1>5, <2>2
    <3>2. m[off + 1] \in Int /\ m[off + 1] <= x /\ m[off + 1] > x
      BY <1>4, <1>7, <1>8, <3>1
    <3> QED BY <1>5, <3>2
  <2> QED BY <1>3, <1>5, <2>1, <2>2
<1> HIDE DEF P
<1>9. UpperBound(vec, x) = off
  BY <1>5, <1>6, <1>7, <1>8
<1>10. PICK xs : xs = <<x>>
  OBVIOUS
<1>11. xs \in Seq(Int) /\ Len(xs) = 1
  BY <1>5, <1>10
<1>12. off \in Nat /\ off <= vec.size /\ off <= off /\ off <= Len(want) /\ vec.size + Len(xs) <= PodMax
  BY <1>1, <1>2, <1>3, <1>5, <1>11
<1>13. Splices(vec', vec, off, off, xs)
  BY <1>1, <1>2, <1>3, <1>9, <1>10, <1>11, <1>12, InsertOf
<1>14. want' = SubSeq(want, 1, off) \o xs \o SubSeq(want, off + 1, Len(want))
  BY <1>1, <1>10
<1> QED BY <1>3, <1>11, <1>12, <1>13, <1>14, SplicesInv DEF PodInv

LEMMA PodKeepsErase ==
  ASSUME PodInv, PodErase
  PROVE  PodInv'
<1>1. PICK from \in 0..vec.size, to \in 0..vec.size :
        /\ from <= to /\ vec' = Erase(vec, from, to)
        /\ want' = SubSeq(want, 1, from) \o SubSeq(want, to + 1, Len(want))
  BY DEF PodErase
<1>2. IsVec(vec) /\ Kept(vec, want) /\ vec.size \in Nat /\ Len(want) = vec.size /\ vec.size <= Len(vec.mem) /\ want \in Seq(Int)
  BY DEF PodInv, IsVec, Kept
<1>3. from \in Nat /\ to \in Nat /\ to <= vec.size /\ from <= Len(want) /\ to <= Len(want)
  BY <1>1, <1>2
<1>4. PICK e : e = << >>
  OBVIOUS
<1>5. e \in Seq(Int)
  BY <1>4
<1>6. Splices(vec', vec, from, to, e)
  BY <1>1, <1>2, <1>3, <1>4, EraseOf
<1>7. want' = SubSeq(want, 1, from) \o e \o SubSeq(want, to + 1, Len(want))
  <2>1. PICK p : p = SubSeq(want, 1, from)
    OBVIOUS
  <2>2. p \in Seq(Int)
    <3>1. \A i \in 1..from : want[i] \in Int
      <4>1. \A i \in 1..from : i \in 1..Len(want)
        BY <1>2, <1>3
      <4> QED BY <1>2, <4>1, ElementOfSeq
    <3> QED BY <1>3, <2>1, <3>1, SubSeqProperties
  <2>3. p \o e = p
    BY <1>4, <2>2, ConcatEmptySeq
  <2> QED BY <1>1, <2>1, <2>3
<1> QED BY <1>1, <1>2, <1>3, <1>5, <1>6, <1>7, SplicesInv DEF PodInv

(* A vector that has grown holds the old sequence, cut or lengthened by    *)
(* elements nobody has written.                                            *)
LEMMA GrownKept ==
  ASSUME NEW v, NEW w, IsVec(v), Kept(v, w), NEW n \in Nat, NEW r, Grows(r, v, n)
  PROVE  Kept(r, [i \in 1..n |-> IF i <= Len(w) THEN w[i] ELSE Unwritten])
<1>1. PICK l, m, s : l = Len(w) /\ m = Len(v.mem) /\ s = [i \in 1..n |-> IF i <= l THEN w[i] ELSE Unwritten]
  OBVIOUS
<1>2. /\ l \in Nat /\ m \in Nat /\ l <= m /\ w \in Seq(Int)
      /\ \A i \in 1..l : w[i] # Unwritten => v.mem[i] = w[i]
  BY <1>1, LenProperties DEF Kept, IsVec
<1>3. /\ r.size = n /\ n <= Len(r.mem) /\ Len(r.mem) \in Nat
      /\ \A i \in 1..m : i <= Len(r.mem) => r.mem[i] = v.mem[i]
  BY <1>1 DEF Grows
<1>4. s \in Seq(Int) /\ Len(s) = n
  <2>1. ASSUME NEW i \in 1..n PROVE (IF i <= l THEN w[i] ELSE Unwritten) \in Int
    <3>1. i <= l => i \in 1..Len(w)
      BY <1>1, <1>2
    <3> QED BY <1>2, <3>1, ElementOfSeq DEF Unwritten
  <2>2. s \in [1..n -> Int]
    BY <1>1, <2>1
  <2> QED BY <2>2, SequenceIs
<1>5. ASSUME NEW i \in 1..n, s[i] # Unwritten PROVE r.mem[i] = s[i]
  <2>1. i <= l /\ s[i] = w[i]
    BY <1>1, <1>5
  <2>2. i \in 1..l /\ i \in 1..m /\ i <= Len(r.mem)
    BY <1>2, <1>3, <2>1
  <2> QED BY <1>2, <1>3, <1>5, <2>1, <2>2
<1> QED BY <1>1, <1>3, <1>4, <1>5 DEF Kept

LEMMA PodKeepsResize ==
  ASSUME PodInv, PodResize
  PROVE  PodInv'
<1>1. PICK n \in 0..PodMax, x \in PodValues \cup {Unwritten} :
        /\ vec' = (IF x = Unwritten THEN Resize(vec, n) ELSE ResizeFill(vec, n, x))
        /\ want' = [i \in 1..n |-> IF i <= Len(want) THEN want[i] ELSE x]
  BY DEF PodResize
<1>2. PICK z, m, l, w : z = vec.size /\ m = vec.mem /\ l = Len(vec.mem) /\ w = want
  OBVIOUS
<1>3. /\ IsVec(vec) /\ Kept(vec, want) /\ z \in Nat /\ Len(w) = z /\ z <= l /\ w \in Seq(Int) /\ l \in Nat /\ m \in Seq(Int)
      /\ \A i \in 1..z : w[i] # Unwritten => m[i] = w[i]
  BY <1>2, LenProperties DEF PodInv, IsVec, Kept
<1>4. n \in Nat /\ n <= PodMax /\ x \in Int
  BY <1>1, PodAssumption DEF Unwritten
<1>5. PICK u : u = Resize(vec, n)
  OBVIOUS
<1>6. Grows(u, vec, n)
  BY <1>3, <1>4, <1>5, ResizeOf
<1>7. CASE x = Unwritten
  <2>1. vec' = u /\ want' = [i \in 1..n |-> IF i <= Len(want) THEN want[i] ELSE Unwritten]
    BY <1>1, <1>5, <1>7
  <2>2. IsVec(vec')
    BY <1>6, <2>1 DEF Grows
  <2> QED BY <1>3, <1>4, <1>6, <2>1, <2>2, GrownKept DEF PodInv
<1>8. CASE x # Unwritten /\ ~(z < n)
  <2>1. vec' = u
    BY <1>1, <1>2, <1>5, <1>8 DEF ResizeFill
  <2>2. \A i \in 1..n : i <= Len(want)
    BY <1>2, <1>3, <1>4, <1>8
  <2>3. want' = [i \in 1..n |-> IF i <= Len(want) THEN want[i] ELSE Unwritten]
    BY <1>1, <2>2
  <2>4. IsVec(vec')
    BY <1>6, <2>1 DEF Grows
  <2> QED BY <1>3, <1>4, <1>6, <2>1, <2>3, <2>4, GrownKept DEF PodInv
<1>9. CASE x # Unwritten /\ z < n
  <2>1. PICK f, r : f = [i \in 1..(n - z) |-> x] /\ r = Fill(u, z, f)
    OBVIOUS
  <2>2. vec' = r
    BY <1>1, <1>2, <1>5, <1>9, <2>1 DEF ResizeFill
  <2>3. f \in Seq(Int) /\ Len(f) = n - z
    <3>1. n - z \in Nat /\ f \in [1..(n - z) -> Int]
      BY <1>3, <1>4, <1>9, <2>1
    <3> QED BY <3>1, SequenceIs
  <2>4. /\ IsVec(u) /\ u.size = n /\ n <= Len(u.mem) /\ Len(u.mem) \in Nat
        /\ \A i \in 1..l : i <= Len(u.mem) => u.mem[i] = m[i]
    BY <1>2, <1>6 DEF Grows
  <2>5. /\ IsVec(r) /\ r.size = n /\ Len(r.mem) = Len(u.mem)
        /\ \A i \in 1..Len(u.mem) : r.mem[i] = IF z < i /\ i <= z + (n - z) THEN f[i - z] ELSE u.mem[i]
    <3>1. Filled(r, u, z, f)
      BY <1>3, <2>1, <2>3, <2>4, FillOf
    <3> QED BY <2>3, <2>4, <3>1 DEF Filled
  <2>6. PICK s : s = [i \in 1..n |-> IF i <= z THEN w[i] ELSE x]
    OBVIOUS
  <2>7. s = want'
    BY <1>1, <1>2, <1>3, <2>6
  <2>8. s \in Seq(Int) /\ Len(s) = n
    <3>1. ASSUME NEW i \in 1..n PROVE (IF i <= z THEN w[i] ELSE x) \in Int
      <4>1. i <= z => i \in 1..Len(w)
        BY <1>3, <1>4
      <4> QED BY <1>3, <1>4, <4>1, ElementOfSeq
    <3>2. s \in [1..n -> Int]
      BY <2>6, <3>1
    <3> QED BY <1>4, <3>2, SequenceIs
  <2>9. ASSUME NEW i \in 1..n, s[i] # Unwritten PROVE r.mem[i] = s[i]
    <3>0. i \in 1..Len(u.mem) /\ i <= z + (n - z) /\ i <= Len(u.mem)
      BY <1>3, <1>4, <2>4
    <3>1. CASE i <= z
      <4>1. ~(z < i) /\ i \in 1..z /\ i \in 1..l
        BY <1>3, <3>1
      <4> QED BY <1>3, <2>4, <2>5, <2>6, <2>9, <3>0, <3>1, <4>1
    <3>2. CASE ~(i <= z)
      <4>1. z < i /\ i - z \in 1..(n - z)
        BY <1>3, <1>4, <3>2
      <4> QED BY <2>1, <2>5, <2>6, <3>0, <3>2, <4>1
    <3> QED BY <3>1, <3>2
  <2> QED BY <2>2, <2>4, <2>5, <2>7, <2>8, <2>9 DEF PodInv, Kept
<1> QED BY <1>3, <1>4, <1>7, <1>8, <1>9

(* New storage with room for the elements keeps them.                      *)
LEMMA ReallocateKept ==
  ASSUME NEW v, NEW w, IsVec(v), Kept(v, w), NEW n \in Nat, n <= PodMax, v.size <= n
  PROVE  IsVec(Reallocate(v, n)) /\ Kept(Reallocate(v, n), w)
<1>1. PICK r, z, l : r = Reallocate(v, n) /\ z = v.size /\ l = Len(v.mem)
  OBVIOUS
<1>2. /\ z \in Nat /\ l \in Nat /\ z <= l /\ w \in Seq(Int) /\ Len(w) = z
      /\ \A i \in 1..z : w[i] # Unwritten => v.mem[i] = w[i]
  BY <1>1, LenProperties DEF IsVec, Kept
<1>3. IsVec(r) /\ r.size = z /\ Len(r.mem) = n /\ \A i \in 1..n : i <= l => r.mem[i] = v.mem[i]
  BY <1>1, ReallocateOf
<1>4. \A i \in 1..z : i \in 1..n /\ i <= l
  BY <1>1, <1>2
<1> QED BY <1>1, <1>2, <1>3, <1>4 DEF Kept

LEMMA PodKeepsCapacity ==
  ASSUME PodInv, PodCapacity
  PROVE  PodInv'
<1>1. IsVec(vec) /\ Kept(vec, want) /\ vec.size \in Nat /\ vec.size <= Len(vec.mem) /\ Len(vec.mem) \in Nat /\ Len(vec.mem) <= PodMax
  BY LenProperties DEF PodInv, IsVec, Kept
<1>2. want' = want
  BY DEF PodCapacity
<1>3. CASE vec' = ShrinkToFit(vec)
  <2>1. CASE vec.size = 0
    <3>1. PICK e : e = << >>
      OBVIOUS
    <3>2. vec' = [mem |-> e, size |-> 0] /\ e \in Seq(Int) /\ Len(e) = 0 /\ 0 <= PodMax /\ 0 \in Nat
      BY <1>3, <2>1, <3>1, PodAssumption DEF ShrinkToFit
    <3>3. IsVec(vec')
      BY <3>2 DEF IsVec
    <3>4. want \in Seq(Int) /\ Len(want) = 0
      BY <1>1, <2>1 DEF Kept
    <3>5. \A i \in 1..0 : FALSE
      OBVIOUS
    <3> QED BY <1>2, <3>2, <3>3, <3>4, <3>5 DEF PodInv, Kept
  <2>2. CASE vec.size = Len(vec.mem) /\ vec.size # 0
    <3>1. vec' = vec
      BY <1>3, <2>2 DEF ShrinkToFit, Cap
    <3> QED BY <1>1, <1>2, <3>1 DEF PodInv
  <2>3. CASE vec.size # Len(vec.mem) /\ vec.size # 0
    <3>1. vec' = Reallocate(vec, vec.size)
      BY <1>3, <2>3 DEF ShrinkToFit, Cap
    <3>2. vec.size <= PodMax /\ vec.size <= vec.size
      BY <1>1, PodAssumption
    <3> QED BY <1>1, <1>2, <3>1, <3>2, ReallocateKept DEF PodInv
  <2> QED BY <2>1, <2>2, <2>3
<1>4. ASSUME NEW n \in 0..PodMax, vec' = Reserve(vec, n) PROVE PodInv'
  <2>1. CASE Len(vec.mem) < n
    <3>1. vec' = Reallocate(vec, n)
      BY <1>4, <2>1 DEF Reserve, Cap
    <3>2. n \in Nat /\ n <= PodMax /\ vec.size <= n
      BY <1>1, <2>1, PodAssumption
    <3> QED BY <1>1, <1>2, <3>1, <3>2, ReallocateKept DEF PodInv
  <2>2. CASE ~(Len(vec.mem) < n)
    <3>1. vec' = vec
      BY <1>4, <2>2 DEF Reserve, Cap
    <3> QED BY <1>1, <1>2, <3>1 DEF PodInv
  <2> QED BY <2>1, <2>2
<1> QED BY <1>3, <1>4 DEF PodCapacity

(* Storage filled from its start, and nothing else in use.                 *)
LEMMA FilledKept ==
  ASSUME NEW v, IsVec(v), NEW xs \in Seq(Int), Len(xs) <= Len(v.mem),
         NEW r, Filled(r, v, 0, xs), NEW u, u = [r EXCEPT !.size = Len(xs)]
  PROVE  IsVec(u) /\ Kept(u, xs)
<1>1. PICK n, l : n = Len(xs) /\ l = Len(v.mem)
  OBVIOUS
<1>2. n \in Nat /\ l \in Nat /\ n <= l
  BY <1>1, LenProperties DEF IsVec
<1>3. IsVec(r) /\ Len(r.mem) = l /\ \A i \in 1..l : r.mem[i] = IF 0 < i /\ i <= 0 + n THEN xs[i - 0] ELSE v.mem[i]
  BY <1>1 DEF Filled
<1>4. \A i \in 1..n : i \in 1..l /\ 0 < i /\ i <= 0 + n /\ i - 0 = i
  BY <1>2
<1>5. IsVec(u) /\ u.size = n /\ u.mem = r.mem
  BY <1>1, <1>2, <1>3, SizeOf
<1> QED BY <1>1, <1>2, <1>3, <1>4, <1>5 DEF Kept

LEMMA PodKeepsAssign ==
  ASSUME PodInv, PodAssign
  PROVE  PodInv'
<1>1. PICK xs \in Ranges : Len(xs) <= PodMax /\ vec' = Assign(vec, xs) /\ want' = xs
  BY DEF PodAssign
<1>2. IsVec(vec) /\ xs \in Seq(Int) /\ Len(xs) \in Nat /\ 0 \in Nat /\ Len(vec.mem) \in Nat
  BY RangesAre, LenProperties DEF PodInv, IsVec
<1>3. PICK v : v = [vec EXCEPT !.size = 0]
  OBVIOUS
<1>4. IsVec(v) /\ v.size = 0 /\ v.mem = vec.mem
  BY <1>2, <1>3, SizeOf
<1>5. CASE xs = << >>
  <2>1. vec' = v /\ Len(xs) = 0 /\ \A i \in 1..0 : FALSE
    BY <1>1, <1>3, <1>5 DEF Assign
  <2> QED BY <1>1, <1>2, <1>4, <2>1 DEF PodInv, Kept
<1>6. CASE xs # << >>
  <2>1. PICK u, r : u = Resize(v, Len(xs)) /\ r = Fill(u, 0, xs)
    OBVIOUS
  <2>2. vec' = r
    BY <1>1, <1>3, <1>6, <2>1 DEF Assign
  <2>3. Grows(u, v, Len(xs))
    BY <1>1, <1>2, <1>4, <2>1, ResizeOf
  <2>4. IsVec(u) /\ u.size = Len(xs) /\ Len(xs) <= Len(u.mem)
    BY <2>3 DEF Grows
  <2>5. Filled(r, u, 0, xs)
    BY <1>2, <2>1, <2>4, FillOf
  <2>6. r = [r EXCEPT !.size = Len(xs)]
    <3>1. IsVec(r) /\ r.size = Len(xs)
      BY <2>4, <2>5 DEF Filled
    <3>2. PICK m, z : m = r.mem /\ z = r.size
      OBVIOUS
    <3>3. r = [mem |-> m, size |-> z]
      BY <3>1, <3>2 DEF IsVec
    <3> QED BY <3>1, <3>2, <3>3
  <2> QED BY <1>1, <1>2, <2>2, <2>4, <2>5, <2>6, FilledKept DEF PodInv
<1> QED BY <1>5, <1>6

LEMMA PodKeepsOverwrite ==
  ASSUME PodInv, PodOverwrite
  PROVE  PodInv'
<1>0. PICK n \in 1..PodMax, x \in PodValues :
        \E k \in 0..n :
          /\ vec' = [Fill(Reallocate(vec, n), 0, [i \in 1..k |-> x]) EXCEPT !.size = k]
          /\ want' = [i \in 1..k |-> x]
  BY DEF PodOverwrite
<1>1. PICK k \in 0..n :
        /\ vec' = [Fill(Reallocate(vec, n), 0, [i \in 1..k |-> x]) EXCEPT !.size = k]
        /\ want' = [i \in 1..k |-> x]
  BY <1>0
<1>2. IsVec(vec) /\ n \in Nat /\ n <= PodMax /\ k \in Nat /\ k <= n /\ x \in Int /\ 0 \in Nat
  BY <1>1, PodAssumption DEF PodInv
<1>3. PICK v, xs, r : v = Reallocate(vec, n) /\ xs = [i \in 1..k |-> x] /\ r = Fill(v, 0, xs)
  OBVIOUS
<1>4. xs \in Seq(Int) /\ Len(xs) = k
  <2>1. xs \in [1..k -> Int]
    BY <1>2, <1>3
  <2> QED BY <1>2, <2>1, SequenceIs
<1>5. IsVec(v) /\ Len(v.mem) = n
  BY <1>2, <1>3, ReallocateOf
<1>6. Filled(r, v, 0, xs)
  BY <1>2, <1>3, <1>4, <1>5, FillOf
<1>7. vec' = [r EXCEPT !.size = Len(xs)] /\ want' = xs /\ Len(xs) <= Len(v.mem)
  BY <1>1, <1>2, <1>3, <1>4, <1>5
<1> QED BY <1>4, <1>5, <1>6, <1>7, FilledKept DEF PodInv

LEMMA PodStep ==
  ASSUME PodInv, PodNext
  PROVE  PodInv'
<1> QED BY PodKeepsInsert, PodKeepsInsertSorted, PodKeepsErase, PodKeepsResize, PodKeepsCapacity,
           PodKeepsAssign, PodKeepsOverwrite DEF PodNext

LEMMA PodSafe ==
  ASSUME PodInv
  PROVE  PodTypeOK /\ ContentKept
<1>1. /\ want \in Seq(Int) /\ Len(want) = vec.size /\ vec.size <= Len(vec.mem) /\ Len(vec.mem) \in Nat
      /\ Len(vec.mem) <= PodMax /\ vec.size \in Nat
      /\ \A i \in 1..Len(want) : want[i] # Unwritten => vec.mem[i] = want[i]
  BY LenProperties DEF PodInv, IsVec, Kept
<1>2. DOMAIN want = 1..Len(want)
  BY <1>1, LenProperties
<1>3. \A i \in 1..Len(want) : i <= Len(vec.mem)
  BY <1>1
<1>4. vec.size \in 0..Len(vec.mem)
  BY <1>1
<1> QED BY <1>1, <1>2, <1>3, <1>4 DEF PodTypeOK, ContentKept, Cap

LEMMA MemoryStarts ==
  ASSUME MCInit
  PROVE  RefInv /\ OneInv /\ PoolInv /\ PodInv
<1>1. RefInv
  <2>1. /\ ptr = [h \in Handles |-> NoObject] /\ strong = [o \in Targets |-> 0] /\ raw = {}
        /\ NoObject \notin Targets /\ 0 <= MaxRefs
    BY OwnAssumption DEF MCInit, OwnInit
  <2>2. ASSUME NEW o \in Targets PROVE Cardinality({h \in Handles : ptr[h] = o}) = 0
    <3>1. {h \in Handles : ptr[h] = o} = {}
      BY <2>1
    <3> QED BY <3>1, FS_EmptySet
  <2> QED BY <2>1, <2>2 DEF RefInv, NoDangling
<1>2. OneInv
  <2>1. /\ single = 0 /\ made = 0 /\ ended = {} /\ MaxMade \in Nat /\ 1..0 = {}
        /\ user = [u \in Users |-> [at |-> "out", got |-> 0]]
    BY OwnAssumption DEF MCInit, OwnInit
  <2>2. /\ user \in [Users -> [at : {"out", "lock", "load"}, got : Nat]]
        /\ \A u \in Users : user[u].got \in 0..0
    BY <2>1
  <2>3. made \in 0..MaxMade /\ single \in 0..made
    BY <2>1
  <2>4. 1..made \ ended = {}
    BY <2>1
  <2> QED BY <2>1, <2>2, <2>3, <2>4 DEF OneInv, OneInstance, SameInstance
<1>3. PoolInv
  BY PoolStarts DEF MCInit
<1>4. PodInv
  <2>1. PICK e : e = << >>
    OBVIOUS
  <2>2. vec = [mem |-> e, size |-> 0] /\ want = e /\ e \in Seq(Int) /\ Len(e) = 0 /\ 0 <= PodMax
    BY <2>1, PodAssumption DEF MCInit, PodInit
  <2>3. \A i \in 1..0 : FALSE
    OBVIOUS
  <2> QED BY <2>2, <2>3 DEF PodInv, IsVec, Kept
<1> QED BY <1>1, <1>2, <1>3, <1>4

LEMMA MemoryStep ==
  ASSUME RefInv, OneInv, PoolInv, PodInv, [MCNext]_all
  PROVE  RefInv' /\ OneInv' /\ PoolInv' /\ PodInv'
<1>1. ASSUME UNCHANGED refvars PROVE RefInv'
  BY <1>1 DEF refvars, RefInv, NoDangling
<1>2. ASSUME UNCHANGED onevars PROVE OneInv'
  BY <1>2 DEF onevars, OneInv, OneInstance, SameInstance
<1>3. ASSUME UNCHANGED poolvars PROVE PoolInv'
  BY <1>3 DEF poolvars, PoolInv, Elements
<1>4. ASSUME UNCHANGED podvars PROVE PodInv'
  BY <1>4 DEF podvars, PodInv
<1>5. CASE PoolNext /\ ButPool
  <2>1. UNCHANGED <<ownvars, podvars>>
    BY <1>5 DEF ButPool
  <2> QED BY <1>1, <1>2, <1>4, <1>5, <2>1, PoolStep DEF ownvars, refvars, onevars
<1>6. CASE OwnNext /\ ButOwn
  <2>1. UNCHANGED <<poolvars, podvars>>
    BY <1>6 DEF ButOwn
  <2>2. CASE RefNext
    <3>1. UNCHANGED onevars
      BY <2>2 DEF RefNext, New, Drop, Adopt, CopyAssign, MoveAssign
    <3> QED BY <1>2, <1>3, <1>4, <2>1, <2>2, <3>1, RefStep
  <2>3. CASE OneNext
    <3>1. UNCHANGED refvars
      BY <2>3 DEF OneNext, Instance, Construct, ReturnInstance, DestroyInstance, refvars
    <3> QED BY <1>1, <1>3, <1>4, <2>1, <2>3, <3>1, OneStep
  <2> QED BY <1>6, <2>2, <2>3 DEF OwnNext
<1>7. CASE PodNext /\ ButVector
  <2>1. UNCHANGED <<poolvars, ownvars>>
    BY <1>7 DEF ButVector
  <2> QED BY <1>1, <1>2, <1>3, <1>7, <2>1, PodStep DEF ownvars, refvars, onevars
<1>8. CASE ~(PoolNext /\ ButPool) /\ ~(OwnNext /\ ButOwn) /\ ~(PodNext /\ ButVector)
  <2>1. UNCHANGED poolvars /\ UNCHANGED ownvars /\ UNCHANGED podvars
    BY <1>8 DEF MCNext, all, ButHttp, ButLock, ButStream, ButView, ButString, ButCookie, ButUri, ButInet,
                ButEndpoint, ButSocket, ButConnect, ButInterrupter, ButOptions
  <2> QED BY <1>1, <1>2, <1>3, <1>4, <2>1 DEF ownvars, refvars, onevars
<1> QED BY <1>5, <1>6, <1>7, <1>8

(* The memory utilities: for any number of handles, threads and elements,  *)
(* and any sequence of calls, a ref_ptr never outlives its object, the     *)
(* instance of singleton is one and the one every caller of instance()     *)
(* got, the free list of object_pool is every element not in use and each  *)
(* of them once, and pod_vector holds what a vector would.                 *)
THEOREM MemoryKept == MCSpec => []MemorySafe
<1> DEFINE Inv == RefInv /\ OneInv /\ PoolInv /\ PodInv
<1>1. MCInit => Inv
  BY MemoryStarts
<1>2. Inv /\ [MCNext]_all => Inv'
  BY MemoryStep
<1>3. Inv => MemorySafe
  BY OwnersSafe, PoolSafe, PodSafe DEF MemorySafe
<1> QED BY <1>1, <1>2, <1>3, PTL DEF MCSpec

-----------------------------------------------------------------------------
(* Endpoints.                                                              *)
EpInv ==
  /\ \/ parsed = <<NoText, Unspec>>
     \/ \E six \in BOOLEAN, addr \in EpAddrs, zone \in Zones, port \in EpPorts :
          parsed = <<ToText(AsIn(six, addr, zone, port)), AsIn(six, addr, zone, port)>>
  /\ routes \subseteq EpPeers
  /\ \A a, b \in routes : a # b => EpLess(a, b) \/ EpLess(b, a)

LEMMA EpStep ==
  ASSUME EpInv, EpNext
  PROVE  EpInv'
<1>1. CASE EpReadText
  BY <1>1 DEF EpReadText, EpInv
<1>2. CASE EpRoute
  <2>1. PICK p \in EpPeers :
          \/ UNCHANGED routes
          \/ (\A r \in routes : ~EpEqual(r, p)) /\ routes' = routes \cup {p}
    BY <1>2 DEF EpRoute
  <2>2. parsed' = parsed
    BY <1>2 DEF EpRoute
  <2> QED BY <2>1, <2>2 DEF EpInv, EpEqual
<1> QED BY <1>1, <1>2 DEF EpNext

LEMMA EpSafe ==
  ASSUME EpInv
  PROVE  EndpointReads /\ OrderStrict
<1>1. EndpointReads
  <2>1. CASE parsed = <<NoText, Unspec>>
    BY <2>1 DEF EndpointReads
  <2>2. CASE parsed # <<NoText, Unspec>>
    <3>1. PICK six \in BOOLEAN, addr \in EpAddrs, zone \in Zones, port \in EpPorts :
            parsed = <<ToText(AsIn(six, addr, zone, port)), AsIn(six, addr, zone, port)>>
      BY <2>2 DEF EpInv
    <3>2. PICK f, z : f = (IF six THEN 6 ELSE 4) /\ z = (IF six THEN zone ELSE 0)
      OBVIOUS
    <3>3. PICK ep : ep = [af |-> f, addr |-> addr, port |-> port, scope |-> z]
      OBVIOUS
    <3>4. parsed = <<ToText(ep), ep>>
      BY <3>1, <3>2, <3>3 DEF AsIn
    <3>5. parsed[1] = ToText(ep) /\ parsed[2] = ep
      BY <3>4
    <3>6. PICK t, u, w : t = ToText(ep) /\ u = (f = 6) /\ w = (port # 0)
      OBVIOUS
    <3>9. t = [bracket |-> u, rest |-> w, addr |-> addr, zone |-> 0, port |-> port]
      BY <3>3, <3>6 DEF ToText
    <3>10. t.bracket = u /\ t.rest = w /\ t.addr = addr /\ t.port = port
      BY <3>9
    <3>7. CASE port = 0
      <4>1. AsIs(ToText(ep)) = Unspec
        BY <3>6, <3>7, <3>10, Zenon DEF AsIs
      <4> QED BY <3>3, <3>5, <3>7, <4>1 DEF EndpointReads
    <3>8. CASE port # 0
      <4>1. AsIs(ToText(ep)) = [af |-> IF f = 6 THEN 6 ELSE 4, addr |-> addr, port |-> port, scope |-> 0]
        BY <3>6, <3>8, <3>10, Zenon DEF AsIs
      <4>2. [ep EXCEPT !.scope = 0] = [af |-> f, addr |-> addr, port |-> port, scope |-> 0]
        BY <3>3
      <4>3. f = IF f = 6 THEN 6 ELSE 4
        BY <3>2
      <4> QED BY <3>3, <3>5, <3>8, <4>1, <4>2, <4>3 DEF EndpointReads
    <3> QED BY <3>7, <3>8
  <2> QED BY <2>1, <2>2
<1>2. OrderStrict
  <2>1. ASSUME NEW a \in routes, NEW b \in routes, a # b, a.af = b.af
        PROVE  /\ EpLess(a, b) <=> ~EpLess(b, a)
               /\ \A c \in routes : (c.af = a.af /\ EpLess(a, b)) => EpLess(a, c) \/ EpLess(c, b)
    <3>1. \A e \in routes : e.addr \in Int /\ e.port \in Int /\ e.scope \in Int /\ e.af \in {4, 6}
      <4>1. routes \subseteq [af : {4, 6}, addr : EpAddrs, port : EpPorts, scope : Zones]
        BY EndpointAssumption DEF EpInv
      <4>2. EpAddrs \subseteq Int /\ EpPorts \subseteq Int /\ Zones \subseteq Int
        BY EndpointAssumption
      <4> QED BY <4>1, <4>2
    <3>2. EpLess(a, b) \/ EpLess(b, a)
      BY <2>1 DEF EpInv
    <3>3. ~(EpLess(a, b) /\ EpLess(b, a))
      BY <2>1, <3>1 DEF EpLess, SumOf
    <3>4. ASSUME NEW c \in routes, c.af = a.af, EpLess(a, b) PROVE EpLess(a, c) \/ EpLess(c, b)
      BY <2>1, <3>1, <3>4 DEF EpLess, SumOf
    <3> QED BY <3>2, <3>3, <3>4
  <2> QED BY <2>1 DEF OrderStrict
<1> QED BY <1>1, <1>2

(* Connectors.  The walk of OfFamily takes the addresses of one family.    *)
Elems(s) == {s[i] : i \in DOMAIN s}

LEMMA FamilyOf ==
  ASSUME NEW C, NEW q \in Seq(C), NEW af
  PROVE  /\ OfFamily(q, af) \in Seq(C)
         /\ Elems(OfFamily(q, af)) = {a \in Elems(q) : a.af = af}
<1> DEFINE n == Len(q)
           W == CHOOSE g : g = [i \in 0..n |-> IF i = 0 THEN <<>>
                                 ELSE IF q[i].af = af THEN Append(g[i - 1], q[i]) ELSE g[i - 1]]
<1>1. OfFamily(q, af) = W[n]
  BY DEF OfFamily
<1>2. n \in Nat /\ DOMAIN q = 1..n /\ \A i \in 1..n : q[i] \in C
  BY LenProperties
<1> HIDE DEF n
<1>3. PICK f : f = [p \in (1..n) \X Seq(C) |-> IF q[p[1]].af = af THEN Append(p[2], q[p[1]]) ELSE p[2]]
  OBVIOUS
<1>4. PICK V, v : V = Seq(C) /\ v = <<>>
  OBVIOUS
<1>5. Walkable(V, v, n, f)
  <2>1. f \in [(1..n) \X Seq(C) -> Seq(C)]
    BY <1>2, <1>3, AppendProperties
  <2>2. <<>> \in Seq(C)
    OBVIOUS
  <2> QED BY <1>2, <1>4, <2>1, <2>2 DEF Walkable
<1>6. PICK g : IsWalk(V, v, n, f, g)
  BY <1>5, WalkExists
<1>7. g \in [0..n -> Seq(C)] /\ g[0] = <<>> /\ \A i \in 1..n : g[i] = f[<<i, g[i - 1]>>]
  BY <1>4, <1>6 DEF IsWalk
<1>8. \A i \in 1..n : g[i] = IF q[i].af = af THEN Append(g[i - 1], q[i]) ELSE g[i - 1]
  <2> SUFFICES ASSUME NEW i \in 1..n PROVE g[i] = IF q[i].af = af THEN Append(g[i - 1], q[i]) ELSE g[i - 1]
    OBVIOUS
  <2>1. i - 1 \in 0..n
    BY <1>2
  <2>2. <<i, g[i - 1]>> \in (1..n) \X Seq(C)
    BY <1>7, <2>1
  <2>3. f[<<i, g[i - 1]>>] = IF q[i].af = af THEN Append(g[i - 1], q[i]) ELSE g[i - 1]
    BY <1>3, <2>2
  <2> QED BY <1>7, <2>3
<1>9. g = [i \in 0..n |-> IF i = 0 THEN <<>> ELSE IF q[i].af = af THEN Append(g[i - 1], q[i]) ELSE g[i - 1]]
  <2>1. \A i \in 0..n : g[i] = IF i = 0 THEN <<>> ELSE IF q[i].af = af THEN Append(g[i - 1], q[i]) ELSE g[i - 1]
    <3>1. \A i \in 0..n : i = 0 \/ i \in 1..n
      BY <1>2
    <3> QED BY <1>7, <1>8, <3>1
  <2>2. g = [i \in 0..n |-> g[i]]
    BY <1>7
  <2> QED BY <2>1, <2>2, Zenon
<1>10. W = [i \in 0..n |-> IF i = 0 THEN <<>> ELSE IF q[i].af = af THEN Append(W[i - 1], q[i]) ELSE W[i - 1]]
  BY <1>9, ZenonT(60)
<1> HIDE DEF W
<1>11. /\ W[0] = <<>>
       /\ \A i \in 1..n : W[i] = IF q[i].af = af THEN Append(W[i - 1], q[i]) ELSE W[i - 1]
  <2>1. 0 \in 0..n /\ \A i \in 1..n : i \in 0..n /\ i # 0
    BY <1>2
  <2> QED BY <1>10, <2>1
<1> DEFINE T(i) == {q[j] : j \in {j \in 1..i : q[j].af = af}}
           J(i) == W[i] \in Seq(C) /\ Elems(W[i]) = T(i)
           S == {i \in Nat : i <= n => J(i)}
<1>12. 0 \in S
  <2>1. <<>> \in Seq(C) /\ DOMAIN <<>> = {} /\ 1..0 = {}
    OBVIOUS
  <2>2. Elems(<<>>) = {}
    BY <2>1 DEF Elems
  <2> QED BY <1>11, <2>1, <2>2
<1>13. ASSUME NEW i \in S PROVE i + 1 \in S
  <2>1. SUFFICES ASSUME i + 1 <= n PROVE J(i + 1)
    OBVIOUS
  <2>2. i \in Nat /\ J(i) /\ i + 1 \in 1..n /\ (i + 1) - 1 = i /\ 1..(i + 1) = (1..i) \cup {i + 1}
    BY <1>2, <2>1
  <2>3. CASE q[i + 1].af = af
    <3>1. PICK w, c : w = W[i] /\ c = q[i + 1]
      OBVIOUS
    <3>2. W[i + 1] = Append(w, c) /\ w \in Seq(C) /\ c \in C
      BY <1>2, <1>11, <2>2, <2>3, <3>1
    <3>3. Append(w, c) \in Seq(C) /\ Elems(Append(w, c)) = Elems(w) \cup {c}
      <4>1. PICK a, l : a = Append(w, c) /\ l = Len(w)
        OBVIOUS
      <4>2. a \in Seq(C) /\ l \in Nat /\ Len(a) = l + 1 /\ \A j \in 1..l : a[j] = w[j]
        BY <3>2, <4>1, AppendProperties, LenProperties
      <4>3. DOMAIN a = 1..(l + 1) /\ DOMAIN w = 1..l /\ a[l + 1] = c
        BY <3>2, <4>1, <4>2, AppendProperties, LenProperties
      <4>4. 1..(l + 1) = (1..l) \cup {l + 1}
        BY <4>2
      <4> QED BY <4>1, <4>2, <4>3, <4>4 DEF Elems
    <3>4. T(i + 1) = T(i) \cup {c}
      BY <2>2, <2>3, <3>1
    <3> QED BY <2>2, <3>1, <3>2, <3>3, <3>4
  <2>4. CASE q[i + 1].af # af
    <3>1. W[i + 1] = W[i]
      BY <1>11, <2>2, <2>4
    <3>2. T(i + 1) = T(i)
      BY <2>2, <2>4
    <3> QED BY <2>2, <3>1, <3>2
  <2> QED BY <2>3, <2>4
<1> HIDE DEF J
<1>14. S = Nat
  BY <1>12, <1>13, Inductive
<1>15. J(n)
  BY <1>2, <1>14
<1>16. T(n) = {a \in Elems(q) : a.af = af}
  BY <1>2 DEF Elems
<1> QED BY <1>1, <1>15, <1>16 DEF J

(* The walk of getipsv sees the families of the global addresses.          *)
GlobalsOf(locals) == {af \in {4, 6} : \E i \in DOMAIN locals : locals[i].global /\ locals[i].af = af}

LEMMA IpsvOf ==
  ASSUME NEW q \in Seq(Locals)
  PROVE  GetIpsv(q) = GlobalsOf(q)
<1> DEFINE n == Len(q)
           W == CHOOSE g : g = [k \in 0..n |-> IF k = 0 THEN {}
                                 ELSE IF g[k - 1] = {4, 6} \/ ~q[k].global THEN g[k - 1] ELSE g[k - 1] \cup {q[k].af}]
<1>1. GetIpsv(q) = W[n]
  BY DEF GetIpsv
<1>2. n \in Nat /\ DOMAIN q = 1..n /\ \A i \in 1..n : q[i] \in Locals
  BY LenProperties
<1> HIDE DEF n
<1>3. PICK V, v : V = SUBSET {4, 6} /\ v = {}
  OBVIOUS
<1>4. PICK f : f = [p \in (1..n) \X V |-> IF p[2] = {4, 6} \/ ~q[p[1]].global THEN p[2] ELSE p[2] \cup {q[p[1]].af}]
  OBVIOUS
<1>5. Walkable(V, v, n, f)
  <2>1. \A i \in 1..n : q[i].af \in {4, 6}
    BY <1>2 DEF Locals
  <2>2. f \in [(1..n) \X V -> V]
    BY <1>3, <1>4, <2>1
  <2>3. v \in V
    BY <1>3
  <2> QED BY <1>2, <2>2, <2>3 DEF Walkable
<1>6. PICK g : IsWalk(V, v, n, f, g)
  BY <1>5, WalkExists
<1>7. g \in [0..n -> V] /\ g[0] = {} /\ \A i \in 1..n : g[i] = f[<<i, g[i - 1]>>]
  BY <1>3, <1>6 DEF IsWalk
<1>8. \A i \in 1..n : g[i] = IF g[i - 1] = {4, 6} \/ ~q[i].global THEN g[i - 1] ELSE g[i - 1] \cup {q[i].af}
  <2> SUFFICES ASSUME NEW i \in 1..n
               PROVE g[i] = IF g[i - 1] = {4, 6} \/ ~q[i].global THEN g[i - 1] ELSE g[i - 1] \cup {q[i].af}
    OBVIOUS
  <2>1. i - 1 \in 0..n
    BY <1>2
  <2>2. <<i, g[i - 1]>> \in (1..n) \X V
    BY <1>7, <2>1
  <2>3. f[<<i, g[i - 1]>>] = IF g[i - 1] = {4, 6} \/ ~q[i].global THEN g[i - 1] ELSE g[i - 1] \cup {q[i].af}
    BY <1>4, <2>2
  <2> QED BY <1>7, <2>3
<1>9. g = [k \in 0..n |-> IF k = 0 THEN {} ELSE IF g[k - 1] = {4, 6} \/ ~q[k].global THEN g[k - 1] ELSE g[k - 1] \cup {q[k].af}]
  <2>1. \A k \in 0..n : g[k] = IF k = 0 THEN {} ELSE IF g[k - 1] = {4, 6} \/ ~q[k].global THEN g[k - 1] ELSE g[k - 1] \cup {q[k].af}
    <3>1. \A i \in 0..n : i = 0 \/ i \in 1..n
      BY <1>2
    <3> QED BY <1>7, <1>8, <3>1
  <2>2. g = [k \in 0..n |-> g[k]]
    BY <1>7
  <2> QED BY <2>1, <2>2, Zenon
<1>10. W = [k \in 0..n |-> IF k = 0 THEN {} ELSE IF W[k - 1] = {4, 6} \/ ~q[k].global THEN W[k - 1] ELSE W[k - 1] \cup {q[k].af}]
  BY <1>9, ZenonT(60)
<1> HIDE DEF W
<1>11. /\ W[0] = {}
       /\ \A i \in 1..n : W[i] = IF W[i - 1] = {4, 6} \/ ~q[i].global THEN W[i - 1] ELSE W[i - 1] \cup {q[i].af}
  <2>1. 0 \in 0..n /\ \A i \in 1..n : i \in 0..n /\ i # 0
    BY <1>2
  <2> QED BY <1>10, <2>1
<1> DEFINE J(i) == W[i] = {af \in {4, 6} : \E j \in 1..i : q[j].global /\ q[j].af = af}
           S == {i \in Nat : i <= n => J(i)}
<1>12. 0 \in S
  BY <1>11
<1>13. ASSUME NEW i \in S PROVE i + 1 \in S
  <2>1. SUFFICES ASSUME i + 1 <= n PROVE J(i + 1)
    OBVIOUS
  <2>2. i \in Nat /\ J(i) /\ i + 1 \in 1..n /\ (i + 1) - 1 = i /\ 1..(i + 1) = (1..i) \cup {i + 1}
    BY <1>2, <2>1
  <2>3. q[i + 1].af \in {4, 6}
    BY <1>2, <2>2 DEF Locals
  <2>4. W[i + 1] = IF W[i] = {4, 6} \/ ~q[i + 1].global THEN W[i] ELSE W[i] \cup {q[i + 1].af}
    BY <1>11, <2>2
  <2> QED BY <2>2, <2>3, <2>4
<1> HIDE DEF J
<1>14. S = Nat
  BY <1>12, <1>13, Inductive
<1>15. J(n)
  BY <1>2, <1>14
<1> QED BY <1>1, <1>2, <1>15 DEF J, GlobalsOf

(* What is tried for an address of the host, and what may be.              *)
Answers == [af : {4, 6}, n : HostNumbers, mapped : BOOLEAN]
HcRecord ==
  [pc : {"answers", "returned"}, variant : Variants, host : Seq(Addresses), locals : Seq(Locals),
   flags : SUBSET {4, 6}, todo : Seq(Addresses), inner : Seq(Answers), tried : Seq(Answers \X BOOLEAN),
   error : {0, -1}, open : Seq(Answers)]

IsXp(h) == h.variant \in {"xpconnect", "xpconnect_n"}
MapsOf(S) == {[a EXCEPT !.af = 6, !.mapped = TRUE] : a \in {b \in S : b.af = 4}}
SixOf(S) == {b \in S : b.af = 6}
HasOf(h) == {a \in Elems(h.host) : IsXp(h) => a.af \in h.flags}
TriesOf(h, a) ==
  IF ~IsXp(h) \/ a.af \in h.flags THEN {a}
  ELSE IF a.af = 4 /\ 6 \in h.flags
  THEN IF SixOf(Elems(h.host)) = {} THEN MapsOf(Elems(h.host)) ELSE SixOf(Elems(h.host))
  ELSE {}
MaybeOf(h) == HasOf(h) \cup (IF IsXp(h) /\ h.flags = {6} THEN MapsOf(Elems(h.host)) ELSE {})

LEMMA EmptyElems ==
  ASSUME NEW C, NEW q \in Seq(C)
  PROVE  q = <<>> <=> Elems(q) = {}
<1>1. Len(q) \in Nat /\ DOMAIN q = 1..Len(q)
  BY LenProperties
<1>2. ASSUME Elems(q) = {} PROVE q = <<>>
  <2>1. ~(1 \in 1..Len(q))
    BY <1>1, <1>2 DEF Elems
  <2>2. Len(q) = 0
    BY <1>1, <2>1
  <2> QED BY <2>2, EmptySeq
<1>3. ASSUME q = <<>> PROVE Elems(q) = {}
  <2>1. Len(<<>>) = 0
    OBVIOUS
  <2>2. DOMAIN q = {}
    BY <1>1, <1>3, <2>1
  <2> QED BY <2>2 DEF Elems
<1> QED BY <1>2, <1>3

LEMMA AddressIs ==
  ASSUME NEW a \in Addresses
  PROVE  /\ a \in Answers /\ a.af \in {4, 6} /\ a.mapped = FALSE /\ a = [af |-> a.af, n |-> a.n, mapped |-> a.mapped]
         /\ [a EXCEPT !.af = 6, !.mapped = TRUE] \in Answers
         /\ [a EXCEPT !.af = 6, !.mapped = TRUE].n = a.n
         /\ [a EXCEPT !.af = 6, !.mapped = TRUE].mapped
BY DEF Addresses, Answers

LEMMA ElemsAre ==
  ASSUME NEW C, NEW q \in Seq(C)
  PROVE  Elems(q) \subseteq C
<1>1. DOMAIN q = 1..Len(q)
  BY LenProperties
<1> QED BY <1>1, ElementOfSeq DEF Elems

LEMMA MappedIs ==
  ASSUME NEW q \in Seq(Addresses)
  PROVE  Mapped(q) \in Seq(Answers) /\ Elems(Mapped(q)) = MapsOf(Elems(q))
<1>1. PICK v : v = OfFamily(q, 4)
  OBVIOUS
<1>2. v \in Seq(Addresses) /\ Elems(v) = {a \in Elems(q) : a.af = 4}
  BY <1>1, FamilyOf
<1>3. PICK m : m = [i \in DOMAIN v |-> [v[i] EXCEPT !.af = 6, !.mapped = TRUE]]
  OBVIOUS
<1>4. m = Mapped(q)
  BY <1>1, <1>3 DEF Mapped
<1>5. DOMAIN v = 1..Len(v) /\ Len(v) \in Nat /\ \A i \in DOMAIN v : v[i] \in Addresses
  BY <1>2, LenProperties, ElementOfSeq
<1>6. m \in [1..Len(v) -> Answers]
  <2>1. \A i \in DOMAIN v : [v[i] EXCEPT !.af = 6, !.mapped = TRUE] \in Answers
    BY <1>5, AddressIs
  <2> QED BY <1>3, <1>5, <2>1
<1>7. m \in Seq(Answers)
  BY <1>5, <1>6, SequenceIs
<1>8. Elems(m) = {[a EXCEPT !.af = 6, !.mapped = TRUE] : a \in Elems(v)}
  BY <1>3, ZenonT(60) DEF Elems
<1> QED BY <1>2, <1>4, <1>7, <1>8 DEF MapsOf

(* The candidates xpconnect and pconnect make of an answer.                *)
LEMMA CandidatesOf ==
  ASSUME hc \in HcRecord, NEW a \in Elems(hc.host), NEW c,
         c = IF hc.variant \in {"xpconnect", "xpconnect_n"} THEN XpCandidates(a) ELSE PlainCandidates(a)
  PROVE  c \in Seq(Answers) /\ Elems(c) = TriesOf(hc, a) /\ (~IsXp(hc) => Len(c) = 1)
<1>1. PICK H, q : H = Elems(hc.host) /\ q = hc.host
  OBVIOUS
<1>2. q \in Seq(Addresses) /\ a \in Addresses /\ H \subseteq Addresses
  <2>1. hc.host \in Seq(Addresses)
    BY DEF HcRecord
  <2> QED BY <1>1, <2>1, ElemsAre
<1>3. a \in Answers
  BY <1>2, AddressIs
<1>4. PICK o : o = <<a>>
  OBVIOUS
<1>5. o \in Seq(Answers) /\ Len(o) = 1 /\ Elems(o) = {a}
  <2>1. Len(o) = 1 /\ DOMAIN o = 1..1 /\ o[1] = a
    BY <1>4
  <2> QED BY <1>3, <1>4, <2>1 DEF Elems
<1>6. PICK e : e = <<>>
  OBVIOUS
<1>7. e \in Seq(Answers) /\ Elems(e) = {}
  <2>1. e \in Seq(Answers)
    BY <1>6
  <2> QED BY <1>6, <2>1, EmptyElems
<1>8. CASE ~IsXp(hc)
  <2>1. c = o
    BY <1>4, <1>8 DEF IsXp, PlainCandidates
  <2> QED BY <1>5, <1>8, <2>1 DEF TriesOf
<1>9. CASE IsXp(hc)
  <2>1. c = IF a.af \in hc.flags THEN o ELSE IF a.af = 4 /\ 6 \in hc.flags THEN Resolve(q, "v4to6") ELSE e
    BY <1>1, <1>4, <1>6, <1>9 DEF IsXp, XpCandidates
  <2>2. PICK s, m, r : s = OfFamily(q, 6) /\ m = Mapped(q) /\ r = Resolve(q, "v4to6")
    OBVIOUS
  <2>3. r = IF s # <<>> THEN s ELSE m
    BY <2>2 DEF Resolve
  <2>4. s \in Seq(Addresses) /\ Elems(s) = SixOf(H)
    BY <1>1, <1>2, <2>2, FamilyOf DEF SixOf
  <2>5. s \in Seq(Answers)
    <3>1. Addresses \subseteq Answers
      BY AddressIs
    <3>2. DOMAIN s = 1..Len(s) /\ Len(s) \in Nat /\ s \in [1..Len(s) -> Addresses]
      BY <2>4, LenProperties
    <3>3. s \in [1..Len(s) -> Answers]
      BY <3>1, <3>2
    <3> QED BY <3>2, <3>3, SequenceIs
  <2>6. m \in Seq(Answers) /\ Elems(m) = MapsOf(H)
    BY <1>1, <1>2, <2>2, MappedIs
  <2>7. s = <<>> <=> SixOf(H) = {}
    BY <2>4, EmptyElems
  <2>8. r \in Seq(Answers) /\ Elems(r) = IF SixOf(H) = {} THEN MapsOf(H) ELSE SixOf(H)
    BY <2>3, <2>4, <2>5, <2>6, <2>7
  <2> QED BY <1>1, <1>5, <1>7, <1>9, <2>1, <2>2, <2>8 DEF TriesOf
<1> QED BY <1>8, <1>9

LEMMA TriesAllowed ==
  ASSUME NEW h \in HcRecord, NEW a \in Elems(h.host)
  PROVE  TriesOf(h, a) \subseteq MaybeOf(h)
<1>1. h.flags \in SUBSET {4, 6} /\ h.host \in Seq(Addresses)
  BY DEF HcRecord
<1>2. \A b \in Elems(h.host) : b.af \in {4, 6}
  BY <1>1, ElemsAre, AddressIs
<1>3. 6 \in h.flags /\ 4 \notin h.flags => h.flags = {6}
  BY <1>1
<1> QED BY <1>1, <1>2, <1>3 DEF TriesOf, MaybeOf, HasOf, SixOf

LEMMA TailIs ==
  ASSUME NEW C, NEW q \in Seq(C), q # <<>>
  PROVE  /\ Tail(q) \in Seq(C) /\ Len(q) \in Nat /\ Len(q) >= 1 /\ Len(Tail(q)) = Len(q) - 1
         /\ \A i \in 1..(Len(q) - 1) : Tail(q)[i] = q[i + 1]
         /\ Head(q) = q[1] /\ Head(q) \in C /\ Elems(q) = {Head(q)} \cup Elems(Tail(q))
<1>1. Tail(q) \in Seq(C) /\ Len(Tail(q)) = Len(q) - 1 /\ \A i \in 1..Len(Tail(q)) : Tail(q)[i] = q[i + 1]
  BY HeadTailProperties
<1>2. Head(q) \in C /\ Head(q) = q[1]
  BY HeadTailProperties
<1>3. Len(q) \in Nat /\ Len(q) >= 1
  <2>1. Len(q) \in Nat /\ Len(q) # 0
    BY EmptySeq, LenProperties
  <2> QED BY <2>1
<1>4. DOMAIN q = 1..Len(q) /\ DOMAIN Tail(q) = 1..(Len(q) - 1)
  BY <1>1, LenProperties
<1>5. PICK l, t : l \in Nat /\ l = Len(q) /\ t = Tail(q) /\ l >= 1
  BY <1>3
<1>6. ASSUME NEW x \in Elems(q) PROVE x \in {q[1]} \cup Elems(t)
  <2>1. PICK i \in 1..l : x = q[i]
    BY <1>4, <1>5 DEF Elems
  <2>2. CASE i # 1
    <3>1. i - 1 \in 1..(l - 1) /\ (i - 1) + 1 = i
      <4>1. l \in Nat /\ l >= 1
        BY <1>5
      <4>2. i \in Nat /\ i >= 2 /\ i <= l
        BY <2>2, <4>1
      <4> HIDE <1>5
      <4> QED BY <4>1, <4>2
    <3>2. t[i - 1] = x /\ i - 1 \in DOMAIN t
      BY <1>1, <1>4, <1>5, <2>1, <3>1
    <3> QED BY <3>2 DEF Elems
  <2> QED BY <2>1, <2>2
<1>7. ASSUME NEW x \in Elems(t) PROVE x \in Elems(q)
  <2>1. PICK i \in 1..(l - 1) : x = t[i]
    BY <1>4, <1>5 DEF Elems
  <2>2. i + 1 \in 1..l /\ q[i + 1] = x
    BY <1>1, <1>5, <2>1
  <2> QED BY <1>4, <1>5, <2>2 DEF Elems
<1>8. q[1] \in Elems(q)
  <2>1. 1 \in DOMAIN q
    BY <1>3, <1>4
  <2> QED BY <2>1 DEF Elems
<1> QED BY <1>1, <1>2, <1>3, <1>5, <1>6, <1>7, <1>8

TriedOf(h) == {h.tried[i][1] : i \in 1..Len(h.tried)}

(* How far the answers are: the first k of them have been taken.           *)
TakenOf(h, k) ==
  /\ Len(h.todo) = Len(h.host) - k /\ \A i \in 1..Len(h.todo) : h.todo[i] = h.host[k + i]
  /\ h.error # 0 => \A i \in 1..k : TriesOf(h, h.host[i]) \subseteq TriedOf(h) \cup Elems(h.inner)
  /\ h.variant = "pconnect_n_nowait" =>
       \/ k = 0 /\ Len(h.tried) = 0 /\ Len(h.inner) = 0
       \/ k = 1 /\ Len(h.tried) + Len(h.inner) = 1

OutcomeOf(h) ==
  /\ \A i \in 1..Len(h.tried) : h.tried[i][2] => i = Len(h.tried)
  /\ h.error = 0 <=> (Len(h.tried) > 0 /\ h.tried[Len(h.tried)][2])
  /\ h.error = 0 => h.open = <<h.tried[Len(h.tried)][1]>> /\ h.inner = <<>>

DoneOf(h) ==
  h.pc = "returned" =>
    /\ h.inner = <<>>
    /\ h.todo = <<>> \/ h.error = 0 \/ (h.variant = "pconnect_n_nowait" /\ h.tried # <<>>)

HcOk(h) ==
  /\ h \in HcRecord /\ h.flags = GlobalsOf(h.locals)
  /\ TriedOf(h) \cup Elems(h.inner) \subseteq MaybeOf(h)
  /\ \E k \in 0..Len(h.host) : TakenOf(h, k)
  /\ OutcomeOf(h) /\ DoneOf(h)

HcInv == hc = [pc |-> "idle"] \/ HcOk(hc)

LEMMA HcBegins ==
  ASSUME HcBegin
  PROVE  HcOk(hc')
<1>1. PICK v \in Variants, host \in UpTo(Addresses, HostMax), locals \in UpTo(Locals, LocalMax) :
        hc' = [pc |-> "answers", variant |-> v, host |-> host, locals |-> locals,
               flags |-> GetIpsv(locals), todo |-> Resolve(host, "any"), inner |-> <<>>,
               tried |-> <<>>, error |-> -1, open |-> NoSocket]
  BY DEF HcBegin
<1>2. host \in Seq(Addresses) /\ locals \in Seq(Locals)
  <2>1. PICK k \in 0..HostMax : host \in [1..k -> Addresses]
    BY DEF UpTo
  <2>2. PICK l \in 0..LocalMax : locals \in [1..l -> Locals]
    BY DEF UpTo
  <2>3. k \in Nat /\ l \in Nat
    BY HostAssumption
  <2> QED BY <2>1, <2>2, <2>3, SequenceIs
<1>3. PICK f, e, g : f = GetIpsv(locals) /\ e = <<>> /\ g = hc'
  OBVIOUS
<1>4. f = GlobalsOf(locals) /\ f \in SUBSET {4, 6}
  BY <1>2, <1>3, IpsvOf DEF GlobalsOf
<1>5. g = [pc |-> "answers", variant |-> v, host |-> host, locals |-> locals,
           flags |-> f, todo |-> host, inner |-> e, tried |-> e, error |-> -1, open |-> e]
  BY <1>1, <1>3 DEF Resolve, NoSocket
<1>6. /\ e \in Seq(Answers) /\ e \in Seq(Answers \X BOOLEAN) /\ Len(e) = 0 /\ Elems(e) = {}
  <2>1. e \in Seq(Answers) /\ e \in Seq(Answers \X BOOLEAN) /\ Len(e) = 0
    BY <1>3
  <2> QED BY <1>3, <2>1, EmptyElems
<1>7. g \in HcRecord
  BY <1>2, <1>4, <1>5, <1>6 DEF HcRecord
<1>8. TriedOf(g) = {} /\ Elems(g.inner) = {} /\ Len(g.tried) = 0 /\ Len(g.inner) = 0 /\ g.error # 0 /\ g.pc # "returned"
  <2>1. g.tried = e /\ g.inner = e /\ g.error = -1 /\ g.pc = "answers"
    BY <1>5
  <2>2. \A i \in 1..0 : FALSE
    OBVIOUS
  <2> QED BY <1>6, <2>1, <2>2 DEF TriedOf
<1>9. 0 \in 0..Len(g.host) /\ TakenOf(g, 0)
  <2>1. g.todo = host /\ g.host = host /\ Len(host) \in Nat
    BY <1>2, <1>5, LenProperties
  <2>2. Len(host) = Len(host) - 0 /\ \A i \in 1..Len(host) : 0 + i = i
    BY <2>1
  <2>3. \A i \in 1..0 : FALSE
    OBVIOUS
  <2> QED BY <1>8, <2>1, <2>2, <2>3 DEF TakenOf
<1>10. OutcomeOf(g) /\ DoneOf(g)
  <2>1. (\A i \in 1..0 : FALSE) /\ ~(0 > 0)
    OBVIOUS
  <2> QED BY <1>8, <2>1 DEF OutcomeOf, DoneOf
<1>11. g.flags = GlobalsOf(g.locals)
  BY <1>4, <1>5
<1> QED BY <1>3, <1>7, <1>8, <1>9, <1>10, <1>11 DEF HcOk

LEMMA HcReturns ==
  ASSUME HcOk(hc), HcReturn
  PROVE  HcOk(hc')
<1>1. PICK h, g : h = hc /\ g = hc'
  OBVIOUS
<1>2. h \in HcRecord /\ g = [h EXCEPT !.pc = "returned"]
  BY <1>1 DEF HcOk, HcReturn
<1>3. /\ g \in HcRecord /\ g.pc = "returned" /\ g.variant = h.variant /\ g.host = h.host /\ g.locals = h.locals
      /\ g.flags = h.flags /\ g.todo = h.todo /\ g.inner = h.inner /\ g.tried = h.tried /\ g.error = h.error
      /\ g.open = h.open
  BY <1>2 DEF HcRecord
<1>4. DoneOf(g)
  BY <1>1, <1>3 DEF DoneOf, HcReturn
<1>5. OutcomeOf(g)
  BY <1>1, <1>3 DEF HcOk, OutcomeOf
<1>6. \A a : TriesOf(g, a) = TriesOf(h, a)
  BY <1>3 DEF TriesOf, IsXp
<1>7. MaybeOf(g) = MaybeOf(h) /\ TriedOf(g) = TriedOf(h)
  BY <1>3 DEF MaybeOf, HasOf, IsXp, TriedOf
<1>8. \A k : TakenOf(h, k) => TakenOf(g, k)
  BY <1>3, <1>6, <1>7 DEF TakenOf
<1> QED BY <1>1, <1>3, <1>4, <1>5, <1>7, <1>8 DEF HcOk

LEMMA HcAnswers ==
  ASSUME HcOk(hc), HcAnswer
  PROVE  HcOk(hc')
<1>1. PICK h, g, a, c : /\ h = hc /\ g = hc' /\ a = Head(hc.todo)
                        /\ c = IF hc.variant \in {"xpconnect", "xpconnect_n"} THEN XpCandidates(a) ELSE PlainCandidates(a)
  OBVIOUS
<1>2. /\ h \in HcRecord /\ h.pc = "answers" /\ h.inner = <<>> /\ h.todo # <<>> /\ h.error # 0
      /\ ~(h.variant = "pconnect_n_nowait" /\ h.tried # <<>>)
      /\ g = [h EXCEPT !.todo = Tail(h.todo), !.inner = c]
  BY <1>1 DEF HcOk, HcAnswer
<1>3. /\ h.host \in Seq(Addresses) /\ h.todo \in Seq(Addresses) /\ h.inner \in Seq(Answers)
      /\ h.tried \in Seq(Answers \X BOOLEAN)
  BY <1>2 DEF HcRecord
<1>4. PICK t, l : t = Tail(h.todo) /\ l = Len(h.todo)
  OBVIOUS
<1>5. /\ t \in Seq(Addresses) /\ l \in Nat /\ l >= 1 /\ Len(t) = l - 1 /\ \A i \in 1..(l - 1) : t[i] = h.todo[i + 1]
      /\ a = h.todo[1]
  BY <1>1, <1>2, <1>3, <1>4, TailIs
<1>6. PICK k \in 0..Len(h.host) : TakenOf(h, k)
  BY <1>1 DEF HcOk
<1>7. PICK n \in Nat : n = Len(h.host)
  BY <1>3, LenProperties
<1>8. /\ k \in Nat /\ l = n - k /\ \A i \in 1..l : h.todo[i] = h.host[k + i]
      /\ \A i \in 1..k : TriesOf(h, h.host[i]) \subseteq TriedOf(h) \cup Elems(h.inner)
      /\ h.variant = "pconnect_n_nowait" => k = 0 \/ Len(h.tried) + Len(h.inner) = 1
  BY <1>2, <1>4, <1>6, <1>7 DEF TakenOf
<1>9. k + 1 \in 0..n /\ k + 1 \in 1..n /\ a = h.host[k + 1]
  <2>1. 1 \in 1..l
    BY <1>5
  <2> QED BY <1>5, <1>7, <1>8, <2>1
<1>10. a \in Elems(h.host)
  <2>1. DOMAIN h.host = 1..n
    BY <1>3, <1>7, LenProperties
  <2> QED BY <1>9, <2>1 DEF Elems
<1>11. c \in Seq(Answers) /\ Elems(c) = TriesOf(h, a) /\ (~IsXp(h) => Len(c) = 1)
  BY <1>1, <1>2, <1>10, CandidatesOf
<1>12. /\ g \in HcRecord /\ g.pc = h.pc /\ g.variant = h.variant /\ g.host = h.host /\ g.locals = h.locals
       /\ g.flags = h.flags /\ g.todo = t /\ g.inner = c /\ g.tried = h.tried /\ g.error = h.error /\ g.open = h.open
  BY <1>2, <1>4, <1>5, <1>11 DEF HcRecord
<1>13. \A b : TriesOf(g, b) = TriesOf(h, b)
  BY <1>12 DEF TriesOf, IsXp
<1>14. MaybeOf(g) = MaybeOf(h) /\ TriedOf(g) = TriedOf(h)
  BY <1>12 DEF MaybeOf, HasOf, IsXp, TriedOf
<1>15. Elems(h.inner) = {}
  BY <1>2, <1>3, EmptyElems
<1>16. TriedOf(g) \cup Elems(g.inner) \subseteq MaybeOf(g)
  BY <1>1, <1>2, <1>10, <1>11, <1>12, <1>14, TriesAllowed DEF HcOk
<1>17. TakenOf(g, k + 1)
  <2>1. Len(g.todo) = Len(g.host) - (k + 1)
    BY <1>5, <1>7, <1>8, <1>12
  <2>2. ASSUME NEW i \in 1..Len(g.todo) PROVE g.todo[i] = g.host[(k + 1) + i]
    <3>1. i \in 1..(l - 1) /\ i + 1 \in 1..l /\ k + (i + 1) = (k + 1) + i
      BY <1>5, <1>8, <1>12, SMTT(30)
    <3> QED BY <1>5, <1>8, <1>12, <3>1
  <2>3. ASSUME NEW i \in 1..(k + 1) PROVE TriesOf(g, g.host[i]) \subseteq TriedOf(g) \cup Elems(g.inner)
    <3>1. i = k + 1 \/ i \in 1..k
      BY <1>8
    <3> QED BY <1>8, <1>9, <1>11, <1>12, <1>13, <1>14, <1>15, <3>1
  <2>4. ASSUME g.variant = "pconnect_n_nowait" PROVE k + 1 = 1 /\ Len(g.tried) + Len(g.inner) = 1
    <3>1. ~IsXp(h) /\ h.tried = <<>>
      BY <1>2, <1>12, <2>4 DEF IsXp
    <3>2. Len(h.tried) = 0 /\ Len(h.inner) = 0
      <4>1. Len(<<>>) = 0
        OBVIOUS
      <4> QED BY <1>2, <3>1, <4>1
    <3> QED BY <1>8, <1>11, <1>12, <2>4, <3>1, <3>2
  <2> QED BY <2>1, <2>2, <2>3, <2>4 DEF TakenOf
<1>18. OutcomeOf(g)
  BY <1>1, <1>2, <1>12 DEF HcOk, OutcomeOf
<1>19. DoneOf(g)
  BY <1>2, <1>12 DEF DoneOf
<1>20. g.flags = GlobalsOf(g.locals)
  BY <1>1, <1>12 DEF HcOk
<1>21. \E j \in 0..Len(g.host) : TakenOf(g, j)
  BY <1>7, <1>9, <1>12, <1>17
<1> QED BY <1>1, <1>12, <1>16, <1>18, <1>19, <1>20, <1>21 DEF HcOk

LEMMA HcAttempts ==
  ASSUME HcOk(hc), HcAttempt
  PROVE  HcOk(hc')
<1>1. PICK h, g, a : h = hc /\ g = hc' /\ a = Head(hc.inner)
  OBVIOUS
<1>2. PICK kept \in BOOLEAN, connected \in BOOLEAN :
        g = [h EXCEPT !.tried = Append(@, <<a, connected>>), !.error = IF connected THEN 0 ELSE -1,
                      !.open = IF kept THEN <<a>> ELSE NoSocket, !.inner = IF connected THEN <<>> ELSE Tail(@)]
        /\ (connected => kept)
  BY <1>1 DEF HcAttempt
<1>3. h \in HcRecord /\ h.pc = "answers" /\ h.inner # <<>>
  BY <1>1 DEF HcOk, HcAttempt
<1>4. /\ h.host \in Seq(Addresses) /\ h.todo \in Seq(Addresses) /\ h.inner \in Seq(Answers)
      /\ h.tried \in Seq(Answers \X BOOLEAN)
  BY <1>3 DEF HcRecord
<1>5. PICK t, q : t = Tail(h.inner) /\ q = h.inner
  OBVIOUS
<1>6. t \in Seq(Answers) /\ Len(q) \in Nat /\ Len(q) >= 1 /\ Len(t) = Len(q) - 1 /\ a \in Answers /\ Elems(q) = {a} \cup Elems(t)
  BY <1>1, <1>3, <1>4, <1>5, TailIs
<1>7. PICK e, s, r, o, u : /\ e = <<a, connected>> /\ s = Append(h.tried, e) /\ r = (IF connected THEN 0 ELSE -1)
                           /\ o = (IF kept THEN <<a>> ELSE NoSocket) /\ u = (IF connected THEN <<>> ELSE t)
  OBVIOUS
<1>8. e \in Answers \X BOOLEAN /\ e[1] = a /\ e[2] = connected
  BY <1>6, <1>7
<1>9. PICK n \in Nat : n = Len(h.tried)
  BY <1>4, LenProperties
<1>10. s \in Seq(Answers \X BOOLEAN) /\ Len(s) = n + 1 /\ s[n + 1] = e /\ \A i \in 1..n : s[i] = h.tried[i]
  BY <1>4, <1>7, <1>8, <1>9, AppendProperties
<1>11. r \in {0, -1} /\ o \in Seq(Answers) /\ u \in Seq(Answers)
  <2>1. <<a>> \in Seq(Answers) /\ <<>> \in Seq(Answers)
    BY <1>6
  <2> QED BY <1>6, <1>7, <2>1 DEF NoSocket
<1>12. /\ g \in HcRecord /\ g.pc = h.pc /\ g.variant = h.variant /\ g.host = h.host /\ g.locals = h.locals
       /\ g.flags = h.flags /\ g.todo = h.todo /\ g.inner = u /\ g.tried = s /\ g.error = r /\ g.open = o
  <2>1. g = [h EXCEPT !.tried = s, !.error = r, !.open = o, !.inner = u]
    BY <1>2, <1>5, <1>7
  <2> QED BY <1>3, <1>10, <1>11, <2>1 DEF HcRecord
<1>13. \A b : TriesOf(g, b) = TriesOf(h, b)
  BY <1>12 DEF TriesOf, IsXp
<1>14. MaybeOf(g) = MaybeOf(h)
  BY <1>12 DEF MaybeOf, HasOf, IsXp
<1>15. 1..(n + 1) = (1..n) \cup {n + 1}
  OBVIOUS
<1>16. TriedOf(g) = TriedOf(h) \cup {a}
  BY <1>8, <1>9, <1>10, <1>12, <1>15, SMTT(30) DEF TriedOf
<1>17. Elems(u) \subseteq Elems(t) /\ (~connected => u = t) /\ (connected => u = <<>>)
  <2>1. <<>> \in Seq(Answers)
    OBVIOUS
  <2>2. Elems(<<>>) = {}
    BY <2>1, EmptyElems
  <2> QED BY <1>7, <2>2
<1>18. TriedOf(g) \cup Elems(g.inner) \subseteq MaybeOf(g)
  BY <1>1, <1>5, <1>6, <1>12, <1>14, <1>16, <1>17 DEF HcOk
<1>19. h.error # 0 /\ \A i \in 1..n : ~h.tried[i][2]
  <2>1. OutcomeOf(h)
    BY <1>1 DEF HcOk
  <2>2. h.error # 0
    BY <1>3, <2>1 DEF OutcomeOf
  <2>3. ASSUME NEW i \in 1..n, h.tried[i][2] PROVE FALSE
    <3>1. i = n
      BY <1>9, <2>1, <2>3 DEF OutcomeOf
    <3>2. n > 0
      BY <3>1
    <3> QED BY <1>9, <2>1, <2>2, <2>3, <3>1, <3>2 DEF OutcomeOf
  <2> QED BY <2>2, <2>3
<1>20. PICK k \in 0..Len(h.host) : TakenOf(h, k)
  BY <1>1 DEF HcOk
<1>21. TakenOf(g, k)
  <2>1. /\ Len(g.todo) = Len(g.host) - k /\ \A i \in 1..Len(g.todo) : g.todo[i] = g.host[k + i]
    BY <1>12, <1>20 DEF TakenOf
  <2>2. ASSUME g.error # 0, NEW i \in 1..k PROVE TriesOf(g, g.host[i]) \subseteq TriedOf(g) \cup Elems(g.inner)
    <3>1. ~connected
      BY <1>7, <1>12, <2>2
    <3>2. g.inner = t
      BY <1>12, <1>17, <3>1
    <3>3. TriesOf(h, h.host[i]) \subseteq TriedOf(h) \cup Elems(q)
      BY <1>5, <1>19, <1>20 DEF TakenOf
    <3> QED BY <1>6, <1>12, <1>13, <1>16, <3>2, <3>3
  <2>3. ASSUME g.variant = "pconnect_n_nowait" PROVE k = 1 /\ Len(g.tried) + Len(g.inner) = 1
    <3>1. k = 1 /\ n + Len(q) = 1
      <4>1. h.variant = "pconnect_n_nowait"
        BY <1>12, <2>3
      <4>2. \/ k = 0 /\ Len(h.tried) = 0 /\ Len(h.inner) = 0
            \/ k = 1 /\ Len(h.tried) + Len(h.inner) = 1
        BY <1>20, <4>1, Zenon DEF TakenOf
      <4>3. Len(h.inner) = Len(q) /\ Len(h.tried) = n
        BY <1>5, <1>9
      <4>4. n \in Nat /\ Len(q) \in Nat \ {0}
        BY <1>6, <1>9
      <4> HIDE <1>5, <1>9, <1>6
      <4> QED BY <4>2, <4>3, <4>4
    <3>2. n = 0 /\ Len(q) = 1 /\ Len(t) = 0
      BY <1>6, <3>1
    <3>3. Len(u) = 0
      <4>1. Len(<<>>) = 0
        OBVIOUS
      <4> QED BY <1>7, <3>2, <4>1
    <3> QED BY <1>10, <1>12, <3>1, <3>2, <3>3
  <2> QED BY <2>1, <2>2, <2>3 DEF TakenOf
<1>22. OutcomeOf(g)
  <2>1. ASSUME NEW i \in 1..Len(s), s[i][2] PROVE i = Len(s)
    <3>1. i \in 1..n \/ i = n + 1
      BY <1>10, <1>15
    <3> QED BY <1>10, <1>19, <2>1, <3>1
  <2>2. r = 0 <=> connected
    BY <1>7
  <2>3. Len(s) > 0 /\ s[Len(s)] = e
    BY <1>10
  <2>4. s[Len(s)][2] <=> connected
    BY <1>8, <2>3
  <2>5. connected => o = <<s[Len(s)][1]>> /\ u = <<>>
    BY <1>2, <1>7, <1>8, <1>17, <2>3
  <2> QED BY <1>12, <2>1, <2>2, <2>3, <2>4, <2>5 DEF OutcomeOf
<1>23. DoneOf(g)
  BY <1>3, <1>12 DEF DoneOf
<1>24. g.flags = GlobalsOf(g.locals)
  BY <1>1, <1>12 DEF HcOk
<1> QED BY <1>1, <1>12, <1>18, <1>20, <1>21, <1>22, <1>23, <1>24 DEF HcOk

(* The service finds an address for every host that has one.               *)
LEMMA ServedOf ==
  ASSUME NEW q \in Seq(Addresses)
  PROVE  LET served == ServiceResolve(q) IN
         /\ served = <<>> <=> q = <<>>
         /\ {served[i] : i \in DOMAIN served} \in {{a \in Elems(q) : a.af = af} : af \in {4, 6}}
<1>1. PICK s, v4, v6, m : s = ServiceResolve(q) /\ v4 = OfFamily(q, 4) /\ v6 = OfFamily(q, 6) /\ m = Mapped(q)
  OBVIOUS
<1>2. PICK H : H = Elems(q)
  OBVIOUS
<1>3. v4 \in Seq(Addresses) /\ v6 \in Seq(Addresses) /\ Elems(v4) = {a \in H : a.af = 4} /\ Elems(v6) = {a \in H : a.af = 6}
  BY <1>1, <1>2, FamilyOf
<1>4. m \in Seq(Answers) /\ Elems(m) = MapsOf(H)
  BY <1>1, <1>2, MappedIs
<1>5. (v4 = <<>> <=> Elems(v4) = {}) /\ (v6 = <<>> <=> Elems(v6) = {}) /\ (m = <<>> <=> Elems(m) = {}) /\ (q = <<>> <=> H = {})
  BY <1>2, <1>3, <1>4, EmptyElems
<1>6. s = IF v4 # <<>> THEN v4 ELSE IF v6 # <<>> THEN v6 ELSE m
  BY <1>1 DEF ServiceResolve, Resolve
<1>7. \A a \in H : a.af \in {4, 6}
  <2>1. H \subseteq Addresses
    BY <1>2, ElemsAre
  <2> QED BY <2>1, AddressIs
<1>8. v4 = <<>> => Elems(m) = {} /\ m = <<>>
  BY <1>3, <1>4, <1>5 DEF MapsOf
<1>9. s = <<>> <=> q = <<>>
  BY <1>3, <1>5, <1>6, <1>7, <1>8
<1>10. Elems(s) = {a \in H : a.af = 4} \/ Elems(s) = {a \in H : a.af = 6}
  BY <1>3, <1>5, <1>6, <1>8
<1> QED BY <1>1, <1>2, <1>9, <1>10 DEF Elems

LEMMA HcSafe ==
  ASSUME HcInv
  PROVE  ConnectExhausts
<1>1. CASE hc = [pc |-> "idle"]
  BY <1>1 DEF ConnectExhausts
<1>2. CASE HcOk(hc) /\ hc.pc = "returned"
  <2>1. PICK h : h = hc
    OBVIOUS
  <2>2. PICK n, H, was, locals : n = Len(h.tried) /\ H = Elems(h.host) /\ was = TriedOf(h) /\ locals = h.locals
    OBVIOUS
  <2>3. /\ h \in HcRecord /\ h.flags = GlobalsOf(locals) /\ was \cup Elems(h.inner) \subseteq MaybeOf(h)
        /\ OutcomeOf(h) /\ h.inner = <<>>
        /\ h.todo = <<>> \/ h.error = 0 \/ (h.variant = "pconnect_n_nowait" /\ h.tried # <<>>)
    BY <1>2, <2>1, <2>2 DEF HcOk, DoneOf
  <2>4. PICK k \in 0..Len(h.host) : TakenOf(h, k)
    BY <1>2, <2>1 DEF HcOk
  <2>5. /\ h.host \in Seq(Addresses) /\ h.tried \in Seq(Answers \X BOOLEAN) /\ h.todo \in Seq(Addresses)
        /\ h.locals \in Seq(Locals) /\ h.inner \in Seq(Answers) /\ n \in Nat /\ Len(h.host) \in Nat
    <3>1. /\ h.host \in Seq(Addresses) /\ h.tried \in Seq(Answers \X BOOLEAN) /\ h.todo \in Seq(Addresses)
          /\ h.locals \in Seq(Locals) /\ h.inner \in Seq(Answers)
      BY <2>3 DEF HcRecord
    <3> QED BY <2>2, <3>1, LenProperties
  <2>6. \A a \in H : a.af \in {4, 6}
    <3>1. H \subseteq Addresses
      BY <2>2, <2>5, ElemsAre
    <3> QED BY <3>1, AddressIs
  <2>7. PICK has : has = {a \in H : IsXp(h) => \E i \in DOMAIN locals : locals[i].global /\ locals[i].af = a.af}
    OBVIOUS
  <2>8. has = HasOf(h)
    BY <2>2, <2>3, <2>6, <2>7 DEF HasOf, GlobalsOf
  <2>9. \A a \in MapsOf(H) : a.mapped /\ \E b \in H : b.n = a.n
    <3>1. H \subseteq Addresses
      BY <2>2, <2>5, ElemsAre
    <3> QED BY <3>1, AddressIs, ZenonT(60) DEF MapsOf
  <2>10. was \subseteq has \cup {a \in was : a.mapped /\ IsXp(h) /\ h.flags = {6}}
    BY <2>2, <2>3, <2>8, <2>9 DEF MaybeOf
  <2>11. Elems(h.inner) = {}
    BY <2>3, <2>5, EmptyElems
  <2>12. ASSUME h.error # 0, h.variant # "pconnect_n_nowait", NEW a \in H PROVE TriesOf(h, a) \subseteq was
    <3>1. Len(h.todo) = 0
      <4>1. Len(<<>>) = 0
        OBVIOUS
      <4> QED BY <2>3, <2>12, <4>1
    <3>2. k = Len(h.host)
      BY <2>4, <2>5, <3>1 DEF TakenOf
    <3>3. PICK i \in 1..k : a = h.host[i]
      <4>1. DOMAIN h.host = 1..Len(h.host)
        BY <2>5, LenProperties
      <4> QED BY <2>2, <3>2, <4>1 DEF Elems
    <3> QED BY <2>2, <2>4, <2>11, <2>12, <3>3 DEF TakenOf
  <2>13. ASSUME h.error # 0, h.variant # "pconnect_n_nowait" PROVE has \subseteq was
    <3>1. \A a \in has : a \in H /\ a \in TriesOf(h, a)
      BY <2>2, <2>8 DEF HasOf, TriesOf
    <3> QED BY <2>12, <2>13, <3>1
  <2>14. ASSUME h.error # 0, h.variant # "pconnect_n_nowait", IsXp(h), h.flags = {6}, has = {}
         PROVE  {a.n : a \in was} = {a.n : a \in H}
    <3>1. \A a \in H : a.af = 4
      BY <2>2, <2>6, <2>8, <2>14 DEF HasOf
    <3>2. SixOf(H) = {}
      BY <3>1 DEF SixOf
    <3>3. ASSUME NEW a \in H PROVE \E b \in was : b.n = a.n
      <4>1. TriesOf(h, a) = MapsOf(H)
        BY <2>2, <2>14, <3>1, <3>2 DEF TriesOf
      <4>2. [a EXCEPT !.af = 6, !.mapped = TRUE] \in MapsOf(H)
        BY <3>1 DEF MapsOf
      <4>3. [a EXCEPT !.af = 6, !.mapped = TRUE].n = a.n
        <5>1. a \in Addresses
          BY <2>2, <2>5, ElemsAre
        <5> QED BY <5>1, AddressIs
      <4> QED BY <2>12, <2>14, <4>1, <4>2, <4>3
    <3>4. \A b \in was : \E a \in H : a.n = b.n
      BY <2>2, <2>3, <2>8, <2>9, <2>14 DEF MaybeOf
    <3> QED BY <3>3, <3>4
  <2>15. ASSUME h.variant = "pconnect_n_nowait" PROVE n = Cardinality({i \in {1} : h.host # <<>>})
    <3>1. \/ k = 0 /\ n = 0 /\ Len(h.inner) = 0
          \/ k = 1 /\ n + Len(h.inner) = 1
      BY <2>2, <2>4, <2>15, Zenon DEF TakenOf
    <3>2. Len(h.inner) = 0 /\ (h.tried = <<>> => n = 0)
      <4>1. Len(<<>>) = 0
        OBVIOUS
      <4> QED BY <2>2, <2>3, <4>1
    <3>3. CASE h.host = <<>>
      <4>1. Len(h.host) = 0
        <5>1. Len(<<>>) = 0
          OBVIOUS
        <5> QED BY <3>3, <5>1
      <4>2. n = 0
        BY <2>4, <3>1, <4>1
      <4>3. {i \in {1} : h.host # <<>>} = {}
        BY <3>3
      <4> QED BY <4>2, <4>3, FS_EmptySet
    <3>4. CASE h.host # <<>>
      <4>1. {i \in {1} : h.host # <<>>} = {1}
        BY <3>4
      <4>2. Cardinality({1}) = 1
        BY FS_Singleton
      <4>3. n = 1
        <5>1. ASSUME k = 0, n = 0 PROVE FALSE
          <6>1. h.error # 0
            BY <2>2, <2>3, <5>1 DEF OutcomeOf
          <6>2. h.tried = <<>>
            BY <2>2, <2>5, <5>1, EmptySeq
          <6>3. h.todo = <<>>
            BY <2>3, <6>1, <6>2
          <6>4. Len(h.todo) = 0
            <7>1. Len(<<>>) = 0
              OBVIOUS
            <7> QED BY <6>3, <7>1
          <6>5. Len(h.host) = 0
            BY <2>4, <2>5, <5>1, <6>4 DEF TakenOf
          <6> QED BY <2>5, <3>4, <6>5, EmptySeq
        <5> QED BY <2>5, <3>1, <3>2, <5>1
      <4> QED BY <4>1, <4>2, <4>3
    <3> QED BY <3>3, <3>4
  <2>16. /\ ServiceResolve(h.host) = <<>> <=> h.host = <<>>
         /\ {ServiceResolve(h.host)[i] : i \in DOMAIN ServiceResolve(h.host)} \in {{a \in H : a.af = af} : af \in {4, 6}}
    BY <2>2, <2>5, ServedOf
  <2>17. /\ \A i \in 1..n : h.tried[i][2] => i = n
         /\ h.error = 0 <=> (n > 0 /\ h.tried[n][2])
         /\ h.error = 0 => h.open = <<h.tried[n][1]>>
    BY <2>2, <2>3 DEF OutcomeOf
  <2>18. /\ H = {h.host[i] : i \in DOMAIN h.host} /\ was = {h.tried[i][1] : i \in 1..n}
         /\ has = {a \in H : ~(h.variant \in {"xpconnect", "xpconnect_n"}) \/ \E i \in DOMAIN locals : locals[i].global /\ locals[i].af = a.af}
    BY <2>2, <2>7 DEF Elems, TriedOf, IsXp
  <2> DEFINE m == Len(hc.tried)
             tried == {hc.tried[i][1] : i \in 1..m}
             all1 == {hc.host[i] : i \in DOMAIN hc.host}
             xp == hc.variant \in {"xpconnect", "xpconnect_n"}
             has1 == {a \in all1 : ~xp \/ \E i \in DOMAIN hc.locals : hc.locals[i].global /\ hc.locals[i].af = a.af}
             only6 == xp /\ hc.flags = {6}
             served == ServiceResolve(hc.host)
  <2>19. m = n /\ tried = was /\ all1 = H /\ has1 = has /\ served = ServiceResolve(h.host)
    BY <2>1, <2>2, <2>18
  <2>20. (xp <=> IsXp(h)) /\ (only6 <=> IsXp(h) /\ h.flags = {6})
    BY <2>1 DEF IsXp
  <2> HIDE DEF m, tried, all1, xp, has1, only6, served
  <2>21. /\ served = <<>> <=> hc.host = <<>>
         /\ {served[i] : i \in DOMAIN served} \in {{a \in all1 : a.af = af} : af \in {4, 6}}
    BY <2>1, <2>16, <2>19
  <2>22. /\ \A i \in 1..m : hc.tried[i][2] => i = m
         /\ hc.error = 0 <=> (m > 0 /\ hc.tried[m][2])
         /\ hc.error = 0 => hc.open = <<hc.tried[m][1]>>
    BY <2>1, <2>17, <2>19
  <2>23. tried \subseteq has1 \cup {a \in tried : a.mapped /\ only6}
    BY <2>10, <2>19, <2>20
  <2>24. IF hc.variant = "pconnect_n_nowait" THEN m = Cardinality({i \in {1} : hc.host # <<>>})
         ELSE hc.error # 0 => /\ has1 \subseteq tried
                              /\ (only6 /\ all1 # {} /\ has1 = {}) => {a.n : a \in tried} = {a.n : a \in all1}
    <3>1. CASE hc.variant = "pconnect_n_nowait"
      BY <2>1, <2>15, <2>19, <3>1
    <3>2. CASE hc.variant # "pconnect_n_nowait"
      BY <2>1, <2>13, <2>14, <2>19, <2>20, <3>2
    <3> QED BY <3>1, <3>2
  <2> QED BY <2>21, <2>22, <2>23, <2>24 DEF ConnectExhausts, m, tried, all1, xp, has1, only6, served
<1> QED BY <1>1, <1>2 DEF HcInv, ConnectExhausts

LEMMA HcStep ==
  ASSUME HcInv, HcNext
  PROVE  HcInv'
<1>1. CASE HcBegin
  BY <1>1, HcBegins DEF HcInv
<1>2. CASE HcOk(hc)
  <2>1. CASE HcAnswer
    BY <1>2, <2>1, HcAnswers DEF HcInv
  <2>2. CASE HcAttempt
    BY <1>2, <2>2, HcAttempts DEF HcInv
  <2>3. CASE HcReturn
    BY <1>2, <2>3, HcReturns DEF HcInv
  <2> QED BY <1>1, <2>1, <2>2, <2>3 DEF HcNext
<1>3. CASE hc = [pc |-> "idle"]
  <2>1. hc.pc # "answers"
    BY <1>3
  <2> QED BY <1>1, <2>1 DEF HcNext, HcAnswer, HcAttempt, HcReturn
<1> QED BY <1>2, <1>3 DEF HcInv

(* Urls.  The Uri is that of the text, and the other that of its print.    *)
UriInv ==
  \/ given = Empty /\ uri = Cleared /\ again = Cleared
  \/ \E p \in UriParts :
       /\ given = p /\ uri = DoParse(p)
       /\ again = Cleared \/ (again = DoParse(UriToString(uri)) /\ Printable(uri))

LEMMA UriStep ==
  ASSUME UriInv, UriNext
  PROVE  UriInv'
<1>1. CASE given = Empty /\ Parse
  <2>1. PICK p \in UriParts : given' = p /\ uri' = DoParse(p) /\ again' = again
    BY <1>1 DEF Parse
  <2>2. ASSUME NEW q \in UriParts PROVE q # Empty
    <3>1. DOMAIN q # {} /\ DOMAIN <<>> = {}
      BY DEF UriParts
    <3> QED BY <3>1 DEF Empty
  <2>3. again = Cleared
    BY <1>1, <2>2 DEF UriInv
  <2> QED BY <2>1, <2>3 DEF UriInv
<1>2. CASE ParsePrinted
  <2>1. /\ Printable(uri) /\ again' = DoParse(UriToString(uri))
        /\ given' = given /\ uri' = uri
    BY <1>2 DEF ParsePrinted
  <2>2. uri # Cleared
    BY <2>1 DEF Printable, Cleared
  <2> QED BY <2>1, <2>2 DEF UriInv
<1> QED BY <1>1, <1>2 DEF UriNext

(* The fields of a parsed Uri; raw is the port written, r.                 *)
RawOf(p) == IF p.hasAuthority THEN PortOf(p) ELSE 0
OfPart(p, part) == IF p.hasAuthority THEN part ELSE Empty
ParsedPort(p) == IF RawOf(p) = 0 /\ p.scheme \in DOMAIN DefaultPort THEN DefaultPort[p.scheme] ELSE RawOf(p)

LEMMA ParseOf ==
  ASSUME NEW p
  PROVE  DoParse(p) =
           [valid |-> TRUE, secure |-> p.scheme = "https", scheme |-> p.scheme,
            hasAuthority |-> p.hasAuthority, custom |-> IsCustom(p.scheme, ParsedPort(p)),
            user |-> OfPart(p, p.user), pass |-> OfPart(p, p.pass), host |-> OfPart(p, p.host),
            port |-> ParsedPort(p),
            authority |-> Authority(OfPart(p, p.user), OfPart(p, p.pass), OfPart(p, p.host), RawOf(p)),
            path |-> IF p.path = Empty THEN <<1>> ELSE p.path, query |-> p.query]
BY DEF DoParse, RawOf, OfPart, ParsedPort

LEMMA PortIs ==
  ASSUME NEW p \in UriParts
  PROVE  /\ RawOf(p) \in 0..(UriPortMod - 1)
         /\ p.port \in 1..(UriPortMod - 1) => PortOf(p) = p.port
         /\ p.port \in {NoPort, 0} => PortOf(p) = 0
<1>1. PICK m, t, h : m = UriPortMod /\ t = p.port /\ h = p.hasAuthority
  OBVIOUS
<1>2. m \in Nat /\ m # 0
  BY <1>1, UriAssumption
<1>3. t = -1 \/ t \in Nat
  BY <1>1 DEF UriParts, NoPort
<1>4. PICK r : r = PortOf(p)
  OBVIOUS
<1>5. r = IF t = -1 THEN 0 ELSE t % m
  BY <1>1, <1>4 DEF PortOf, NoPort
<1>6. r \in 0..(m - 1) /\ (t \in 1..(m - 1) => r = t) /\ (t \in {-1, 0} => r = 0)
  BY <1>2, <1>3, <1>5
<1>7. 0 \in 0..(m - 1)
  BY <1>2
<1> QED BY <1>1, <1>4, <1>6, <1>7 DEF RawOf, NoPort

LEMMA UriParsed ==
  ASSUME NEW p \in UriParts, given = p, uri = DoParse(p)
  PROVE  ParsedExact
<1>1. PICK u : u = DoParse(p)
  OBVIOUS
<1>2. /\ u.user = OfPart(p, p.user) /\ u.pass = OfPart(p, p.pass) /\ u.host = OfPart(p, p.host)
      /\ u.query = p.query /\ u.port = ParsedPort(p)
  BY <1>1, ParseOf
<1>3. ASSUME p.hasAuthority
      PROVE  /\ u.user = p.user /\ u.pass = p.pass /\ u.host = p.host /\ RawOf(p) = PortOf(p)
  BY <1>2, <1>3 DEF OfPart, RawOf
<1>4. u.port \in 0..(UriPortMod - 1)
  <2>1. \A s \in DOMAIN DefaultPort : DefaultPort[s] \in 0..(UriPortMod - 1)
    BY UriAssumption
  <2> QED BY <1>2, <2>1, PortIs DEF ParsedPort
<1>5. ASSUME p.hasAuthority, p.port \in 1..(UriPortMod - 1) PROVE u.port = p.port
  <2>1. RawOf(p) = p.port /\ p.port # 0
    BY <1>3, <1>5, UriAssumption, PortIs
  <2> QED BY <1>2, <2>1 DEF ParsedPort
<1>6. ASSUME p.hasAuthority, p.port \in {NoPort, 0}, p.scheme \in DOMAIN DefaultPort
      PROVE  u.port = DefaultPort[p.scheme]
  BY <1>2, <1>3, <1>6, PortIs DEF ParsedPort
<1> QED BY <1>1, <1>2, <1>3, <1>4, <1>5, <1>6 DEF ParsedExact

LEMMA UriPrinted ==
  ASSUME NEW p \in UriParts, uri = DoParse(p), again = DoParse(UriToString(uri)), Printable(uri)
  PROVE  PrintParses
<1> SUFFICES ASSUME uri.scheme \in DOMAIN DefaultPort
             PROVE  /\ [again EXCEPT !.authority = uri.authority] = uri
                    /\ uri.custom => again.authority = uri.authority
  BY DEF PrintParses
<1>1. PICK u, q, d, s : u = uri /\ q = UriToString(u) /\ d = DefaultPort[u.scheme] /\ s = p.scheme
  OBVIOUS
<1>2. u = [valid |-> TRUE, secure |-> s = "https", scheme |-> s,
            hasAuthority |-> p.hasAuthority, custom |-> IsCustom(s, ParsedPort(p)),
            user |-> OfPart(p, p.user), pass |-> OfPart(p, p.pass), host |-> OfPart(p, p.host),
            port |-> ParsedPort(p),
            authority |-> Authority(OfPart(p, p.user), OfPart(p, p.pass), OfPart(p, p.host), RawOf(p)),
            path |-> IF p.path = Empty THEN <<1>> ELSE p.path, query |-> p.query]
  BY <1>1, ParseOf
<1>3. s \in DOMAIN DefaultPort /\ s # NoScheme /\ d = DefaultPort[s] /\ u.scheme = s
  BY <1>1, <1>2 DEF Printable
<1>4. IsCustom(s, ParsedPort(p)) = (ParsedPort(p) # d)
  BY <1>3 DEF IsCustom
<1>5. PICK r, t, c : r = RawOf(p) /\ t = ParsedPort(p) /\ c = (t # d)
  OBVIOUS
<1>6. t = (IF r = 0 THEN d ELSE r) /\ r \in 0..(UriPortMod - 1)
  <2>1. r \in 0..(UriPortMod - 1)
    BY <1>5, PortIs
  <2>2. t = IF r = 0 THEN d ELSE r
    BY <1>1, <1>3, <1>5 DEF ParsedPort
  <2> QED BY <2>1, <2>2
<1>7. q = [scheme |-> s, hasAuthority |-> p.hasAuthority, path |-> u.path, query |-> u.query, host |-> u.host,
           user |-> u.user, pass |-> u.pass, port |-> IF c THEN t ELSE NoPort]
  BY <1>1, <1>2, <1>4, <1>5 DEF UriToString
<1>8. PICK h : h = p.hasAuthority
  OBVIOUS
<1>9. q.scheme = s /\ q.hasAuthority = h /\ q.port = (IF c THEN t ELSE NoPort) /\ q.path = u.path
      /\ q.query = u.query /\ q.user = u.user /\ q.pass = u.pass /\ q.host = u.host
  BY <1>7, <1>8
<1>10. c => h /\ r # 0 /\ t = r /\ r % UriPortMod = r /\ r # NoPort
  <2>1. c => r # 0 /\ t = r
    BY <1>5, <1>6
  <2>2. ~h => r = 0
    BY <1>5, <1>8 DEF RawOf
  <2>3. r % UriPortMod = r /\ r # -1
    BY <1>6, UriAssumption
  <2> QED BY <2>1, <2>2, <2>3 DEF NoPort
<1>11. RawOf(q) = IF c THEN r ELSE 0
  <2>1. CASE c
    <3>1. q.port = r /\ q.hasAuthority
      BY <1>9, <1>10, <2>1
    <3> QED BY <1>10, <2>1, <3>1 DEF RawOf, PortOf
  <2>2. CASE ~c
    BY <1>9, <2>2 DEF RawOf, PortOf
  <2> QED BY <2>1, <2>2
<1>12. ParsedPort(q) = t
  <2>1. CASE c
    BY <1>9, <1>10, <1>11, <2>1 DEF ParsedPort
  <2>2. CASE ~c
    BY <1>3, <1>5, <1>9, <1>11, <2>2 DEF ParsedPort
  <2> QED BY <2>1, <2>2
<1>13. OfPart(q, q.user) = u.user /\ OfPart(q, q.pass) = u.pass /\ OfPart(q, q.host) = u.host
  <2>1. u.user = OfPart(p, p.user) /\ u.pass = OfPart(p, p.pass) /\ u.host = OfPart(p, p.host)
    BY <1>2
  <2> QED BY <1>8, <1>9, <2>1 DEF OfPart
<1>14. (IF q.path = Empty THEN <<1>> ELSE q.path) = u.path
  <2>1. <<1>> # <<>>
    OBVIOUS
  <2>2. u.path # Empty
    BY <1>2, <2>1 DEF Empty
  <2> QED BY <1>9, <2>2
<1>15. PICK a, b, e : a = again /\ b = Authority(u.user, u.pass, u.host, RawOf(q)) /\ e = u.path
  OBVIOUS
<1>16. a = [valid |-> TRUE, secure |-> s = "https", scheme |-> s, hasAuthority |-> h, custom |-> IsCustom(s, t),
            user |-> u.user, pass |-> u.pass, host |-> u.host, port |-> t, authority |-> b, path |-> e, query |-> u.query]
  BY <1>1, <1>9, <1>12, <1>13, <1>14, <1>15, ParseOf
<1>17. u = [valid |-> TRUE, secure |-> s = "https", scheme |-> s, hasAuthority |-> h, custom |-> IsCustom(s, t),
            user |-> u.user, pass |-> u.pass, host |-> u.host, port |-> t, authority |-> u.authority, path |-> e,
            query |-> u.query]
  BY <1>2, <1>5, <1>8, <1>15
<1>18. [a EXCEPT !.authority = u.authority] = u
  <2>1. PICK v, x, k, us, ps, ho, qu, au :
          /\ v = TRUE /\ x = (s = "https") /\ k = IsCustom(s, t) /\ us = u.user /\ ps = u.pass /\ ho = u.host
          /\ qu = u.query /\ au = u.authority
    OBVIOUS
  <2>2. a = [valid |-> v, secure |-> x, scheme |-> s, hasAuthority |-> h, custom |-> k, user |-> us, pass |-> ps,
             host |-> ho, port |-> t, authority |-> b, path |-> e, query |-> qu]
    BY <1>16, <2>1
  <2>3. u = [valid |-> v, secure |-> x, scheme |-> s, hasAuthority |-> h, custom |-> k, user |-> us, pass |-> ps,
             host |-> ho, port |-> t, authority |-> au, path |-> e, query |-> qu]
    BY <1>17, <2>1
  <2>4. [a EXCEPT !.authority = au] = u
    <3> HIDE <1>16, <1>17, <2>1
    <3> QED BY <2>2, <2>3, SMTT(30)
  <2> QED BY <2>1, <2>4
<1>19. u.custom => b = u.authority
  <2>1. u.custom => c
    BY <1>2, <1>4, <1>5
  <2>2. u.authority = Authority(u.user, u.pass, u.host, r)
    BY <1>2, <1>5
  <2> QED BY <1>11, <1>15, <2>1, <2>2
<1>20. a.authority = b
  BY <1>16
<1> QED BY <1>1, <1>15, <1>18, <1>19, <1>20

LEMMA UriSafe ==
  ASSUME UriInv
  PROVE  ParsedExact /\ PrintParses
<1>1. CASE uri = Cleared
  <2>1. ~Cleared.valid
    BY DEF Cleared
  <2>2. uri = Cleared => PrintParses
    <3>1. ASSUME UriInv, uri = Cleared, again.valid PROVE FALSE
      BY <2>1, <3>1 DEF UriInv, Printable
    <3> QED BY <3>1 DEF PrintParses
  <2> QED BY <1>1, <2>1, <2>2 DEF ParsedExact
<1>2. CASE uri # Cleared
  <2>1. PICK p \in UriParts :
          /\ given = p /\ uri = DoParse(p)
          /\ again = Cleared \/ (again = DoParse(UriToString(uri)) /\ Printable(uri))
    BY <1>2 DEF UriInv
  <2>2. CASE again = Cleared
    BY <2>1, <2>2, UriParsed DEF PrintParses, Cleared
  <2>3. CASE again = DoParse(UriToString(uri)) /\ Printable(uri)
    BY <2>1, <2>3, UriParsed, UriPrinted
  <2> QED BY <2>1, <2>2, <2>3
<1> QED BY <1>1, <1>2

LEMMA AddressStep ==
  ASSUME EpInv, HcInv, UriInv, [MCNext]_all
  PROVE  EpInv' /\ HcInv' /\ UriInv'
<1>1. ASSUME UNCHANGED epvars PROVE EpInv'
  BY <1>1 DEF epvars, EpInv
<1>2. ASSUME UNCHANGED hcvars PROVE HcInv'
  BY <1>2 DEF hcvars, HcInv
<1>3. ASSUME UNCHANGED urivars PROVE UriInv'
  BY <1>3 DEF urivars, UriInv
<1>4. CASE EpNext /\ ButEndpoint
  <2>1. UNCHANGED hcvars /\ UNCHANGED urivars
    BY <1>4 DEF ButEndpoint
  <2> QED BY <1>2, <1>3, <1>4, <2>1, EpStep
<1>5. CASE HcNext /\ ButConnect
  <2>1. UNCHANGED epvars /\ UNCHANGED urivars
    BY <1>5 DEF ButConnect
  <2> QED BY <1>1, <1>3, <1>5, <2>1, HcStep
<1>6. CASE UriNext /\ ButUri
  <2>1. UNCHANGED epvars /\ UNCHANGED hcvars
    BY <1>6 DEF ButUri
  <2> QED BY <1>1, <1>2, <1>6, <2>1, UriStep
<1>7. CASE ~(EpNext /\ ButEndpoint) /\ ~(HcNext /\ ButConnect) /\ ~(UriNext /\ ButUri)
  <2>1. UNCHANGED epvars /\ UNCHANGED hcvars /\ UNCHANGED urivars
    BY <1>7 DEF MCNext, all, ButHttp, ButLock, ButPool, ButOwn, ButVector, ButStream, ButView, ButString,
                ButCookie, ButInet, ButSocket, ButInterrupter, ButOptions
  <2> QED BY <1>1, <1>2, <1>3, <2>1
<1> QED BY <1>4, <1>5, <1>6, <1>7

(* Addresses: for any set of peers the routes of the datagram server hold  *)
(* endpoints that operator< orders, and as_is reads what to_string prints; *)
(* for any host, any answer of the resolver and any outcome of connect(),  *)
(* the connectors of xxsocket return the address that was accepted, and    *)
(* fail only when they have tried every address this machine could reach,  *)
(* mapped ones where it has IPv6 alone; and for any parts of a url, a Uri  *)
(* has what was written, and the scheme's port where none was, and parsing *)
(* what toString prints gives it again.                                    *)
THEOREM AddressesKept == MCSpec => []AddressExact
<1> DEFINE Inv == EpInv /\ HcInv /\ UriInv
<1>1. MCInit => Inv
  BY DEF MCInit, EpInit, HcInit, UriInit, EpInv, HcInv, UriInv
<1>2. Inv /\ [MCNext]_all => Inv'
  BY AddressStep
<1>3. Inv => AddressExact
  BY EpSafe, HcSafe, UriSafe DEF AddressExact
<1> QED BY <1>1, <1>2, <1>3, PTL DEF MCSpec
=============================================================================
