----------------------------- MODULE Ownership ------------------------------
(***************************************************************************)
(* ref_ptr, handles that count the references to an object, and singleton, *)
(* an instance made on first use by whichever thread comes first.          *)
(***************************************************************************)
EXTENDS Integers, FiniteSets

CONSTANTS
  Handles, Targets,  \* ref_ptr variables and reference-counted objects
  Users,             \* threads that ask for the singleton
  MaxRefs, MaxMade   \* bounds on an object's references and on instances

NoObject == "null"
ASSUME OwnAssumption ==
  /\ NoObject \notin Targets /\ IsFiniteSet(Handles)
  /\ MaxRefs \in Nat \ {0} /\ MaxMade \in Nat

VARIABLES
  ptr,      \* ptr_ of each handle
  strong,   \* __strong_refs; 0: not made or deleted
  raw,      \* objects whose first reference the caller still owns
  single,   \* __single__
  made, ended, \* instances constructed, instances deleted
  user      \* per thread: where it is in get_instance, what it got

ownvars == <<ptr, strong, raw, single, made, ended, user>>
refvars == <<ptr, strong, raw>>
onevars == <<single, made, ended, user>>

(***************************************************************************)
(* ref_ptr.                                                                *)
(***************************************************************************)
Retained(s, o) == IF o = NoObject THEN s ELSE [s EXCEPT ![o] = @ + 1]
Released(s, o) == IF o = NoObject THEN s ELSE [s EXCEPT ![o] = @ - 1]

(* reset(p) on a handle: nothing when the pointer is the same.             *)
Reset(s, h, o) == IF ptr[h] = o THEN s ELSE Released(s, ptr[h])

(* new: the object starts with one reference.                              *)
New(o) ==
  /\ strong[o] = 0 /\ o \notin {ptr[h] : h \in Handles}
  /\ strong' = [strong EXCEPT ![o] = 1] /\ raw' = raw \cup {o}
  /\ UNCHANGED <<ptr, onevars>>

(* ref_ptr(p) or reset(p) adopts the caller's reference.                   *)
Adopt(h, o) ==
  /\ o \in raw /\ raw' = raw \ {o}
  /\ strong' = Reset(strong, h, o) /\ ptr' = [ptr EXCEPT ![h] = o]
  /\ UNCHANGED onevars

ForgetsRetain(h, g) ==
  /\ h # g
  /\ strong' = Reset(strong, h, ptr[g]) /\ ptr' = [ptr EXCEPT ![h] = ptr[g]]
  /\ UNCHANGED <<raw, onevars>>

(* h = g: reset, then retain, even when both hold the object already.      *)
CopyAssign(h, g) ==
  /\ h # g
  /\ ptr[g] # NoObject => strong[ptr[g]] < MaxRefs
  /\ strong' = Retained(Reset(strong, h, ptr[g]), ptr[g])
  /\ ptr' = [ptr EXCEPT ![h] = ptr[g]]
  /\ UNCHANGED <<raw, onevars>>

(* h = std::move(g): g gives its reference up first, h itself included.    *)
MoveAssign(h, g) ==
  /\ LET o == ptr[g]
         p == [ptr EXCEPT ![g] = NoObject] IN
     /\ strong' = IF p[h] = o THEN strong ELSE Released(strong, p[h])
     /\ ptr' = [p EXCEPT ![h] = o]
  /\ UNCHANGED <<raw, onevars>>

(* The destructor, reset() and = nullptr.                                  *)
Drop(h) ==
  /\ ptr[h] # NoObject
  /\ strong' = Released(strong, ptr[h]) /\ ptr' = [ptr EXCEPT ![h] = NoObject]
  /\ UNCHANGED <<raw, onevars>>

(***************************************************************************)
(* singleton<T>::instance and destroy.                                     *)
(***************************************************************************)
Instance(u) ==
  /\ user[u].at = "out"
  /\ user' = [user EXCEPT ![u] = IF single # 0 THEN [at |-> "load", got |-> 0]
                                 ELSE [at |-> "lock", got |-> 0]]
  /\ UNCHANGED <<refvars, single, made, ended>>

(* Under __mutex__: test again, construct, initialise and publish.         *)
Construct(u) ==
  /\ user[u].at = "lock"
  /\ IF single = 0
     THEN made < MaxMade /\ made' = made + 1 /\ single' = made + 1
     ELSE UNCHANGED <<made, single>>
  /\ user' = [user EXCEPT ![u].at = "load"]
  /\ UNCHANGED <<refvars, ended>>

(* return inst loads the pointer once more.                                *)
ReturnInstance(u) ==
  /\ user[u].at = "load"
  /\ user' = [user EXCEPT ![u] = [at |-> "out", got |-> single]]
  /\ UNCHANGED <<refvars, single, made, ended>>

(* destroy(): the exchange takes the pointer from everyone, then deletes.  *)
DestroyInstance ==
  /\ single # 0 /\ ended' = ended \cup {single} /\ single' = 0
  /\ UNCHANGED <<refvars, made, user>>

OwnInit ==
  /\ ptr = [h \in Handles |-> NoObject] /\ strong = [o \in Targets |-> 0] /\ raw = {}
  /\ single = 0 /\ made = 0 /\ ended = {}
  /\ user = [u \in Users |-> [at |-> "out", got |-> 0]]

RefNext ==
  \/ \E o \in Targets : New(o)
  \/ \E h \in Handles : Drop(h) \/ \E o \in Targets : Adopt(h, o)
  \/ \E h, g \in Handles : CopyAssign(h, g) \/ MoveAssign(h, g)
OneNext ==
  \/ \E u \in Users : Instance(u) \/ Construct(u) \/ ReturnInstance(u)
  \/ DestroyInstance
OwnNext == RefNext \/ OneNext
OwnSpec == OwnInit /\ [][OwnNext]_ownvars

-----------------------------------------------------------------------------
OwnTypeOK ==
  /\ ptr \in [Handles -> Targets \cup {NoObject}] /\ raw \subseteq Targets
  /\ \A o \in Targets : strong[o] \in 0..MaxRefs
  /\ single \in 0..MaxMade /\ made \in 0..MaxMade /\ ended \subseteq 1..MaxMade

(* No handle outlives its object, through copies, moves, self-assignments  *)
(* and two handles of one object.                                          *)
NoDangling ==
  \A o \in Targets :
    strong[o] >= Cardinality({h \in Handles : ptr[h] = o}) + (IF o \in raw THEN 1 ELSE 0)

(* Of all instances made at most the one in __single__ is alive, and a     *)
(* thread only ever got one that was published.                            *)
OneInstance ==
  /\ 1..made \ ended = (IF single = 0 THEN {} ELSE {single})
  /\ \A u \in Users : user[u].got \in 0..made

(* Until destroy is called, whoever returned from instance() has it.       *)
SameInstance ==
  ended = {} /\ made > 0 => \A u \in Users : user[u].got \in {0, single}
=============================================================================
