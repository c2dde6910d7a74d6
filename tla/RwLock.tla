------------------------------- MODULE RwLock -------------------------------
(***************************************************************************)
(* What shared_mutex promises its callers: any number of readers, or one   *)
(* writer alone.                                                           *)
(***************************************************************************)
CONSTANT Callers
VARIABLES readers, writers

RwInit == readers = {} /\ writers = {}

RwRead(t) ==
  /\ writers = {} /\ t \notin readers
  /\ readers' = readers \cup {t} /\ UNCHANGED writers

RwWrite(t) ==
  /\ writers = {} /\ readers = {}
  /\ writers' = {t} /\ UNCHANGED readers

RwLeave(t) ==
  /\ t \in readers \cup writers
  /\ readers' = readers \ {t} /\ writers' = writers \ {t}

RwNext == \E t \in Callers : RwRead(t) \/ RwWrite(t) \/ RwLeave(t)
RwSpec == RwInit /\ [][RwNext]_<<readers, writers>>
=============================================================================
