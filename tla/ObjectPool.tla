----------------------------- MODULE ObjectPool -----------------------------
(***************************************************************************)
(* object_pool: chunks of PoolCount elements, free elements linked through *)
(* their own memory.  An object that is in use overwrites its link.        *)
(***************************************************************************)
EXTENDS Integers, FiniteSets

CONSTANTS
  PoolCount,  \* element_count_
  MaxChunks   \* bound on the chunks

ASSUME PoolAssumption == PoolCount \in Nat \ {0} /\ MaxChunks \in Nat \ {0}

Null == 0
Junk == -1

VARIABLES
  head,    \* first_
  next,    \* nextof of every element there is
  chunks,  \* length of the chunk list
  used     \* elements handed out

poolvars == <<head, next, chunks, used>>

Elements(n) == 1..(n * PoolCount)
FirstOf(c) == (c - 1) * PoolCount + 1
LastOf(c) == c * PoolCount

(* tidy_chunk: every element but the last is linked to the one after it.   *)
Tidy(links, c) ==
  [e \in DOMAIN links \cup FirstOf(c)..LastOf(c) |->
     IF e \in FirstOf(c)..(LastOf(c) - 1) THEN e + 1
     ELSE IF e \in DOMAIN links THEN links[e] ELSE Null]

(* allocate_from_process_heap: a chunk is linked and its first element     *)
(* taken.                                                                  *)
NewChunk(links, n) == [Tidy(links, n + 1) EXCEPT ![LastOf(n + 1)] = Null]

(* get and release, each under mutex_.                                     *)
Allocate ==
  IF head # Null
  THEN /\ head' = next[head] /\ used' = used \cup {head}
       /\ next' = [next EXCEPT ![head] = Junk] /\ UNCHANGED chunks
  ELSE /\ chunks < MaxChunks
       /\ chunks' = chunks + 1
       /\ LET links == NewChunk(next, chunks) IN
          /\ head' = links[FirstOf(chunks + 1)]
          /\ next' = [links EXCEPT ![FirstOf(chunks + 1)] = Junk]
       /\ used' = used \cup {FirstOf(chunks + 1)}

PoolRelease(e) ==
  /\ next' = [next EXCEPT ![e] = head] /\ head' = e /\ used' = used \ {e}
  /\ UNCHANGED chunks

(* cleanup(): all chunks, newest first, become one list.  Objects in use   *)
(* would be handed out again: a caller has none.                           *)
CleanupLinks(n) ==
  [e \in Elements(n) |-> IF e \notin {LastOf(c) : c \in 1..n} THEN e + 1
                         ELSE IF e = LastOf(1) THEN Null
                         ELSE FirstOf((CHOOSE c \in 1..n : e = LastOf(c)) - 1)]

Cleanup ==
  /\ used = {} /\ chunks > 0
  /\ next' = CleanupLinks(chunks) /\ head' = FirstOf(chunks)
  /\ UNCHANGED <<chunks, used>>

(* purge(), of the destructor.                                             *)
Purge ==
  /\ used = {} /\ chunks > 0
  /\ chunks' = 0 /\ next' = <<>> /\ head' = Null /\ UNCHANGED used

(* The constructor preallocates one chunk.                                 *)
PoolInit ==
  /\ chunks = 1 /\ used = {}
  /\ next = NewChunk(<<>>, 0) /\ head = FirstOf(1)

PoolNext == Allocate \/ (\E e \in used : PoolRelease(e)) \/ Cleanup \/ Purge
PoolSpec == PoolInit /\ [][PoolNext]_poolvars

-----------------------------------------------------------------------------
PoolTypeOK ==
  /\ chunks \in 0..MaxChunks /\ used \subseteq Elements(chunks)
  /\ head \in Elements(chunks) \cup {Null}
  /\ DOMAIN next = Elements(chunks)

(* The free list, followed link by link, visits each element that is not   *)
(* in use once, never one that is, and ends: no element is handed out      *)
(* twice or lost.                                                          *)
Walk[i \in 0..(chunks * PoolCount)] ==
  IF i = 0 THEN head ELSE IF Walk[i - 1] \in DOMAIN next THEN next[Walk[i - 1]] ELSE Null

FreeListExact ==
  LET free == Elements(chunks) \ used IN
  /\ {Walk[i] : i \in 0..(Cardinality(free) - 1)} = (IF free = {} THEN {} ELSE free)
  /\ Walk[Cardinality(free)] = Null
=============================================================================
