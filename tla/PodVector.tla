------------------------------ MODULE PodVector ------------------------------
(***************************************************************************)
(* pod_vector, the buffer behind every packet: storage that grows by       *)
(* realloc, elements moved by memmove, new elements left uninitialised.    *)
(* Beside it, the sequence std::vector would hold.                         *)
(***************************************************************************)
EXTENDS Integers, Sequences

CONSTANTS
  PodValues,  \* element values
  PodMax      \* max_size(), and what realloc can give

ASSUME PodAssumption == PodMax \in Nat \ {0} /\ PodValues \subseteq Nat

Unwritten == -1     \* a cell nobody has written

VARIABLES
  vec,   \* mem: the storage, as long as _Myres; size: _Mysize
  want   \* the elements a vector would have

podvars == <<vec, want>>

Cap(v) == Len(v.mem)

(* _Calculate_growth: one and a half times, at least n, at most the limit. *)
Growth(cap, n) ==
  IF cap > PodMax - cap \div 2 THEN PodMax
  ELSE LET geometric == cap + cap \div 2 IN IF geometric < n THEN n ELSE geometric

(* _Reallocate.                                                            *)
Reallocate(v, cap) ==
  [v EXCEPT !.mem = [i \in 1..cap |-> IF i <= Cap(v) THEN v.mem[i] ELSE Unwritten]]

Resize(v, n) == [(IF Cap(v) < n THEN Reallocate(v, n) ELSE v) EXCEPT !.size = n]

Expand(v, n) ==
  [(IF Cap(v) < v.size + n THEN Reallocate(v, Growth(Cap(v), v.size + n)) ELSE v)
     EXCEPT !.size = v.size + n]

(* copy_n within and into the storage, from offset 0.                      *)
Fill(v, off, xs) ==
  [v EXCEPT !.mem = [i \in 1..Cap(v) |-> IF i \in (off + 1)..(off + Len(xs)) THEN xs[i - off] ELSE @[i]]]

PodAppend(v, xs) == Fill(Expand(v, Len(xs)), v.size, xs)

(* insert of a range, of count values and of one element.                  *)
Insert(v, off, xs) ==
  IF xs = <<>> THEN v
  ELSE IF off = v.size THEN PodAppend(v, xs)
  ELSE LET w == Expand(v, Len(xs)) IN
       Fill(Fill(w, off + Len(xs), SubSeq(w.mem, off + 1, v.size)), off, xs)

Erase(v, from, to) ==
  [Fill(v, from, SubSeq(v.mem, to + 1, v.size)) EXCEPT !.size = v.size - (to - from)]

(* resize(n, x), which fills only what is new.                             *)
ResizeFill(v, n, x) ==
  IF v.size < n THEN Fill(Resize(v, n), v.size, [i \in 1..(n - v.size) |-> x]) ELSE Resize(v, n)

ShrinkToFit(v) ==
  IF v.size = 0 THEN [mem |-> <<>>, size |-> 0]
  ELSE IF v.size = Cap(v) THEN v ELSE Reallocate(v, v.size)

Reserve(v, n) == IF Cap(v) < n THEN Reallocate(v, n) ELSE v

(* assign: the old elements are forgotten, not kept by the resize.         *)
Assign(v, xs) ==
  IF xs = <<>> THEN [v EXCEPT !.size = 0] ELSE Fill(Resize([v EXCEPT !.size = 0], Len(xs)), 0, xs)

(* std::upper_bound, for insert_sorted.                                    *)
UpperBound(v, x) ==
  CHOOSE i \in 0..v.size : /\ \A j \in 1..i : v.mem[j] <= x
                           /\ i < v.size => v.mem[i + 1] > x

Sorted(s) == \A i \in 1..(Len(s) - 1) : s[i] <= s[i + 1]
Ranges == UNION {[1..n -> PodValues] : n \in 0..2}
Room(n) == vec.size + n <= PodMax

PodInit == vec = [mem |-> <<>>, size |-> 0] /\ want = <<>>

PodInsert ==
  \E xs \in Ranges, off \in 0..vec.size :
    /\ Room(Len(xs))
    /\ vec' = Insert(vec, off, xs)
    /\ want' = SubSeq(want, 1, off) \o xs \o SubSeq(want, off + 1, Len(want))

PodInsertSorted ==
  \E x \in PodValues :
    /\ Room(1) /\ Sorted(want) /\ \A i \in DOMAIN want : want[i] # Unwritten
    /\ vec' = Insert(vec, UpperBound(vec, x), <<x>>)
    /\ \E i \in 0..Len(want) :
         /\ \A j \in 1..i : want[j] <= x
         /\ \A j \in (i + 1)..Len(want) : want[j] > x
         /\ want' = SubSeq(want, 1, i) \o <<x>> \o SubSeq(want, i + 1, Len(want))

PodErase ==
  \E from, to \in 0..vec.size :
    /\ from <= to
    /\ vec' = Erase(vec, from, to)
    /\ want' = SubSeq(want, 1, from) \o SubSeq(want, to + 1, Len(want))

PodResize ==
  \E n \in 0..PodMax, x \in PodValues \cup {Unwritten} :
    /\ vec' = (IF x = Unwritten THEN Resize(vec, n) ELSE ResizeFill(vec, n, x))
    /\ want' = [i \in 1..n |-> IF i <= Len(want) THEN want[i] ELSE x]

PodCapacity ==
  /\ \/ vec' = ShrinkToFit(vec)
     \/ \E n \in 0..PodMax : vec' = Reserve(vec, n)
  /\ UNCHANGED want

PodAssign == \E xs \in Ranges : Len(xs) <= PodMax /\ vec' = Assign(vec, xs) /\ want' = xs

(* resize_and_overwrite: storage of exactly n, of which op keeps k.        *)
PodOverwrite ==
  \E n \in 1..PodMax, x \in PodValues : \E k \in 0..n :
    /\ vec' = [Fill(Reallocate(vec, n), 0, [i \in 1..k |-> x]) EXCEPT !.size = k]
    /\ want' = [i \in 1..k |-> x]

PodNext == PodInsert \/ PodInsertSorted \/ PodErase \/ PodResize \/ PodCapacity \/ PodAssign \/ PodOverwrite
PodSpec == PodInit /\ [][PodNext]_podvars

-----------------------------------------------------------------------------
PodTypeOK == vec.size \in 0..Cap(vec) /\ Cap(vec) <= PodMax

(* After any sequence of calls the vector has the length and every written *)
(* element a std::vector would have, whatever was reallocated or moved.    *)
ContentKept ==
  /\ Len(want) = vec.size
  /\ \A i \in DOMAIN want : want[i] # Unwritten => i <= Cap(vec) /\ vec.mem[i] = want[i]
=============================================================================
