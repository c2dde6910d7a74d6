----------------------------- MODULE BasicString -----------------------------
(***************************************************************************)
(* yasio::basic_string: storage by realloc with room for a terminator,     *)
(* which not every operation writes, and replace as MSVC's library has it, *)
(* for a replacement that may lie in the string itself.                    *)
(*                                                                         *)
(* capacity() counts the terminator's cell, and resize and expand compare  *)
(* it with the new size alone: a string that is as long as its capacity    *)
(* gets its terminator one cell behind the storage (and an empty one, by   *)
(* resize(0), at the null pointer). What the program does then is not      *)
(* defined, and the string stops here with over set.                       *)
(***************************************************************************)
EXTENDS StringView

CONSTANTS
  StrValues,  \* characters
  StrMax      \* bound: longest string

ASSUME StringAssumption == StrMax \in Nat \ {0} /\ StrValues \subseteq Nat \ {0}

Nul == 0
Garbage == -1       \* a cell nobody has written

VARIABLES
  str,   \* mem: the block; size: _Mysize; res: _Myres; over: wrote behind it
  text,  \* the characters std::string would have
  term   \* c_str() ends where the string does

strvars == <<str, text, term>>

StrMove(v, to, xs) ==
  [v EXCEPT !.mem = [i \in DOMAIN @ |-> IF i \in (to + 1)..(to + Len(xs)) THEN xs[i - to] ELSE @[i]],
            !.over = @ \/ to + Len(xs) > Len(v.mem)]

Cells(v, from, n) == [i \in 1..n |-> IF from + i <= Len(v.mem) THEN v.mem[from + i] ELSE Garbage]

Eos(v, n) == StrMove([v EXCEPT !.size = n], n, <<Nul>>)

StrGrowth(cap, n) == LET geometric == cap + cap \div 2 IN IF geometric < n THEN n ELSE geometric

StrBlock(v, n) == [v EXCEPT !.mem = Cells(v, 0, n)]

StrReallocate(v, cap) == [StrBlock(v, cap) EXCEPT !.res = cap]

(* _Tidy, which for no block does nothing.                                 *)
StrTidy(v) == [v EXCEPT !.mem = <<>>, !.size = 0, !.res = 0]

StrResize(v, n) == Eos(IF v.res < n THEN StrReallocate(v, n + 1) ELSE v, n)

StrExpand(v, n) ==
  LET size == v.size + n  grown == StrGrowth(v.res, size)
  IN Eos(IF v.res < size THEN StrReallocate(v, IF grown > size THEN grown ELSE size + 1) ELSE v, size)

(* append, which is push_back for one character, expand(n, x) for equals.  *)
StrAppend(v, xs) == IF xs = <<>> THEN v ELSE StrMove(StrExpand(v, Len(xs)), v.size, xs)

StrInsert(v, off, xs) ==
  IF xs = <<>> \/ off = v.size THEN StrAppend(v, xs)
  ELSE LET w == StrExpand(v, Len(xs)) IN
       StrMove(StrMove(w, off + Len(xs), Cells(w, off, v.size - off)), off, xs)

StrErase(v, from, to) == [StrMove(v, from, Cells(v, to, v.size - to)) EXCEPT !.size = v.size - (to - from)]

(* replace of nx characters at off by xs, which stand at the string's own  *)
(* offset p or, for p = Npos, elsewhere. Where the growth fits, the part   *)
(* of an own xs that lies in the suffix is read where the suffix has gone; *)
(* after a reallocation an own xs is read from memory that was given back. *)
Replace(v, off, n, p, xs) ==
  LET nx == Lesser(n, v.size - off)
      cnt == Len(xs)
      growth == cnt - nx
      suffix == v.size - nx - off + 1
      shifted == IF p = Npos \/ p + cnt <= off THEN cnt ELSE IF off + nx <= p THEN 0 ELSE off + nx - p
      Shift(w) == StrMove([w EXCEPT !.size = v.size + growth], off + cnt, Cells(w, off + nx, suffix))
  IN IF cnt = nx THEN StrMove(v, off, xs)
     ELSE IF cnt < nx THEN Shift(StrMove(v, off, xs))
     ELSE IF growth <= v.res - v.size
     THEN LET w == Shift(v)
              x == StrMove(w, off, IF p = Npos THEN xs ELSE Cells(w, p, shifted))
          IN IF p = Npos THEN x
             ELSE StrMove(x, off + shifted, Cells(x, p + growth + shifted, cnt - shifted))
     ELSE LET cap == StrGrowth(v.res, v.size + growth)
              w == Shift([StrBlock(v, cap + 1) EXCEPT !.res = cap])
          IN StrMove(w, off, IF p = Npos THEN xs ELSE [i \in 1..cnt |-> Garbage])

(* replace_all: the search goes on behind each replacement. (An empty from *)
(* is found at the end too, where replace throws.)                         *)
StrReplaceAll(v, from, to) ==
  LET Turn[k \in 0..(StrMax + 1)] ==
        IF k = 0 THEN [v |-> v, pos |-> 0]
        ELSE LET t == Turn[k - 1]
                 pos == IF t.pos = Npos THEN Npos ELSE Find(Cells(t.v, 0, t.v.size), t.pos, from)
             IN IF pos = Npos THEN [t EXCEPT !.pos = Npos]
                ELSE [v |-> Replace(t.v, pos, Len(from), Npos, to), pos |-> pos + Len(to)]
  IN Turn[StrMax + 1].v

-----------------------------------------------------------------------------
StrTexts == UNION {[1..n -> StrValues] : n \in 0..2}
Grown(xs) == text' = xs /\ Len(xs) <= StrMax
Spliced(off, n, xs) == SubSeq(text, 1, off) \o xs \o SubSeq(text, off + n + 1, Len(text))

StrInit ==
  /\ str = [mem |-> <<>>, size |-> 0, res |-> 0, over |-> FALSE]
  /\ text = <<>> /\ term = TRUE

StringInsert ==
  \E xs \in StrTexts, off \in 0..str.size :
    /\ ~str.over /\ Grown(Spliced(off, 0, xs))
    /\ str' = StrInsert(str, off, xs)
    /\ term' = (term \/ xs # <<>>)

(* erase and clear leave the terminator where it was.                      *)
StringErase ==
  \E from, to \in 0..str.size :
    /\ ~str.over /\ from <= to /\ Grown(Spliced(from, to - from, <<>>))
    /\ str' = StrErase(str, from, to)
    /\ term' = (term /\ from = to)

(* resize(n), and resize(n, x), which does nothing for the same length.    *)
StringResize ==
  \E n \in 0..StrMax, x \in StrValues \cup {Garbage} :
    LET fill == [i \in 1..(IF n > str.size THEN n - str.size ELSE 0) |-> x]
        same == x # Garbage /\ n = str.size
    IN /\ ~str.over /\ Grown(SubSeq(text, 1, Lesser(n, Len(text))) \o fill)
       /\ str' = IF same THEN str ELSE StrMove(StrResize(str, n), Len(text), IF x = Garbage THEN <<>> ELSE fill)
       /\ term' = (term \/ ~same)

(* shrink_to_fit, reserve: a first block has no terminator yet.            *)
StringCapacity ==
  /\ ~str.over /\ UNCHANGED text
  /\ \/ /\ str.size # str.res
        /\ str' = IF str.size = 0 THEN StrTidy(str) ELSE StrReallocate(str, str.size + 1)
        /\ term' = (term \/ str.size = 0)
     \/ \E n \in 0..StrMax :
          /\ str.res < n
          /\ str' = StrReallocate(str, n + 1)
          /\ term' = (term /\ str.mem # <<>>)

(* assign of characters elsewhere; from the string's own begin it returns. *)
StringAssign ==
  \E xs \in StrTexts :
    /\ ~str.over /\ Grown(xs)
    /\ str' = IF xs = <<>> THEN [str EXCEPT !.size = 0]
              ELSE StrMove(StrResize([str EXCEPT !.size = 0], Len(xs)), 0, xs)
    /\ term' = IF xs = <<>> THEN term /\ text = <<>> ELSE TRUE

(* resize_and_overwrite, of which op keeps k.                              *)
StringOverwrite ==
  \E n \in 0..StrMax, x \in StrValues : \E k \in 0..n :
    LET xs == [i \in 1..k |-> x] IN
      /\ ~str.over /\ Grown(xs)
      /\ str' = Eos(StrMove(StrReallocate(str, n + 1), 0, xs), k)
      /\ term' = TRUE

(* detach_abi gives the block away; attach_abi takes one of exactly the    *)
(* characters.                                                             *)
StringDetach ==
  /\ ~str.over /\ Grown(<<>>)
  /\ str' = StrTidy(str)
  /\ term' = TRUE

StringAttach ==
  \E xs \in StrTexts :
    /\ ~str.over /\ xs # <<>> /\ Grown(xs)
    /\ str' = [StrTidy(str) EXCEPT !.mem = xs, !.size = Len(xs), !.res = Len(xs)]
    /\ term' = FALSE

StringReplace ==
  \E off \in 0..(str.size - 1), n \in 0..StrMax :
    /\ ~str.over /\ UNCHANGED term
    /\ \/ \E xs \in StrTexts :
            /\ Grown(Spliced(off, n, xs))
            /\ str' = Replace(str, off, n, Npos, xs)
       \/ \E p \in 0..str.size : \E q \in p..str.size :
            LET xs == SubSeq(text, p + 1, q)
                kept == q - p <= Lesser(n, str.size - off)
                        \/ q - p - Lesser(n, str.size - off) <= str.res - str.size
            IN /\ Grown(Spliced(off, n, IF kept THEN xs ELSE [i \in DOMAIN xs |-> Garbage]))
               /\ str' = Replace(str, off, n, p, Cells(str, p, q - p))

(* What replace_all is to leave: from the left, nothing replaced twice.    *)
AllReplaced(s, from, to) ==
  LET Rest[i \in 1..(Len(s) + 1)] ==
        IF i > Len(s) THEN <<>>
        ELSE IF i + Len(from) - 1 <= Len(s) /\ SubSeq(s, i, i + Len(from) - 1) = from
        THEN to \o Rest[i + Len(from)] ELSE <<s[i]>> \o Rest[i + 1]
  IN Rest[1]

StringReplaceAll ==
  \E from, to \in StrTexts :
    /\ ~str.over /\ from # <<>> /\ from # to /\ \A i \in DOMAIN text : text[i] # Garbage
    /\ Grown(AllReplaced(text, from, to))
    /\ str' = StrReplaceAll(str, from, to)
    /\ UNCHANGED term

StrNext ==
  \/ StringInsert \/ StringErase \/ StringResize \/ StringCapacity \/ StringAssign
  \/ StringOverwrite \/ StringDetach \/ StringAttach \/ StringReplace \/ StringReplaceAll

-----------------------------------------------------------------------------
(* After any sequence of calls the string has the length and every written *)
(* character std::string would have, through moves, reallocations and      *)
(* replacements by a part of itself; it ends in a terminator unless the    *)
(* last change of length was one that writes none; and nothing but that    *)
(* terminator is ever written behind the block.                            *)
StringKept ==
  /\ Len(text) = str.size
  /\ \A i \in DOMAIN text : text[i] # Garbage => i <= Len(str.mem) /\ str.mem[i] = text[i]
  /\ (term /\ ~str.over /\ str.mem # <<>>) => str.size < Len(str.mem) /\ str.mem[str.size + 1] = Nul
  /\ str.over => str.size = str.res
=============================================================================
