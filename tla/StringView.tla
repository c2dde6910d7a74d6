----------------------------- MODULE StringView -----------------------------
(***************************************************************************)
(* cxx17::basic_string_view for compilers before C++17, the searches of    *)
(* impl/char_traits.hpp under it, and split.hpp. Positions are size_t: the *)
(* arithmetic wraps and npos is the largest of them. Characters are        *)
(* numbers; 0 does not occur in a view, it is strchr's terminator.         *)
(***************************************************************************)
EXTENDS Integers, Sequences, FiniteSets

CONSTANTS
  Chars,     \* the alphabet, positive numbers
  HayMax,    \* longest view searched
  NeedleMax, \* longest view searched for
  SizeMod    \* size_t wraps at this number

ASSUME ViewAssumption ==
  /\ Chars \subseteq Nat \ {0}
  /\ HayMax \in Nat /\ NeedleMax \in Nat /\ SizeMod \in Nat
  /\ HayMax + 2 < SizeMod

VARIABLES
  call,   \* the arguments of the last call
  answer  \* what each function returned for them

viewvars == <<call, answer>>

Npos == SizeMod - 1
Thrown == -1
Lesser(a, b) == IF a < b THEN a ELSE b

(* The character at an offset, as the code indexes.                        *)
Chr(s, i) == s[i + 1]

(* The loop of every search towards the end, and of every one towards the  *)
(* beginning, which stops after looking at offset 0.                       *)
Upwards(from, end, Hit(_)) ==
  LET Try[i \in from..end] == IF i = end THEN Npos ELSE IF Hit(i) THEN i ELSE Try[i + 1]
  IN Try[from]

Downwards(from, Hit(_)) ==
  LET Try[i \in 0..from] == IF Hit(i) THEN i ELSE IF i = 0 THEN Npos ELSE Try[i - 1]
  IN Try[from]

(* traits::find and traits::compare.                                       *)
Holds(set, c) == \E i \in DOMAIN set : set[i] = c
MatchAt(h, n, i) == \A k \in 0..(Len(n) - 1) : Chr(h, i + k) = Chr(n, k)

FindShort(h, at, n) ==
  IF Len(n) > Len(h) \/ at > Len(h) - Len(n) THEN Npos
  ELSE IF n = <<>> THEN at
  ELSE Upwards(at, Len(h) - Len(n), LAMBDA i : MatchAt(h, n, i))

(* __xxtraits_find: first the two tests that leave no room, then the loop. *)
Find(h, at, n) ==
  IF Len(n) > Len(h) \/ at > Len(h) - Len(n) THEN Npos
  ELSE IF n = <<>> THEN at
  ELSE Upwards(at, Len(h) - Len(n) + 1, LAMBDA i : MatchAt(h, n, i))

RFind(h, at, n) ==
  IF n = <<>> THEN Lesser(at, Len(h))
  ELSE IF Len(n) > Len(h) THEN Npos
  ELSE Downwards(Lesser(at, Len(h) - Len(n)), LAMBDA i : MatchAt(h, n, i))

FindFirstOf(h, at, n) ==
  IF n = <<>> \/ at >= Len(h) THEN Npos ELSE Upwards(at, Len(h), LAMBDA i : Holds(n, Chr(h, i)))

FindFirstNotOf(h, at, n) ==
  IF at >= Len(h) THEN Npos ELSE Upwards(at, Len(h), LAMBDA i : ~Holds(n, Chr(h, i)))

FindLastOf(h, at, n) ==
  IF n = <<>> \/ h = <<>> THEN Npos
  ELSE Downwards(Lesser(at, Len(h) - 1), LAMBDA i : Holds(n, Chr(h, i)))

FindLastNotOf(h, at, n) ==
  IF h = <<>> THEN Npos ELSE Downwards(Lesser(at, Len(h) - 1), LAMBDA i : ~Holds(n, Chr(h, i)))

(* The four searches for one character, which find_first_of and its kin    *)
(* take when given a character.                                            *)
FindCh(h, at, c) ==
  IF at >= Len(h) THEN Npos ELSE Upwards(at, Len(h), LAMBDA i : Chr(h, i) = c)
RFindCh(h, at, c) ==
  IF h = <<>> THEN Npos ELSE Downwards(Lesser(at, Len(h) - 1), LAMBDA i : Chr(h, i) = c)
FindNotCh(h, at, c) ==
  IF at >= Len(h) THEN Npos ELSE Upwards(at, Len(h), LAMBDA i : Chr(h, i) # c)
RFindNotCh(h, at, c) ==
  IF h = <<>> THEN Npos ELSE Downwards(Lesser(at, Len(h) - 1), LAMBDA i : Chr(h, i) # c)

(* substr, which refuses the position size() as well.                      *)
Substr(s, pos, len) ==
  IF pos >= Len(s) THEN Thrown
  ELSE SubSeq(s, pos + 1, pos + Lesser(len, Len(s) - pos))

(* compare: the common length by the traits, then the sizes.               *)
Compare(a, b) ==
  LET differ == {i \in 1..Lesser(Len(a), Len(b)) : a[i] # b[i]}
  IN IF differ = {} THEN (IF Len(a) < Len(b) THEN -1 ELSE IF Len(a) > Len(b) THEN 1 ELSE 0)
     ELSE LET i == CHOOSE i \in differ : \A j \in differ : i <= j IN IF a[i] < b[i] THEN -1 ELSE 1

(* The comparison operators are all made of compare.                       *)
ViewEq(a, b) == Compare(a, b) = 0
ViewNe(a, b) == Compare(a, b) # 0
ViewLt(a, b) == Compare(a, b) < 0
ViewGt(a, b) == Compare(a, b) > 0
ViewLe(a, b) == Compare(a, b) <= 0
ViewGe(a, b) == Compare(a, b) >= 0

(* starts_with and ends_with: compare(pos, n, v) of a substr that may      *)
(* throw. The case insensitive forms differ by the character comparison.   *)
Part(s, pos, v) ==
  LET part == Substr(s, pos, Len(v)) IN IF pos >= Len(s) THEN Thrown ELSE IF Compare(part, v) = 0 THEN 1 ELSE 0
StartsWith(s, v) == IF Len(s) >= Len(v) THEN Part(s, 0, v) ELSE 0
EndsWith(s, v) == IF Len(s) >= Len(v) THEN Part(s, (Len(s) - Len(v)) % SizeMod, v) ELSE 0

(* cxx17::append to a std::string: an empty view clears it.                *)
AppendView(s, v) == IF v = <<>> THEN <<>> ELSE s \o v

(* split_if_n: strchr runs to the terminator, not to s + slen, so a        *)
(* delimiter may be found behind the end; the piece behind the last        *)
(* delimiter is reported when it is empty too. split_if is the case that   *)
(* slen is the length, with nullptr for the last end.                      *)
SplitIfN(s, slen, delim) ==
  LET Walk[from \in 0..Len(s) + 1] ==
        LET p == IF from > Len(s) THEN Npos ELSE FindCh(s, from, delim)
        IN IF p = Npos \/ p >= slen
           THEN IF from <= slen THEN <<SubSeq(s, from + 1, slen)>> ELSE <<>>
           ELSE <<SubSeq(s, from + 1, p)>> \o Walk[p + 1]
  IN Walk[0]

-----------------------------------------------------------------------------
Views(n) == UNION {[1..k -> Chars] : k \in 0..n}
Positions == 0..(HayMax + 1) \cup {Npos}

ViewInit == call = [fn |-> "none"] /\ answer = [none |-> 0]

ViewSearch ==
  \E h \in Views(HayMax), n \in Views(NeedleMax), at \in Positions :
    /\ call' = [fn |-> "search", h |-> h, n |-> n, at |-> at]
    /\ answer' = [find |-> Find(h, at, n), rfind |-> RFind(h, at, n),
                  firstOf |-> FindFirstOf(h, at, n), firstNotOf |-> FindFirstNotOf(h, at, n),
                  lastOf |-> FindLastOf(h, at, n), lastNotOf |-> FindLastNotOf(h, at, n)]

ViewSearchCh ==
  \E h \in Views(HayMax), c \in Chars, at \in Positions :
    /\ call' = [fn |-> "searchCh", h |-> h, n |-> <<c>>, at |-> at]
    /\ answer' = [find |-> Find(h, at, <<c>>), rfind |-> RFind(h, at, <<c>>),
                  firstOf |-> FindCh(h, at, c), firstNotOf |-> FindNotCh(h, at, c),
                  lastOf |-> RFindCh(h, at, c), lastNotOf |-> RFindNotCh(h, at, c)]

ViewCompare ==
  \E a, b \in Views(NeedleMax + 1) :
    /\ call' = [fn |-> "compare", h |-> a, n |-> b, at |-> 0]
    /\ answer' = [eq |-> ViewEq(a, b), ne |-> ViewNe(a, b), lt |-> ViewLt(a, b),
                  gt |-> ViewGt(a, b), le |-> ViewLe(a, b), ge |-> ViewGe(a, b),
                  starts |-> StartsWith(a, b), ends |-> EndsWith(a, b)]

ViewSplit ==
  \E s \in Views(HayMax), c \in Chars : \E slen \in 0..Len(s) :
    /\ call' = [fn |-> "split", h |-> s, n |-> <<c>>, at |-> slen]
    /\ answer' = [pieces |-> SplitIfN(s, slen, c)]

ViewNext ==
  /\ call.fn = "none"
  /\ ViewSearch \/ ViewSearchCh \/ ViewCompare \/ ViewSplit

-----------------------------------------------------------------------------
(* What the standard says of a search: the least (or greatest) position at *)
(* or after (at or before) the start with the property, npos if none.      *)
LeastOf(S) == IF S = {} THEN Npos ELSE CHOOSE i \in S : \A j \in S : i <= j
GreatestOf(S) == IF S = {} THEN Npos ELSE CHOOSE i \in S : \A j \in S : i >= j
Among(c, n) == c \in {n[k] : k \in DOMAIN n}

(* Every search of a view finds what [string.find] and its neighbours say, *)
(* for every start, npos and one past the end included.                    *)
SearchExact ==
  call.fn \in {"search", "searchCh"} =>
    LET h == call.h  n == call.n  at == call.at
        starts == {i \in 0..Len(h) : i + Len(n) <= Len(h) /\ SubSeq(h, i + 1, i + Len(n)) = n}
        within == 0..(Len(h) - 1)
    IN answer = [find |-> LeastOf({i \in starts : i >= at}),
                 rfind |-> GreatestOf({i \in starts : i <= at}),
                 firstOf |-> LeastOf({i \in within : i >= at /\ Among(h[i + 1], n)}),
                 firstNotOf |-> LeastOf({i \in within : i >= at /\ ~Among(h[i + 1], n)}),
                 lastOf |-> GreatestOf({i \in within : i <= at /\ Among(h[i + 1], n)}),
                 lastNotOf |-> GreatestOf({i \in within : i <= at /\ ~Among(h[i + 1], n)})]

(* The six operators order views lexicographically, a proper prefix first, *)
(* and starts_with and ends_with answer by prefix and suffix or, for an    *)
(* empty view at the very end, throw.                                      *)
OrderExact ==
  call.fn = "compare" =>
    LET a == call.h  b == call.n
        Before(x, y) == \E i \in 1..Len(y) :
          /\ i <= Len(x) + 1
          /\ \A j \in 1..(i - 1) : x[j] = y[j]
          /\ i = Len(x) + 1 \/ x[i] < y[i]
        fits == Len(b) <= Len(a)
    IN /\ answer.eq = (a = b) /\ answer.ne = (a # b)
       /\ answer.lt = Before(a, b) /\ answer.gt = Before(b, a)
       /\ answer.le = ~Before(b, a) /\ answer.ge = ~Before(a, b)
       /\ answer.starts = 1 <=> (fits /\ a # <<>> /\ SubSeq(a, 1, Len(b)) = b)
       /\ answer.ends = 1 <=> (fits /\ b # <<>> /\ SubSeq(a, Len(a) - Len(b) + 1, Len(a)) = b)
       /\ answer.starts = Thrown <=> a = <<>> /\ b = <<>>
       /\ answer.ends = Thrown <=> b = <<>>

(* split_n cuts the first slen characters at every delimiter and nowhere   *)
(* else: the pieces joined by the delimiter are that text again.           *)
SplitExact ==
  call.fn = "split" =>
    LET cut == SubSeq(call.h, 1, call.at)
        Join[k \in 0..Len(answer.pieces)] ==
          IF k = 0 THEN <<>>
          ELSE (IF k = 1 THEN <<>> ELSE Join[k - 1] \o call.n) \o answer.pieces[k]
    IN /\ Join[Len(answer.pieces)] = cut
       /\ \A k \in DOMAIN answer.pieces : ~Among(call.n[1], answer.pieces[k])
       /\ Len(answer.pieces) = 1 + Cardinality({i \in DOMAIN cut : cut[i] = call.n[1]})


(* Searching, ordering and splitting do what the standard says.            *)
ViewExact == SearchExact /\ OrderExact /\ SplitExact
=============================================================================
