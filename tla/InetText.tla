------------------------------ MODULE InetText ------------------------------
(***************************************************************************)
(* inet_ntop and inet_pton as yasio carries them for platforms without.    *)
(* An IPv6 text is a sequence of tokens: a colon, a hexadecimal word, or a *)
(* dotted quad, which stands for the last two words. An IPv4 text is a     *)
(* sequence of digits and dots. The loops are those of the code over these *)
(* tokens, for addresses of NWords words and of NOctets octets.            *)
(***************************************************************************)
EXTENDS Integers, Sequences, FiniteSets

CONSTANTS
  NWords,      \* words of an IPv6 address, 8 in the code
  WordValues,  \* words of the addresses formatted
  AllOnes,     \* 0xffff
  NOctets,     \* octets of an IPv4 address, 4 in the code
  OctetMax,    \* 255
  Digits,      \* digits that texts are made of
  TextMax      \* longest IPv4 text

ASSUME InetAssumption ==
  /\ NWords \in Nat /\ NWords > 3 /\ NOctets \in Nat \ {0} /\ TextMax \in Nat
  /\ Digits \subseteq 0..9 /\ {0, 1} \subseteq WordValues

Colon == <<":">>
Word(v) == <<"w", v>>
Quad(a, b) == <<"q", a, b>>
Dot == 10
Bad == <<>>

VARIABLES
  text6,   \* tokens of an IPv6 text that grows
  text4,   \* characters of an IPv4 text that grows
  addr6,   \* an IPv6 address, <<>> before one is chosen
  print6   \* what inet_ntop6 made of it

inetvars == <<text6, text4, addr6, print6>>

NoRun == [base |-> -1, len |-> 0]

(* "best = cur" of inet_ntop6: the first of the longest.                   *)
Better(best, cur) == IF cur.base # -1 /\ (best.base = -1 \/ cur.len > best.len) THEN cur ELSE best

(* The run of zero words that "::" stands for: the loop over the words,    *)
(* the run that ends with them, and no run of one word.                    *)
BestRun(a) ==
  LET At[i \in 0..NWords] ==
        IF i = 0 THEN [best |-> NoRun, cur |-> NoRun]
        ELSE LET r == At[i - 1] IN
             IF a[i] # 0 THEN [best |-> Better(r.best, r.cur), cur |-> NoRun]
             ELSE [r EXCEPT !.cur = [base |-> IF r.cur.base = -1 THEN i - 1 ELSE r.cur.base,
                                     len |-> r.cur.len + 1]]
      best == Better(At[NWords].best, At[NWords].cur)
  IN IF best.len < 2 THEN NoRun ELSE best

(* An IPv4-compatible or IPv4-mapped address.                              *)
Encapsulated(a, best) ==
  best.base = 0 /\ (best.len = NWords - 2 \/ (best.len = NWords - 3 /\ a[NWords - 2] = AllOnes))

Ntop6(a) ==
  LET best == BestRun(a)
      inRun(i) == best.base # -1 /\ i >= best.base /\ i < best.base + best.len
      tail == IF best.base # -1 /\ best.base + best.len = NWords THEN <<Colon>> ELSE <<>>
      From[i \in 0..NWords] ==
        IF i = NWords THEN tail
        ELSE IF inRun(i) THEN (IF i = best.base THEN <<Colon>> ELSE <<>>) \o From[i + 1]
        ELSE (IF i # 0 THEN <<Colon>> ELSE <<>>)
             \o (IF i = NWords - 2 /\ Encapsulated(a, best) THEN <<Quad(a[i + 1], a[i + 2])>> \o tail
                 ELSE <<Word(a[i + 1])>> \o From[i + 1])
  IN From[0]

(* One token of inet_pton6's loop: words so far, the place of "::", a word *)
(* not yet stored. A colon at the end, a second "::", a word too many and  *)
(* a quad that is not last or has no room are refused.                     *)
PtonToken(st, tok, last) ==
  LET refused == [st EXCEPT !.bad = TRUE] IN
  IF st.bad THEN st
  ELSE IF tok[1] = "w" THEN [st EXCEPT !.val = tok[2], !.saw = TRUE]
  ELSE IF tok[1] = "q"
  THEN IF Len(st.words) + 2 <= NWords /\ last
       THEN [st EXCEPT !.words = @ \o <<tok[2], tok[3]>>, !.saw = FALSE] ELSE refused
  ELSE IF ~st.saw THEN (IF st.gap # -1 THEN refused ELSE [st EXCEPT !.gap = Len(st.words)])
  ELSE IF last \/ Len(st.words) + 1 > NWords THEN refused
  ELSE [st EXCEPT !.words = Append(@, st.val), !.saw = FALSE]

(* The words behind the gap are shifted to the end; a full address with a  *)
(* gap is refused.                                                         *)
FillGap(words, gap) ==
  IF gap = -1 THEN words
  ELSE IF Len(words) = NWords THEN Bad
  ELSE SubSeq(words, 1, gap) \o [i \in 1..(NWords - Len(words)) |-> 0] \o SubSeq(words, gap + 1, Len(words))

(* inet_pton6: an address, or Bad for 0. The first of two leading colons   *)
(* is skipped.                                                             *)
Pton6(t) ==
  LET leading == t # <<>> /\ t[1] = Colon
      start == IF leading THEN 1 ELSE 0
      At[i \in start..Len(t)] ==
        IF i = start THEN [words |-> <<>>, gap |-> -1, saw |-> FALSE, val |-> 0,
                           bad |-> leading /\ (Len(t) < 2 \/ t[2] # Colon)]
        ELSE PtonToken(At[i - 1], t[i], i = Len(t))
      end == At[Len(t)]
      words == IF end.saw THEN Append(end.words, end.val) ELSE end.words
      filled == FillGap(words, end.gap)
  IN IF end.bad \/ Len(words) > NWords \/ Len(filled) # NWords THEN Bad ELSE filled

(* One character of inet_pton4's loop.                                     *)
PtonOctet(st, ch) ==
  IF st.bad THEN st
  ELSE IF ch # Dot
  THEN IF (st.saw /\ st.val = 0) \/ st.val * 10 + ch > OctetMax \/ (~st.saw /\ st.octets = NOctets)
       THEN [st EXCEPT !.bad = TRUE]
       ELSE [st EXCEPT !.val = @ * 10 + ch, !.saw = TRUE, !.octets = IF st.saw THEN @ ELSE @ + 1]
  ELSE IF st.saw /\ st.octets < NOctets
       THEN [st EXCEPT !.out = Append(@, st.val), !.val = 0, !.saw = FALSE]
       ELSE [st EXCEPT !.bad = TRUE]

(* inet_pton4: octets counts those begun, so a text may end in a dot only  *)
(* before the last octet, and then it has too few.                         *)
Pton4(t) ==
  LET At[i \in 0..Len(t)] ==
        IF i = 0 THEN [out |-> <<>>, val |-> 0, saw |-> FALSE, octets |-> 0, bad |-> FALSE]
        ELSE PtonOctet(At[i - 1], t[i])
      end == At[Len(t)]
  IN IF end.bad \/ end.octets < NOctets THEN Bad ELSE Append(end.out, end.val)

-----------------------------------------------------------------------------
InetInit == text6 = <<>> /\ text4 = <<>> /\ addr6 = Bad /\ print6 = <<>>

(* Texts are built token by token; two words never stand side by side.     *)
Type6 ==
  \E tok \in {Colon, Word(1), Quad(1, 1)} :
    /\ text4 = <<>> /\ addr6 = Bad /\ Len(text6) < 2 * NWords + 1
    /\ (tok # Colon /\ text6 # <<>>) => text6[Len(text6)] = Colon
    /\ text6' = Append(text6, tok)
    /\ UNCHANGED <<text4, addr6, print6>>

Type4 ==
  \E ch \in Digits \cup {Dot} :
    /\ text6 = <<>> /\ addr6 = Bad /\ Len(text4) < TextMax
    /\ text4' = Append(text4, ch)
    /\ UNCHANGED <<text6, addr6, print6>>

Format6 ==
  \E a \in [1..NWords -> WordValues] :
    /\ text6 = <<>> /\ text4 = <<>> /\ addr6 = Bad
    /\ addr6' = a /\ print6' = Ntop6(a)
    /\ UNCHANGED <<text6, text4>>

InetNext == Type6 \/ Type4 \/ Format6

-----------------------------------------------------------------------------
(* The ways to write words with colons between them; the last two may be a *)
(* quad.                                                                   *)
Joined(ws) ==
  [i \in 1..(IF ws = <<>> THEN 0 ELSE 2 * Len(ws) - 1) |->
     IF i % 2 = 0 THEN Colon ELSE Word(ws[(i + 1) \div 2])]
WithQuad(ws) ==
  LET front == SubSeq(ws, 1, Len(ws) - 2)
      q == <<Quad(ws[Len(ws) - 1], ws[Len(ws)])>>
  IN IF front = <<>> THEN q ELSE Joined(front) \o <<Colon>> \o q
Plain(ws) == {Joined(ws)} \cup (IF Len(ws) < 2 THEN {} ELSE {WithQuad(ws)})

(* Every spelling of an address: whole, or with one "::" for some zeros.   *)
Spellings(a) ==
  Plain(a) \cup
  UNION {{Joined(SubSeq(a, 1, g[1])) \o <<Colon, Colon>> \o r : r \in Plain(SubSeq(a, g[2] + 1, NWords))} :
         g \in {g \in (0..NWords) \X (0..NWords) :
                  g[1] < g[2] /\ \A i \in (g[1] + 1)..g[2] : a[i] = 0}}

Spelled == UNION {{<<t, a>> : t \in Spellings(a)} : a \in [1..NWords -> {0, 1}]}
SpelledTexts == {p[1] : p \in Spelled}

(* inet_pton6 accepts exactly the spellings of RFC 4291 and reads the      *)
(* address they spell: "::" at either end, alone, before a quad, and never *)
(* twice or in a full address.                                             *)
Parses6 == IF text6 \in SpelledTexts THEN <<text6, Pton6(text6)>> \in Spelled ELSE Pton6(text6) = Bad

(* inet_pton6 of what inet_ntop6 prints is the address again, and what it  *)
(* leaves out is the first of the longest runs of two zeros or more.       *)
PrintReads6 ==
  addr6 # Bad =>
    LET zeros == {g \in (0..NWords) \X (2..NWords) :
                    g[1] + g[2] <= NWords /\ \A i \in (g[1] + 1)..(g[1] + g[2]) : addr6[i] = 0}
        best == BestRun(addr6)
    IN /\ Pton6(print6) = addr6
       /\ zeros = {} => best = NoRun
       /\ zeros # {} => /\ <<best.base, best.len>> \in zeros
                        /\ \A g \in zeros : g[2] < best.len \/ (g[2] = best.len /\ best.base <= g[1])

(* inet_pton4 accepts exactly NOctets decimal numbers with dots between    *)
(* them, none above OctetMax and none with a leading zero.                 *)
Parses4 ==
  LET dots == {i \in DOMAIN text4 : text4[i] = Dot}
      begins == {1} \cup {d + 1 : d \in dots}
      EndOf(b) == CHOOSE e \in (b - 1)..Len(text4) :
                    /\ e = Len(text4) \/ e + 1 \in dots
                    /\ \A k \in b..e : k \notin dots
      Number(b, e) == LET V[k \in (b - 1)..e] == IF k = b - 1 THEN 0 ELSE V[k - 1] * 10 + text4[k] IN V[e]
      valid == /\ Cardinality(begins) = NOctets
               /\ \A b \in begins : LET e == EndOf(b) IN
                    /\ e >= b
                    /\ Number(b, e) <= OctetMax
                    /\ e > b => text4[b] # 0
  IN /\ (Pton4(text4) # Bad) = valid
     /\ valid => \A b \in begins : \E k \in 1..NOctets : Pton4(text4)[k] = Number(b, EndOf(b))
=============================================================================
