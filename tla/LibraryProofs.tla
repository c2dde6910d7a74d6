--------------------------- MODULE LibraryProofs ---------------------------
(***************************************************************************)
(* Proofs about the components of MCLibrary: the http scheduler, the       *)
(* owners of descriptors, the cookies and the options.  Those about the    *)
(* lock, the memory and the addresses are in UtilityProofs.                *)
(***************************************************************************)
EXTENDS MCLibrary, FiniteSetTheorems, SequenceTheorems, TLAPS

-----------------------------------------------------------------------------
(* The http scheduler.  Its invariant: a request that was sent is in one   *)
(* place, once: it waits, a channel carries it, it is finished, promised   *)
(* or done with; and its references follow from the place.                 *)
Responses == [refs : 0..2, valid : BOOLEAN, redirects : 0..MaxRedirect, fin : BOOLEAN,
              code : {-1, 200, 302}, answered : {0, 1}, dropped : BOOLEAN]
Carriers == [st : {"closed", "opening", "open", "closing"}, ud : Requests \cup {NoRequest},
             timer : Requests \cup {NoRequest}]

HttpTypes ==
  /\ mode \in [Requests -> {"queue", "worker", "sync"}]
  /\ step \in [Requests -> {"new", "take", "push", "sent"}]
  /\ resp \in [Requests -> Responses]
  /\ pendingQ \in Seq(Requests) /\ finishedQ \in Seq(Requests) /\ avail \in Seq(HttpChannels)
  /\ chan \in [HttpChannels -> Carriers] /\ promised \subseteq Requests

Distinct(q) == \A i, j \in DOMAIN q : q[i] = q[j] => i = j
Carried(r) == \E c \in HttpChannels : chan[c].ud = r
Done(r) == resp[r].answered = 1 \/ resp[r].dropped
Unasked(r) == r \in promised /\ resp[r].answered = 0

OnePlace(r) ==
  /\ (step[r] = "sent") <=> (\/ r \in ToSet(pendingQ) \/ Carried(r) \/ r \in ToSet(finishedQ)
                             \/ Unasked(r) \/ Done(r))
  /\ r \in ToSet(pendingQ) =>
       ~Carried(r) /\ r \notin ToSet(finishedQ) /\ r \notin promised /\ ~Done(r)
  /\ Carried(r) => r \notin ToSet(finishedQ) /\ r \notin promised /\ ~Done(r)
  /\ r \in ToSet(finishedQ) => r \notin promised /\ ~Done(r)
  /\ ~(resp[r].answered = 1 /\ resp[r].dropped)
  /\ r \in promised => ~resp[r].dropped
  /\ resp[r].refs = IF step[r] = "new" \/ Done(r) THEN 0 ELSE IF step[r] = "sent" THEN 1 ELSE 2

OneChannel ==
  \A c, d \in HttpChannels : chan[c].ud = chan[d].ud /\ chan[c].ud # NoRequest => c = d

CarrierInv(c) ==
  /\ c \in ToSet(avail) <=> chan[c].st = "closed"
  /\ chan[c].st = "closed" <=> chan[c].ud = NoRequest
  /\ chan[c].timer # NoRequest => chan[c].timer = chan[c].ud

Places == \A r \in Requests : OnePlace(r)
CarriersInv == OneChannel /\ \A c \in HttpChannels : CarrierInv(c)
QueuesInv == Distinct(pendingQ) /\ Distinct(finishedQ) /\ Distinct(avail)

HttpInv == HttpTypes /\ QueuesInv /\ Places /\ CarriersInv

(* Queues without repetition. *)
LEMMA QueueAppends ==
  ASSUME NEW S, NEW q \in Seq(S), NEW x \in S, Distinct(q), x \notin ToSet(q)
  PROVE  /\ Append(q, x) \in Seq(S) /\ Distinct(Append(q, x))
         /\ \A y : y \in ToSet(Append(q, x)) <=> y \in ToSet(q) \/ y = x
<1> DEFINE a == Append(q, x)
<1>1. /\ a \in Seq(S) /\ DOMAIN q = 1..Len(q) /\ Len(q) \in Nat /\ DOMAIN a = DOMAIN q \cup {Len(q) + 1}
      /\ a[Len(q) + 1] = x /\ \A i \in DOMAIN q : a[i] = q[i]
  OBVIOUS
<1> HIDE DEF a
<1>2. \A y : y \in ToSet(a) <=> y \in ToSet(q) \/ y = x
  BY <1>1 DEF ToSet
<1>3. Distinct(a)
  BY <1>1 DEF Distinct, ToSet
<1> QED BY <1>1, <1>2, <1>3 DEF a

LEMMA QueueTakes ==
  ASSUME NEW S, NEW q \in Seq(S), Distinct(q), q # <<>>
  PROVE  /\ Tail(q) \in Seq(S) /\ Distinct(Tail(q)) /\ Head(q) \in S /\ Head(q) \in ToSet(q)
         /\ \A y : y \in ToSet(Tail(q)) <=> y \in ToSet(q) /\ y # Head(q)
<1> DEFINE a == Tail(q)
<1>1. /\ a \in Seq(S) /\ DOMAIN q = 1..Len(q) /\ Len(q) \in Nat /\ Len(q) >= 1 /\ DOMAIN a = 1..(Len(q) - 1)
      /\ Head(q) = q[1] /\ \A i \in DOMAIN a : a[i] = q[i + 1]
  OBVIOUS
<1> HIDE DEF a
<1>2. /\ 1 \in DOMAIN q /\ q[1] \in S
      /\ \A i \in DOMAIN a : i + 1 \in DOMAIN q /\ i + 1 # 1
      /\ \A i \in DOMAIN q : i # 1 => i - 1 \in DOMAIN a /\ a[i - 1] = q[i]
  BY <1>1
<1>3. \A y : y \in ToSet(a) <=> y \in ToSet(q) /\ y # q[1]
  <2>1. ASSUME NEW y, y \in ToSet(a) PROVE y \in ToSet(q) /\ y # q[1]
    <3>1. PICK i \in DOMAIN a : y = a[i]
      BY <2>1 DEF ToSet
    <3>2. y = q[i + 1] /\ i + 1 \in DOMAIN q /\ i + 1 # 1
      BY <1>1, <1>2, <3>1
    <3> QED BY <1>2, <3>2 DEF ToSet, Distinct
  <2>2. ASSUME NEW y, y \in ToSet(q), y # q[1] PROVE y \in ToSet(a)
    <3>1. PICK i \in DOMAIN q : y = q[i]
      BY <2>2 DEF ToSet
    <3>2. i - 1 \in DOMAIN a /\ a[i - 1] = y
      BY <1>2, <2>2, <3>1
    <3> QED BY <3>2 DEF ToSet
  <2> QED BY <2>1, <2>2
<1>4. Distinct(a)
  <2> SUFFICES ASSUME NEW i \in DOMAIN a, NEW j \in DOMAIN a, a[i] = a[j] PROVE i = j
    BY DEF Distinct
  <2>1. i + 1 = j + 1
    BY <1>1, <1>2 DEF Distinct
  <2> QED BY <1>1, <2>1
<1> QED BY <1>1, <1>2, <1>3, <1>4 DEF a, ToSet

LEMMA QueuePushes ==
  ASSUME NEW S, NEW q \in Seq(S), NEW x \in S, Distinct(q), x \notin ToSet(q)
  PROVE  /\ <<x>> \o q \in Seq(S) /\ Distinct(<<x>> \o q)
         /\ \A y : y \in ToSet(<<x>> \o q) <=> y \in ToSet(q) \/ y = x
<1> DEFINE a == <<x>> \o q
<1>1. /\ a \in Seq(S) /\ DOMAIN q = 1..Len(q) /\ Len(q) \in Nat /\ DOMAIN a = 1..(Len(q) + 1)
      /\ a[1] = x /\ \A i \in DOMAIN q : a[i + 1] = q[i]
  OBVIOUS
<1> HIDE DEF a
<1>2. /\ 1 \in DOMAIN a
      /\ \A i \in DOMAIN q : i + 1 \in DOMAIN a
      /\ \A i \in DOMAIN a : i = 1 \/ (i - 1 \in DOMAIN q /\ a[i] = q[i - 1])
  BY <1>1
<1>3. \A y : y \in ToSet(a) <=> y \in ToSet(q) \/ y = x
  BY <1>1, <1>2 DEF ToSet
<1>4. Distinct(a)
  <2> SUFFICES ASSUME NEW i \in DOMAIN a, NEW j \in DOMAIN a, a[i] = a[j] PROVE i = j
    BY DEF Distinct
  <2>1. CASE i = 1 \/ j = 1
    BY <1>1, <1>2, <2>1 DEF ToSet
  <2>2. CASE i # 1 /\ j # 1
    <3>1. i - 1 = j - 1
      BY <1>2, <2>2 DEF Distinct
    <3> QED BY <1>1, <3>1
  <2> QED BY <2>1, <2>2
<1> QED BY <1>1, <1>3, <1>4 DEF a

(* The free channels at the start: each one, once. *)
LEMMA ListedOnce ==
  ASSUME NEW S, IsFiniteSet(S)
  PROVE  SetToSeq(S) \in Seq(S) /\ Distinct(SetToSeq(S)) /\ ToSet(SetToSeq(S)) = S
<1>1. PICK n \in Nat : n = Cardinality(S)
  BY FS_CardinalityType
<1>2. ExistsBijection(1..n, S)
  BY <1>1, FS_CardinalityType
<1>3. \E f \in [1..n -> S] : IsInjective(f)
  BY <1>2 DEF ExistsBijection, Bijection, Injection
<1>4. PICK f : f = SetToSeq(S)
  OBVIOUS
<1>5. f \in [1..n -> S] /\ IsInjective(f)
  BY <1>1, <1>3, <1>4 DEF SetToSeq
<1>6. f \in Injection(1..n, S) /\ IsFiniteSet(1..n) /\ Cardinality(1..n) = n
  BY <1>5, FS_Interval DEF Injection
<1>7. f \in Surjection(1..n, S)
  BY <1>1, <1>6, FS_Injection
<1>8. f \in Seq(S) /\ DOMAIN f = 1..n
  BY <1>5
<1>9. Distinct(f)
  BY <1>5 DEF Distinct, IsInjective
<1>10. ToSet(f) = S
  BY <1>5, <1>7, <1>8 DEF ToSet, Surjection
<1> QED BY <1>4, <1>8, <1>9, <1>10

(* A request that a step does not touch stays where it is. *)
Untouched(r) ==
  /\ step'[r] = step[r] /\ resp'[r].refs = resp[r].refs /\ resp'[r].answered = resp[r].answered
  /\ resp'[r].dropped = resp[r].dropped
  /\ r \in ToSet(pendingQ') <=> r \in ToSet(pendingQ)
  /\ r \in ToSet(finishedQ') <=> r \in ToSet(finishedQ)
  /\ r \in promised' <=> r \in promised
  /\ Carried(r)' <=> Carried(r)

LEMMA UntouchedStays ==
  ASSUME NEW r \in Requests, OnePlace(r), Untouched(r)
  PROVE  OnePlace(r)'
BY DEF OnePlace, Untouched, Unasked, Done

(* The fields of a response that a step changes. *)
WithFields(t, n, a) == [t EXCEPT !.refs = n, !.answered = a]

Settled(rs, rt, r, n, a) ==
  /\ rt \in [Requests -> Responses] /\ rt[r].refs = n /\ rt[r].answered = a
  /\ rt[r].dropped = rs[r].dropped /\ \A q \in Requests : q # r => rt[q] = rs[q]

LEMMA FieldsOf ==
  ASSUME NEW t \in Responses, NEW n \in 0..2, NEW a \in {0, 1}, NEW u, u = WithFields(t, n, a)
  PROVE  u \in Responses /\ u.refs = n /\ u.answered = a /\ u.dropped = t.dropped
BY ZenonT(60) DEF Responses, WithFields

LEMMA ReleaseOf ==
  ASSUME NEW rs \in [Requests -> Responses], NEW r \in Requests, rs[r].refs = 2, NEW rt, rt = Release(rs, r)
  PROVE  Settled(rs, rt, r, 1, rs[r].answered)
<1>1. PICK t \in Responses : t = rs[r]
  OBVIOUS
<1>2. PICK u : u = WithFields(t, 1, t.answered)
  OBVIOUS
<1>3. t.refs = 2 /\ 1 \in 0..2 /\ t.answered \in {0, 1}
  BY <1>1 DEF Responses
<1>4. u \in Responses /\ u.refs = 1 /\ u.answered = t.answered /\ u.dropped = t.dropped
  BY <1>2, <1>3, FieldsOf
<1>5. [t EXCEPT !.refs = @ - 1] = u
  <2>1. [t EXCEPT !.refs = @ - 1] = [t EXCEPT !.refs = 1]
    BY <1>3 DEF Responses
  <2>2. [t EXCEPT !.refs = 1] = u
    BY <1>2 DEF Responses, WithFields
  <2> QED BY <2>1, <2>2
<1>6. rt = [rs EXCEPT ![r] = u]
  BY <1>1, <1>5 DEF Release
<1> QED BY <1>1, <1>4, <1>6 DEF Settled

LEMMA AnswerOf ==
  ASSUME NEW rs \in [Requests -> Responses], NEW r \in Requests, rs[r].refs = 1, rs[r].answered = 0, NEW rt,
         rt = Release([rs EXCEPT ![r].answered = @ + 1], r)
  PROVE  Settled(rs, rt, r, 0, 1)
<1>1. PICK t \in Responses : t = rs[r]
  OBVIOUS
<1>2. PICK u : u = WithFields(t, 0, 1)
  OBVIOUS
<1>3. t.refs = 1 /\ t.answered = 0 /\ 0 \in 0..2 /\ 1 \in {0, 1}
  BY <1>1 DEF Responses
<1>4. u \in Responses /\ u.refs = 0 /\ u.answered = 1 /\ u.dropped = t.dropped
  BY <1>2, <1>3, FieldsOf
<1>5. [t EXCEPT !.answered = @ + 1, !.refs = @ - 1] = u
  <2>1. [t EXCEPT !.answered = @ + 1, !.refs = @ - 1] = [t EXCEPT !.answered = 1, !.refs = 0]
    BY <1>3 DEF Responses
  <2>2. [t EXCEPT !.answered = 1, !.refs = 0] = u
    BY <1>2, ZenonT(60) DEF Responses, WithFields
  <2> QED BY <2>1, <2>2
<1>6. rt = [rs EXCEPT ![r] = [t EXCEPT !.answered = @ + 1, !.refs = @ - 1]]
  BY <1>1 DEF Release
<1> QED BY <1>1, <1>4, <1>5, <1>6 DEF Settled

LEMMA DropOf ==
  ASSUME NEW t \in Responses, t.refs = 1, NEW u, u = [t EXCEPT !.refs = @ - 1, !.dropped = TRUE]
  PROVE  u \in Responses /\ u.refs = 0 /\ u.dropped /\ u.answered = t.answered
<1>1. u = [t EXCEPT !.refs = 0, !.dropped = TRUE]
  BY DEF Responses
<1>2. 0 \in 0..2
  OBVIOUS
<1>3. u.refs = 0 /\ u.answered = t.answered
  BY <1>1 DEF Responses
<1>4. u.dropped
  BY <1>1 DEF Responses
<1>5. u \in Responses
  <2>1. PICK d \in BOOLEAN : d = TRUE
    OBVIOUS
  <2>2. PICK v \in BOOLEAN, f \in BOOLEAN : v = t.valid /\ f = t.fin
    BY DEF Responses
  <2>3. u = [refs |-> 0, valid |-> v, redirects |-> t.redirects, fin |-> f, code |-> t.code,
             answered |-> t.answered, dropped |-> d]
    BY <1>1, <2>1, <2>2, ZenonT(60) DEF Responses
  <2>4. t.redirects \in 0..MaxRedirect /\ t.code \in {-1, 200, 302} /\ t.answered \in {0, 1}
    BY DEF Responses
  <2> QED BY <1>2, <2>3, <2>4 DEF Responses
<1> QED BY <1>3, <1>4, <1>5

(* finishResponse, of a request with one reference and no other place. *)
Ended(r) ==
  /\ finishedQ' \in Seq(Requests) /\ Distinct(finishedQ') /\ promised' \subseteq Requests
  /\ resp' \in [Requests -> Responses]
  /\ \A q \in Requests : q # r => /\ resp'[q] = resp[q]
                                  /\ q \in ToSet(finishedQ') <=> q \in ToSet(finishedQ)
                                  /\ q \in promised' <=> q \in promised
  /\ ~resp'[r].dropped
  /\ \/ r \in ToSet(finishedQ') /\ r \notin promised' /\ resp'[r].answered = 0 /\ resp'[r].refs = 1
     \/ r \notin ToSet(finishedQ') /\ r \in promised' /\ resp'[r].answered = 0 /\ resp'[r].refs = 1
     \/ r \notin ToSet(finishedQ') /\ r \notin promised' /\ resp'[r].answered = 1 /\ resp'[r].refs = 0

LEMMA FinishEnds ==
  ASSUME HttpInv, NEW r \in Requests, NEW rs \in [Requests -> Responses], Finishes(rs, r),
         rs[r].refs = 1, rs[r].answered = 0, ~rs[r].dropped, \A q \in Requests : q # r => rs[q] = resp[q],
         r \notin ToSet(finishedQ), r \notin promised
  PROVE  Ended(r)
<1>1. finishedQ \in Seq(Requests) /\ Distinct(finishedQ) /\ promised \subseteq Requests
  BY DEF HttpInv, HttpTypes, QueuesInv
<1>2. mode[r] \in {"queue", "worker", "sync"}
  BY DEF HttpInv, HttpTypes
<1>3. CASE mode[r] = "sync"
  <2>1. resp' = rs /\ finishedQ' = finishedQ /\ promised' = promised \cup {r}
    BY <1>3 DEF Finishes, Finish
  <2> QED BY <1>1, <2>1 DEF Ended
<1>4. CASE mode[r] = "queue"
  <2>1. resp' = rs /\ finishedQ' = Append(finishedQ, r) /\ promised' = promised
    BY <1>4 DEF Finishes, Finish
  <2>2. /\ finishedQ' \in Seq(Requests) /\ Distinct(finishedQ')
        /\ \A y : y \in ToSet(finishedQ') <=> y \in ToSet(finishedQ) \/ y = r
    BY <1>1, <2>1, QueueAppends
  <2> QED BY <1>1, <2>1, <2>2 DEF Ended
<1>5. CASE mode[r] = "worker"
  <2>1. /\ resp' = Release([rs EXCEPT ![r].answered = @ + 1], r) /\ finishedQ' = finishedQ
        /\ promised' = promised
    BY <1>5 DEF Finishes, Finish
  <2>2. Settled(rs, resp', r, 0, 1)
    BY <2>1, AnswerOf
  <2> QED BY <1>1, <2>1, <2>2 DEF Ended, Settled
<1> QED BY <1>2, <1>3, <1>4, <1>5

(* A channel that takes up, keeps or ends the work for a request. *)
LEMMA CarriesOne ==
  ASSUME HttpInv, NEW c \in HttpChannels, NEW k \in Carriers, chan' = [chan EXCEPT ![c] = k],
         k.ud = NoRequest \/ k.ud = chan[c].ud \/ ~Carried(k.ud),
         k.timer # NoRequest => k.timer = k.ud, k.st = "closed" <=> k.ud = NoRequest,
         \A d \in HttpChannels : d # c => (d \in ToSet(avail') <=> d \in ToSet(avail)),
         c \in ToSet(avail') <=> k.st = "closed"
  PROVE  /\ CarriersInv' /\ chan' \in [HttpChannels -> Carriers] /\ chan'[c] = k
         /\ \A q \in Requests : Carried(q)' <=> (q = k.ud \/ (Carried(q) /\ q # chan[c].ud))
<1>1. /\ chan \in [HttpChannels -> Carriers] /\ OneChannel
      /\ \A d \in HttpChannels : CarrierInv(d)
  BY DEF HttpInv, HttpTypes, CarriersInv
<1>2. /\ chan' \in [HttpChannels -> Carriers] /\ chan'[c] = k
      /\ \A d \in HttpChannels : d # c => chan'[d] = chan[d]
  BY <1>1
<1>3. OneChannel'
  BY <1>1, <1>2 DEF OneChannel, Carried
<1>4. ASSUME NEW d \in HttpChannels PROVE CarrierInv(d)'
  <2>1. CASE d = c
    BY <1>2, <2>1 DEF CarrierInv
  <2>2. CASE d # c
    BY <1>1, <1>2, <2>2 DEF CarrierInv
  <2> QED BY <2>1, <2>2
<1>5. NoRequest \notin Requests
  BY HttpAssumption
<1>6. ASSUME NEW q \in Requests PROVE Carried(q)' <=> (q = k.ud \/ (Carried(q) /\ q # chan[c].ud))
  BY <1>1, <1>2, <1>5 DEF Carried, OneChannel
<1> QED BY <1>2, <1>3, <1>4, <1>6 DEF CarriersInv

LEMMA HttpSends ==
  ASSUME HttpInv, NEW r \in Requests, Send(r) \/ Sending(r)
  PROVE  HttpInv'
<1>0. HttpTypes /\ QueuesInv /\ Places /\ CarriersInv /\ OnePlace(r) /\ resp[r] \in Responses
  BY DEF HttpInv, HttpTypes, Places
<1>1. CASE Send(r) /\ step' = [step EXCEPT ![r] = "take"]
  <2>1. step[r] = "new" /\ UNCHANGED <<mode, pendingQ, avail, chan, finishedQ, promised>>
        /\ resp' = [resp EXCEPT ![r].refs = 2]
    BY <1>0, <1>1 DEF Send, HttpTypes
  <2>2. resp' = [resp EXCEPT ![r] = [resp[r] EXCEPT !.refs = 2]] /\ 2 \in 0..2
    BY <2>1
  <2>3. /\ [resp[r] EXCEPT !.refs = 2] \in Responses /\ [resp[r] EXCEPT !.refs = 2].refs = 2
        /\ [resp[r] EXCEPT !.refs = 2].answered = resp[r].answered
        /\ [resp[r] EXCEPT !.refs = 2].dropped = resp[r].dropped
    BY <1>0, <2>2 DEF Responses
  <2>4. /\ resp' \in [Requests -> Responses] /\ resp'[r].refs = 2 /\ resp'[r].answered = resp[r].answered
        /\ resp'[r].dropped = resp[r].dropped /\ \A q \in Requests : q # r => resp'[q] = resp[q]
    BY <1>0, <2>2, <2>3 DEF HttpTypes
  <2>5. HttpTypes' /\ QueuesInv' /\ CarriersInv'
    BY <1>0, <1>1, <2>1, <2>4 DEF HttpTypes, QueuesInv, CarriersInv, OneChannel, CarrierInv, Distinct
  <2>6. OnePlace(r)'
    BY <1>0, <1>1, <2>1, <2>4 DEF OnePlace, Done, Unasked, Carried, HttpTypes
  <2>7. ASSUME NEW q \in Requests, q # r PROVE OnePlace(q)'
    <3>1. Untouched(q)
      BY <1>0, <1>1, <2>1, <2>4, <2>7 DEF Untouched, Carried, HttpTypes
    <3> QED BY <1>0, <3>1, UntouchedStays DEF Places
  <2> QED BY <2>5, <2>6, <2>7 DEF HttpInv, Places
<1>2. CASE Send(r) /\ step' = [step EXCEPT ![r] = "sent"]
  <2>1. PICK t \in Responses : t = resp[r]
    BY <1>0
  <2>2. /\ step[r] = "new" /\ UNCHANGED <<mode, pendingQ, avail, chan>>
        /\ Finishes([resp EXCEPT ![r].refs = 1, ![r].valid = FALSE], r)
    BY <1>0, <1>2 DEF Send, HttpTypes
  <2>3. PICK u : u = [t EXCEPT !.refs = 1, !.valid = FALSE]
    OBVIOUS
  <2>4. 1 \in 0..2
    OBVIOUS
  <2>5. u \in Responses /\ u.refs = 1 /\ u.answered = t.answered /\ u.dropped = t.dropped
    BY <2>3, <2>4, ZenonT(60) DEF Responses
  <2>6. PICK rs : rs = [resp EXCEPT ![r] = u]
    OBVIOUS
  <2>7. Finishes(rs, r)
    BY <2>1, <2>2, <2>3, <2>6
  <2>8. t.answered = 0 /\ ~t.dropped /\ r \notin ToSet(finishedQ) /\ r \notin promised /\ r \notin ToSet(pendingQ) /\ ~Carried(r)
    BY <1>0, <2>1, <2>2 DEF OnePlace, Done, Unasked, Responses
  <2>9. /\ rs \in [Requests -> Responses] /\ rs[r] = u /\ \A q \in Requests : q # r => rs[q] = resp[q]
    BY <1>0, <2>5, <2>6 DEF HttpTypes
  <2>10. Ended(r)
    BY <2>5, <2>7, <2>8, <2>9, FinishEnds
  <2>11. HttpTypes' /\ QueuesInv' /\ CarriersInv'
    BY <1>0, <1>2, <2>2, <2>10 DEF HttpTypes, QueuesInv, CarriersInv, OneChannel, CarrierInv, Distinct, Ended
  <2>12. Carried(r)' <=> Carried(r)
    BY <2>2 DEF Carried
  <2>13. OnePlace(r)'
    BY <1>0, <1>2, <2>2, <2>8, <2>10, <2>12 DEF OnePlace, Done, Unasked, HttpTypes, Ended
  <2>14. ASSUME NEW q \in Requests, q # r PROVE OnePlace(q)'
    <3>1. Untouched(q)
      BY <1>0, <1>2, <2>2, <2>10, <2>14 DEF Untouched, Carried, HttpTypes, Ended
    <3> QED BY <1>0, <3>1, UntouchedStays DEF Places
  <2> QED BY <2>11, <2>13, <2>14 DEF HttpInv, Places
<1>3. CASE SendTakes(r)
  <2>1. /\ step[r] = "take" /\ step' = [step EXCEPT ![r] = "sent"] /\ resp' = Release(resp, r)
        /\ avail # <<>> /\ avail' = Tail(avail) /\ chan' = Started(Head(avail), r)
        /\ UNCHANGED <<mode, pendingQ, finishedQ, promised>>
    BY <1>3 DEF SendTakes
  <2>2. /\ resp[r].refs = 2 /\ ~Done(r) /\ r \notin ToSet(finishedQ) /\ r \notin ToSet(pendingQ)
        /\ ~Carried(r) /\ r \notin promised
    BY <1>0, <2>1 DEF OnePlace, Unasked, Done, Responses
  <2>0. resp \in [Requests -> Responses] /\ Settled(resp, resp', r, 1, resp[r].answered)
    BY <1>0, <2>1, <2>2, ReleaseOf DEF HttpTypes
  <2>3. /\ resp' \in [Requests -> Responses] /\ resp'[r].refs = 1 /\ resp'[r].answered = resp[r].answered
        /\ resp'[r].dropped = resp[r].dropped /\ \A q \in Requests : q # r => resp'[q] = resp[q]
    BY <2>0 DEF Settled
  <2>4. PICK c : c = Head(avail)
    OBVIOUS
  <2>5. /\ c \in HttpChannels /\ c \in ToSet(avail) /\ avail' \in Seq(HttpChannels) /\ Distinct(avail')
        /\ \A d : d \in ToSet(avail') <=> d \in ToSet(avail) /\ d # c
    BY <1>0, <2>1, <2>4, QueueTakes DEF HttpTypes, QueuesInv
  <2>6. /\ chan \in [HttpChannels -> Carriers] /\ chan[c] \in Carriers /\ CarrierInv(c)
    BY <1>0, <2>5 DEF HttpTypes, CarriersInv
  <2>7. PICK k : k = [chan[c] EXCEPT !.st = "opening", !.ud = r]
    OBVIOUS
  <2>8. k \in Carriers /\ k.st = "opening" /\ k.ud = r /\ k.timer = chan[c].timer
    BY <2>6, <2>7 DEF Carriers
  <2>9. chan' = [chan EXCEPT ![c] = k]
    BY <2>1, <2>4, <2>7 DEF Started
  <2>10. k.timer = NoRequest /\ chan[c].ud = NoRequest /\ k.ud # NoRequest /\ r # NoRequest
    BY <2>5, <2>6, <2>8, HttpAssumption DEF CarrierInv
  <2>11. /\ CarriersInv' /\ chan' \in [HttpChannels -> Carriers]
         /\ \A q \in Requests : Carried(q)' <=> (q = k.ud \/ (Carried(q) /\ q # chan[c].ud))
    BY <2>2, <2>5, <2>8, <2>9, <2>10, CarriesOne
  <2>12. \A q \in Requests : Carried(q)' <=> (q = r \/ Carried(q))
    BY <2>8, <2>10, <2>11, HttpAssumption
  <2>13. HttpTypes' /\ QueuesInv'
    BY <1>0, <2>1, <2>3, <2>5, <2>11 DEF HttpTypes, QueuesInv
  <2>14. OnePlace(r)'
    BY <1>0, <2>1, <2>2, <2>3, <2>12 DEF OnePlace, Done, Unasked, HttpTypes
  <2>15. ASSUME NEW q \in Requests, q # r PROVE OnePlace(q)'
    <3>1. Untouched(q)
      BY <1>0, <2>1, <2>3, <2>12, <2>15 DEF Untouched, HttpTypes
    <3> QED BY <1>0, <3>1, UntouchedStays DEF Places
  <2> QED BY <2>11, <2>13, <2>14, <2>15 DEF HttpInv, Places
<1>4. CASE SendFindsNone(r)
  <2>1. /\ step[r] = "take" /\ step' = [step EXCEPT ![r] = "push"]
        /\ UNCHANGED <<mode, resp, pendingQ, finishedQ, avail, chan, promised>>
    BY <1>4 DEF SendFindsNone
  <2>2. HttpTypes' /\ QueuesInv' /\ CarriersInv'
    BY <1>0, <2>1 DEF HttpTypes, QueuesInv, CarriersInv, OneChannel, CarrierInv, Distinct
  <2>3. OnePlace(r)'
    BY <1>0, <2>1 DEF OnePlace, Done, Unasked, Carried, HttpTypes
  <2>4. ASSUME NEW q \in Requests, q # r PROVE OnePlace(q)'
    <3>1. Untouched(q)
      BY <1>0, <2>1, <2>4 DEF Untouched, Carried, HttpTypes
    <3> QED BY <1>0, <3>1, UntouchedStays DEF Places
  <2> QED BY <2>2, <2>3, <2>4 DEF HttpInv, Places
<1>5. CASE SendPushes(r)
  <2>1. /\ step[r] = "push" /\ step' = [step EXCEPT ![r] = "sent"] /\ resp' = Release(resp, r)
        /\ pendingQ' = Append(pendingQ, r) /\ UNCHANGED <<mode, finishedQ, avail, chan, promised>>
    BY <1>5 DEF SendPushes
  <2>2. /\ resp[r].refs = 2 /\ ~Done(r) /\ r \notin ToSet(finishedQ) /\ r \notin ToSet(pendingQ)
        /\ ~Carried(r) /\ r \notin promised
    BY <1>0, <2>1 DEF OnePlace, Unasked, Done, Responses
  <2>0. resp \in [Requests -> Responses] /\ Settled(resp, resp', r, 1, resp[r].answered)
    BY <1>0, <2>1, <2>2, ReleaseOf DEF HttpTypes
  <2>3. /\ resp' \in [Requests -> Responses] /\ resp'[r].refs = 1 /\ resp'[r].answered = resp[r].answered
        /\ resp'[r].dropped = resp[r].dropped /\ \A q \in Requests : q # r => resp'[q] = resp[q]
    BY <2>0 DEF Settled
  <2>4. /\ pendingQ' \in Seq(Requests) /\ Distinct(pendingQ')
        /\ \A q : q \in ToSet(pendingQ') <=> q \in ToSet(pendingQ) \/ q = r
    BY <1>0, <2>1, <2>2, QueueAppends DEF HttpTypes, QueuesInv
  <2>5. HttpTypes' /\ QueuesInv' /\ CarriersInv'
    BY <1>0, <2>1, <2>3, <2>4, ZenonT(60) DEF HttpTypes, QueuesInv, CarriersInv, OneChannel, CarrierInv, Distinct
  <2>6. Carried(r)' <=> Carried(r)
    BY <2>1 DEF Carried
  <2>7. OnePlace(r)'
    BY <1>0, <2>1, <2>2, <2>3, <2>4, <2>6 DEF OnePlace, Done, Unasked, HttpTypes
  <2>8. ASSUME NEW q \in Requests, q # r PROVE OnePlace(q)'
    <3>1. Untouched(q)
      BY <1>0, <2>1, <2>3, <2>4, <2>8 DEF Untouched, Carried, HttpTypes
    <3> QED BY <1>0, <3>1, UntouchedStays DEF Places
  <2> QED BY <2>5, <2>7, <2>8 DEF HttpInv, Places
<1> QED BY <1>1, <1>2, <1>3, <1>4, <1>5 DEF Send, Sending

(* The request of a channel at work. *)
LEMMA AtWork ==
  ASSUME HttpInv, NEW c \in HttpChannels, chan[c].st # "closed"
  PROVE  /\ chan[c] \in Carriers /\ chan[c].ud \in Requests /\ Carried(chan[c].ud) /\ c \notin ToSet(avail)
         /\ chan[c].timer # NoRequest => chan[c].timer = chan[c].ud
         /\ resp[chan[c].ud] \in Responses /\ resp[chan[c].ud].refs = 1 /\ resp[chan[c].ud].answered = 0
         /\ ~resp[chan[c].ud].dropped /\ chan[c].ud \notin ToSet(finishedQ) /\ chan[c].ud \notin ToSet(pendingQ)
         /\ chan[c].ud \notin promised /\ step[chan[c].ud] = "sent" /\ chan[c].ud # NoRequest
<1>1. chan[c] \in Carriers /\ CarrierInv(c) /\ HttpTypes /\ Places
  BY DEF HttpInv, HttpTypes, CarriersInv
<1>2. PICK r : r = chan[c].ud
  OBVIOUS
<1>3. r \in Requests /\ Carried(r) /\ r # NoRequest
  BY <1>1, <1>2 DEF Carriers, CarrierInv, Carried
<1>4. OnePlace(r) /\ resp[r] \in Responses
  BY <1>1, <1>3 DEF Places, HttpTypes
<1>5. resp[r].answered \in {0, 1}
  BY <1>4 DEF Responses
<1>6. /\ r \notin ToSet(finishedQ) /\ r \notin ToSet(pendingQ) /\ r \notin promised /\ ~Done(r) /\ step[r] = "sent"
  BY <1>3, <1>4 DEF OnePlace
<1>7. resp[r].answered = 0 /\ ~resp[r].dropped
  BY <1>5, <1>6 DEF Done
<1>8. resp[r].refs = 1
  BY <1>4, <1>6 DEF OnePlace
<1> QED BY <1>1, <1>2, <1>3, <1>4, <1>6, <1>7, <1>8 DEF CarrierInv

LEMMA GivesBackKeeps ==
  ASSUME HttpInv, NEW c \in HttpChannels, chan[c].st # "closed", GivesBack(c, chan[c].ud), UNCHANGED <<mode, step>>
  PROVE  HttpInv'
<1>1. HttpTypes /\ QueuesInv /\ Places /\ CarriersInv
  BY DEF HttpInv
<1>2. PICK r : r = chan[c].ud
  OBVIOUS
<1>3. /\ r \in Requests /\ Carried(r) /\ c \notin ToSet(avail) /\ resp[r] \in Responses
      /\ resp[r].refs = 1 /\ resp[r].answered = 0
      /\ ~resp[r].dropped /\ r \notin ToSet(finishedQ) /\ r \notin ToSet(pendingQ) /\ r \notin promised
      /\ step[r] = "sent" /\ r # NoRequest
  BY <1>2, AtWork
<1>4. Finishes(resp, r) /\ resp \in [Requests -> Responses]
  BY <1>1, <1>2 DEF GivesBack, HttpTypes
<1>5. Ended(r)
  BY <1>3, <1>4, FinishEnds
<1>6. CASE pendingQ # <<>>
  <2>1. PICK p : p = Head(pendingQ)
    OBVIOUS
  <2>2. /\ chan' = [chan EXCEPT ![c] = [Idle EXCEPT !.st = "opening", !.ud = p]]
        /\ pendingQ' = Tail(pendingQ) /\ UNCHANGED <<avail, mode, step>>
    BY <1>2, <1>6, <2>1 DEF GivesBack
  <2>3. /\ p \in Requests /\ p \in ToSet(pendingQ) /\ pendingQ' \in Seq(Requests) /\ Distinct(pendingQ')
        /\ \A q : q \in ToSet(pendingQ') <=> q \in ToSet(pendingQ) /\ q # p
    BY <1>1, <1>6, <2>1, <2>2, QueueTakes DEF HttpTypes, QueuesInv
  <2>4. OnePlace(p) /\ p # r
    BY <1>1, <1>3, <2>3 DEF Places
  <2>5. ~Carried(p) /\ p \notin ToSet(finishedQ) /\ p \notin promised /\ ~Done(p) /\ step[p] = "sent"
    BY <2>3, <2>4 DEF OnePlace
  <2>6. PICK k : k = [Idle EXCEPT !.st = "opening", !.ud = p]
    OBVIOUS
  <2>7. k = [st |-> "opening", ud |-> p, timer |-> NoRequest]
    BY <2>6 DEF Idle
  <2>8. k \in Carriers /\ k.st = "opening" /\ k.ud = p /\ k.timer = NoRequest
    BY <2>3, <2>7 DEF Carriers
  <2>9. chan' = [chan EXCEPT ![c] = k] /\ p # NoRequest /\ ~Carried(k.ud)
    BY <2>2, <2>3, <2>5, <2>6, <2>8, HttpAssumption
  <2>10. /\ CarriersInv' /\ chan' \in [HttpChannels -> Carriers]
         /\ \A q \in Requests : Carried(q)' <=> (q = k.ud \/ (Carried(q) /\ q # chan[c].ud))
    BY <1>3, <2>2, <2>8, <2>9, CarriesOne, ZenonT(60)
  <2>11. \A q \in Requests : Carried(q)' <=> (q = p \/ (Carried(q) /\ q # r))
    BY <1>2, <2>8, <2>10
  <2>12. HttpTypes' /\ QueuesInv'
    BY <1>1, <1>5, <2>2, <2>3, <2>10 DEF HttpTypes, QueuesInv, Ended
  <2>13. OnePlace(r)'
    BY <1>3, <1>5, <2>2, <2>3, <2>4, <2>11 DEF OnePlace, Done, Unasked, Ended
  <2>14. OnePlace(p)'
    BY <1>5, <2>2, <2>3, <2>4, <2>5, <2>11 DEF OnePlace, Done, Unasked, Ended
  <2>15. ASSUME NEW q \in Requests, q # r, q # p PROVE OnePlace(q)'
    <3>1. Untouched(q)
      BY <1>5, <2>2, <2>3, <2>11, <2>15 DEF Untouched, Ended
    <3> QED BY <1>1, <3>1, UntouchedStays DEF Places
  <2> QED BY <2>10, <2>12, <2>13, <2>14, <2>15 DEF HttpInv, Places
<1>7. CASE pendingQ = <<>>
  <2>1. chan' = [chan EXCEPT ![c] = Idle] /\ avail' = <<c>> \o avail /\ UNCHANGED <<pendingQ, mode, step>>
    BY <1>7 DEF GivesBack
  <2>2. /\ avail' \in Seq(HttpChannels) /\ Distinct(avail')
        /\ \A d : d \in ToSet(avail') <=> d \in ToSet(avail) \/ d = c
    BY <1>1, <1>3, <2>1, QueuePushes DEF HttpTypes, QueuesInv
  <2>3. Idle \in Carriers /\ Idle.st = "closed" /\ Idle.ud = NoRequest /\ Idle.timer = NoRequest
    BY DEF Idle, Carriers
  <2>4. /\ CarriersInv' /\ chan' \in [HttpChannels -> Carriers]
        /\ \A q \in Requests : Carried(q)' <=> (q = Idle.ud \/ (Carried(q) /\ q # chan[c].ud))
    BY <2>1, <2>2, <2>3, CarriesOne
  <2>5. \A q \in Requests : Carried(q)' <=> (Carried(q) /\ q # r)
    BY <1>2, <2>3, <2>4, HttpAssumption
  <2>6. HttpTypes' /\ QueuesInv'
    BY <1>1, <1>5, <2>1, <2>2, <2>4 DEF HttpTypes, QueuesInv, Ended
  <2>7. OnePlace(r)'
    BY <1>3, <1>5, <2>1, <2>5 DEF OnePlace, Done, Unasked, Ended
  <2>8. ASSUME NEW q \in Requests, q # r PROVE OnePlace(q)'
    <3>1. Untouched(q)
      BY <1>5, <2>1, <2>5, <2>8 DEF Untouched, Ended
    <3> QED BY <1>1, <3>1, UntouchedStays DEF Places
  <2> QED BY <2>4, <2>6, <2>7, <2>8 DEF HttpInv, Places
<1> QED BY <1>6, <1>7

LEMMA HttpCarries ==
  ASSUME HttpInv, NEW c \in HttpChannels, Carrying(c)
  PROVE  HttpInv'
<1>1. HttpTypes /\ QueuesInv /\ Places /\ CarriersInv /\ mode' = mode /\ step' = step
  BY DEF HttpInv, Carrying, Opened, OpenFails, PacketEnds, ReadTimeout, OnClose
<1>2. chan[c].st # "closed"
  BY DEF Carrying, Opened, OpenFails, PacketEnds, ReadTimeout, OnClose
<1>3. PICK r : r = chan[c].ud
  OBVIOUS
<1>4. /\ r \in Requests /\ Carried(r) /\ c \notin ToSet(avail) /\ resp[r] \in Responses /\ chan[c] \in Carriers
      /\ chan[c].timer # NoRequest => chan[c].timer = r
      /\ r # NoRequest
  BY <1>2, <1>3, AtWork
<1>5. ASSUME NEW k \in Carriers, chan' = [chan EXCEPT ![c] = k], k.ud = r, k.st # "closed",
             k.timer # NoRequest => k.timer = r,
             UNCHANGED <<pendingQ, finishedQ, avail, promised>>,
             resp' \in [Requests -> Responses], resp'[r].refs = resp[r].refs,
             resp'[r].answered = resp[r].answered, resp'[r].dropped = resp[r].dropped,
             \A q \in Requests : q # r => resp'[q] = resp[q]
      PROVE  HttpInv'
  <2>0. /\ k \in Carriers /\ chan' = [chan EXCEPT ![c] = k] /\ k.ud = chan[c].ud
        /\ k.timer # NoRequest => k.timer = k.ud
        /\ k.st = "closed" <=> k.ud = NoRequest
        /\ \A d \in HttpChannels : d # c => (d \in ToSet(avail') <=> d \in ToSet(avail))
        /\ c \in ToSet(avail') <=> k.st = "closed"
    BY <1>3, <1>4, <1>5
  <2>1. /\ CarriersInv' /\ chan' \in [HttpChannels -> Carriers]
        /\ \A q \in Requests : Carried(q)' <=> (q = k.ud \/ (Carried(q) /\ q # chan[c].ud))
    BY <2>0, CarriesOne
  <2>2. \A q \in Requests : Carried(q)' <=> Carried(q)
    BY <1>3, <1>4, <1>5, <2>1
  <2>3. HttpTypes' /\ QueuesInv'
    BY <1>1, <1>5, <2>1 DEF HttpTypes, QueuesInv, Distinct
  <2>4. ASSUME NEW q \in Requests PROVE OnePlace(q)'
    <3>1. Untouched(q)
      BY <1>1, <1>5, <2>2 DEF Untouched
    <3> QED BY <1>1, <3>1, UntouchedStays DEF Places
  <2> QED BY <2>1, <2>3, <2>4 DEF HttpInv, Places
<1>6. resp \in [Requests -> Responses]
  BY <1>1 DEF HttpTypes
<1>7. CASE Opened(c)
  <2>1. PICK k : k = [chan[c] EXCEPT !.st = "open", !.timer = r]
    OBVIOUS
  <2>2. chan' = [chan EXCEPT ![c] = k] /\ UNCHANGED <<pendingQ, finishedQ, avail, promised, resp>>
    BY <1>3, <1>7, <2>1 DEF Opened
  <2>3. k \in Carriers /\ k.st = "open" /\ k.ud = r /\ k.timer = r
    BY <1>3, <1>4, <2>1 DEF Carriers
  <2> QED BY <1>5, <1>6, <2>2, <2>3
<1>8. CASE ReadTimeout(c)
  <2>1. PICK k : k = [chan[c] EXCEPT !.st = "closing", !.timer = NoRequest]
    OBVIOUS
  <2>2. chan' = [chan EXCEPT ![c] = k] /\ UNCHANGED <<pendingQ, finishedQ, avail, promised, resp>>
    BY <1>8, <2>1 DEF ReadTimeout
  <2>3. k \in Carriers /\ k.st = "closing" /\ k.ud = r /\ k.timer = NoRequest
    BY <1>3, <1>4, <2>1 DEF Carriers
  <2> QED BY <1>5, <1>6, <2>2, <2>3
<1>9. CASE PacketEnds(c)
  <2>1. PICK k : k = [chan[c] EXCEPT !.st = "closing"]
    OBVIOUS
  <2>2. PICK code \in {200, 302} :
          resp' = [resp EXCEPT ![r].fin = TRUE, ![r].code = code]
    BY <1>3, <1>9, ZenonT(60) DEF PacketEnds
  <2>3. chan' = [chan EXCEPT ![c] = k] /\ UNCHANGED <<pendingQ, finishedQ, avail, promised>>
    BY <1>9, <2>1 DEF PacketEnds
  <2>4. k \in Carriers /\ k.st = "closing" /\ k.ud = r /\ k.timer = chan[c].timer
    BY <1>3, <1>4, <2>1 DEF Carriers
  <2>5. PICK t \in Responses : t = resp[r]
    BY <1>4
  <2>6. PICK b \in BOOLEAN : b = TRUE
    OBVIOUS
  <2>7. PICK v : v = [t EXCEPT !.fin = b]
    OBVIOUS
  <2>8. PICK u : u = [v EXCEPT !.code = code]
    OBVIOUS
  <2>9. v \in Responses /\ v.refs = t.refs /\ v.answered = t.answered /\ v.dropped = t.dropped
    BY <2>7 DEF Responses
  <2>10. u \in Responses /\ u.refs = v.refs /\ u.answered = v.answered /\ u.dropped = v.dropped
    BY <2>8, <2>9 DEF Responses
  <2>11. PICK g : g = [resp EXCEPT ![r] = v]
    OBVIOUS
  <2>12. g \in [Requests -> Responses] /\ g[r] = v /\ \A q \in Requests : q # r => g[q] = resp[q]
    BY <1>4, <1>6, <2>9, <2>11
  <2>13. resp' = [g EXCEPT ![r].code = code]
    BY <2>2, <2>5, <2>6, <2>7, <2>11
  <2>14. resp' = [g EXCEPT ![r] = u]
    BY <2>8, <2>12, <2>13
  <2>15. /\ resp' \in [Requests -> Responses] /\ resp'[r] = u
         /\ \A q \in Requests : q # r => resp'[q] = resp[q]
    BY <1>4, <2>10, <2>12, <2>14
  <2>16. resp'[r].refs = resp[r].refs /\ resp'[r].answered = resp[r].answered /\ resp'[r].dropped = resp[r].dropped
    BY <2>5, <2>9, <2>10, <2>15
  <2>17. k.st # "closed" /\ (k.timer # NoRequest => k.timer = r)
    BY <1>4, <2>4
  <2> QED BY <1>5, <2>3, <2>4, <2>15, <2>16, <2>17
<1>10. CASE Eof(c, r)
  <2>1. CASE GivesBack(c, r)
    BY <1>1, <1>2, <1>3, <2>1, GivesBackKeeps
  <2>2. CASE /\ CanRedirect(resp[r])
             /\ chan' = [chan EXCEPT ![c] = [Idle EXCEPT !.st = "opening", !.ud = r]]
             /\ resp' = [resp EXCEPT ![r] = Redirected(@)]
             /\ UNCHANGED <<finishedQ, promised, pendingQ, avail>>
    <3>1. PICK k : k = [Idle EXCEPT !.st = "opening", !.ud = r]
      OBVIOUS
    <3>2. k = [st |-> "opening", ud |-> r, timer |-> NoRequest]
      BY <3>1 DEF Idle
    <3>3. k \in Carriers /\ k.st = "opening" /\ k.ud = r /\ k.timer = NoRequest
      BY <1>4, <3>2 DEF Carriers
    <3>4. PICK t \in Responses : t = resp[r]
      BY <1>4
    <3>5. PICK n \in 0..MaxRedirect : n = t.redirects + 1
      BY <2>2, <3>4, HttpAssumption DEF CanRedirect, Responses
    <3>10. PICK b \in BOOLEAN : b = FALSE
      OBVIOUS
    <3>11. PICK e \in {-1, 200, 302} : e = -1
      OBVIOUS
    <3>6. PICK u : u = [t EXCEPT !.redirects = n, !.fin = b, !.code = e]
      OBVIOUS
    <3>7. u \in Responses /\ u.refs = t.refs /\ u.answered = t.answered /\ u.dropped = t.dropped
      BY <3>6, ZenonT(60) DEF Responses
    <3>8. Redirected(t) = u
      <4>1. Redirected(t) = [t EXCEPT !.redirects = n, !.fin = FALSE, !.code = e]
        BY <3>5, <3>11 DEF Redirected, Responses
      <4> QED BY <3>6, <3>10, <4>1
    <3>9. /\ resp' \in [Requests -> Responses] /\ resp'[r] = u
          /\ \A q \in Requests : q # r => resp'[q] = resp[q]
      BY <1>4, <1>6, <2>2, <3>4, <3>7, <3>8
    <3>12. chan' = [chan EXCEPT ![c] = k] /\ UNCHANGED <<pendingQ, finishedQ, avail, promised>>
      BY <2>2, <3>1
    <3>13. resp'[r].refs = resp[r].refs /\ resp'[r].answered = resp[r].answered /\ resp'[r].dropped = resp[r].dropped
      BY <3>4, <3>7, <3>9
    <3>14. k.st # "closed"
      BY <3>3
    <3> QED BY <1>5, <3>3, <3>9, <3>12, <3>13, <3>14
  <2> QED BY <1>10, <2>1, <2>2 DEF Eof
<1> QED BY <1>3, <1>7, <1>8, <1>9, <1>10 DEF Carrying, OpenFails, OnClose

LEMMA HttpTakes ==
  ASSUME HttpInv, NEW r \in Requests, Dispatch \/ SyncReturns(r)
  PROVE  HttpInv'
<1>1. HttpTypes /\ QueuesInv /\ Places /\ CarriersInv /\ resp \in [Requests -> Responses]
  BY DEF HttpInv, HttpTypes
<1>2. CASE Dispatch
  <2>1. PICK h : h = Head(finishedQ)
    OBVIOUS
  <2>2. /\ finishedQ # <<>> /\ finishedQ' = Tail(finishedQ)
        /\ resp' = Release([resp EXCEPT ![h].answered = @ + 1], h)
        /\ UNCHANGED <<mode, step, pendingQ, avail, chan, promised>>
    BY <1>2, <2>1 DEF Dispatch
  <2>3. /\ h \in Requests /\ h \in ToSet(finishedQ) /\ finishedQ' \in Seq(Requests) /\ Distinct(finishedQ')
        /\ \A q : q \in ToSet(finishedQ') <=> q \in ToSet(finishedQ) /\ q # h
    BY <1>1, <2>1, <2>2, QueueTakes DEF HttpTypes, QueuesInv
  <2>4. OnePlace(h) /\ resp[h] \in Responses
    BY <1>1, <2>3 DEF Places
  <2>5. /\ ~Carried(h) /\ h \notin ToSet(pendingQ) /\ h \notin promised /\ ~Done(h) /\ step[h] = "sent"
        /\ resp[h].refs = 1
    BY <2>3, <2>4 DEF OnePlace
  <2>6. resp[h].answered = 0
    BY <2>4, <2>5 DEF Done, Responses
  <2>7. Settled(resp, resp', h, 0, 1)
    BY <1>1, <2>2, <2>3, <2>5, <2>6, AnswerOf
  <2>8. HttpTypes' /\ QueuesInv' /\ CarriersInv'
    BY <1>1, <2>2, <2>3, <2>7, ZenonT(60) DEF HttpTypes, QueuesInv, CarriersInv, OneChannel, CarrierInv, Distinct, Settled
  <2>9. \A q : Carried(q)' <=> Carried(q)
    BY <2>2 DEF Carried
  <2>10. OnePlace(h)'
    BY <2>2, <2>3, <2>5, <2>7, <2>9 DEF OnePlace, Done, Unasked, Settled
  <2>11. ASSUME NEW q \in Requests, q # h PROVE OnePlace(q)'
    <3>1. Untouched(q)
      BY <2>2, <2>3, <2>7, <2>9, <2>11 DEF Untouched, Settled
    <3> QED BY <1>1, <3>1, UntouchedStays DEF Places
  <2> QED BY <2>8, <2>10, <2>11 DEF HttpInv, Places
<1>3. CASE SyncReturns(r)
  <2>1. /\ r \in promised /\ step[r] = "sent" /\ resp[r].answered = 0
        /\ resp' = Release([resp EXCEPT ![r].answered = @ + 1], r)
        /\ UNCHANGED <<mode, step, pendingQ, finishedQ, avail, chan, promised>>
    BY <1>3 DEF SyncReturns
  <2>2. OnePlace(r)
    BY <1>1 DEF Places
  <2>3. ~Carried(r) /\ r \notin ToSet(pendingQ) /\ r \notin ToSet(finishedQ) /\ ~resp[r].dropped /\ resp[r].refs = 1
    BY <2>1, <2>2 DEF OnePlace, Done
  <2>4. Settled(resp, resp', r, 0, 1)
    BY <1>1, <2>1, <2>3, AnswerOf
  <2>5. HttpTypes' /\ QueuesInv' /\ CarriersInv'
    BY <1>1, <2>1, <2>4 DEF HttpTypes, QueuesInv, CarriersInv, OneChannel, CarrierInv, Distinct, Settled
  <2>6. \A q : Carried(q)' <=> Carried(q)
    BY <2>1 DEF Carried
  <2>7. OnePlace(r)'
    BY <2>1, <2>3, <2>4, <2>6 DEF OnePlace, Done, Unasked, Settled
  <2>8. ASSUME NEW q \in Requests, q # r PROVE OnePlace(q)'
    <3>1. Untouched(q)
      BY <2>1, <2>4, <2>6, <2>8 DEF Untouched, Settled
    <3> QED BY <1>1, <3>1, UntouchedStays DEF Places
  <2> QED BY <2>5, <2>7, <2>8 DEF HttpInv, Places
<1> QED BY <1>2, <1>3

(* clearPendingResponseQueue and clearFinishedResponseQueue. *)
LEMMA DroppedAll ==
  ASSUME NEW rs \in [Requests -> Responses], NEW q, NEW rt, rt = Dropped(rs, q),
         \A r \in Requests : r \in ToSet(q) => rs[r].refs = 1
  PROVE  /\ rt \in [Requests -> Responses]
         /\ \A r \in Requests : r \notin ToSet(q) => rt[r] = rs[r]
         /\ \A r \in Requests : r \in ToSet(q) => rt[r].refs = 0 /\ rt[r].dropped /\ rt[r].answered = rs[r].answered
<1>1. /\ DOMAIN rt = Requests /\ rt = [r \in Requests |-> rt[r]]
      /\ \A r \in Requests : r \notin ToSet(q) => rt[r] = rs[r]
      /\ \A r \in Requests : r \in ToSet(q) => rt[r] = [rs[r] EXCEPT !.refs = @ - 1, !.dropped = TRUE]
  BY DEF Dropped
<1>2. ASSUME NEW r \in Requests, r \in ToSet(q)
      PROVE  rt[r] \in Responses /\ rt[r].refs = 0 /\ rt[r].dropped /\ rt[r].answered = rs[r].answered
  <2>1. PICK t \in Responses : t = rs[r]
    OBVIOUS
  <2>2. PICK u : u = rt[r]
    OBVIOUS
  <2>3. t.refs = 1 /\ u = [t EXCEPT !.refs = @ - 1, !.dropped = TRUE]
    BY <1>1, <1>2, <2>1, <2>2
  <2>4. u \in Responses /\ u.refs = 0 /\ u.dropped /\ u.answered = t.answered
    BY <2>3, DropOf, ZenonT(60)
  <2> QED BY <2>1, <2>2, <2>4
<1>3. \A r \in Requests : rt[r] \in Responses
  BY <1>1, <1>2
<1> QED BY <1>1, <1>2, <1>3

LEMMA HttpClears ==
  ASSUME HttpInv, ClearPending \/ ClearFinished
  PROVE  HttpInv'
<1>1. HttpTypes /\ QueuesInv /\ Places /\ CarriersInv /\ resp \in [Requests -> Responses]
  BY DEF HttpInv, HttpTypes
<1>2. <<>> \in Seq(Requests) /\ Distinct(<<>>) /\ ToSet(<<>>) = {}
  BY DEF Distinct, ToSet
<1>3. UNCHANGED <<mode, step, avail, chan, promised>> /\ \A q : Carried(q)' <=> Carried(q)
  BY DEF ClearPending, ClearFinished, Carried
<1>4. CASE ClearPending
  <2>1. pendingQ' = <<>> /\ resp' = Dropped(resp, pendingQ) /\ finishedQ' = finishedQ
    BY <1>4 DEF ClearPending
  <2>2. ASSUME NEW r \in Requests, r \in ToSet(pendingQ)
        PROVE  /\ resp[r].refs = 1 /\ resp[r].answered = 0 /\ step[r] = "sent"
               /\ ~Carried(r) /\ r \notin ToSet(finishedQ) /\ r \notin promised
    <3>1. OnePlace(r) /\ resp[r].answered \in {0, 1}
      BY <1>1 DEF Places, Responses
    <3> QED BY <2>2, <3>1 DEF OnePlace, Done
  <2>3. /\ resp' \in [Requests -> Responses]
        /\ \A r \in Requests : r \notin ToSet(pendingQ) => resp'[r] = resp[r]
        /\ \A r \in Requests : r \in ToSet(pendingQ) =>
              resp'[r].refs = 0 /\ resp'[r].dropped /\ resp'[r].answered = resp[r].answered
    BY <1>1, <2>1, <2>2, DroppedAll
  <2>4. HttpTypes' /\ QueuesInv' /\ CarriersInv'
    BY <1>1, <1>2, <1>3, <2>1, <2>3 DEF HttpTypes, QueuesInv, CarriersInv, OneChannel, CarrierInv, Distinct
  <2>5. ASSUME NEW r \in Requests, r \in ToSet(pendingQ) PROVE OnePlace(r)'
    BY <1>2, <1>3, <2>1, <2>2, <2>3, <2>5 DEF OnePlace, Done, Unasked
  <2>6. ASSUME NEW r \in Requests, r \notin ToSet(pendingQ) PROVE OnePlace(r)'
    <3>1. Untouched(r)
      BY <1>2, <1>3, <2>1, <2>3, <2>6 DEF Untouched
    <3> QED BY <1>1, <3>1, UntouchedStays DEF Places
  <2> QED BY <2>4, <2>5, <2>6 DEF HttpInv, Places
<1>5. CASE ClearFinished
  <2>1. finishedQ' = <<>> /\ resp' = Dropped(resp, finishedQ) /\ pendingQ' = pendingQ
    BY <1>5 DEF ClearFinished
  <2>2. ASSUME NEW r \in Requests, r \in ToSet(finishedQ)
        PROVE  /\ resp[r].refs = 1 /\ resp[r].answered = 0 /\ step[r] = "sent"
               /\ ~Carried(r) /\ r \notin ToSet(pendingQ) /\ r \notin promised
    <3>1. OnePlace(r) /\ resp[r].answered \in {0, 1}
      BY <1>1 DEF Places, Responses
    <3> QED BY <2>2, <3>1 DEF OnePlace, Done
  <2>3. /\ resp' \in [Requests -> Responses]
        /\ \A r \in Requests : r \notin ToSet(finishedQ) => resp'[r] = resp[r]
        /\ \A r \in Requests : r \in ToSet(finishedQ) =>
              resp'[r].refs = 0 /\ resp'[r].dropped /\ resp'[r].answered = resp[r].answered
    BY <1>1, <2>1, <2>2, DroppedAll
  <2>4. HttpTypes' /\ QueuesInv' /\ CarriersInv'
    BY <1>1, <1>2, <1>3, <2>1, <2>3 DEF HttpTypes, QueuesInv, CarriersInv, OneChannel, CarrierInv, Distinct
  <2>5. ASSUME NEW r \in Requests, r \in ToSet(finishedQ) PROVE OnePlace(r)'
    BY <1>2, <1>3, <2>1, <2>2, <2>3, <2>5 DEF OnePlace, Done, Unasked
  <2>6. ASSUME NEW r \in Requests, r \notin ToSet(finishedQ) PROVE OnePlace(r)'
    <3>1. Untouched(r)
      BY <1>2, <1>3, <2>1, <2>3, <2>6 DEF Untouched
    <3> QED BY <1>1, <3>1, UntouchedStays DEF Places
  <2> QED BY <2>4, <2>5, <2>6 DEF HttpInv, Places
<1> QED BY <1>4, <1>5

LEMMA HttpStarts == HttpInit => HttpInv
<1> SUFFICES ASSUME HttpInit PROVE HttpInv
  OBVIOUS
<1>1. /\ step = [r \in Requests |-> "new"] /\ resp = [r \in Requests |-> Fresh]
      /\ pendingQ = <<>> /\ finishedQ = <<>> /\ promised = {}
      /\ avail = SetToSeq(HttpChannels) /\ chan = [c \in HttpChannels |-> Idle]
  BY DEF HttpInit
<1>2. Fresh \in Responses /\ Fresh.refs = 0 /\ Fresh.answered = 0 /\ ~Fresh.dropped
  <2>1. PICK n \in 0..2, m \in 0..MaxRedirect, a \in {0, 1} : n = 0 /\ m = 0 /\ a = 0
    BY HttpAssumption
  <2>2. PICK v \in BOOLEAN : v = TRUE
    OBVIOUS
  <2>3. PICK f \in BOOLEAN : f = FALSE
    OBVIOUS
  <2>4. PICK e \in {-1, 200, 302} : e = -1
    OBVIOUS
  <2>5. Fresh = [refs |-> n, valid |-> v, redirects |-> m, fin |-> f, code |-> e, answered |-> a, dropped |-> f]
    BY <2>1, <2>2, <2>3, <2>4 DEF Fresh
  <2>6. Fresh \in Responses
    BY <2>5 DEF Responses
  <2> QED BY <2>6 DEF Fresh
<1>3. Idle \in Carriers /\ Idle.st = "closed" /\ Idle.ud = NoRequest /\ Idle.timer = NoRequest
  BY DEF Idle, Carriers
<1>4. avail \in Seq(HttpChannels) /\ Distinct(avail) /\ ToSet(avail) = HttpChannels
  BY <1>1, HttpAssumption, ListedOnce
<1>5. mode \in [Requests -> {"queue", "worker", "sync"}]
  BY DEF HttpInit
<1>6. <<>> \in Seq(Requests) /\ Distinct(<<>>) /\ ToSet(<<>>) = {}
  BY DEF Distinct, ToSet
<1>7. HttpTypes
  BY <1>1, <1>2, <1>3, <1>4, <1>5, <1>6 DEF HttpTypes
<1>8. QueuesInv /\ CarriersInv
  BY <1>1, <1>3, <1>4, <1>6 DEF QueuesInv, CarriersInv, OneChannel, CarrierInv
<1>9. ASSUME NEW r \in Requests PROVE OnePlace(r)
  <2>1. ~Carried(r)
    BY <1>1, <1>3, HttpAssumption DEF Carried
  <2> QED BY <1>1, <1>2, <1>6, <2>1 DEF OnePlace, Done, Unasked
<1> QED BY <1>7, <1>8, <1>9 DEF HttpInv, Places

LEMMA OneAt ==
  ASSUME NEW S, NEW q \in Seq(S), Distinct(q), NEW x
  PROVE  Cardinality({i \in DOMAIN q : q[i] = x}) = IF x \in ToSet(q) THEN 1 ELSE 0
<1>1. CASE x \in ToSet(q)
  <2>1. PICK i \in DOMAIN q : q[i] = x
    BY <1>1 DEF ToSet
  <2>2. {j \in DOMAIN q : q[j] = x} = {i}
    BY <2>1 DEF Distinct
  <2> QED BY <1>1, <2>2, FS_Singleton
<1>2. CASE x \notin ToSet(q)
  <2>1. {j \in DOMAIN q : q[j] = x} = {}
    BY <1>2 DEF ToSet
  <2> QED BY <1>2, <2>1, FS_EmptySet
<1> QED BY <1>1, <1>2

LEMMA HttpImplies == HttpInv => HttpSafe
<1> SUFFICES ASSUME HttpInv PROVE HttpSafe
  OBVIOUS
<1>1. HttpTypes /\ QueuesInv /\ Places /\ CarriersInv
  BY DEF HttpInv
<1>2. HttpTypeOK
  <2>1. \A r \in Requests : /\ resp[r].refs \in 0..2 /\ resp[r].redirects \in 0..MaxRedirect
                            /\ resp[r].answered \in Nat
    <3> SUFFICES ASSUME NEW r \in Requests
                 PROVE  resp[r].refs \in 0..2 /\ resp[r].redirects \in 0..MaxRedirect /\ resp[r].answered \in Nat
      OBVIOUS
    <3>1. PICK t \in Responses : t = resp[r]
      BY <1>1 DEF HttpTypes
    <3>2. t.refs \in 0..2 /\ t.redirects \in 0..MaxRedirect /\ t.answered \in {0, 1}
      BY DEF Responses
    <3> QED BY <3>1, <3>2
  <2>2. /\ ToSet(pendingQ) \subseteq Requests /\ ToSet(finishedQ) \subseteq Requests
        /\ ToSet(avail) \subseteq HttpChannels
    BY <1>1 DEF HttpTypes, ToSet
  <2>3. \A c \in HttpChannels : chan[c].ud \in Requests \cup {NoRequest}
    BY <1>1 DEF HttpTypes, Carriers
  <2> QED BY <1>1, <2>1, <2>2, <2>3 DEF HttpTypeOK, HttpTypes
<1>3. ASSUME NEW r \in Requests PROVE resp[r].refs = Holders(r)
  <2>1. /\ Cardinality({i \in DOMAIN pendingQ : pendingQ[i] = r}) = IF r \in ToSet(pendingQ) THEN 1 ELSE 0
        /\ Cardinality({i \in DOMAIN finishedQ : finishedQ[i] = r}) = IF r \in ToSet(finishedQ) THEN 1 ELSE 0
    BY <1>1, OneAt DEF HttpTypes, QueuesInv
  <2>2. Cardinality({c \in HttpChannels : chan[c].ud = r}) = IF Carried(r) THEN 1 ELSE 0
    <3>1. CASE Carried(r)
      <4>1. PICK c \in HttpChannels : chan[c].ud = r
        BY <3>1 DEF Carried
      <4>2. {d \in HttpChannels : chan[d].ud = r} = {c}
        BY <1>1, <4>1, HttpAssumption DEF CarriersInv, OneChannel
      <4> QED BY <3>1, <4>2, FS_Singleton
    <3>2. CASE ~Carried(r)
      <4>1. {d \in HttpChannels : chan[d].ud = r} = {}
        BY <3>2 DEF Carried
      <4> QED BY <3>2, <4>1, FS_EmptySet
    <3> QED BY <3>1, <3>2
  <2>3. OnePlace(r) /\ resp[r].answered \in {0, 1} /\ step[r] \in {"new", "take", "push", "sent"}
    BY <1>1 DEF Places, HttpTypes, Responses
  <2> DEFINE a == Cardinality({c \in HttpChannels : chan[c].ud = r})
             b == Cardinality({i \in DOMAIN pendingQ : pendingQ[i] = r})
             d == Cardinality({i \in DOMAIN finishedQ : finishedQ[i] = r})
  <2>4. Holders(r) = a + b + d + (IF step[r] \in {"take", "push"} THEN 2 ELSE 0)
                     + (IF Unasked(r) THEN 1 ELSE 0)
    BY DEF Holders, Unasked
  <2>5. /\ a = (IF Carried(r) THEN 1 ELSE 0) /\ b = (IF r \in ToSet(pendingQ) THEN 1 ELSE 0)
        /\ d = (IF r \in ToSet(finishedQ) THEN 1 ELSE 0)
    BY <2>1, <2>2
  <2> HIDE DEF a, b, d
  <2>6. Unasked(r) => r \in promised /\ resp[r].answered = 0
    BY DEF Unasked
  <2>7. Unasked(r) => ~Done(r)
    BY <2>3, <2>6 DEF OnePlace, Done
  <2>8. CASE step[r] # "sent"
    BY <2>3, <2>4, <2>5, <2>8 DEF OnePlace
  <2>9. CASE step[r] = "sent" /\ Done(r)
    BY <2>3, <2>4, <2>5, <2>7, <2>9 DEF OnePlace
  <2>10. CASE step[r] = "sent" /\ ~Done(r)
    BY <2>3, <2>4, <2>5, <2>6, <2>10 DEF OnePlace
  <2> QED BY <2>8, <2>9, <2>10
<1>4. ChannelsKept
  <2>1. ASSUME NEW c \in HttpChannels PROVE Cardinality({i \in DOMAIN avail : avail[i] = c}) <= 1
    <3>1. Cardinality({i \in DOMAIN avail : avail[i] = c}) = IF c \in ToSet(avail) THEN 1 ELSE 0
      BY <1>1, OneAt DEF HttpTypes, QueuesInv
    <3> QED BY <3>1
  <2> QED BY <1>1, <2>1 DEF ChannelsKept, CarriersInv, CarrierInv
<1>5. AnsweredOnce
  <2> SUFFICES ASSUME NEW r \in Requests
               PROVE  resp[r].answered + (IF resp[r].dropped THEN 1 ELSE 0) <= 1
    BY DEF AnsweredOnce
  <2>1. OnePlace(r) /\ resp[r].answered \in {0, 1}
    BY <1>1 DEF Places, HttpTypes, Responses
  <2>2. ~(resp[r].answered = 1 /\ resp[r].dropped)
    BY <2>1 DEF OnePlace
  <2> QED BY <2>1, <2>2
<1>6. TimerOwned
  <2> SUFFICES ASSUME NEW c \in HttpChannels, chan[c].timer # NoRequest
               PROVE  chan[c].timer = chan[c].ud /\ resp[chan[c].ud].refs > 0
    BY DEF TimerOwned
  <2>1. CarrierInv(c)
    BY <1>1 DEF CarriersInv
  <2>2. chan[c].timer = chan[c].ud /\ chan[c].st # "closed"
    BY <2>1 DEF CarrierInv
  <2> QED BY <2>2, AtWork
<1> QED BY <1>2, <1>3, <1>4, <1>5, <1>6 DEF HttpSafe, RefsExact

(* The http scheduler, for any number of requests, channels and redirects  *)
(* and every interleaving of send, the worker and the application: a       *)
(* response has as many references as holders, a channel is free or works  *)
(* for one response, nobody is answered twice or after a clear, and the    *)
(* read timer points only to the live response of its channel.             *)
THEOREM RequestsAccounted == HttpSpec => []HttpSafe
<1>1. HttpInv /\ [HttpNext]_hvars => HttpInv'
  <2> SUFFICES ASSUME HttpInv, [HttpNext]_hvars PROVE HttpInv'
    OBVIOUS
  <2>1. ASSUME NEW r \in Requests, Send(r) \/ Sending(r) PROVE HttpInv'
    BY <2>1, HttpSends
  <2>2. ASSUME NEW r \in Requests, SyncReturns(r) PROVE HttpInv'
    BY <2>2, HttpTakes
  <2>3. ASSUME NEW c \in HttpChannels, Carrying(c) PROVE HttpInv'
    BY <2>3, HttpCarries
  <2>4. CASE Dispatch
    <3>1. PICK r : r = Head(finishedQ)
      OBVIOUS
    <3>2. r \in Requests
      BY <2>4, <3>1, QueueTakes DEF Dispatch, HttpInv, HttpTypes, QueuesInv
    <3> QED BY <2>4, <3>2, HttpTakes
  <2>5. CASE ClearPending \/ ClearFinished
    BY <2>5, HttpClears
  <2>6. CASE UNCHANGED hvars
    BY <2>6 DEF hvars, HttpInv, HttpTypes, QueuesInv, Places, OnePlace, Carried, Done, Unasked,
                CarriersInv, OneChannel, CarrierInv, Distinct
  <2> QED BY <2>1, <2>2, <2>3, <2>4, <2>5, <2>6 DEF HttpNext
<1> QED BY <1>1, HttpStarts, HttpImplies, PTL DEF HttpSpec

-----------------------------------------------------------------------------
(* Induction.  The library's theorems take the predicate as a parameter;   *)
(* here it is a set of numbers.                                            *)
LEMMA Inductive ==
  ASSUME NEW S \in SUBSET Nat, 0 \in S, \A n \in S : n + 1 \in S
  PROVE  S = Nat
<1>1. SUFFICES ASSUME S # Nat PROVE FALSE
  OBVIOUS
<1>2. PICK x \in Nat \ S : \A y \in Nat \ S : ~(<<y, x>> \in OpToRel(<, Nat))
  <2>1. Nat \ S \subseteq Nat /\ Nat \ S # {}
    BY <1>1
  <2> QED BY <2>1, NatLessThanWellFounded, WFMin
<1>3. \A y \in Nat \ S : ~(y < x)
  BY <1>2, Zenon DEF OpToRel
<1>4. x \in Nat /\ x \notin S
  OBVIOUS
<1> HIDE <1>2
<1>5. x # 0 /\ x - 1 \in Nat /\ x - 1 < x /\ (x - 1) + 1 = x
  BY <1>4
<1>6. x - 1 \in S
  BY <1>3, <1>5
<1> QED BY <1>4, <1>5, <1>6

(* A recursive function along 1..n: from v, by F, with values in V.        *)
Walkable(V, v, n, F) == v \in V /\ n \in Nat /\ F \in [(1..n) \X V -> V]
IsWalk(V, v, n, F, g) == g \in [0..n -> V] /\ g[0] = v /\ \A i \in 1..n : g[i] = F[<<i, g[i - 1]>>]

LEMMA WalkExists ==
  ASSUME NEW V, NEW v, NEW n, NEW F, Walkable(V, v, n, F)
  PROVE  \E g : IsWalk(V, v, n, F, g)
<1> USE DEF Walkable
<1> DEFINE Q(k) == \E g \in [0..k -> V] : g[0] = v /\ \A i \in 1..k : g[i] = F[<<i, g[i - 1]>>]
           S == {k \in Nat : k <= n => Q(k)}
<1>1. 0 \in S
  <2>1. [i \in 0..0 |-> v] \in [0..0 -> V] /\ [i \in 0..0 |-> v][0] = v /\ 1..0 = {}
    OBVIOUS
  <2>2. Q(0)
    BY <2>1
  <2> QED BY <2>2
<1>2. ASSUME NEW k \in S PROVE k + 1 \in S
  <2>1. SUFFICES ASSUME k + 1 <= n PROVE Q(k + 1)
    OBVIOUS
  <2>2. k \in Nat /\ k <= n
    BY <2>1
  <2>3. PICK g \in [0..k -> V] : g[0] = v /\ \A i \in 1..k : g[i] = F[<<i, g[i - 1]>>]
    BY <2>2
  <2>4. PICK w : w = F[<<k + 1, g[k]>>]
    OBVIOUS
  <2>5. w \in V
    <3>1. k + 1 \in 1..n /\ g[k] \in V
      BY <2>1, <2>2
    <3> QED BY <2>4, <3>1
  <2>6. PICK h : h = [i \in 0..(k + 1) |-> IF i = k + 1 THEN w ELSE g[i]]
    OBVIOUS
  <2>7. h \in [0..(k + 1) -> V]
    BY <2>2, <2>5, <2>6
  <2>8. h[k + 1] = w /\ \A i \in 0..k : h[i] = g[i]
    BY <2>2, <2>6
  <2>9. h[0] = v
    BY <2>2, <2>3, <2>8
  <2>10. ASSUME NEW i \in 1..(k + 1) PROVE h[i] = F[<<i, h[i - 1]>>]
    <3>1. CASE i = k + 1
      <4>1. i - 1 = k /\ h[k] = g[k]
        BY <2>2, <2>8, <3>1
      <4> QED BY <2>4, <2>8, <3>1, <4>1
    <3>2. CASE i \in 1..k
      <4>1. i - 1 \in 0..k /\ i \in 0..k
        BY <2>2, <3>2
      <4> QED BY <2>3, <2>8, <3>2, <4>1
    <3> QED BY <2>2, <3>1, <3>2
  <2> QED BY <2>7, <2>9, <2>10
<1> HIDE DEF Q
<1>3. S = Nat
  BY <1>1, <1>2, Inductive
<1>4. Q(n)
  BY <1>3
<1> QED BY <1>4 DEF Q, IsWalk

-----------------------------------------------------------------------------
(* Descriptors and their owners.  The invariant: a handle, a descriptor    *)
(* with the generation that opened it, is in one socket object or with the *)
(* caller; every open descriptor is held; no handle is of the future; and  *)
(* as long as nothing was closed through a stray object, what a sound      *)
(* object holds is open.                                                   *)
RawHandles == [fd : Fds, gen : Nat]
SockTypes ==
  /\ kern \in [Fds -> Nat] /\ gens \in Nat /\ rawfds \subseteq RawHandles
  /\ sock \in [Objects -> [fd : Fds \cup {NoFd}, gen : Nat]]
  /\ broken \subseteq Objects /\ stray \subseteq Objects

HoldsOnce ==
  /\ \A o, p \in Objects : sock[o].fd # NoFd /\ sock[o] = sock[p] => o = p
  /\ \A o \in Objects : sock[o] \notin rawfds
Held ==
  \A f \in Fds : kern[f] # 0 => \/ \E o \in Objects : sock[o].fd = f /\ sock[o].gen = kern[f]
                                \/ \E h \in rawfds : h.fd = f /\ h.gen = kern[f]
GensPast ==
  /\ \A f \in Fds : kern[f] <= gens
  /\ \A o \in Objects : sock[o].fd # NoFd => 0 < sock[o].gen /\ sock[o].gen <= gens
  /\ \A h \in rawfds : 0 < h.gen /\ h.gen <= gens
BrokenClosed == \A o \in broken : sock[o].fd # NoFd /\ kern[sock[o].fd] # sock[o].gen
Live ==
  stray = {} => /\ \A o \in Objects \ broken : sock[o].fd # NoFd => kern[sock[o].fd] = sock[o].gen
                /\ \A h \in rawfds : kern[h.fd] = h.gen

SockInv == SockTypes /\ HoldsOnce /\ Held /\ GensPast /\ BrokenClosed /\ Live

(* A new descriptor has a number that was free. *)
LEMMA LowestIsFree ==
  ASSUME SockTypes, FreeFds # {}
  PROVE  LowestFree \in Fds /\ kern[LowestFree] = 0
<1>1. FreeFds \subseteq Nat
  BY SocketAssumption DEF FreeFds
<1>2. \E f \in FreeFds : \A g \in FreeFds : f <= g
  <2>1. PICK x \in FreeFds : \A y \in FreeFds : ~(<<y, x>> \in OpToRel(<, Nat))
    BY <1>1, NatLessThanWellFounded, WFMin
  <2>2. \A y \in FreeFds : ~(y < x)
    BY <1>1, <2>1, Zenon DEF OpToRel
  <2>3. x \in FreeFds
    OBVIOUS
  <2> HIDE <2>1
  <2> QED BY <1>1, <2>2, <2>3
<1>3. LowestFree \in FreeFds
  BY <1>2 DEF LowestFree
<1> QED BY <1>3 DEF FreeFds

LEMMA SameHandle ==
  ASSUME NEW F, NEW a \in [fd : F, gen : Nat], NEW b \in [fd : F, gen : Nat], a.fd = b.fd, a.gen = b.gen
  PROVE  a = b
OBVIOUS

LEMMA SocketsStep ==
  ASSUME SockInv, ObjectNext
  PROVE  SockInv' /\ (stray = {} => stray' \subseteq broken)
<1> USE DEF SockInv, Invalid, Hold, NoFd
<1>0. Fds \subseteq Nat /\ -1 \notin Fds
  BY SocketAssumption
<1> USE <1>0
<1> DEFINE Goal == SockInv' /\ (stray = {} => stray' \subseteq broken)
<1>1. ASSUME NEW o \in Objects, SockOpen(o) PROVE Goal
  <2>1. PICK f \in Fds : f = LowestFree /\ kern[f] = 0
    BY <1>1, LowestIsFree DEF SockOpen
  <2>2. /\ kern' = [kern EXCEPT ![f] = gens + 1] /\ gens' = gens + 1 /\ sock[o].fd = -1
        /\ sock' = [sock EXCEPT ![o] = [fd |-> f, gen |-> gens + 1]]
        /\ rawfds' = rawfds /\ broken' = broken /\ stray' = stray
    BY <1>1, <2>1 DEF SockOpen
  <2> HIDE <2>1
  <2> USE <2>2
  <2>3. SockTypes'
    BY DEF SockTypes
  <2>4. HoldsOnce'
    BY DEF HoldsOnce, SockTypes, GensPast, RawHandles
  <2>5. Held'
    BY <2>1 DEF Held, SockTypes, RawHandles
  <2>6. GensPast'
    BY DEF GensPast, SockTypes, RawHandles
  <2>7. BrokenClosed'
    BY DEF BrokenClosed, SockTypes, GensPast
  <2>8. Live'
    BY <2>1 DEF Live, SockTypes, GensPast, RawHandles
  <2> QED BY <2>3, <2>4, <2>5, <2>6, <2>7, <2>8
<1>2. ASSUME NEW o \in Objects, SockClose(o) PROVE Goal
  <2>1. PICK f \in Fds : f = sock[o].fd
    BY <1>2 DEF SockClose, SockTypes
  <2>2. /\ kern' = [kern EXCEPT ![f] = 0] /\ gens' = gens /\ f # -1
        /\ sock' = [sock EXCEPT ![o] = [fd |-> -1, gen |-> 0]]
        /\ rawfds' = rawfds /\ broken' = broken \ {o}
        /\ stray' = stray \cup (IF kern[f] \notin {0, sock[o].gen} THEN {o} ELSE {})
    BY <1>2, <2>1 DEF SockClose
  <2>3. SockTypes'
    BY <2>2 DEF SockTypes
  <2>4. HoldsOnce'
    BY <2>2 DEF HoldsOnce, SockTypes, RawHandles
  <2>5. Held'
    BY <2>1, <2>2 DEF Held, SockTypes, RawHandles
  <2>6. GensPast'
    BY <2>2 DEF GensPast, SockTypes, RawHandles
  <2>7. BrokenClosed'
    BY <2>2 DEF BrokenClosed, SockTypes, GensPast
  <2>8. Live'
    <3> SUFFICES ASSUME stray' = {} PROVE Live'
      BY DEF Live
    <3>1. stray = {} /\ kern[f] \in {0, sock[o].gen}
      BY <2>2
    <3>2. \A p \in Objects : sock[p] \in [fd : Fds \cup {-1}, gen : Nat]
      BY DEF SockTypes
    <3>3. \A p \in Objects \ broken' : p # o => sock'[p] = sock[p] /\ p \notin broken
      BY <2>2 DEF SockTypes
    <3>4. ASSUME NEW p \in Objects, p # o, p \notin broken, sock[p].fd = f PROVE kern[f] = 0
      <4>1. kern[f] = sock[p].gen
        BY <3>1, <3>4, <1>0 DEF Live
      <4>2. CASE kern[f] = sock[o].gen
        <5>1. sock[p] = sock[o]
          BY <3>2, <3>4, <4>1, <4>2, <2>1, SameHandle
        <5> QED BY <3>4, <5>1, <2>1, <2>2 DEF HoldsOnce
      <4> QED BY <3>1, <4>2
    <3>5. ASSUME NEW h \in rawfds, h.fd = f PROVE kern[f] = 0
      <4>1. kern[f] = h.gen /\ h \in RawHandles
        BY <3>1, <3>5 DEF Live, SockTypes
      <4>2. CASE kern[f] = sock[o].gen
        <5>1. h = sock[o]
          <6>1. h \in [fd : Fds \cup {-1}, gen : Nat]
            BY <4>1 DEF RawHandles
          <6> QED BY <3>2, <3>5, <4>1, <4>2, <2>1, <6>1, SameHandle
        <5> QED BY <5>1, <3>5 DEF HoldsOnce
      <4> QED BY <3>1, <4>2
    <3>6. \A p \in Objects \ broken' : sock'[p].fd # -1 => kern'[sock'[p].fd] = sock'[p].gen
      BY <2>2, <3>1, <3>2, <3>3, <3>4 DEF Live, SockTypes
    <3>7. \A h \in rawfds : kern'[h.fd] = h.gen
      BY <2>2, <3>1, <3>5 DEF Live, SockTypes, RawHandles
    <3> QED BY <2>2, <3>6, <3>7 DEF Live
  <2>9. stray = {} => stray' \subseteq broken
    BY <2>1, <2>2 DEF Live, SockTypes
  <2> QED BY <2>3, <2>4, <2>5, <2>6, <2>7, <2>8, <2>9
<1>3. ASSUME NEW o \in Objects, ConnectTimedFails(o) PROVE Goal
  <2>1. PICK f \in Fds : f = sock[o].fd
    BY <1>3 DEF ConnectTimedFails, SockTypes
  <2>2. /\ kern' = [kern EXCEPT ![f] = 0] /\ gens' = gens /\ f # -1 /\ kern[f] = sock[o].gen
        /\ sock' = sock /\ rawfds' = rawfds /\ broken' = broken \cup {o} /\ stray' = stray /\ o \notin broken
    BY <1>3, <2>1 DEF ConnectTimedFails
  <2>3. SockTypes'
    BY <2>2 DEF SockTypes
  <2>4. HoldsOnce'
    BY <2>2 DEF HoldsOnce
  <2>5. Held'
    BY <2>2 DEF Held, SockTypes
  <2>6. GensPast'
    BY <2>2 DEF GensPast, SockTypes
  <2>7. BrokenClosed'
    <3> SUFFICES ASSUME NEW p \in broken'
                 PROVE  sock[p].fd # -1 /\ kern'[sock[p].fd] # sock[p].gen
      BY <2>2 DEF BrokenClosed
    <3>1. p \in Objects /\ sock[p].fd # -1 /\ (p = o \/ kern[sock[p].fd] # sock[p].gen)
      BY <2>1, <2>2 DEF BrokenClosed, SockTypes
    <3>2. sock[p].gen > 0 /\ sock[p].fd \in Fds /\ sock[p].gen \in Nat
      BY <3>1 DEF GensPast, SockTypes
    <3> QED BY <2>1, <2>2, <3>1, <3>2 DEF SockTypes
  <2>8. Live'
    <3> SUFFICES ASSUME stray = {} PROVE Live'
      BY <2>2 DEF Live
    <3>1. ASSUME NEW p \in Objects \ broken', sock[p].fd # -1 PROVE sock[p].fd # f /\ kern'[sock[p].fd] = sock[p].gen
      <4>1. p \notin broken /\ p # o /\ kern[sock[p].fd] = sock[p].gen /\ sock[p].fd \in Fds
        BY <2>2, <3>1 DEF Live, SockTypes
      <4>2. sock[p].fd # f
        BY <2>1, <2>2, <4>1 DEF HoldsOnce, SockTypes
      <4> QED BY <2>2, <4>1, <4>2 DEF SockTypes
    <3>2. ASSUME NEW h \in rawfds PROVE kern'[h.fd] = h.gen
      <4>1. h \in RawHandles /\ kern[h.fd] = h.gen
        BY DEF SockTypes, Live
      <4>2. h.fd # f
        BY <2>1, <2>2, <4>1 DEF HoldsOnce, SockTypes, RawHandles
      <4> QED BY <2>2, <4>1, <4>2 DEF SockTypes, RawHandles
    <3> QED BY <2>2, <3>1, <3>2 DEF Live
  <2>9. stray = {} => stray' \subseteq broken
    BY <2>2
  <2> QED BY <2>3, <2>4, <2>5, <2>6, <2>7, <2>8, <2>9
<1>4. ASSUME NEW o \in Objects, SockRelease(o) PROVE Goal
  <2>1. /\ sock[o].fd \in Fds /\ o \notin broken /\ sock' = [sock EXCEPT ![o] = [fd |-> -1, gen |-> 0]]
        /\ rawfds' = rawfds \cup {sock[o]} /\ kern' = kern /\ gens' = gens /\ broken' = broken /\ stray' = stray
    BY <1>4 DEF SockRelease, SockTypes
  <2>2. \A p \in Objects : sock[p] \in [fd : Fds \cup {-1}, gen : Nat] /\ sock'[p] = IF p = o THEN [fd |-> -1, gen |-> 0] ELSE sock[p]
    BY <2>1 DEF SockTypes
  <2>3. SockTypes'
    BY <2>1, <2>2 DEF SockTypes, RawHandles
  <2>4. HoldsOnce'
    BY <2>1, <2>2 DEF HoldsOnce, SockTypes, RawHandles
  <2>5. Held'
    BY <2>1, <2>2 DEF Held, SockTypes
  <2>6. GensPast'
    BY <2>1, <2>2 DEF GensPast, SockTypes
  <2>7. BrokenClosed'
    BY <2>1, <2>2 DEF BrokenClosed, SockTypes
  <2>8. Live'
    BY <2>1, <2>2 DEF Live, SockTypes
  <2> QED BY <2>1, <2>3, <2>4, <2>5, <2>6, <2>7, <2>8
<1>5. ASSUME NEW o \in Objects, SockAssign(o) PROVE Goal
  <2>0. PICK h \in rawfds : SockAssign(o)!(h)
    BY <1>5 DEF SockAssign
  <2>1. /\ sock[o].fd = -1 /\ sock' = [sock EXCEPT ![o] = h] /\ h \in RawHandles
        /\ rawfds' = rawfds \ {h} /\ kern' = kern /\ gens' = gens /\ broken' = broken /\ stray' = stray
    BY <2>0 DEF SockTypes
  <2>2. \A p \in Objects : sock[p] \in [fd : Fds \cup {-1}, gen : Nat] /\ sock'[p] = IF p = o THEN h ELSE sock[p]
    BY <2>1 DEF SockTypes
  <2>3. SockTypes'
    BY <2>1, <2>2 DEF SockTypes, RawHandles
  <2>4. HoldsOnce'
    BY <2>1, <2>2 DEF HoldsOnce, SockTypes, RawHandles
  <2>5. Held'
    BY <2>1, <2>2 DEF Held, SockTypes
  <2>6. GensPast'
    BY <2>1, <2>2 DEF GensPast, SockTypes
  <2>7. BrokenClosed'
    BY <2>1, <2>2 DEF BrokenClosed, SockTypes
  <2>8. Live'
    BY <2>1, <2>2 DEF Live, SockTypes
  <2> QED BY <2>1, <2>3, <2>4, <2>5, <2>6, <2>7, <2>8
<1>6. ASSUME NEW o \in Objects, NEW p \in Objects, SockMove(o, p) PROVE Goal
  <2>1. /\ o # p /\ sock' = [sock EXCEPT ![o] = sock[p], ![p] = sock[o]]
        /\ broken' = {IF b = o THEN p ELSE IF b = p THEN o ELSE b : b \in broken}
        /\ kern' = kern /\ gens' = gens /\ rawfds' = rawfds /\ stray' = stray
    BY <1>6 DEF SockMove
  <2>2. \A q \in Objects : sock'[q] = IF q = o THEN sock[p] ELSE IF q = p THEN sock[o] ELSE sock[q]
    BY <2>1 DEF SockTypes
  <2>3. \A q \in Objects : q \in broken' <=> (IF q = o THEN p ELSE IF q = p THEN o ELSE q) \in broken
    BY <2>1 DEF SockTypes
  <2>4. SockTypes'
    BY <2>1 DEF SockTypes
  <2>5. HoldsOnce'
    <3>1. \A q, s \in Objects : sock[q].fd # -1 /\ sock[q] = sock[s] => q = s
      BY DEF HoldsOnce
    <3>2. \A q, s \in Objects : sock'[q].fd # -1 /\ sock'[q] = sock'[s] => q = s
      BY <2>1, <2>2, <3>1
    <3>3. \A q \in Objects : sock'[q] \notin rawfds
      BY <2>2 DEF HoldsOnce
    <3> QED BY <2>1, <3>2, <3>3 DEF HoldsOnce
  <2>6. Held'
    <3>1. ASSUME NEW f \in Fds, NEW q \in Objects, sock[q].fd = f /\ sock[q].gen = kern[f]
          PROVE  \E s \in Objects : sock'[s].fd = f /\ sock'[s].gen = kern[f]
      <4>1. PICK s \in Objects : s = IF q = o THEN p ELSE IF q = p THEN o ELSE q
        OBVIOUS
      <4>2. sock'[s] = sock[q]
        BY <2>1, <2>2, <4>1
      <4> QED BY <3>1, <4>2
    <3>2. \A f \in Fds : kern[f] # 0 => \/ \E s \in Objects : sock'[s].fd = f /\ sock'[s].gen = kern[f]
                                       \/ \E h \in rawfds : h.fd = f /\ h.gen = kern[f]
      BY <3>1 DEF Held
    <3> QED BY <2>1, <3>2, ZenonT(60) DEF Held
  <2>7. GensPast'
    BY <2>1, <2>2, ZenonT(60) DEF GensPast
  <2>8. BrokenClosed'
    BY <2>1, <2>2, <2>3, <2>4 DEF BrokenClosed, SockTypes
  <2>9. Live'
    <3> SUFFICES ASSUME stray = {} PROVE Live'
      BY <2>1 DEF Live
    <3>1. ASSUME NEW q \in Objects, q \notin broken', sock'[q].fd # -1 PROVE kern[sock'[q].fd] = sock'[q].gen
      <4>1. PICK s \in Objects : s = IF q = o THEN p ELSE IF q = p THEN o ELSE q
        OBVIOUS
      <4>2. sock'[q] = sock[s] /\ s \notin broken
        BY <2>2, <2>3, <3>1, <4>1
      <4> QED BY <3>1, <4>2 DEF Live
    <3> QED BY <2>1, <3>1 DEF Live
  <2> QED BY <2>1, <2>4, <2>5, <2>6, <2>7, <2>8, <2>9
<1>7. CASE SockAccept
  <2>1. PICK f \in Fds : f = LowestFree /\ kern[f] = 0
    BY <1>7, LowestIsFree DEF SockAccept
  <2>2. PICK h : h = [fd |-> f, gen |-> gens + 1]
    OBVIOUS
  <2>3. /\ kern' = [kern EXCEPT ![f] = gens + 1] /\ gens' = gens + 1 /\ h \in RawHandles /\ h.fd = f /\ h.gen = gens + 1
        /\ sock' = sock /\ rawfds' = rawfds \cup {h} /\ broken' = broken /\ stray' = stray
    BY <1>7, <2>1, <2>2 DEF SockAccept, RawHandles, SockTypes
  <2>4. SockTypes'
    BY <2>3 DEF SockTypes
  <2>5. HoldsOnce'
    BY <2>3 DEF HoldsOnce, SockTypes, GensPast, RawHandles
  <2>6. Held'
    BY <2>1, <2>3 DEF Held, SockTypes, RawHandles
  <2>7. GensPast'
    BY <2>3 DEF GensPast, SockTypes, RawHandles
  <2>8. BrokenClosed'
    BY <2>3 DEF BrokenClosed, SockTypes, GensPast
  <2>9. Live'
    BY <2>1, <2>3 DEF Live, SockTypes, GensPast, RawHandles
  <2> QED BY <2>3, <2>4, <2>5, <2>6, <2>7, <2>8, <2>9
<1> QED BY <1>1, <1>2, <1>3, <1>4, <1>5, <1>6, <1>7 DEF ObjectNext

LEMMA SocketsHeldOnce == SockInv => OneHolder
<1> SUFFICES ASSUME SockInv, broken = {}, stray = {}, NEW f \in Fds, kern[f] # 0
             PROVE  Cardinality({o \in Objects : sock[o].fd = f}) + Cardinality({h \in rawfds : h.fd = f}) = 1
  BY DEF OneHolder
<1> DEFINE O == {o \in Objects : sock[o].fd = f}
           H == {h \in rawfds : h.fd = f}
<1>1. /\ f # -1 /\ \A o \in O : sock[o] \in [fd : Fds \cup {-1}, gen : Nat] /\ sock[o].gen = kern[f]
      /\ \A h \in H : h \in RawHandles /\ h.gen = kern[f]
  BY SocketAssumption DEF SockInv, Live, SockTypes, NoFd
<1>2. \A o, p \in O : o = p
  BY <1>1 DEF SockInv, HoldsOnce, NoFd
<1>3. \A h, g \in H : h = g
  BY <1>1 DEF RawHandles
<1>4. \A o \in O, h \in H : FALSE
  <2> SUFFICES ASSUME NEW o \in O, NEW h \in H PROVE FALSE
    OBVIOUS
  <2>1. sock[o] = h
    BY <1>1 DEF RawHandles
  <2> QED BY <2>1 DEF SockInv, HoldsOnce
<1>5. O # {} \/ H # {}
  BY DEF SockInv, Held
<1>6. CASE O # {}
  <2>1. PICK o \in O : O = {o}
    BY <1>2, <1>6
  <2>2. H = {}
    BY <1>4, <2>1
  <2>3. Cardinality(O) = 1 /\ Cardinality(H) = 0
    BY <2>1, <2>2, FS_Singleton, FS_EmptySet
  <2> QED BY <2>3
<1>7. CASE H # {}
  <2>1. PICK h \in H : H = {h}
    BY <1>3, <1>7
  <2>2. O = {}
    BY <1>4, <2>1
  <2>3. Cardinality(H) = 1 /\ Cardinality(O) = 0
    BY <2>1, <2>2, FS_Singleton, FS_EmptySet
  <2> QED BY <2>3
<1> QED BY <1>5, <1>6, <1>7

(* send_n and recv_n: the count is what was moved. *)
IoStates == [pc : {"try", "wait", "out"}, done : Nat, time : Int, ready : Nat, moved : Nat, failed : BOOLEAN]

IoInv == io \in IoStates /\ TransferExact

LEMMA TransferStep ==
  ASSUME IoInv, IoTry \/ IoDone \/ IoWait \/ IoInterrupted \/ IoPeer
  PROVE  IoInv'
<1>0. /\ io \in IoStates /\ IoLen \in Nat /\ io.done = io.moved /\ io.done <= IoLen
      /\ (io.pc = "out" /\ io.done < IoLen) => io.failed \/ io.time <= 0
  BY SocketAssumption, SMTT(30) DEF IoInv, TransferExact
<1> USE DEF IoStates
<1>1. CASE IoTry
  <2>1. ASSUME NEW n \in 1..io.ready, n <= IoLen - io.done,
               io' = [io EXCEPT !.done = @ + n, !.moved = @ + n, !.ready = @ - n]
        PROVE  IoInv'
    <3>0. io.done + n \in Nat /\ io.moved + n \in Nat /\ io.ready - n \in Nat
      BY <1>0
    <3>1. io' \in IoStates
      BY <1>0, <2>1, <3>0
    <3>2. io'.done = io.done + n /\ io'.moved = io.moved + n /\ io'.pc = "try"
      BY <1>0, <1>1, <2>1 DEF IoTry
    <3> QED BY <1>0, <2>1, <3>1, <3>2 DEF IoInv, TransferExact
  <2>2. CASE io' = [io EXCEPT !.pc = "wait"]
    BY <1>0, <2>2 DEF IoInv, TransferExact
  <2>3. CASE io' = [io EXCEPT !.pc = "out", !.failed = TRUE]
    <3>1. PICK d \in BOOLEAN : d = TRUE
      OBVIOUS
    <3>2. io' = [io EXCEPT !.pc = "out", !.failed = d]
      BY <2>3, <3>1
    <3>3. io' \in IoStates /\ io'.done = io.done /\ io'.moved = io.moved /\ io'.failed = d
      BY <1>0, <3>2
    <3> QED BY <1>0, <3>1, <3>3 DEF IoInv, TransferExact
  <2> QED BY <1>1, <2>1, <2>2, <2>3 DEF IoTry
<1>2. CASE IoDone
  <2>1. io' \in IoStates /\ io'.done = io.done /\ io'.moved = io.moved /\ io.done = IoLen
    BY <1>0, <1>2 DEF IoDone
  <2> QED BY <1>0, <2>1 DEF IoInv, TransferExact
<1>3. CASE IoWait
  <2>1. PICK t \in 0..(io.time + 1), rtn \in {-1, 0, 1} : IoWait!2!(t, rtn)
    BY <1>3 DEF IoWait
  <2>2. PICK d \in BOOLEAN : d = (rtn = -1)
    OBVIOUS
  <2>3. PICK q \in {"try", "out"} : q = IF GoesOn(rtn, io.time - t) THEN "try" ELSE "out"
    OBVIOUS
  <2>4. io' = [io EXCEPT !.time = @ - t, !.failed = d, !.pc = q]
    BY <2>1, <2>2, <2>3
  <2>5. t \in Int /\ io.time - t \in Int
    BY <1>0
  <2>6. q = "out" => d \/ io.time - t <= 0
    <3>1. q = "out" => ~(rtn # -1 /\ io.time - t > 0)
      BY <2>3 DEF GoesOn
    <3>2. rtn = -1 => d
      BY <2>2
    <3>3. rtn # -1 /\ q = "out" => io.time - t <= 0
      BY <2>5, <3>1
    <3> QED BY <3>2, <3>3
  <2>7. io' \in IoStates
    BY <1>0, <2>4, <2>5
  <2>8. io'.done = io.done /\ io'.moved = io.moved /\ io'.failed = d /\ io'.pc = q /\ io'.time = io.time - t
    BY <1>0, <2>4
  <2> QED BY <1>0, <2>6, <2>7, <2>8 DEF IoInv, TransferExact
<1>4. CASE IoInterrupted
  <2>1. PICK t \in 1..(io.time + 1) :
          io' = [io EXCEPT !.time = @ - t, !.pc = IF io.time - t > 0 THEN "wait" ELSE "out"]
    BY <1>4 DEF IoInterrupted
  <2>2. t \in Int /\ io.time - t \in Int
    BY <1>0
  <2>3. io' \in IoStates
    BY <1>0, <2>1, <2>2
  <2>4. /\ io'.done = io.done /\ io'.moved = io.moved /\ io'.time = io.time - t
        /\ io'.pc = "out" => ~(io.time - t > 0)
    BY <1>0, <2>1
  <2> QED BY <1>0, <2>2, <2>3, <2>4 DEF IoInv, TransferExact
<1>5. CASE IoPeer
  <2>1. io' \in IoStates /\ io'.done = io.done /\ io'.moved = io.moved /\ io'.pc = io.pc /\ io.pc # "out"
    BY <1>0, <1>5 DEF IoPeer
  <2> QED BY <1>0, <2>1 DEF IoInv, TransferExact
<1> QED BY <1>1, <1>2, <1>3, <1>4, <1>5

(* The interrupters.  What is open follows from the place: nothing before  *)
(* and after a throw, the temporary descriptors while the two sockets are  *)
(* connected, and the two ends, non-blocking, when it is ready.            *)
IntrStates == [kind : {"eventfd", "pipe", "socket"}, opens : Nat, next : Nat \ {0}, stray : BOOLEAN,
          pc : {"eventfd", "plain", "pipe", "socket", "listening", "accepting", "ready", "thrown", "gone"},
          rd : Int, wr : Int, peer : Int, open : SUBSET Int, nonblock : SUBSET Int, temp : SUBSET Int,
          backlog : Seq(Int)]

OwnsNothing(r) == r.open = {} /\ r.nonblock = {} /\ r.temp = {}
Endless(r) == r.rd = Unopened /\ r.wr = Unopened

IntrParts(r) ==
  /\ ~r.stray
  /\ r.pc \in {"eventfd", "plain"} => r.kind = "eventfd"
  /\ r.pc = "pipe" => r.kind \in {"eventfd", "pipe"}
  /\ r.pc \in {"socket", "listening", "accepting"} => r.kind = "socket"
  /\ r.pc \in {"eventfd", "plain", "pipe", "socket", "thrown"} =>
       OwnsNothing(r) /\ Endless(r) /\ r.backlog = <<>>
  /\ r.pc = "listening" => Endless(r) /\ \A i \in DOMAIN r.backlog : r.backlog[i] = 0
  /\ r.pc = "accepting" => /\ r.rd = Unopened /\ r.wr \in r.temp /\ r.wr > 0
                           /\ r.backlog # <<>> /\ \A i \in DOMAIN r.backlog : r.backlog[i] \in {0, r.wr}
  /\ r.pc \in {"listening", "accepting"} => /\ r.open = r.temp /\ r.nonblock = {}
                                            /\ \A d \in r.temp : d < r.next
  /\ r.pc = "ready" => /\ r.open = {r.rd, r.wr} /\ r.nonblock = r.open /\ r.rd > 0 /\ r.wr > 0
                       /\ r.temp = {} /\ r.backlog = <<>>
                       /\ (r.kind # "eventfd" => r.rd # r.wr)
                       /\ r.peer \in {r.wr, 0} /\ (r.peer = 0 => r.kind = "socket")
  /\ r.pc = "gone" => r.open = {}

IntrInv == it \in IntrStates /\ IntrParts(it)

LEMMA OpeningOf ==
  ASSUME it \in IntrStates
  PROVE  /\ NewIds(1) = {it.next} /\ NewIds(2) = {it.next, it.next + 1}
         /\ Opening(it, {it.next}) = [it EXCEPT !.open = @ \cup {it.next}, !.next = it.next + 1]
         /\ Opening(it, {it.next, it.next + 1}) = [it EXCEPT !.open = @ \cup {it.next, it.next + 1}, !.next = it.next + 2]
<1>1. it.next \in Nat /\ it.next # it.next + 1
  BY DEF IntrStates
<1>2. NewIds(1) = {it.next} /\ NewIds(2) = {it.next, it.next + 1}
  BY <1>1 DEF NewIds
<1>3. Cardinality({it.next}) = 1
  BY FS_Singleton
<1>4. Cardinality({it.next, it.next + 1}) = 2
  <2>1. {it.next, it.next + 1} = {it.next} \cup {it.next + 1} /\ it.next + 1 \notin {it.next}
    BY <1>1
  <2>2. IsFiniteSet({it.next})
    BY FS_Singleton
  <2>3. Cardinality({it.next} \cup {it.next + 1}) = Cardinality({it.next}) + 1
    BY <2>1, <2>2, FS_AddElement
  <2> QED BY <1>3, <2>1, <2>3
<1> QED BY <1>2, <1>3, <1>4 DEF Opening

LEMMA ClosingOf ==
  ASSUME NEW r \in IntrStates, NEW ids, ids \subseteq r.open
  PROVE  Closing(r, ids) = [r EXCEPT !.open = @ \ ids, !.nonblock = @ \ ids]
<1>1. (r.stray \/ ~(ids \subseteq r.open)) = r.stray
  BY DEF IntrStates
<1>2. Closing(r, ids) = [r EXCEPT !.open = @ \ ids, !.nonblock = @ \ ids, !.stray = r.stray]
  BY <1>1 DEF Closing
<1>3. [r EXCEPT !.open = @ \ ids, !.nonblock = @ \ ids, !.stray = r.stray]
       = [r EXCEPT !.open = @ \ ids, !.nonblock = @ \ ids]
  BY DEF IntrStates
<1> QED BY <1>2, <1>3

LEMMA ThrowsOf ==
  ASSUME NEW r \in IntrStates, r.temp = r.open, r.nonblock = {}, ~r.stray, Endless(r)
  PROVE  Throws(r) \in IntrStates /\ IntrParts(Throws(r))
<1>1. Closing(r, r.temp) = [r EXCEPT !.open = @ \ r.temp, !.nonblock = @ \ r.temp]
  BY ClosingOf
<1>2. PICK u : u = Throws(r)
  OBVIOUS
<1>3. /\ u \in IntrStates /\ u.pc = "thrown" /\ u.temp = {} /\ u.open = {} /\ u.nonblock = {}
      /\ u.rd = r.rd /\ u.wr = r.wr /\ u.stray = r.stray /\ u.backlog = <<>>
  <2>1. u = [[r EXCEPT !.open = @ \ r.temp, !.nonblock = @ \ r.temp] EXCEPT
               !.pc = "thrown", !.temp = {}, !.backlog = <<>>]
    BY <1>1, <1>2 DEF Throws
  <2>2. r.open \ r.temp \in SUBSET Int /\ r.nonblock \ r.temp \in SUBSET Int /\ <<>> \in Seq(Int)
    BY DEF IntrStates
  <2>3. u \in IntrStates
    BY <2>1, <2>2 DEF IntrStates
  <2>4. /\ u.pc = "thrown" /\ u.temp = {} /\ u.open = r.open \ r.temp /\ u.nonblock = r.nonblock \ r.temp
        /\ u.rd = r.rd /\ u.wr = r.wr /\ u.stray = r.stray /\ u.backlog = <<>>
    BY <2>1 DEF IntrStates
  <2> QED BY <2>3, <2>4
<1>4. IntrParts(u)
  BY <1>3 DEF IntrParts, OwnsNothing, Endless
<1> QED BY <1>2, <1>3, <1>4

LEMMA IntrOpens ==
  ASSUME IntrInv, PipeOpens \/ EventfdOpens \/ EventfdPlain \/ SocketListens
  PROVE  IntrInv'
<1> USE DEF IntrInv
<1>1. /\ it.pc \in {"eventfd", "plain", "pipe", "socket"} /\ OwnsNothing(it) /\ Endless(it)
      /\ it.backlog = <<>> /\ ~it.stray /\ it.next \in Nat /\ it.next > 0
  BY DEF PipeOpens, EventfdOpens, EventfdPlain, SocketListens, IntrParts, IntrStates
<1>2. PICK u : u = it'
  OBVIOUS
<1>3. SUFFICES u \in IntrStates /\ IntrParts(u)
  BY <1>2
<1>4. ASSUME u = [it EXCEPT !.pc = "pipe"], it.kind = "eventfd" PROVE u \in IntrStates /\ IntrParts(u)
  <2>1. u \in IntrStates
    BY <1>4 DEF IntrStates
  <2>2. /\ u.pc = "pipe" /\ u.kind = it.kind /\ u.open = it.open /\ u.nonblock = it.nonblock /\ u.temp = it.temp
        /\ u.rd = it.rd /\ u.wr = it.wr /\ u.stray = it.stray /\ u.backlog = it.backlog
    BY <1>4 DEF IntrStates
  <2> QED BY <1>1, <1>4, <2>1, <2>2 DEF IntrParts, OwnsNothing, Endless
<1>5. ASSUME it.kind = "eventfd",
             u = [Opening(it, NewIds(1)) EXCEPT !.pc = "ready", !.rd = it.next, !.wr = it.next, !.peer = it.next,
                                          !.nonblock = @ \cup {it.next}]
      PROVE  u \in IntrStates /\ IntrParts(u)
  <2>1. u = [[it EXCEPT !.open = @ \cup {it.next}, !.next = it.next + 1] EXCEPT !.pc = "ready", !.rd = it.next,
                 !.wr = it.next, !.peer = it.next, !.nonblock = @ \cup {it.next}]
    BY <1>5, OpeningOf
  <2>2. u \in IntrStates
    <3>1. /\ it.next + 1 \in Nat \ {0} /\ it.open \cup {it.next} \in SUBSET Int
          /\ it.nonblock \cup {it.next} \in SUBSET Int /\ it.next \in Int
      BY <1>1 DEF IntrStates
    <3> QED BY <2>1, <3>1, ZenonT(60) DEF IntrStates
  <2>3. /\ u.pc = "ready" /\ u.kind = it.kind /\ u.open = it.open \cup {it.next} /\ u.temp = it.temp
        /\ u.nonblock = it.nonblock \cup {it.next}
        /\ u.rd = it.next /\ u.wr = it.next /\ u.peer = it.next /\ u.stray = it.stray /\ u.backlog = it.backlog
    BY <1>1, <2>1 DEF IntrStates
  <2> QED BY <1>1, <1>5, <2>2, <2>3 DEF IntrParts, OwnsNothing
<1>6. CASE PipeOpens
  <2>1. CASE u = Throws(it)
    BY <1>1, <2>1, ThrowsOf DEF OwnsNothing
  <2>2. CASE u # Throws(it)
    <3>1. u = [[it EXCEPT !.open = @ \cup {it.next, it.next + 1}, !.next = it.next + 2] EXCEPT
                !.pc = "ready", !.rd = it.next, !.wr = it.next + 1, !.peer = it.next + 1,
                !.nonblock = @ \cup {it.next, it.next + 1}]
      BY <1>2, <1>6, <2>2, OpeningOf DEF PipeOpens
    <3>2. u \in IntrStates
      <4>1. /\ it.next + 2 \in Nat \ {0} /\ it.open \cup {it.next, it.next + 1} \in SUBSET Int
            /\ it.nonblock \cup {it.next, it.next + 1} \in SUBSET Int /\ it.next \in Int /\ it.next + 1 \in Int
        BY <1>1 DEF IntrStates
      <4> QED BY <3>1, <4>1, ZenonT(60) DEF IntrStates
    <3>3. /\ u.pc = "ready" /\ u.kind = it.kind /\ u.open = it.open \cup {it.next, it.next + 1} /\ u.temp = it.temp
          /\ u.nonblock = it.nonblock \cup {it.next, it.next + 1}
          /\ u.rd = it.next /\ u.wr = it.next + 1 /\ u.peer = it.next + 1 /\ u.stray = it.stray
          /\ u.backlog = it.backlog
      BY <1>1, <3>1 DEF IntrStates
    <3>4. it.next + 1 \in Nat /\ it.next + 1 > 0 /\ it.next # it.next + 1 /\ it.next + 1 # 0
      BY <1>1
    <3> QED BY <1>1, <3>2, <3>3, <3>4 DEF IntrParts, OwnsNothing
  <2> QED BY <2>1, <2>2
<1>7. CASE EventfdOpens
  <2>1. it.kind = "eventfd"
    BY <1>7 DEF EventfdOpens, IntrParts
  <2>2. CASE u = [it EXCEPT !.pc = "plain"]
    <3>1. u \in IntrStates
      BY <2>2 DEF IntrStates
    <3>2. /\ u.pc = "plain" /\ u.kind = it.kind /\ u.open = it.open /\ u.nonblock = it.nonblock /\ u.temp = it.temp
          /\ u.rd = it.rd /\ u.wr = it.wr /\ u.stray = it.stray /\ u.backlog = it.backlog
      BY <2>2 DEF IntrStates
    <3> QED BY <1>1, <2>1, <3>1, <3>2 DEF IntrParts, OwnsNothing, Endless
  <2> QED BY <1>2, <1>4, <1>5, <1>7, <2>1, <2>2 DEF EventfdOpens
<1>8. CASE EventfdPlain
  <2>1. it.kind = "eventfd"
    BY <1>8 DEF EventfdPlain, IntrParts
  <2> QED BY <1>2, <1>4, <1>5, <1>8, <2>1 DEF EventfdPlain
<1>9. CASE SocketListens
  <2>1. PICK r : r = [Opening(it, NewIds(1)) EXCEPT !.temp = NewIds(1)]
    OBVIOUS
  <2>2. r = [[it EXCEPT !.open = @ \cup {it.next}, !.next = it.next + 1] EXCEPT !.temp = {it.next}]
    BY <2>1, OpeningOf
  <2>3. r \in IntrStates
    <3>1. it.next + 1 \in Nat \ {0} /\ it.open \cup {it.next} \in SUBSET Int /\ {it.next} \in SUBSET Int
      BY <1>1 DEF IntrStates
    <3> QED BY <2>2, <3>1 DEF IntrStates
  <2>4. /\ r.temp = {it.next} /\ r.open = {it.next} /\ r.nonblock = {} /\ r.stray = it.stray
        /\ r.rd = it.rd /\ r.wr = it.wr /\ r.next = it.next + 1 /\ r.backlog = it.backlog /\ r.kind = it.kind
    BY <1>1, <2>2 DEF IntrStates, OwnsNothing
  <2>5. u = [r EXCEPT !.pc = "listening"] \/ u = Throws(r)
    BY <1>2, <1>9, <2>1 DEF SocketListens
  <2>6. CASE u = Throws(r)
    BY <1>1, <2>3, <2>4, <2>6, ThrowsOf DEF Endless
  <2>7. CASE u = [r EXCEPT !.pc = "listening"]
    <3>1. u \in IntrStates
      BY <2>3, <2>7 DEF IntrStates
    <3>2. /\ u.temp = {it.next} /\ u.open = {it.next} /\ u.nonblock = {} /\ u.stray = it.stray /\ u.kind = it.kind
          /\ u.rd = it.rd /\ u.wr = it.wr /\ u.next = it.next + 1 /\ u.backlog = <<>> /\ u.pc = "listening"
      BY <1>1, <2>3, <2>4, <2>7 DEF IntrStates
    <3>3. it.kind = "socket" /\ it.next < it.next + 1
      BY <1>1, <1>9 DEF SocketListens, IntrParts
    <3> QED BY <1>1, <3>1, <3>2, <3>3 DEF IntrParts, Endless
  <2> QED BY <2>5, <2>6, <2>7
<1> QED BY <1>6, <1>7, <1>8, <1>9

LEMMA IntrConnects ==
  ASSUME IntrInv, Stranger \/ SocketConnects \/ SocketAccepts
  PROVE  IntrInv'
<1> USE DEF IntrInv
<1>1. /\ it.pc \in {"listening", "accepting"} /\ it.kind = "socket" /\ it.open = it.temp /\ it.nonblock = {}
      /\ it.rd = Unopened /\ ~it.stray /\ it.next \in Nat /\ it.next > 0 /\ it.backlog \in Seq(Int)
      /\ \A d \in it.temp : d \in Int /\ d < it.next
  BY DEF Stranger, SocketConnects, SocketAccepts, IntrParts, IntrStates, Endless
<1>2. PICK u : u = it'
  OBVIOUS
<1>3. SUFFICES u \in IntrStates /\ IntrParts(u)
  BY <1>2
<1>4. ASSUME NEW d \in Int
      PROVE  /\ Append(it.backlog, d) \in Seq(Int) /\ Append(it.backlog, d) # <<>>
             /\ \A i \in DOMAIN Append(it.backlog, d) :
                  Append(it.backlog, d)[i] = d \/ (i \in DOMAIN it.backlog /\ Append(it.backlog, d)[i] = it.backlog[i])
  <2> DEFINE b == it.backlog  a == Append(b, d)
  <2>1. /\ a \in Seq(Int) /\ Len(b) \in Nat /\ DOMAIN b = 1..Len(b) /\ DOMAIN a = 1..(Len(b) + 1)
        /\ a[Len(b) + 1] = d /\ \A i \in 1..Len(b) : a[i] = b[i]
    BY <1>1, AppendProperties, LenProperties
  <2>2. a # <<>>
    BY <2>1
  <2> QED BY <2>1, <2>2
<1>5. CASE Stranger
  <2>1. u = [it EXCEPT !.backlog = Append(it.backlog, 0)] /\ Append(it.backlog, 0) \in Seq(Int)
    BY <1>2, <1>4, <1>5 DEF Stranger
  <2>2. u \in IntrStates
    BY <2>1 DEF IntrStates
  <2>3. /\ u.pc = it.pc /\ u.kind = it.kind /\ u.open = it.open /\ u.nonblock = it.nonblock /\ u.temp = it.temp
        /\ u.rd = it.rd /\ u.wr = it.wr /\ u.stray = it.stray /\ u.backlog = Append(it.backlog, 0) /\ u.next = it.next
    BY <2>1 DEF IntrStates
  <2>4. u.backlog # <<>> /\ \A i \in DOMAIN u.backlog : u.backlog[i] = 0 \/ (i \in DOMAIN it.backlog /\ u.backlog[i] = it.backlog[i])
    BY <1>4, <2>3
  <2> QED BY <1>1, <2>2, <2>3, <2>4 DEF IntrParts, Endless
<1>6. CASE SocketConnects
  <2>0. Endless(it) /\ \A i \in DOMAIN it.backlog : it.backlog[i] = 0
    BY <1>6 DEF SocketConnects, IntrParts
  <2>1. PICK r : r = [Opening(it, NewIds(1)) EXCEPT !.temp = @ \cup NewIds(1)]
    OBVIOUS
  <2>2. r = [[it EXCEPT !.open = @ \cup {it.next}, !.next = it.next + 1] EXCEPT !.temp = @ \cup {it.next}]
    BY <2>1, OpeningOf
  <2>3. r \in IntrStates
    <3>1. it.next + 1 \in Nat \ {0} /\ it.open \cup {it.next} \in SUBSET Int /\ it.temp \cup {it.next} \in SUBSET Int
      BY <1>1 DEF IntrStates
    <3> QED BY <2>2, <3>1 DEF IntrStates
  <2>4. /\ r.temp = it.temp \cup {it.next} /\ r.open = it.open \cup {it.next} /\ r.nonblock = it.nonblock
        /\ r.stray = it.stray /\ r.rd = it.rd /\ r.wr = it.wr /\ r.next = it.next + 1 /\ r.backlog = it.backlog
        /\ r.kind = it.kind
    BY <2>2 DEF IntrStates
  <2>5. u = [r EXCEPT !.pc = "accepting", !.wr = it.next, !.backlog = Append(@, it.next)] \/ u = Throws(r)
    BY <1>2, <1>6, <2>1 DEF SocketConnects
  <2>6. CASE u = Throws(r)
    BY <1>1, <2>0, <2>3, <2>4, <2>6, ThrowsOf DEF Endless
  <2>7. CASE u # Throws(r)
    <3>1. u = [r EXCEPT !.pc = "accepting", !.wr = it.next, !.backlog = Append(it.backlog, it.next)]
      BY <2>4, <2>5, <2>7
    <3>2. Append(it.backlog, it.next) \in Seq(Int) /\ it.next \in Int
      BY <1>1, <1>4
    <3>3. u \in IntrStates
      BY <2>3, <3>1, <3>2 DEF IntrStates
    <3>4. /\ u.temp = it.temp \cup {it.next} /\ u.open = it.open \cup {it.next} /\ u.nonblock = {} /\ u.stray = it.stray
          /\ u.kind = it.kind /\ u.rd = it.rd /\ u.wr = it.next /\ u.next = it.next + 1
          /\ u.backlog = Append(it.backlog, it.next) /\ u.pc = "accepting"
      BY <1>1, <2>3, <2>4, <3>1 DEF IntrStates
    <3>5. u.backlog # <<>> /\ \A i \in DOMAIN u.backlog : u.backlog[i] \in {0, it.next}
      BY <1>1, <1>4, <2>0, <3>4
    <3>6. \A d \in u.temp : d < it.next + 1
      BY <1>1, <3>4
    <3> QED BY <1>1, <3>3, <3>4, <3>5, <3>6 DEF IntrParts
  <2> QED BY <2>6, <2>7
<1>7. CASE SocketAccepts
  <2>0. /\ it.wr \in it.temp /\ it.wr > 0 /\ it.wr \in Int /\ it.wr < it.next /\ it.pc = "accepting"
        /\ it.backlog # <<>> /\ \A i \in DOMAIN it.backlog : it.backlog[i] \in {0, it.wr}
    BY <1>1, <1>7 DEF SocketAccepts, IntrParts
  <2>1. CASE u = [Throws(it) EXCEPT !.wr = Unopened]
    <3>1. Closing(it, it.temp) = [it EXCEPT !.open = @ \ it.temp, !.nonblock = @ \ it.temp]
      BY <1>1, ClosingOf
    <3>2. u = [[[it EXCEPT !.open = @ \ it.temp, !.nonblock = @ \ it.temp] EXCEPT
                 !.pc = "thrown", !.temp = {}, !.backlog = <<>>] EXCEPT !.wr = Unopened]
      BY <2>1, <3>1 DEF Throws
    <3>3. /\ it.open \ it.temp \in SUBSET Int /\ it.nonblock \ it.temp \in SUBSET Int /\ <<>> \in Seq(Int)
          /\ Unopened \in Int
      BY DEF IntrStates, Unopened
    <3>4. u \in IntrStates
      BY <3>2, <3>3 DEF IntrStates
    <3>5. /\ u.pc = "thrown" /\ u.temp = {} /\ u.open = it.open \ it.temp /\ u.nonblock = it.nonblock \ it.temp
          /\ u.rd = it.rd /\ u.wr = Unopened /\ u.stray = it.stray /\ u.backlog = <<>>
      BY <3>2, <3>3 DEF IntrStates
    <3> QED BY <1>1, <3>4, <3>5 DEF IntrParts, OwnsNothing, Endless
  <2>2. CASE u # [Throws(it) EXCEPT !.wr = Unopened]
    <3>1. PICK r : r = [it EXCEPT !.open = @ \cup {it.next}, !.next = it.next + 1]
      OBVIOUS
    <3>2. r \in IntrStates
      <4>1. it.next + 1 \in Nat \ {0} /\ it.open \cup {it.next} \in SUBSET Int
        BY <1>1 DEF IntrStates
      <4> QED BY <3>1, <4>1 DEF IntrStates
    <3>3. PICK ids : ids = it.temp \ {it.wr}
      OBVIOUS
    <3>4. r.open = it.open \cup {it.next} /\ ids \subseteq r.open
      BY <1>1, <3>1, <3>3 DEF IntrStates
    <3>5. Closing(r, ids) = [r EXCEPT !.open = @ \ ids, !.nonblock = @ \ ids]
      BY <3>2, <3>4, ClosingOf
    <3>6. PICK h : h = Head(it.backlog)
      OBVIOUS
    <3>7. h \in {0, it.wr} /\ h \in Int
      <4>1. h = it.backlog[1] /\ 1 \in DOMAIN it.backlog
        BY <1>1, <2>0, <3>6
      <4> QED BY <2>0, <4>1
    <3>8. u = [[r EXCEPT !.open = @ \ ids, !.nonblock = @ \ ids] EXCEPT
                 !.pc = "ready", !.rd = it.next, !.peer = h, !.temp = {}, !.backlog = <<>>,
                 !.nonblock = @ \cup {it.next, it.wr}]
      <4>1. Opening(it, NewIds(1)) = r
        BY <3>1, OpeningOf
      <4>2. it' = [Closing(r, ids) EXCEPT
                 !.pc = "ready", !.rd = it.next, !.peer = h, !.temp = {}, !.backlog = <<>>,
                 !.nonblock = @ \cup {it.next, it.wr}]
        BY <1>2, <1>7, <2>2, <3>3, <3>6, <4>1 DEF SocketAccepts
      <4> QED BY <1>2, <3>5, <4>2
    <3>9. /\ r.open \ ids \in SUBSET Int /\ (r.nonblock \ ids) \cup {it.next, it.wr} \in SUBSET Int
          /\ <<>> \in Seq(Int) /\ it.next \in Int
      BY <1>1, <2>0, <3>2 DEF IntrStates
    <3>10. u \in IntrStates
      BY <3>2, <3>7, <3>8, <3>9, ZenonT(60) DEF IntrStates
    <3>11. /\ u.pc = "ready" /\ u.open = r.open \ ids /\ u.nonblock = (r.nonblock \ ids) \cup {it.next, it.wr}
           /\ u.rd = it.next /\ u.wr = r.wr /\ u.peer = h /\ u.temp = {} /\ u.backlog = <<>> /\ u.stray = r.stray
           /\ u.kind = r.kind
      BY <3>2, <3>8 DEF IntrStates
    <3>12. r.wr = it.wr /\ r.stray = it.stray /\ r.kind = it.kind /\ r.nonblock = it.nonblock
      BY <3>1 DEF IntrStates
    <3>13. r.open \ ids = {it.next, it.wr} /\ it.next # it.wr
      BY <1>1, <2>0, <3>3, <3>4
    <3> QED BY <1>1, <2>0, <3>7, <3>10, <3>11, <3>12, <3>13 DEF IntrParts
  <2> QED BY <2>1, <2>2
<1> QED BY <1>5, <1>6, <1>7

(* Both ends are closed, once: one number or two.                          *)
LEMMA DescriptorsClosed ==
  ASSUME IntrInv, Exists
  PROVE  \E u : /\ u = CloseDescriptors(it) /\ u \in IntrStates /\ u.open = {} /\ u.nonblock = {}
                /\ u.stray = it.stray /\ u.temp = {} /\ u.kind = it.kind /\ u.opens = it.opens
                /\ u.backlog = it.backlog
<1> USE DEF IntrInv
<1> DEFINE P(u) == /\ u \in IntrStates /\ u.open = {} /\ u.nonblock = {}
                   /\ u.stray = it.stray /\ u.temp = {} /\ u.kind = it.kind /\ u.opens = it.opens
                   /\ u.backlog = it.backlog
<1>1. CASE it.pc = "thrown"
  <2>1. it.open = {} /\ it.nonblock = {} /\ it.temp = {} /\ it.rd = Unopened /\ it.wr = Unopened
    BY <1>1 DEF IntrParts, OwnsNothing, Endless
  <2>2. CloseDescriptors(it) = it
    BY <2>1 DEF CloseDescriptors, EventfdCloses, PipeCloses, SocketCloses, CloseOne, IntrStates
  <2> QED BY <2>1, <2>2
<1>2. CASE it.pc = "ready"
  <2>1. /\ it.open = {it.rd, it.wr} /\ it.nonblock = it.open /\ it.rd > 0 /\ it.wr > 0 /\ it.temp = {}
        /\ (it.kind # "eventfd" => it.rd # it.wr) /\ it.rd \in Int /\ it.wr \in Int
        /\ it.rd # Unopened /\ it.wr # Unopened
    BY <1>2 DEF IntrParts, IntrStates, Unopened
  <2>2. ASSUME NEW a, NEW b, {a, b} = {it.rd, it.wr}, a # b
        PROVE  P(CloseOne(CloseOne(it, a), b))
    <3>1. CloseOne(it, a) = [it EXCEPT !.open = @ \ {a}, !.nonblock = @ \ {a}]
      BY <2>1, <2>2, ClosingOf DEF CloseOne
    <3>2. PICK v : v = CloseOne(it, a)
      OBVIOUS
    <3>3. it.open \ {a} = {b} /\ {b} \in SUBSET Int /\ it.nonblock \ {a} = {b}
      BY <2>1, <2>2
    <3>4. v \in IntrStates
      BY <3>1, <3>2, <3>3, ZenonT(60) DEF IntrStates
    <3>5. /\ v.open = {b} /\ v.nonblock = {b} /\ v.stray = it.stray /\ v.temp = it.temp /\ v.kind = it.kind
          /\ v.opens = it.opens /\ v.backlog = it.backlog
      BY <3>1, <3>2, <3>3 DEF IntrStates
    <3>6. PICK u : u = CloseOne(v, b)
      OBVIOUS
    <3>7. u = [v EXCEPT !.open = @ \ {b}, !.nonblock = @ \ {b}]
      BY <2>1, <2>2, <3>4, <3>5, <3>6, ClosingOf DEF CloseOne
    <3>8. v.open \ {b} = {} /\ v.nonblock \ {b} = {} /\ {} \in SUBSET Int
      BY <3>5
    <3>9. u \in IntrStates
      BY <3>4, <3>7, <3>8 DEF IntrStates
    <3>10. /\ u.open = {} /\ u.nonblock = {} /\ u.stray = v.stray /\ u.temp = v.temp /\ u.kind = v.kind
          /\ u.opens = v.opens /\ u.backlog = v.backlog
      BY <3>4, <3>7, <3>8 DEF IntrStates
    <3> QED BY <2>1, <3>2, <3>5, <3>6, <3>9, <3>10
  <2>3. CASE it.rd = it.wr
    <3>1. it.kind = "eventfd" /\ CloseDescriptors(it) = CloseOne(it, it.rd)
      BY <2>1, <2>3 DEF CloseDescriptors, EventfdCloses
    <3>2. CloseOne(it, it.rd) = [it EXCEPT !.open = @ \ {it.rd}, !.nonblock = @ \ {it.rd}]
      BY <2>1, ClosingOf DEF CloseOne
    <3>3. PICK u : u = CloseOne(it, it.rd)
      OBVIOUS
    <3>4. it.open \ {it.rd} = {} /\ it.nonblock \ {it.rd} = {} /\ {} \in SUBSET Int
      BY <2>1, <2>3
    <3>5. u \in IntrStates
      BY <3>2, <3>3, <3>4, ZenonT(60) DEF IntrStates
    <3>6. /\ u.open = {} /\ u.nonblock = {} /\ u.stray = it.stray /\ u.temp = it.temp /\ u.kind = it.kind
          /\ u.opens = it.opens /\ u.backlog = it.backlog
      BY <3>2, <3>3, <3>4 DEF IntrStates
    <3> QED BY <2>1, <3>1, <3>3, <3>5, <3>6
  <2>4. CASE it.rd # it.wr
    <3>1. \/ CloseDescriptors(it) = CloseOne(CloseOne(it, it.rd), it.wr)
          \/ CloseDescriptors(it) = CloseOne(CloseOne(it, it.wr), it.rd)
      <4>1. it.kind \in {"eventfd", "pipe", "socket"}
        BY DEF IntrStates
      <4> QED BY <2>4, <4>1 DEF CloseDescriptors, EventfdCloses, PipeCloses, SocketCloses
    <3>2. P(CloseOne(CloseOne(it, it.rd), it.wr)) /\ P(CloseOne(CloseOne(it, it.wr), it.rd))
      <4>1. {it.rd, it.wr} = {it.wr, it.rd}
        OBVIOUS
      <4> HIDE DEF P
      <4> QED BY <2>2, <2>4, <4>1
    <3> QED BY <3>1, <3>2
  <2> QED BY <2>3, <2>4
<1> QED BY <1>1, <1>2 DEF Exists

LEMMA IntrCloses ==
  ASSUME IntrInv, IntrRecreate \/ IntrDestroy
  PROVE  IntrInv'
<1>1. PICK v : /\ v = CloseDescriptors(it) /\ v \in IntrStates /\ v.open = {} /\ v.nonblock = {}
               /\ v.stray = it.stray /\ v.temp = {} /\ v.kind = it.kind /\ v.opens = it.opens
               /\ v.backlog = it.backlog
  BY DescriptorsClosed DEF IntrRecreate, IntrDestroy
<1>2. it \in IntrStates /\ ~it.stray /\ it.backlog \in Seq(Int)
  BY DEF IntrInv, IntrParts, IntrStates
<1>3. PICK u : u = it'
  OBVIOUS
<1>4. SUFFICES u \in IntrStates /\ IntrParts(u)
  BY <1>3 DEF IntrInv
<1>5. CASE IntrDestroy
  <2>1. u = [v EXCEPT !.pc = "gone"]
    BY <1>1, <1>3, <1>5 DEF IntrDestroy
  <2>2. u \in IntrStates /\ u.pc = "gone" /\ u.open = {} /\ u.stray = v.stray
    BY <1>1, <2>1 DEF IntrStates
  <2> QED BY <1>1, <1>2, <2>2 DEF IntrParts
<1>6. CASE IntrRecreate
  <2>1. u = [v EXCEPT !.pc = it.kind, !.rd = Unopened, !.wr = Unopened, !.opens = v.opens + 1]
    BY <1>1, <1>3, <1>6 DEF IntrRecreate
  <2>2. it.kind \in {"eventfd", "pipe", "socket"} /\ v.opens + 1 \in Nat /\ Unopened \in Int
    BY <1>1, <1>2 DEF IntrStates, Unopened
  <2>3. u \in IntrStates
    BY <1>1, <2>1, <2>2, ZenonT(60) DEF IntrStates
  <2>4. /\ u.pc = it.kind /\ u.rd = Unopened /\ u.wr = Unopened /\ u.open = {} /\ u.nonblock = {}
        /\ u.temp = {} /\ u.kind = it.kind /\ u.stray = v.stray /\ u.backlog = it.backlog
    BY <1>1, <2>1, <2>2 DEF IntrStates
  <2>5. it.backlog = <<>>
    BY <1>6 DEF IntrRecreate, Exists, IntrInv, IntrParts
  <2> QED BY <1>1, <1>2, <2>2, <2>3, <2>4, <2>5 DEF IntrParts, OwnsNothing, Endless
<1> QED BY <1>5, <1>6

LEMMA IntrImplies == IntrInv => InterrupterKept
BY DEF IntrInv, IntrParts, IntrStates, InterrupterKept, OwnsNothing

OwnersInv == SockInv /\ IoInv /\ IntrInv

LEMMA OwnersStart == MCInit => OwnersInv
<1> SUFFICES ASSUME SockInit, IntrInit PROVE OwnersInv
  BY DEF MCInit
<1>1. SockTypes
  BY DEF SockInit, SockTypes, Invalid, Hold, NoFd
<1>2. HoldsOnce /\ Held /\ GensPast /\ BrokenClosed /\ Live
  BY DEF SockInit, Invalid, Hold, NoFd, HoldsOnce, Held, GensPast, BrokenClosed, Live
<1>3. IoInv
  <2>1. PICK d \in BOOLEAN : d = FALSE
    OBVIOUS
  <2>2. io = [pc |-> "try", done |-> 0, time |-> IoTime, ready |-> 0, moved |-> 0, failed |-> d]
    BY <2>1 DEF SockInit, IoStart
  <2>3. io \in IoStates /\ io.done = 0 /\ io.moved = 0 /\ io.pc = "try"
    BY <2>2, SocketAssumption DEF IoStates
  <2> QED BY <2>3, SocketAssumption DEF IoInv, TransferExact
<1>4. IntrInv
  <2>1. PICK d \in BOOLEAN : d = FALSE
    OBVIOUS
  <2>2. PICK k \in {"eventfd", "pipe", "socket"} :
          it = [kind |-> k, pc |-> k, rd |-> Unopened, wr |-> Unopened, open |-> {}, nonblock |-> {},
                backlog |-> <<>>, peer |-> Unopened, temp |-> {}, next |-> 1, stray |-> d, opens |-> 1]
    BY <2>1 DEF IntrInit
  <2>3. <<>> \in Seq(Int) /\ Unopened \in Int /\ {} \in SUBSET Int
    BY DEF Unopened
  <2>4. it \in IntrStates
    BY <2>2, <2>3 DEF IntrStates
  <2>5. IntrParts(it)
    BY <2>1, <2>2 DEF IntrParts, OwnsNothing, Endless
  <2> QED BY <2>4, <2>5 DEF IntrInv
<1> QED BY <1>1, <1>2, <1>3, <1>4 DEF OwnersInv, SockInv

LEMMA OwnersStep ==
  ASSUME OwnersInv, [MCNext]_all
  PROVE  OwnersInv' /\ [stray = {} => stray' \subseteq broken]_sockvars
<1> USE DEF OwnersInv
<1>1. ASSUME UNCHANGED sockvars PROVE (SockInv /\ IoInv)'
  BY <1>1 DEF sockvars, SockInv, SockTypes, HoldsOnce, Held, GensPast, BrokenClosed, Live, IoInv, TransferExact
<1>2. ASSUME UNCHANGED intrvars PROVE IntrInv'
  BY <1>2 DEF intrvars, IntrInv
<1>3. CASE SockNext /\ ButSocket
  <2>1. UNCHANGED intrvars
    BY <1>3 DEF ButSocket
  <2>2. CASE ObjectNext
    <3>1. UNCHANGED io
      BY <2>2 DEF ObjectNext
    <3>2. IoInv'
      BY <3>1 DEF IoInv, TransferExact
    <3> QED BY <1>2, <2>1, <2>2, <3>2, SocketsStep
  <2>3. CASE IoNext
    <3>1. IoInv'
      BY <2>3, TransferStep DEF IoNext
    <3>2. UNCHANGED <<kern, sock, gens, rawfds, broken, stray>>
      BY <2>3 DEF IoNext
    <3>3. SockInv'
      BY <3>2 DEF SockInv, SockTypes, HoldsOnce, Held, GensPast, BrokenClosed, Live
    <3> QED BY <1>2, <2>1, <3>1, <3>2, <3>3
  <2> QED BY <1>3, <2>2, <2>3 DEF SockNext
<1>4. CASE IntrNext /\ ButInterrupter
  <2>1. UNCHANGED sockvars
    BY <1>4 DEF ButInterrupter
  <2> QED BY <1>1, <1>4, <2>1, IntrOpens, IntrConnects, IntrCloses DEF IntrNext
<1>5. CASE ~(SockNext /\ ButSocket) /\ ~(IntrNext /\ ButInterrupter)
  <2>1. UNCHANGED sockvars /\ UNCHANGED intrvars
    BY <1>5 DEF MCNext, all, ButHttp, ButLock, ButPool, ButOwn, ButVector, ButStream, ButView, ButString,
                ButCookie, ButUri, ButInet, ButEndpoint, ButConnect, ButOptions
  <2> QED BY <1>1, <1>2, <2>1
<1> QED BY <1>3, <1>4, <1>5

(* Descriptors: for any number of socket objects, descriptors and calls,   *)
(* every open descriptor has one owner, an object or the caller, as long   *)
(* as connect_n has closed none under its object; only an object whose     *)
(* socket was closed like that closes one it does not own; send_n and      *)
(* recv_n return what they moved; and an interrupter that is ready has its *)
(* two ends open and non-blocking, one that threw or is gone holds none.   *)
THEOREM DescriptorsOwned == MCSpec => DescriptorsSafe
<1>1. OwnersInv => OneHolder /\ TransferExact /\ InterrupterKept
  BY SocketsHeldOnce, IntrImplies DEF OwnersInv, IoInv
<1>2. OwnersInv /\ [MCNext]_all => OwnersInv' /\ [stray = {} => stray' \subseteq broken]_sockvars
  BY OwnersStep
<1> QED BY <1>1, <1>2, OwnersStart, PTL DEF MCSpec, DescriptorsSafe, SocketSafe, StrayOnlyBroken

-----------------------------------------------------------------------------
(* Cookies. *)
(* The walk of checkAndGetFormatedMatchCookies: it leaves the cookies that *)
(* are not erased, each of them once.                                      *)
Erased(c, host, path, now) == Matches(c, host, path) /\ now >= c.expires

Unrepeated(q) == \A i, j \in DOMAIN q : IsSame(q[i], q[j]) => i = j

LEMMA UnrepeatedAppend ==
  ASSUME NEW C, NEW q \in Seq(C), NEW c \in C, Unrepeated(q), \A i \in DOMAIN q : ~IsSame(c, q[i])
  PROVE  /\ Append(q, c) \in Seq(C) /\ Unrepeated(Append(q, c))
         /\ ToSet(Append(q, c)) = ToSet(q) \cup {c}
<1> DEFINE a == Append(q, c)
<1>1. /\ a \in Seq(C) /\ Len(q) \in Nat /\ DOMAIN q = 1..Len(q) /\ DOMAIN a = 1..(Len(q) + 1)
      /\ a[Len(q) + 1] = c /\ \A i \in 1..Len(q) : a[i] = q[i]
  BY AppendProperties, LenProperties
<1>2. \A i \in DOMAIN a : i = Len(q) + 1 \/ i \in DOMAIN q
  BY <1>1
<1>3. Unrepeated(a)
  <2> SUFFICES ASSUME NEW i \in DOMAIN a, NEW j \in DOMAIN a, IsSame(a[i], a[j]) PROVE i = j
    BY DEF Unrepeated
  <2>1. \A d, e : IsSame(d, e) => IsSame(e, d)
    BY DEF IsSame
  <2> QED BY <1>1, <1>2, <2>1 DEF Unrepeated
<1>4. ToSet(a) = ToSet(q) \cup {c}
  <2>1. ToSet(a) = {a[i] : i \in DOMAIN a} /\ ToSet(q) = {q[i] : i \in DOMAIN q}
    BY DEF ToSet
  <2>2. Len(q) + 1 \in DOMAIN a /\ \A i \in DOMAIN q : i \in DOMAIN a
    BY <1>1
  <2> QED BY <1>1, <1>2, <2>1, <2>2
<1> QED BY <1>1, <1>3, <1>4

LEMMA KeepsOf ==
  ASSUME NEW C, NEW q \in Seq(C), NEW host, NEW path, NEW now, Unrepeated(q)
  PROVE  /\ Keeps(q, host, path, now) \in Seq(C) /\ Unrepeated(Keeps(q, host, path, now))
         /\ ToSet(Keeps(q, host, path, now)) = {c \in ToSet(q) : ~Erased(c, host, path, now)}
<1> DEFINE n == Len(q)
           E(c) == Erased(c, host, path, now)
           W == CHOOSE g : g = [i \in 0..n |-> IF i = 0 THEN <<>>
                                 ELSE IF E(q[i]) THEN g[i - 1] ELSE Append(g[i - 1], q[i])]
<1>1. Keeps(q, host, path, now) = W[n]
  BY DEF Keeps, Erased
<1>2. n \in Nat /\ DOMAIN q = 1..n /\ \A i \in 1..n : q[i] \in C
  BY LenProperties
<1> HIDE DEF n, E
<1>3. \E g \in [0..n -> Seq(C)] : g[0] = <<>> /\ \A i \in 1..n : g[i] = IF E(q[i]) THEN g[i - 1] ELSE Append(g[i - 1], q[i])
  <2> DEFINE F == [p \in (1..n) \X Seq(C) |-> IF E(q[p[1]]) THEN p[2] ELSE Append(p[2], q[p[1]])]
  <2>1. F \in [(1..n) \X Seq(C) -> Seq(C)]
    BY <1>2, AppendProperties
  <2>2. <<>> \in Seq(C)
    OBVIOUS
  <2>3. PICK f : f = F
    OBVIOUS
  <2>4. PICK g \in [0..n -> Seq(C)] : g[0] = <<>> /\ \A i \in 1..n : g[i] = f[<<i, g[i - 1]>>]
    <3>1. f \in [(1..n) \X Seq(C) -> Seq(C)]
      BY <2>1, <2>3
    <3>2. PICK V, v : V = Seq(C) /\ v = <<>>
      OBVIOUS
    <3>3. Walkable(V, v, n, f)
      BY <1>2, <2>2, <3>1, <3>2 DEF Walkable
    <3> HIDE DEF F
    <3>4. \E g : IsWalk(V, v, n, f, g)
      BY <3>3, WalkExists
    <3> QED BY <3>2, <3>4 DEF IsWalk
  <2>5. ASSUME NEW i \in 1..n PROVE g[i] = IF E(q[i]) THEN g[i - 1] ELSE Append(g[i - 1], q[i])
    <3>1. g[i - 1] \in Seq(C)
      BY <1>2
    <3>2. <<i, g[i - 1]>> \in (1..n) \X Seq(C)
      BY <3>1
    <3>3. f[<<i, g[i - 1]>>] = IF E(q[i]) THEN g[i - 1] ELSE Append(g[i - 1], q[i])
      BY <2>3, <3>2
    <3> QED BY <2>4, <3>3
  <2> QED BY <2>4, <2>5
<1>4. PICK g \in [0..n -> Seq(C)] : g[0] = <<>> /\ \A i \in 1..n : g[i] = IF E(q[i]) THEN g[i - 1] ELSE Append(g[i - 1], q[i])
  BY <1>3
<1>5. g = [i \in 0..n |-> IF i = 0 THEN <<>> ELSE IF E(q[i]) THEN g[i - 1] ELSE Append(g[i - 1], q[i])]
  <2>1. \A i \in 0..n : g[i] = IF i = 0 THEN <<>> ELSE IF E(q[i]) THEN g[i - 1] ELSE Append(g[i - 1], q[i])
    <3>1. \A i \in 0..n : i = 0 \/ i \in 1..n
      BY <1>2
    <3> QED BY <1>4, <3>1
  <2>2. g = [i \in 0..n |-> g[i]]
    OBVIOUS
  <2> QED BY <2>1, <2>2, Zenon
<1>6. W = [i \in 0..n |-> IF i = 0 THEN <<>> ELSE IF E(q[i]) THEN W[i - 1] ELSE Append(W[i - 1], q[i])]
  BY <1>5, ZenonT(60)
<1>7. /\ W[0] = <<>>
      /\ \A i \in 1..n : W[i] = IF E(q[i]) THEN W[i - 1] ELSE Append(W[i - 1], q[i])
  <2>1. 0 \in 0..n /\ \A i \in 1..n : i \in 0..n /\ i # 0
    BY <1>2
  <2> HIDE DEF W
  <2> QED BY <1>6, <2>1
<1> HIDE DEF W
<1> DEFINE Kept(i) == {q[j] : j \in {j \in 1..i : ~E(q[j])}}
           J(i) == W[i] \in Seq(C) /\ Unrepeated(W[i]) /\ ToSet(W[i]) = Kept(i)
           S == {i \in Nat : i <= n => J(i)}
<1>8. 0 \in S
  <2>1. <<>> \in Seq(C) /\ DOMAIN <<>> = {} /\ 1..0 = {}
    OBVIOUS
  <2>2. ToSet(<<>>) = {}
    BY <2>1 DEF ToSet
  <2> QED BY <1>7, <2>1, <2>2 DEF Unrepeated
<1>9. ASSUME NEW i \in S PROVE i + 1 \in S
  <2>1. SUFFICES ASSUME i + 1 <= n PROVE J(i + 1)
    OBVIOUS
  <2>2. i \in Nat /\ J(i) /\ i + 1 \in 1..n /\ (i + 1) - 1 = i /\ 1..(i + 1) = (1..i) \cup {i + 1}
    BY <1>2, <2>1
  <2>3. CASE E(q[i + 1])
    <3>1. W[i + 1] = W[i]
      BY <1>7, <2>2, <2>3
    <3>2. Kept(i + 1) = Kept(i)
      BY <2>2, <2>3
    <3> QED BY <2>2, <3>1, <3>2
  <2>4. CASE ~E(q[i + 1])
    <3>1. W[i + 1] = Append(W[i], q[i + 1])
      BY <1>7, <2>2, <2>4
    <3>2. Kept(i + 1) = Kept(i) \cup {q[i + 1]}
      BY <2>2, <2>4
    <3>3. ASSUME NEW k \in DOMAIN W[i] PROVE ~IsSame(q[i + 1], W[i][k])
      <4>1. W[i][k] \in Kept(i)
        BY <2>2, <3>3 DEF ToSet
      <4>2. PICK j \in 1..i : W[i][k] = q[j]
        BY <4>1
      <4>3. j \in DOMAIN q /\ i + 1 \in DOMAIN q /\ j # i + 1
        BY <1>2, <2>1, <2>2
      <4> QED BY <4>2, <4>3 DEF Unrepeated
    <3>4. q[i + 1] \in C
      BY <1>2, <2>2
    <3>5. PICK w, c : w = W[i] /\ c = q[i + 1]
      OBVIOUS
    <3>6. w \in Seq(C) /\ c \in C /\ Unrepeated(w) /\ \A k \in DOMAIN w : ~IsSame(c, w[k])
      BY <2>2, <3>3, <3>4, <3>5
    <3>7. Append(w, c) \in Seq(C) /\ Unrepeated(Append(w, c)) /\ ToSet(Append(w, c)) = ToSet(w) \cup {c}
      BY <3>6, UnrepeatedAppend
    <3> QED BY <2>2, <3>1, <3>2, <3>5, <3>7
  <2> QED BY <2>3, <2>4
<1>10. J(n)
  <2> HIDE DEF J
  <2>1. S = Nat
    BY <1>8, <1>9, Inductive
  <2> QED BY <1>2, <2>1
<1>11. Kept(n) = {c \in ToSet(q) : ~E(c)}
  BY <1>2 DEF ToSet
<1> QED BY <1>1, <1>10, <1>11 DEF E

(* A cookie as it is stored.                                               *)
CookieSet == [domain : UNION {Hosts, {AppendView(EmptyView, h) : h \in Hosts}}, path : Paths \cup {RootPath},
              name : Names, value : Values, expires : Int]

JarInv == jar \in Seq(CookieSet) /\ issued \subseteq CookieSet /\ clock \in Int /\ CookiesExact

LEMMA UpdatedOf ==
  ASSUME NEW C, NEW q \in Seq(C), NEW c \in C, Unrepeated(q)
  PROVE  /\ UpdateOrAdd(q, c) \in Seq(C) /\ Unrepeated(UpdateOrAdd(q, c))
         /\ ToSet(UpdateOrAdd(q, c)) = {d \in ToSet(q) : ~IsSame(c, d)} \cup {c}
<1>1. Len(q) \in Nat /\ DOMAIN q = 1..Len(q)
  BY LenProperties
<1>2. \A d, e, f : IsSame(d, e) /\ IsSame(e, f) => IsSame(e, d) /\ IsSame(d, f)
  BY DEF IsSame
<1>3. CASE \E i \in DOMAIN q : IsSame(c, q[i])
  <2>1. PICK i \in DOMAIN q : IsSame(c, q[i])
    BY <1>3
  <2>2. \A j \in DOMAIN q : IsSame(c, q[j]) => j = i
    BY <1>2, <2>1 DEF Unrepeated, IsSame
  <2>3. \A j \in 1..(i - 1) : j \in DOMAIN q /\ j # i
    BY <1>1
  <2>4. i = CHOOSE k \in DOMAIN q : IsSame(c, q[k]) /\ \A j \in 1..(k - 1) : ~IsSame(c, q[j])
    BY <2>1, <2>2, <2>3
  <2>5. UpdateOrAdd(q, c) = [q EXCEPT ![i] = c]
    BY <1>3, <2>4 DEF UpdateOrAdd
  <2>6. PICK u : u = [q EXCEPT ![i] = c]
    OBVIOUS
  <2>7. u \in Seq(C) /\ DOMAIN u = DOMAIN q /\ \A j \in DOMAIN q : u[j] = IF j = i THEN c ELSE q[j]
    BY <2>6, ExceptSeq
  <2>8. Unrepeated(u)
    BY <1>2, <2>1, <2>2, <2>7 DEF Unrepeated, IsSame
  <2>9. ToSet(u) = {d \in ToSet(q) : ~IsSame(c, d)} \cup {c}
    <3>1. ToSet(u) = {u[j] : j \in DOMAIN q} /\ ToSet(q) = {q[j] : j \in DOMAIN q}
      BY <2>7 DEF ToSet
    <3> QED BY <2>1, <2>2, <2>7, <3>1
  <2> QED BY <2>5, <2>6, <2>7, <2>8, <2>9
<1>4. CASE \A i \in DOMAIN q : ~IsSame(c, q[i])
  <2>1. UpdateOrAdd(q, c) = Append(q, c)
    BY <1>4 DEF UpdateOrAdd
  <2>2. {d \in ToSet(q) : ~IsSame(c, d)} = ToSet(q)
    BY <1>4 DEF ToSet
  <2> QED BY <1>4, <2>1, <2>2, UnrepeatedAppend
<1> QED BY <1>3, <1>4

LEMMA JarParts ==
  ASSUME JarInv
  PROVE  /\ Unrepeated(jar) /\ ToSet(jar) \subseteq issued
         /\ \A c \in issued : c.expires \in Int /\ (clock < c.expires => c \in ToSet(jar))
<1>1. Unrepeated(jar)
  BY DEF JarInv, CookiesExact, JarLatest, Unrepeated
<1>2. ToSet(jar) \subseteq issued
  BY DEF JarInv, CookiesExact, JarLatest, ToSet
<1>3. \A c \in issued : c.expires \in Int
  BY DEF JarInv, CookieSet
<1>4. \A c \in issued : clock < c.expires => c \in ToSet(jar)
  BY DEF JarInv, CookiesExact, JarLatest, ToSet
<1> QED BY <1>1, <1>2, <1>3, <1>4

LEMMA JarStep ==
  ASSUME JarInv, JarNext
  PROVE  JarInv'
<1>1. /\ Unrepeated(jar) /\ ToSet(jar) \subseteq issued
      /\ \A c \in issued : c.expires \in Int /\ (clock < c.expires => c \in ToSet(jar))
  BY JarParts
<1>2. jar \in Seq(CookieSet) /\ issued \subseteq CookieSet /\ clock \in Int
  BY DEF JarInv
<1>3. SUFFICES /\ jar' \in Seq(CookieSet) /\ issued' \subseteq CookieSet /\ clock' \in Int
               /\ Unrepeated(jar') /\ ToSet(jar') \subseteq issued'
               /\ \A c \in issued' : clock' < c.expires => c \in ToSet(jar')
               /\ SentExact'
  BY Zenon DEF JarInv, CookiesExact, JarLatest, Unrepeated, ToSet
<1>4. ASSUME sent' = Nothing PROVE SentExact'
  BY <1>4 DEF SentExact
<1>5. CASE SetCookie
  <2>1. PICK host \in Hosts, a \in [domain : Hosts \cup {EmptyView}, path : Paths \cup {EmptyView},
                                    name : Names, value : Values, expires : 0..LastTime] :
           /\ jar' = UpdateOrAdd(jar, Parsed(a, host))
           /\ issued' = {d \in issued : ~IsSame(Parsed(a, host), d)} \cup {Parsed(a, host)}
           /\ sent' = Nothing /\ clock' = clock
    BY <1>5 DEF SetCookie
  <2>2. PICK c : c = Parsed(a, host)
    OBVIOUS
  <2>3. c \in CookieSet
    BY <2>2, CookieAssumption DEF Parsed, CookieSet, Eternal
  <2>4. /\ jar' \in Seq(CookieSet) /\ Unrepeated(jar') /\ ToSet(jar') = {d \in ToSet(jar) : ~IsSame(c, d)} \cup {c}
    BY <1>1, <1>2, <2>1, <2>2, <2>3, UpdatedOf
  <2> QED BY <1>1, <1>2, <1>4, <2>1, <2>2, <2>3, <2>4
<1>6. CASE SendRequest
  <2>1. PICK host \in Hosts, path \in Paths :
           /\ sent' = [host |-> host, path |-> path, cookies |-> Sends(jar, host, path, clock)]
           /\ jar' = Keeps(jar, host, path, clock) /\ clock' = clock /\ issued' = issued
    BY <1>6 DEF SendRequest
  <2>2. /\ jar' \in Seq(CookieSet) /\ Unrepeated(jar')
        /\ ToSet(jar') = {c \in ToSet(jar) : ~Erased(c, host, path, clock)}
    BY <1>1, <1>2, <2>1, KeepsOf
  <2>3. \A c \in issued : clock < c.expires => c \in ToSet(jar')
    BY <1>1, <1>2, <2>2 DEF Erased
  <2>4. Sends(jar, host, path, clock) = {c \in ToSet(jar) : Matches(c, host, path) /\ clock < c.expires}
    BY DEF Sends, ToSet
  <2>5. Sends(jar, host, path, clock) = {c \in issued : Matches(c, host, path) /\ clock < c.expires}
    BY <1>1, <2>4
  <2>6. SentExact'
    <3>1. /\ sent'.host = host /\ sent'.path = path /\ sent'.cookies = Sends(jar, host, path, clock)
      BY <2>1
    <3> QED BY <2>1, <2>5, <3>1 DEF SentExact
  <2> QED BY <1>1, <1>2, <2>1, <2>2, <2>3, <2>6
<1>7. CASE ClockTick
  <2>1. jar' = jar /\ issued' = issued /\ sent' = Nothing /\ clock' = clock + 1
    BY <1>7 DEF ClockTick
  <2>2. \A c \in issued : clock + 1 < c.expires => c \in ToSet(jar)
    BY <1>1, <1>2
  <2> QED BY <1>1, <1>2, <1>4, <2>1, <2>2
<1>8. CASE Restart
  <2>1. jar' = <<>> /\ issued' = {} /\ sent' = Nothing /\ clock' = clock
    BY <1>8 DEF Restart, Reloaded
  <2>2. <<>> \in Seq(CookieSet) /\ DOMAIN <<>> = {}
    OBVIOUS
  <2>3. Unrepeated(<<>>) /\ ToSet(<<>>) = {}
    BY <2>2 DEF Unrepeated, ToSet
  <2> QED BY <1>2, <1>4, <2>1, <2>2, <2>3
<1> QED BY <1>5, <1>6, <1>7, <1>8 DEF JarNext

(* Cookies: for every set of hosts, paths, names and values, and any       *)
(* sequence of Set-Cookie headers, requests, ticks of the clock and        *)
(* restarts, the jar holds one cookie for a name and domain, the last the  *)
(* server set, until it has expired, and a request carries exactly the     *)
(* live cookies for its host and path, whatever was erased in the walk of  *)
(* checkAndGetFormatedMatchCookies.                                        *)
THEOREM CookiesKept == MCSpec => []CookiesExact
<1>1. MCInit => JarInv
  <2> SUFFICES ASSUME JarInit PROVE JarInv
    BY DEF MCInit
  <2>1. jar = <<>> /\ issued = {} /\ sent = Nothing /\ clock = 1 /\ DOMAIN <<>> = {} /\ <<>> \in Seq(CookieSet)
    BY DEF JarInit
  <2> QED BY <2>1 DEF JarInv, CookiesExact, JarLatest, SentExact
<1>2. JarInv /\ [MCNext]_all => JarInv'
  <2> SUFFICES ASSUME JarInv, [MCNext]_all PROVE JarInv'
    OBVIOUS
  <2>1. CASE JarNext
    BY <2>1, JarStep
  <2>2. CASE ~JarNext
    <3>1. UNCHANGED jarvars
      BY <2>2 DEF MCNext, all, ButHttp, ButLock, ButPool, ButOwn, ButVector, ButStream, ButView, ButString,
                  ButUri, ButInet, ButEndpoint, ButSocket, ButConnect, ButInterrupter, ButOptions
    <3> QED BY <3>1 DEF jarvars, JarInv, CookiesExact, JarLatest, SentExact
  <2> QED BY <2>1, <2>2
<1>3. JarInv => CookiesExact
  BY DEF JarInv
<1> QED BY <1>1, <1>2, <1>3, PTL DEF MCSpec

-----------------------------------------------------------------------------
(* Options.  First the front ends: a call that passes every argument in    *)
(* its place.                                                              *)
Straight(p, r) == Len(p) >= Len(r) /\ \A i \in 1..Len(r) : p[i] = <<r[i], i>>

LEMMA PassingOf ==
  ASSUME NEW T, NEW types \in Seq(T)
  PROVE  Straight(Passing(types), types)
<1>1. Len(types) \in Nat
  OBVIOUS
<1>2. Passing(types) \in [1..Len(types) -> T \X Nat]
  BY DEF Passing
<1>3. Passing(types) \in Seq(T \X Nat) /\ Len(Passing(types)) = Len(types)
  BY <1>1, <1>2, SeqDef, LenProperties
<1>4. \A i \in 1..Len(types) : Passing(types)[i] = <<types[i], i>>
  BY DEF Passing
<1> QED BY <1>1, <1>3, <1>4 DEF Straight

LEMMA IntsOf ==
  /\ Ints(1) = Passing(<<"int">>) /\ Ints(2) = Passing(<<"int", "int">>)
  /\ Ints(3) = Passing(<<"int", "int", "int">>) /\ Ints(4) = Passing(<<"int", "int", "int", "int">>)
  /\ Ints(5) = Passing(<<"int", "int", "int", "int", "int">>)
<1>1. [i \in 1..1 |-> "int"] = <<"int">>
  OBVIOUS
<1>2. [i \in 1..2 |-> "int"] = <<"int", "int">>
  OBVIOUS
<1>3. [i \in 1..3 |-> "int"] = <<"int", "int", "int">>
  OBVIOUS
<1>4. [i \in 1..4 |-> "int"] = <<"int", "int", "int", "int">>
  OBVIOUS
<1>5. [i \in 1..5 |-> "int"] = <<"int", "int", "int", "int", "int">>
  OBVIOUS
<1> QED BY <1>1, <1>2, <1>3, <1>4, <1>5 DEF Ints

LEMMA SignatureOf ==
  /\ DOMAIN Signature = DOMAIN ServiceReads \cup DOMAIN ChannelReads
  /\ \A o \in DOMAIN Signature : Signature[o] \in Seq({"int", "str", "fn"})
  /\ \A o \in DOMAIN ServiceReads : Signature[o] = ServiceReads[o]
  /\ \A o \in DOMAIN ChannelReads : Signature[o] = ChannelReads[o]
<1>1. \A o \in DOMAIN ServiceReads : o \notin DOMAIN ChannelReads
  BY DEF ServiceReads, ChannelReads
<1> DEFINE T == Seq({"int", "str", "fn"})
<1>2. \A o \in DOMAIN ServiceReads : ServiceReads[o] \in T
  <2>1. /\ <<>> \in T /\ <<"int">> \in T /\ <<"str">> \in T /\ <<"fn">> \in T
        /\ <<"str", "str">> \in T /\ <<"int", "int", "int">> \in T
    OBVIOUS
  <2> HIDE DEF T
  <2> QED BY <2>1 DEF ServiceReads
<1>3. \A o \in DOMAIN ChannelReads : ChannelReads[o] \in T
  <2>1. /\ <<"int">> \in T /\ <<"int", "str">> \in T /\ <<"int", "fn">> \in T /\ <<"int", "int">> \in T
        /\ <<"int", "int", "int">> \in T /\ <<"int", "str", "int">> \in T
        /\ <<"int", "int", "int", "int", "int">> \in T
    OBVIOUS
  <2> HIDE DEF T
  <2> QED BY <2>1 DEF ChannelReads
<1> QED BY <1>1, <1>2, <1>3 DEF Signature

LEMMA SolPassesAll == \A o \in SolExports \ KcpNames : SolPasses(o) = Passing(Signature[o])
<1>1. SolExports \ KcpNames \subseteq DOMAIN Signature
  BY SignatureOf DEF SolExports, KcpNames, ScriptOptions, ServiceReads, ChannelReads
<1>2. \A o \in (SolExports \ KcpNames) \cap DOMAIN ServiceReads : SolPasses(o) = Passing(ServiceReads[o])
  BY IntsOf DEF SolExports, KcpNames, ScriptOptions, ServiceReads, SolPasses
<1>3. \A o \in (SolExports \ KcpNames) \cap DOMAIN ChannelReads : SolPasses(o) = Passing(ChannelReads[o])
  BY IntsOf DEF SolExports, KcpNames, ScriptOptions, ChannelReads, SolPasses
<1> QED BY <1>1, <1>2, <1>3, SignatureOf

LEMMA KaguyaPassesAll == \A o \in KaguyaExports : KaguyaPasses(o) = Passing(Signature[o])
<1>1. KaguyaExports \subseteq DOMAIN Signature
  BY SignatureOf DEF KaguyaExports, ScriptOptions, ServiceReads, ChannelReads
<1>2. \A o \in KaguyaExports \cap DOMAIN ServiceReads : KaguyaPasses(o) = Passing(ServiceReads[o])
  BY IntsOf DEF KaguyaExports, ScriptOptions, ServiceReads, KaguyaPasses
<1>3. \A o \in KaguyaExports \cap DOMAIN ChannelReads : KaguyaPasses(o) = Passing(ChannelReads[o])
  BY IntsOf DEF KaguyaExports, ScriptOptions, ChannelReads, KaguyaPasses
<1> QED BY <1>1, <1>2, <1>3, SignatureOf

LEMMA JsbPassesAll == \A o \in JsbExports : JsbPasses(o) = Passing(Signature[o])
<1>1. JsbExports \subseteq DOMAIN Signature
  BY SignatureOf DEF JsbExports, KcpNames, ScriptOptions, ServiceReads, ChannelReads
<1>2. \A o \in JsbExports \cap DOMAIN ServiceReads : JsbPasses(o) = Passing(ServiceReads[o])
  BY IntsOf DEF JsbExports, KcpNames, ScriptOptions, ServiceReads, JsbPasses
<1>3. \A o \in JsbExports \cap DOMAIN ChannelReads : JsbPasses(o) = Passing(ChannelReads[o])
  BY IntsOf DEF JsbExports, KcpNames, ScriptOptions, ChannelReads, JsbPasses
<1> QED BY <1>1, <1>2, <1>3, SignatureOf

LEMMA Jsb20PassesAll == \A o \in Jsb20Exports : Jsb20Passes(o) = Passing(Signature[o])
<1>1. Jsb20Exports \subseteq DOMAIN Signature
  BY SignatureOf DEF Jsb20Exports, KcpNames, ScriptOptions, ServiceReads, ChannelReads
<1>2. \A o \in Jsb20Exports \cap DOMAIN ServiceReads : Jsb20Passes(o) = Passing(ServiceReads[o])
  BY IntsOf DEF Jsb20Exports, KcpNames, ScriptOptions, ServiceReads, Jsb20Passes
<1>3. \A o \in Jsb20Exports \cap DOMAIN ChannelReads : Jsb20Passes(o) = Passing(ChannelReads[o])
  BY IntsOf DEF Jsb20Exports, KcpNames, ScriptOptions, ChannelReads, Jsb20Passes
<1> QED BY <1>1, <1>2, <1>3, SignatureOf

LEMMA NiPassesAll ==
  \A o \in DOMAIN Signature \ {"DNS_LIST"} : NiPasses(o) = NoCall \/ Straight(NiPasses(o), Signature[o])
<1> SUFFICES ASSUME NEW o \in DOMAIN Signature, o # "DNS_LIST", NiPasses(o) # NoCall
             PROVE  Straight(NiPasses(o), Signature[o])
  OBVIOUS
<1>1. CASE o = "DNS_DIRTY"
  <2>1. Signature[o] = <<>>
    BY <1>1, SignatureOf DEF ServiceReads
  <2>2. NiPasses(o) = Passing(<<"int">>)
    BY <1>1, IntsOf DEF NiPasses
  <2>3. <<"int">> \in Seq({"int"}) /\ Len(<<"int">>) = 1
    OBVIOUS
  <2>4. Straight(Passing(<<"int">>), <<"int">>)
    BY <2>3, PassingOf
  <2>5. Len(Passing(<<"int">>)) >= 1
    BY <2>3, <2>4 DEF Straight
  <2>6. Passing(<<"int">>) \in Seq({"int"} \X Nat)
    <3>1. Passing(<<"int">>) \in [1..1 -> {"int"} \X Nat]
      BY <2>3 DEF Passing
    <3> QED BY <3>1, SeqDef, SMTT(30)
  <2> QED BY <2>1, <2>2, <2>6 DEF Straight
<1>2. CASE o = "TCP_KEEPALIVE"
  <2>1. Signature[o] = <<"int", "int", "int">>
    BY <1>2, SignatureOf DEF ServiceReads
  <2>2. NiPasses(o) = Passing(<<"int", "int", "int", "int">>)
    BY <1>2, IntsOf DEF NiPasses
  <2>3. <<"int", "int", "int", "int">> \in Seq({"int"})
    OBVIOUS
  <2>4. Straight(Passing(<<"int", "int", "int", "int">>), <<"int", "int", "int", "int">>)
    BY <2>3, PassingOf
  <2>5. Len(Passing(<<"int", "int", "int", "int">>)) >= 3
    <3>1. Passing(<<"int", "int", "int", "int">>) \in [1..4 -> {"int"} \X Nat]
      BY DEF Passing
    <3>2. Len(Passing(<<"int", "int", "int", "int">>)) = 4
      BY <3>1, SeqDef, LenProperties
    <3> QED BY <3>2
  <2> QED BY <2>1, <2>2, <2>4, <2>5 DEF Straight
<1>3. CASE o \notin {"DNS_DIRTY", "TCP_KEEPALIVE"}
  <2>1. CASE o \in DOMAIN ServiceReads
    <3>1. NiPasses(o) = Passing(ServiceReads[o])
      BY <1>3, <2>1, IntsOf DEF ServiceReads, NiPasses
    <3> QED BY <2>1, <3>1, SignatureOf, PassingOf
  <2>2. CASE o \in DOMAIN ChannelReads
    <3>1. NiPasses(o) = Passing(ChannelReads[o])
      BY <1>3, <2>2, IntsOf DEF ChannelReads, NiPasses
    <3> QED BY <2>2, <3>1, SignatureOf, PassingOf
  <2> QED BY <2>1, <2>2, SignatureOf
<1> QED BY <1>1, <1>2, <1>3

Agreed == ({"sol"} \X KcpNames) \cup {<<"ni", "DNS_LIST">>}

LEMMA PassesStraight ==
  ASSUME NEW f \in {"cpp", "ni", "sol", "kaguya", "jsb", "jsb20"}, NEW o \in Exports(f), <<f, o>> \notin Agreed
  PROVE  /\ o \in DOMAIN Signature
         /\ (f = "ni" /\ Passes(f, o) = NoCall) \/ Straight(Passes(f, o), Signature[o])
<1>1. o \in DOMAIN Signature
  BY SignatureOf DEF Exports, SolExports, KaguyaExports, JsbExports, Jsb20Exports, KcpNames, ScriptOptions,
                     ServiceReads, ChannelReads
<1>2. Straight(Passing(Signature[o]), Signature[o])
  BY <1>1, SignatureOf, PassingOf
<1>3. CASE f = "cpp"
  BY <1>1, <1>2, <1>3 DEF Passes
<1>4. CASE f = "ni"
  <2>1. o # "DNS_LIST" /\ Passes(f, o) = NiPasses(o)
    BY <1>4 DEF Agreed, Passes
  <2> QED BY <1>1, <1>4, <2>1, NiPassesAll
<1>5. CASE f = "sol"
  <2>1. o \in SolExports \ KcpNames /\ Passes(f, o) = SolPasses(o)
    BY <1>5 DEF Agreed, Passes, Exports
  <2> QED BY <1>1, <1>2, <2>1, SolPassesAll
<1>6. CASE f = "kaguya"
  <2>1. o \in KaguyaExports /\ Passes(f, o) = KaguyaPasses(o)
    BY <1>6 DEF Passes, Exports
  <2> QED BY <1>1, <1>2, <2>1, KaguyaPassesAll
<1>7. CASE f = "jsb"
  <2>1. o \in JsbExports /\ Passes(f, o) = JsbPasses(o)
    BY <1>7 DEF Passes, Exports
  <2> QED BY <1>1, <1>2, <2>1, JsbPassesAll
<1>8. CASE f = "jsb20"
  <2>1. o \in Jsb20Exports /\ Passes(f, o) = Jsb20Passes(o)
    BY <1>8 DEF Passes, Exports
  <2> QED BY <1>1, <1>2, <2>1, Jsb20PassesAll
<1> QED BY <1>3, <1>4, <1>5, <1>6, <1>7, <1>8

LEMMA ReceivesAll ==
  ASSUME NEW f, NEW o \in DOMAIN Signature, NEW U, NEW a \in Seq(U), Len(a) = Len(Signature[o]),
         Straight(Passes(f, o), Signature[o])
  PROVE  WellPassed(f, o) /\ Received(f, o, a) = a
<1> DEFINE p == Passes(f, o)  r == Signature[o]  n == Len(r)
<1>1. n \in Nat /\ \A i \in 1..n : p[i][1] = r[i] /\ p[i][2] = i
  <2>1. n \in Nat
    BY SignatureOf
  <2>2. \A i \in 1..n : p[i] = <<r[i], i>>
    BY DEF Straight
  <2> HIDE DEF p, r
  <2> QED BY <2>1, <2>2
<1>2. Len(p) >= n
  BY DEF Straight
<1>3. WellPassed(f, o)
  <2>1. WellPassed(f, o) <=> Len(p) >= n /\ \A i \in 1..n : p[i][1] = r[i]
    BY DEF WellPassed
  <2> HIDE DEF p, r, n
  <2> QED BY <1>1, <1>2, <2>1
<1>4. Received(f, o, a) = [i \in 1..n |-> IF p[i][2] <= Len(a) THEN a[p[i][2]] ELSE Missing(p[i][1])]
  BY DEF Received
<1>5. Len(a) = n
  OBVIOUS
<1> HIDE DEF p, r, n
<1>6. \A i \in 1..n : p[i][2] <= Len(a)
  BY <1>1, <1>5
<1>7. Received(f, o, a) = [i \in 1..n |-> a[i]]
  BY <1>1, <1>4, <1>6
<1>8. a = [i \in 1..n |-> a[i]]
  BY <1>5, LenProperties
<1> QED BY <1>3, <1>7, <1>8

AnyArgument == {0, 1} \cup (SUBSET OptFlags) \cup OptInts \cup OptTexts \cup {"fn"}
ArgumentsAt(o, i) ==
  IF i = 1 /\ o \in DOMAIN ChannelReads THEN {0, 1}
  ELSE IF o = "MOD_FLAGS" THEN SUBSET OptFlags ELSE OfType(Signature[o][i])

LEMMA ArgumentsOf ==
  ASSUME NEW o \in DOMAIN Signature, NEW a \in Arguments(o)
  PROVE  /\ a \in Seq(AnyArgument) /\ Len(a) = Len(Signature[o])
         /\ \A i \in 1..Len(a) : a[i] \in ArgumentsAt(o, i)
<1> DEFINE n == Len(Signature[o])
           D(i) == ArgumentsAt(o, i)
           B == CHOOSE g : g = [k \in 0..n |-> IF k = 0 THEN {<<>>} ELSE Longer(g[k - 1], D(k))]
<1>1. a \in B[n]
  BY DEF Arguments, ArgumentsAt
<1>2. n \in Nat /\ \A i \in 1..n : D(i) \subseteq AnyArgument
  <2>1. n \in Nat /\ \A i \in 1..n : Signature[o][i] \in {"int", "str", "fn"}
    BY SignatureOf
  <2>2. \A t \in {"int", "str", "fn"} : OfType(t) \subseteq AnyArgument
    <3>1. OfType("int") = OptInts /\ OfType("str") = OptTexts /\ OfType("fn") = {"fn"}
      BY DEF OfType
    <3>2. OptInts \subseteq AnyArgument /\ OptTexts \subseteq AnyArgument /\ {"fn"} \subseteq AnyArgument
      BY DEF AnyArgument
    <3> QED BY <3>1, <3>2
  <2> QED BY <2>1, <2>2 DEF ArgumentsAt, AnyArgument
<1> HIDE DEF n, D
<1>3. PICK V, v : V = SUBSET Seq(AnyArgument) /\ v = {<<>>}
  OBVIOUS
<1>30. v \in V
  <2>1. <<>> \in Seq(AnyArgument)
    OBVIOUS
  <2> QED BY <1>3, <2>1
<1>4. PICK f : f = [p \in (1..n) \X V |-> Longer(p[2], D(p[1]))]
  OBVIOUS
<1>5. ASSUME NEW i \in 1..n, NEW S \in V PROVE Longer(S, D(i)) \in V
  <2>1. \A s \in S, w \in D(i) : s \in Seq(AnyArgument) /\ w \in AnyArgument
    BY <1>2, <1>3
  <2>2. \A s \in S, w \in D(i) : Append(s, w) \in Seq(AnyArgument)
    BY <2>1, AppendProperties
  <2> QED BY <1>3, <2>2 DEF Longer
<1>6. Walkable(V, v, n, f)
  <2>1. ASSUME NEW p \in (1..n) \X V PROVE f[p] \in V
    <3>1. p[1] \in 1..n /\ p[2] \in V
      OBVIOUS
    <3>2. f[p] = Longer(p[2], D(p[1]))
      BY <1>4
    <3> QED BY <1>5, <3>1, <3>2
  <2>2. f \in [(1..n) \X V -> V]
    BY <1>4, <2>1
  <2> QED BY <1>2, <1>30, <2>2 DEF Walkable
<1>7. PICK g : IsWalk(V, v, n, f, g)
  BY <1>6, WalkExists
<1>8. \A k \in 0..n : g[k] = IF k = 0 THEN {<<>>} ELSE Longer(g[k - 1], D(k))
  <2> SUFFICES ASSUME NEW k \in 0..n, k # 0 PROVE g[k] = Longer(g[k - 1], D(k))
    BY <1>3, <1>7 DEF IsWalk
  <2>1. k \in 1..n /\ k - 1 \in 0..n
    BY <1>2
  <2>2. <<k, g[k - 1]>> \in (1..n) \X V
    BY <1>7, <2>1 DEF IsWalk
  <2>3. f[<<k, g[k - 1]>>] = Longer(g[k - 1], D(k))
    BY <1>4, <2>2
  <2> QED BY <1>7, <2>1, <2>3 DEF IsWalk
<1>9. g = [k \in 0..n |-> IF k = 0 THEN {<<>>} ELSE Longer(g[k - 1], D(k))]
  <2>1. g = [k \in 0..n |-> g[k]]
    BY <1>7 DEF IsWalk
  <2> QED BY <1>8, <2>1, Zenon
<1>10. B = [k \in 0..n |-> IF k = 0 THEN {<<>>} ELSE Longer(B[k - 1], D(k))]
  BY <1>9
<1> HIDE DEF B
<1>11. B[0] = {<<>>} /\ \A k \in 1..n : B[k] = Longer(B[k - 1], D(k))
  <2>1. 0 \in 0..n /\ \A k \in 1..n : k \in 0..n /\ k # 0
    BY <1>2
  <2> QED BY <1>10, <2>1
<1> DEFINE J(k) == \A s \in B[k] : s \in Seq(AnyArgument) /\ Len(s) = k /\ \A i \in 1..k : s[i] \in D(i)
           Q == {k \in Nat : k <= n => J(k)}
<1>12. 0 \in Q
  <2>1. <<>> \in Seq(AnyArgument) /\ Len(<<>>) = 0 /\ 1..0 = {}
    OBVIOUS
  <2> QED BY <1>11, <2>1
<1>13. ASSUME NEW k \in Q PROVE k + 1 \in Q
  <2> SUFFICES ASSUME k + 1 <= n, NEW t \in B[k + 1]
               PROVE  t \in Seq(AnyArgument) /\ Len(t) = k + 1 /\ \A i \in 1..(k + 1) : t[i] \in D(i)
    OBVIOUS
  <2>1. k \in Nat /\ J(k) /\ k + 1 \in 1..n /\ (k + 1) - 1 = k
    BY <1>2
  <2>2. PICK s \in B[k], w \in D(k + 1) : t = Append(s, w)
    <3>1. B[k + 1] = Longer(B[k], D(k + 1))
      BY <1>11, <2>1
    <3> QED BY <3>1 DEF Longer
  <2>3. s \in Seq(AnyArgument) /\ Len(s) = k /\ (\A i \in 1..k : s[i] \in D(i)) /\ w \in AnyArgument
    BY <1>2, <2>1
  <2>4. /\ t \in Seq(AnyArgument) /\ Len(t) = k + 1 /\ t[k + 1] = w /\ \A i \in 1..k : t[i] = s[i]
    BY <2>2, <2>3, AppendProperties
  <2>5. \A i \in 1..(k + 1) : i \in 1..k \/ i = k + 1
    BY <2>1
  <2> QED BY <2>3, <2>4, <2>5
<1>14. J(n)
  <2> HIDE DEF J
  <2>1. Q = Nat
    BY <1>12, <1>13, Inductive
  <2> QED BY <1>2, <2>1
<1> QED BY <1>1, <1>14 DEF n, D

(* The invariant of a channel: its record has the declared fields, the     *)
(* length field and the strip are bounded, and an address that do_resolve  *)
(* has not seen is flagged.                                                *)
ChannelOf(v) ==
  [maxFrame |-> v.maxFrame, lfo |-> v.lfo, lfl |-> v.lfl, adjust |-> v.adjust, strip |-> v.strip,
   lhost |-> v.lhost, lport |-> v.lport, host |-> v.host, port |-> v.port, hostDirty |-> v.hostDirty,
   portDirty |-> v.portDirty, seen |-> v.seen, mcast |-> v.mcast, loopback |-> v.loopback,
   group |-> v.group, flags |-> v.flags, kcp |-> v.kcp, plain |-> v.plain]

Bounded(v) == v.lfl \in 1..4 /\ v.strip \in 0..OptMaxStrip
Flagged(v) == /\ v.host # v.seen[1] => v.hostDirty = TRUE
              /\ v.port # v.seen[2] => v.portDirty = TRUE

ChannelInv(v) == v = ChannelOf(v) /\ Bounded(v) /\ Flagged(v)

LEMMA SetHostKeeps ==
  ASSUME NEW v, NEW h, ChannelInv(v)
  PROVE  ChannelInv(SetHost(v, h))
<1>1. PICK u : u = SetHost(v, h)
  OBVIOUS
<1>2. CASE u # v
  <2>1. u = [v EXCEPT !.host = h, !.hostDirty = TRUE]
    BY <1>1, <1>2 DEF SetHost
  <2>2. u = ChannelOf(u) /\ u.lfl = v.lfl /\ u.strip = v.strip /\ u.hostDirty = TRUE /\ u.port = v.port
        /\ u.portDirty = v.portDirty /\ u.seen = v.seen
    BY <2>1 DEF ChannelInv, ChannelOf
  <2> QED BY <1>1, <2>2 DEF ChannelInv, Bounded, Flagged
<1> QED BY <1>1, <1>2

LEMMA SetPortKeeps ==
  ASSUME NEW v, NEW p, ChannelInv(v)
  PROVE  ChannelInv(SetPort(v, p))
<1>1. PICK u, q : u = SetPort(v, p) /\ q = p % OptPortMod
  OBVIOUS
<1>2. CASE u # v
  <2>1. u = [v EXCEPT !.port = q, !.portDirty = TRUE]
    BY <1>1, <1>2 DEF SetPort
  <2>2. u = ChannelOf(u) /\ u.lfl = v.lfl /\ u.strip = v.strip /\ u.portDirty = TRUE /\ u.host = v.host
        /\ u.hostDirty = v.hostDirty /\ u.seen = v.seen
    BY <2>1 DEF ChannelInv, ChannelOf
  <2> QED BY <1>1, <2>2 DEF ChannelInv, Bounded, Flagged
<1> QED BY <1>1, <1>2

(* A setting that leaves the length field, the strip and the address.      *)
LEMMA OthersKeep ==
  ASSUME NEW v, NEW u, ChannelInv(v), u = ChannelOf(u), Bounded(u), u.host = v.host, u.port = v.port,
         u.hostDirty = v.hostDirty, u.portDirty = v.portDirty, u.seen = v.seen
  PROVE  ChannelInv(u)
BY DEF ChannelInv, Flagged

LEMMA SetChannelKeeps ==
  ASSUME NEW v, NEW o \in DOMAIN ChannelReads, NEW a \in Arguments(o), ChannelInv(v)
  PROVE  ChannelInv(SetChannel(v, o, Tail(a)))
<1>1. /\ a \in Seq(AnyArgument) /\ Len(a) = Len(ChannelReads[o]) /\ \A i \in 1..Len(a) : a[i] \in ArgumentsAt(o, i)
  BY ArgumentsOf, SignatureOf
<1>2. PICK b, u : b = Tail(a) /\ u = SetChannel(v, o, b)
  OBVIOUS
<1>3. SUFFICES ChannelInv(u)
  BY <1>2
<1>4. CASE o \in {"REMOTE_HOST", "REMOTE_PORT", "REMOTE_ENDPOINT"}
  <2>1. u = SetHost(v, b[1]) \/ u = SetPort(v, b[1]) \/ u = SetPort(SetHost(v, b[1]), b[2])
    BY <1>2, <1>4 DEF SetChannel
  <2> QED BY <2>1, SetHostKeeps, SetPortKeeps
<1>5. CASE o = "UNPACK_PARAMS"
  <2>1. Len(a) = 5 /\ \A i \in 1..5 : Signature[o][i] = "int"
    <3>1. Signature[o] = <<"int", "int", "int", "int", "int">>
      BY <1>5, SignatureOf DEF ChannelReads
    <3>2. Len(<<"int", "int", "int", "int", "int">>) = 5 /\ \A i \in 1..5 : <<"int", "int", "int", "int", "int">>[i] = "int"
      OBVIOUS
    <3>3. Signature[o] = ChannelReads[o]
      BY SignatureOf
    <3> QED BY <1>1, <3>1, <3>2, <3>3
  <2>2. b[3] = a[4]
    <3>1. a # <<>>
      <4>1. Len(<<>>) = 0
        OBVIOUS
      <4> QED BY <2>1, <4>1
    <3>2. Len(b) = Len(a) - 1 /\ \A i \in 1..Len(b) : b[i] = a[i + 1]
      BY <1>1, <1>2, <3>1, HeadTailProperties
    <3>3. 3 \in 1..Len(b) /\ 3 + 1 = 4
      BY <2>1, <3>2
    <3> QED BY <3>2, <3>3
  <2>3. b[3] \in Int
    <3>1. a[4] \in ArgumentsAt(o, 4)
      BY <1>1, <2>1
    <3>2. ArgumentsAt(o, 4) = OptInts
      BY <1>5, <2>1 DEF ArgumentsAt, OfType
    <3> QED BY <2>2, <3>1, <3>2, OptionsAssumption
  <2>4. PICK c : c = ClampTo(b[3], 1, 4)
    OBVIOUS
  <2>5. c \in 1..4
    BY <2>3, <2>4 DEF ClampTo
  <2>6. u = [v EXCEPT !.maxFrame = b[1], !.lfo = b[2], !.lfl = c, !.adjust = b[4]]
    BY <1>2, <1>5, <2>4 DEF SetChannel, SetUnpackParams
  <2>7. u = ChannelOf(u) /\ u.lfl = c /\ u.strip = v.strip /\ u.host = v.host /\ u.port = v.port
        /\ u.hostDirty = v.hostDirty /\ u.portDirty = v.portDirty /\ u.seen = v.seen
    BY <2>6 DEF ChannelInv, ChannelOf
  <2>8. Bounded(u)
    BY <2>5, <2>7 DEF ChannelInv, Bounded
  <2> QED BY <2>7, <2>8, OthersKeep
<1>6. CASE o = "UNPACK_STRIP"
  <2>1. Len(a) = 2 /\ Signature[o][2] = "int"
    <3>1. Signature[o] = <<"int", "int">>
      BY <1>6, SignatureOf DEF ChannelReads
    <3> QED BY <1>1, <3>1, SignatureOf, SMTT(30)
  <2>2. b[1] = a[2]
    <3>1. a # <<>>
      <4>1. Len(<<>>) = 0
        OBVIOUS
      <4> QED BY <2>1, <4>1
    <3>2. Len(b) = Len(a) - 1 /\ \A i \in 1..Len(b) : b[i] = a[i + 1]
      BY <1>1, <1>2, <3>1, HeadTailProperties
    <3>3. 1 \in 1..Len(b) /\ 1 + 1 = 2
      BY <2>1, <3>2
    <3> QED BY <3>2, <3>3
  <2>3. b[1] \in Int
    <3>1. a[2] \in ArgumentsAt(o, 2)
      BY <1>1, <2>1
    <3>2. ArgumentsAt(o, 2) = OptInts
      BY <1>6, <2>1 DEF ArgumentsAt, OfType
    <3> QED BY <2>2, <3>1, <3>2, OptionsAssumption
  <2>4. PICK c : c = ClampTo(b[1], 0, OptMaxStrip)
    OBVIOUS
  <2>5. c \in 0..OptMaxStrip
    BY <2>3, <2>4, OptionsAssumption DEF ClampTo
  <2>6. u = [v EXCEPT !.strip = c]
    BY <1>2, <1>6, <2>4 DEF SetChannel
  <2>7. u = ChannelOf(u) /\ u.lfl = v.lfl /\ u.strip = c /\ u.host = v.host /\ u.port = v.port
        /\ u.hostDirty = v.hostDirty /\ u.portDirty = v.portDirty /\ u.seen = v.seen
    BY <2>6 DEF ChannelInv, ChannelOf
  <2>8. Bounded(u)
    BY <2>5, <2>7 DEF ChannelInv, Bounded
  <2> QED BY <2>7, <2>8, OthersKeep
<1>7. CASE o \notin {"REMOTE_HOST", "REMOTE_PORT", "REMOTE_ENDPOINT", "UNPACK_PARAMS", "UNPACK_STRIP"}
  <2>1. \/ u = [v EXCEPT !.lhost = b[1]]
        \/ u = [v EXCEPT !.lport = b[1] % OptPortMod]
        \/ u = [v EXCEPT !.lhost = b[1], !.lport = b[2] % OptPortMod]
        \/ u = [v EXCEPT !.mcast = FALSE, !.loopback = FALSE]
        \/ \E x : u = [v EXCEPT !.mcast = TRUE, !.loopback = x, !.group = b[1]]
        \/ \E x : u = [v EXCEPT !.flags = x]
        \/ \E x : u = [v EXCEPT !.kcp = x]
        \/ \E x : u = [v EXCEPT !.plain = x]
    BY <1>2, <1>7, Zenon DEF SetChannel, SetMulticast, ModFlags, SetKcp
  <2>2. u = ChannelOf(u) /\ u.lfl = v.lfl /\ u.strip = v.strip /\ u.host = v.host /\ u.port = v.port
        /\ u.hostDirty = v.hostDirty /\ u.portDirty = v.portDirty /\ u.seen = v.seen
    BY <2>1, ZenonT(60) DEF ChannelInv, ChannelOf
  <2>3. Bounded(u)
    BY <2>2 DEF ChannelInv, Bounded
  <2> QED BY <2>2, <2>3, OthersKeep
<1> QED BY <1>4, <1>5, <1>6, <1>7

OptionsOf(s) == [svc |-> s.svc, chn |-> s.chn, calls |-> s.calls, pc |-> s.pc, amiss |-> s.amiss]

OptInv == opts = OptionsOf(opts) /\ ChannelInv(opts.chn) /\ FrontendsAgree

LEMMA SetOptionKeeps ==
  ASSUME NEW s, NEW o \in DOMAIN Signature, NEW a \in Arguments(o), s = OptionsOf(s), ChannelInv(s.chn)
  PROVE  /\ SetOption(s, o, a) = OptionsOf(SetOption(s, o, a)) /\ ChannelInv(SetOption(s, o, a).chn)
         /\ SetOption(s, o, a).amiss = s.amiss
<1>1. PICK u : u = SetOption(s, o, a)
  OBVIOUS
<1>2. CASE o \in DOMAIN ServiceReads
  <2>1. PICK x : u = [s EXCEPT !.svc = x]
    BY <1>1, <1>2 DEF SetOption
  <2>2. u = OptionsOf(u) /\ u.chn = s.chn /\ u.amiss = s.amiss
    BY <2>1 DEF OptionsOf
  <2> QED BY <1>1, <2>2
<1>3. CASE o \notin DOMAIN ServiceReads
  <2>1. PICK x : x = SetChannel(s.chn, o, Tail(a))
    OBVIOUS
  <2>2. ChannelInv(x)
    <3>1. o \in DOMAIN ChannelReads
      BY <1>3, SignatureOf
    <3> QED BY <2>1, <3>1, SetChannelKeeps
  <2>3. u = s \/ u = [s EXCEPT !.chn = x]
    BY <1>1, <1>3, <2>1 DEF SetOption
  <2>4. u = OptionsOf(u) /\ (u.chn = s.chn \/ u.chn = x) /\ u.amiss = s.amiss
    BY <2>3 DEF OptionsOf
  <2> QED BY <1>1, <2>2, <2>4
<1> QED BY <1>2, <1>3

LEMMA CallKeeps ==
  ASSUME OptInv, NEW f \in {"cpp", "ni", "sol", "kaguya", "jsb", "jsb20"}, NEW o \in Exports(f),
         NEW a \in Arguments(o), CallOption(f, o, a)
  PROVE  OptInv'
<1>0. o \in DOMAIN Signature
  BY SignatureOf DEF Exports, SolExports, KaguyaExports, JsbExports, Jsb20Exports, KcpNames, ScriptOptions,
                     ServiceReads, ChannelReads
<1>1. PICK n : n = [opts EXCEPT !.calls = @ + 1]
  OBVIOUS
<1>2. n = OptionsOf(n) /\ n.chn = opts.chn /\ n.amiss = opts.amiss
  BY <1>1 DEF OptInv, OptionsOf
<1>3. opts' = IF f = "ni" /\ Passes(f, o) = NoCall THEN n
              ELSE IF ~WellPassed(f, o) THEN [n EXCEPT !.pc = "undefined", !.amiss = @ \cup {<<f, o>>}]
              ELSE IF SetOption(n, o, Received(f, o, a)) = SetOption(n, o, a) THEN SetOption(n, o, a)
              ELSE [SetOption(n, o, Received(f, o, a)) EXCEPT !.amiss = @ \cup {<<f, o>>}]
  BY <1>1 DEF CallOption
<1>4. SUFFICES opts' = OptionsOf(opts') /\ ChannelInv(opts'.chn) /\ opts'.amiss \subseteq Agreed
  BY DEF OptInv, FrontendsAgree, Agreed
<1>5. opts.amiss \subseteq Agreed /\ ChannelInv(opts.chn)
  BY DEF OptInv, FrontendsAgree, Agreed
<1>6. /\ SetOption(n, o, a) = OptionsOf(SetOption(n, o, a)) /\ ChannelInv(SetOption(n, o, a).chn)
      /\ SetOption(n, o, a).amiss = opts.amiss
  BY <1>0, <1>2, <1>5, SetOptionKeeps
<1>7. CASE <<f, o>> \notin Agreed
  <2>1. (f = "ni" /\ Passes(f, o) = NoCall) \/ Straight(Passes(f, o), Signature[o])
    BY <1>7, PassesStraight
  <2>2. CASE f = "ni" /\ Passes(f, o) = NoCall
    BY <1>2, <1>3, <1>5, <2>2
  <2>3. CASE ~(f = "ni" /\ Passes(f, o) = NoCall)
    <3>1. WellPassed(f, o) /\ Received(f, o, a) = a
      <4>1. a \in Seq(AnyArgument) /\ Len(a) = Len(Signature[o])
        BY <1>0, ArgumentsOf
      <4> QED BY <1>0, <2>1, <2>3, <4>1, ReceivesAll
    <3>2. opts' = SetOption(n, o, a)
      BY <1>3, <2>3, <3>1
    <3> QED BY <1>5, <1>6, <3>2
  <2> QED BY <2>2, <2>3
<1>8. CASE <<f, o>> \in Agreed
  <2>1. CASE opts' = n
    BY <1>2, <1>5, <2>1
  <2>2. CASE opts' = [n EXCEPT !.pc = "undefined", !.amiss = @ \cup {<<f, o>>}]
    <3>1. opts' = OptionsOf(opts') /\ opts'.chn = n.chn /\ opts'.amiss = n.amiss \cup {<<f, o>>}
      BY <1>2, <2>2 DEF OptionsOf
    <3> QED BY <1>2, <1>5, <1>8, <3>1
  <2>3. CASE opts' = SetOption(n, o, a)
    BY <1>5, <1>6, <2>3
  <2>4. CASE WellPassed(f, o) /\ opts' = [SetOption(n, o, Received(f, o, a)) EXCEPT !.amiss = @ \cup {<<f, o>>}]
    <3>1. o = "DNS_LIST"
      <4>1. CASE f = "sol"
        <5>1. o \in KcpNames /\ Passes(f, o) = SolPasses(o)
          BY <1>8, <4>1 DEF Agreed, Passes
        <5>2. Passes(f, o) = Passing(<<"int">>)
          BY <5>1, IntsOf DEF KcpNames, SolPasses
        <5>3. Len(Passing(<<"int">>)) = 1
          <6>1. Passing(<<"int">>) \in [1..1 -> {"int"} \X Nat]
            BY DEF Passing
          <6> QED BY <6>1, SeqDef, LenProperties
        <5>4. Len(Signature[o]) > 1
          <6>1. Signature[o] = ChannelReads[o]
            BY <5>1, SignatureOf DEF KcpNames, ChannelReads
          <6>2. \/ ChannelReads[o] = <<"int", "int">> \/ ChannelReads[o] = <<"int", "int", "int">>
                \/ ChannelReads[o] = <<"int", "int", "int", "int", "int">>
            BY <5>1 DEF KcpNames, ChannelReads
          <6>3. /\ Len(<<"int", "int">>) = 2 /\ Len(<<"int", "int", "int">>) = 3
                /\ Len(<<"int", "int", "int", "int", "int">>) = 5
            OBVIOUS
          <6>4. Len(ChannelReads[o]) \in {2, 3, 5}
            BY <6>2, <6>3
          <6>5. PICK m : m = Len(ChannelReads[o])
            OBVIOUS
          <6>6. m > 1
            <7>1. m = 2 \/ m = 3 \/ m = 5
              BY <6>4, <6>5
            <7> QED BY <7>1
          <6>7. Len(Signature[o]) = m
            BY <6>1, <6>5
          <6> QED BY <6>6, <6>7
        <5> QED BY <2>4, <5>2, <5>3, <5>4, SignatureOf DEF WellPassed
      <4> QED BY <1>8, <4>1 DEF Agreed
    <3>2. PICK b : b = Received(f, o, a)
      OBVIOUS
    <3>3. o \in DOMAIN ServiceReads
      BY <3>1 DEF ServiceReads
    <3>4. PICK x : SetOption(n, o, b) = [n EXCEPT !.svc = x]
      BY <3>3 DEF SetOption
    <3>5. PICK y : y = [n EXCEPT !.svc = x]
      OBVIOUS
    <3>6. y = OptionsOf(y) /\ y.chn = n.chn /\ y.amiss = n.amiss
      BY <1>2, <3>5 DEF OptionsOf
    <3>7. opts' = [y EXCEPT !.amiss = @ \cup {<<f, o>>}]
      BY <2>4, <3>2, <3>4, <3>5
    <3>8. opts' = OptionsOf(opts') /\ opts'.chn = y.chn /\ opts'.amiss = y.amiss \cup {<<f, o>>}
      BY <3>6, <3>7 DEF OptionsOf
    <3> QED BY <1>2, <1>5, <1>8, <3>6, <3>8
  <2> QED BY <1>3, <2>1, <2>2, <2>3, <2>4
<1> QED BY <1>7, <1>8

LEMMA ResolvedKeeps ==
  ASSUME OptInv, OptResolved
  PROVE  OptInv'
<1>1. PICK c : c = opts.chn
  OBVIOUS
<1>2. opts' = [opts EXCEPT !.chn = [c EXCEPT !.hostDirty = FALSE, !.portDirty = FALSE, !.seen = <<c.host, c.port>>]]
  BY <1>1 DEF OptResolved, OptInv, OptionsOf
<1>3. PICK u : u = [c EXCEPT !.hostDirty = FALSE, !.portDirty = FALSE, !.seen = <<c.host, c.port>>]
  OBVIOUS
<1>4. u = ChannelOf(u) /\ u.host = c.host /\ u.port = c.port /\ u.seen = <<c.host, c.port>> /\ u.lfl = c.lfl /\ u.strip = c.strip
  BY <1>1, <1>3 DEF OptInv, ChannelInv, ChannelOf
<1>5. ChannelInv(u)
  BY <1>1, <1>4 DEF OptInv, ChannelInv, Bounded, Flagged
<1>6. opts' = OptionsOf(opts') /\ opts'.chn = u /\ opts'.amiss = opts.amiss
  BY <1>2, <1>3 DEF OptInv, OptionsOf
<1> QED BY <1>5, <1>6 DEF OptInv, FrontendsAgree

(* Options: for every set of integers, texts and flags, whatever calls of  *)
(* set_option an application makes from C++, C, Lua and JavaScript, a call *)
(* does what the same call does in C++, but for the two groups that        *)
(* FrontendsAgree names; the length field has 1 to 4 bytes and the strip   *)
(* fits; and no change of host or port goes unseen by do_resolve.          *)
THEOREM OptionsKept == MCSpec => []OptionsExact
<1>1. MCInit => OptInv
  <2> SUFFICES ASSUME OptInit PROVE OptInv
    BY DEF MCInit
  <2>1. PICK c : c = opts.chn
    OBVIOUS
  <2>2. c = ChannelOf(c) /\ c.lfl = 4 /\ c.strip = 0 /\ c.host = "" /\ c.port = 0 /\ c.seen = <<"", 0>>
    BY <2>1 DEF OptInit, ChannelOf, ChannelDefaults
  <2>3. ChannelInv(c)
    <3>1. c.seen[1] = "" /\ c.seen[2] = 0 /\ 4 \in 1..4 /\ 0 \in 0..OptMaxStrip
      <4>1. <<"", 0>>[1] = "" /\ <<"", 0>>[2] = 0
        OBVIOUS
      <4>2. 4 \in 1..4 /\ 0 \in 0..OptMaxStrip
        BY OptionsAssumption
      <4> QED BY <2>2, <4>1, <4>2
    <3> QED BY <2>2, <3>1 DEF ChannelInv, Bounded, Flagged
  <2>4. opts = OptionsOf(opts) /\ opts.amiss = {}
    BY DEF OptInit, OptionsOf
  <2> QED BY <2>1, <2>3, <2>4 DEF OptInv, FrontendsAgree
<1>2. OptInv /\ [MCNext]_all => OptInv'
  <2> SUFFICES ASSUME OptInv, [MCNext]_all PROVE OptInv'
    OBVIOUS
  <2>1. CASE OptNext
    BY <2>1, CallKeeps, ResolvedKeeps DEF OptNext
  <2>2. CASE ~OptNext
    <3>1. UNCHANGED optvars
      BY <2>2 DEF MCNext, all, ButHttp, ButLock, ButPool, ButOwn, ButVector, ButStream, ButView, ButString,
                  ButCookie, ButUri, ButInet, ButEndpoint, ButSocket, ButConnect, ButInterrupter
    <3> QED BY <3>1 DEF optvars, OptInv, FrontendsAgree
  <2> QED BY <2>1, <2>2
<1>3. OptInv => OptionsExact
  BY DEF OptInv, ChannelInv, Bounded, Flagged, OptionsExact, UnpackBounded, ChangesFlagged
<1> QED BY <1>1, <1>2, <1>3, PTL DEF MCSpec

=============================================================================
