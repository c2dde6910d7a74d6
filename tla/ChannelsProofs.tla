--------------------------- MODULE ChannelsProofs ---------------------------
(***************************************************************************)
(* How channels get their connections, for any number of channels, peers   *)
(* and queries.  First name resolution: the life token, by which a query   *)
(* thread that has passed its second look at it, under the shared lock,    *)
(* keeps finalize out until it is done, and the addresses: what a channel  *)
(* connects to is what it was given.  Then the transports of listening     *)
(* channels, and a UDP client's own.                                       *)
(***************************************************************************)
EXTENDS MCChannels, FiniteSetTheorems, SequenceTheorems, TLAPS

(* Queries are records with a place.                                       *)
QueryShape == \A q \in queries : "qpc" \in DOMAIN q

(* The token is given up before the exclusive lock is left again ...       *)
TokenMeansAlive == token => ~writer /\ life # "gone"

(* ... so an update, which saw the token under the shared lock, holds it.  *)
UpdatingHoldsToken == \A q \in queries : q.qpc = "updating" => token

TokenInv == QueryShape /\ TokenMeansAlive /\ UpdatingHoldsToken

-----------------------------------------------------------------------------
(* Steps that leave the token's state alone and at most start or end       *)
(* queries, or move one that is not let in to update.                      *)
LEMMA QueriesMove ==
  ASSUME TokenInv, UNCHANGED <<token, writer, life>>,
         \A q \in queries' : \/ q \in queries
                             \/ /\ "qpc" \in DOMAIN q
                                /\ q.qpc = "updating" => token
  PROVE  TokenInv'
BY DEF TokenInv, QueryShape, TokenMeansAlive, UpdatingHoldsToken

(* A visit of a channel starts at most the one query, and c-ares may drop  *)
(* the others.                                                             *)
LEMMA VisitKeeps ==
  ASSUME TokenInv, NEW c \in Channels, Visit(c)
  PROVE  TokenInv'
<1>1. UNCHANGED <<token, writer, life>> /\ \A q \in queries' : q \in queries \/ q = NewQuery(c)
  BY ZenonT(60) DEF Visit
<1> QED
  BY <1>1, QueriesMove, SMTT(30) DEF NewQuery

LEMMA QueryKeeps ==
  ASSUME TokenInv, NEW q \in queries, QuerySteps(q)
  PROVE  TokenInv'
<1>0. "qpc" \in DOMAIN q
  BY DEF TokenInv, QueryShape
<1>1. CASE QueryChecks(q)
  BY <1>0, <1>1, QueriesMove DEF QueryChecks, Becomes
<1>2. CASE QueryAnswers(q)
  BY <1>0, <1>2, QueriesMove DEF QueryAnswers, Becomes
<1>3. CASE QueryLocks(q)
  BY <1>0, <1>3, QueriesMove DEF QueryLocks, Becomes
<1>4. CASE QueryRechecks(q)
  BY <1>0, <1>4, QueriesMove DEF QueryRechecks, Becomes
<1>5. CASE QueryUpdates(q)
  BY <1>5, QueriesMove DEF QueryUpdates, Becomes
<1>6. CASE AresAnswers(q)
  BY <1>6, QueriesMove DEF AresAnswers, Becomes
<1> QED
  BY <1>1, <1>2, <1>3, <1>4, <1>5, <1>6 DEF QuerySteps

(* stop, restart and the two halves of finalize.                           *)
LEMMA LifeKeeps ==
  ASSUME TokenInv, WorkerExits \/ Restart \/ Finalize \/ DestroyChannels
  PROVE  TokenInv'
<1> USE DEF TokenInv, QueryShape, TokenMeansAlive, UpdatingHoldsToken
<1>1. CASE WorkerExits
  BY <1>1 DEF WorkerExits
<1>2. CASE Restart
  BY <1>2 DEF Restart
<1>3. CASE Finalize
  BY <1>3 DEF Finalize, Readers
<1>4. CASE DestroyChannels
  BY <1>4 DEF DestroyChannels
<1> QED
  BY <1>1, <1>2, <1>3, <1>4

LEMMA CallsKeep ==
  ASSUME TokenInv,
         \/ TurnBegins \/ SetDnsDirty
         \/ \E c \in Channels : \/ VisitOther(c) \/ OpenInternal(c) \/ CacheExpires(c)
                                \/ ConnectEnds(c)
                                \/ \E h \in Hosts, p \in Ports : SetAddress(c, h, p)
  PROVE  TokenInv'
<1>1. UNCHANGED <<token, writer, life, queries>>
  <2>1. CASE TurnBegins \/ SetDnsDirty
    BY <2>1 DEF TurnBegins, SetDnsDirty
  <2>2. ASSUME NEW c \in Channels, VisitOther(c) \/ OpenInternal(c) \/ CacheExpires(c)
        PROVE  UNCHANGED <<token, writer, life, queries>>
    BY <2>2 DEF VisitOther, OpenInternal, CacheExpires
  <2>3. ASSUME NEW c \in Channels, ConnectEnds(c)
        PROVE  UNCHANGED <<token, writer, life, queries>>
    BY <2>3 DEF ConnectEnds
  <2>4. ASSUME NEW c \in Channels, NEW h \in Hosts, NEW p \in Ports, SetAddress(c, h, p)
        PROVE  UNCHANGED <<token, writer, life, queries>>
    BY <2>4 DEF SetAddress
  <2> QED
    BY <2>1, <2>2, <2>3, <2>4
<1> QED
  BY <1>1, QueriesMove

(* No query thread writes to a channel of a service that is being, or has  *)
(* been, destroyed: start_query looks at life_token_ again under the lock  *)
(* that finalize takes exclusively before it lets go of the token.         *)
THEOREM QueriesUpdateAlive == ResolverSpec => []UpdateWhileAlive
<1>1. ResolverInit => TokenInv
  BY DEF ResolverInit, TokenInv, QueryShape, TokenMeansAlive, UpdatingHoldsToken
<1>2. TokenInv /\ [ResolverNext]_rvars => TokenInv'
  <2> SUFFICES ASSUME TokenInv, [ResolverNext]_rvars PROVE TokenInv'
    OBVIOUS
  <2>1. CASE UNCHANGED rvars
    BY <2>1, QueriesMove DEF rvars
  <2>2. CASE ResolverNext
    BY <2>2, VisitKeeps, QueryKeeps, LifeKeeps, CallsKeep DEF ResolverNext, ResolverLoop, AnyQuery
  <2> QED
    BY <2>1, <2>2
<1>3. TokenInv => UpdateWhileAlive
  BY DEF TokenInv, TokenMeansAlive, UpdatingHoldsToken, UpdateWhileAlive
<1> QED
  BY <1>1, <1>2, <1>3, PTL DEF ResolverSpec

-----------------------------------------------------------------------------
(* The address.  The application does not change the address of a channel  *)
(* that is resolving (Rehost is FALSE); the model checker shows what goes  *)
(* wrong when it does.                                                     *)

(* The cached address is that of the channel's host and port, but for what *)
(* a dirty flag says has changed since.                                    *)
AddressFits(r) ==
  r.eps # <<>> => /\ ~r.hostDirty => r.eps[1][1] = r.host
                  /\ ~r.portDirty => r.eps[1][2] = r.port

(* error_ and the flags of one channel, by its state.                      *)
ChannelFits(r) ==
  /\ r.st \in {"CLOSED", "OPENED"} => r.err = "ok"
  /\ r.st = "CONNECTING" => r.err = "inprogress"
  /\ r.st = "RESOLVING" => r.err # "ok" /\ ~r.hostDirty /\ ~r.portDirty
  /\ r.open => r.st \notin {"RESOLVING", "CONNECTING"}
  /\ AddressFits(r)
  /\ r.st \in {"CONNECTING", "OPENED"} /\ r.eps # <<>> => r.eps[1] = r.asked

ChannelsFit == \A c \in Channels : ChannelFits(ch[c])

(* A channel with a query waits for it, and for no other.                  *)
AwaitsQuery(r, q) ==
  /\ r.st = "RESOLVING" /\ r.err = "inprogress" /\ r.eps = <<>>
  /\ q.host # NoName /\ q.host = r.host /\ q.port = r.port
Awaited == \A q \in queries : AwaitsQuery(ch[q.c], q)
OneQuery == \A p, q \in queries : p.c = q.c => p = q

InTurn == todo \subseteq queued /\ (todo # {} => life = "running")

Counted == WorkExact /\ (~ares => work = 0)

Shapes ==
  /\ ares \in BOOLEAN /\ wake \in BOOLEAN /\ dnsDirty \in BOOLEAN
  /\ ch \in [Channels -> Channel]
  /\ queued \subseteq Channels /\ todo \subseteq Channels /\ queries \subseteq Query
  /\ token \in BOOLEAN /\ writer \in BOOLEAN /\ life \in {"running", "idle", "gone"}

AddressInv ==
  /\ Shapes /\ ChannelsFit /\ Awaited /\ OneQuery /\ InTurn /\ Counted
  /\ ResolvingHasQuery /\ ConnectingKept

(* One query per channel: so they are finitely many.                       *)
LEMMA QueriesFinite ==
  ASSUME queries \subseteq Query, OneQuery
  PROVE  IsFiniteSet(queries) /\ Cardinality(queries) \in 0 .. Cardinality(Channels)
<1> DEFINE f == [q \in queries |-> q.c]
<1>1. f \in [queries -> Channels]
  BY DEF Query
<1>2. \A p, q \in queries : f[p] = f[q] => p = q
  BY DEF OneQuery
<1>3. f \in Injection(queries, Channels)
  BY <1>1, <1>2 DEF Injection, IsInjective
<1>4. IsFiniteSet(Channels)
  BY ResolverAssumption
<1>5. IsFiniteSet(queries) /\ Cardinality(queries) <= Cardinality(Channels)
  BY <1>3, <1>4, FS_Injection
<1> QED
  BY <1>4, <1>5, FS_CardinalityType

LEMMA AddressInvSafe == AddressInv => ResolverSafe
<1> SUFFICES ASSUME AddressInv PROVE ResolverSafe
  OBVIOUS
<1>1. work \in 0 .. Cardinality(Channels)
  <2>1. Cardinality(queries) \in 0 .. Cardinality(Channels) /\ Cardinality(Channels) \in Nat
    BY QueriesFinite, FS_CardinalityType, ResolverAssumption DEF AddressInv, Shapes
  <2> QED
    BY <2>1 DEF AddressInv, Counted, WorkExact, Shapes
<1>2. ConnectsToAsked
  BY DEF AddressInv, ChannelsFit, ChannelFits, ConnectsToAsked
<1> QED
  BY <1>1, <1>2 DEF AddressInv, Shapes, Counted, ResolverSafe, ResolverTypeOK

-----------------------------------------------------------------------------
(* What the operators of do_resolve do to a channel.                       *)
LEMMA RehostedFits ==
  ASSUME NEW r \in Channel, AddressFits(r)
  PROVE  /\ Rehosted(r) \in Channel /\ AddressFits(Rehosted(r)) /\ ~Rehosted(r).hostDirty
         /\ \A f \in {"st", "err", "host", "port", "portDirty", "fresh", "open", "asked"} :
              Rehosted(r)[f] = r[f]
         /\ ~r.hostDirty => Rehosted(r) = r
<1>1. CASE ~r.hostDirty
  BY <1>1 DEF Rehosted
<1>2. CASE r.hostDirty
  <2>1. r.port \in Ports /\ Literal \in Hosts
    BY DEF Channel, Hosts
  <2>2. <<<<Literal, r.port>>>> \in Seq(Hosts \X Ports) /\ <<>> \in Seq(Hosts \X Ports)
    BY <2>1
  <2>3. CASE r.host = Literal
    BY <1>2, <2>2, <2>3, ZenonT(60) DEF Rehosted, Channel, AddressFits
  <2>4. CASE r.host # Literal
    BY <1>2, <2>2, <2>4 DEF Rehosted, Channel, AddressFits
  <2> QED
    BY <2>3, <2>4
<1> QED
  BY <1>1, <1>2

LEMMA ReportedFits ==
  ASSUME NEW r \in Channel, AddressFits(r), ~r.hostDirty
  PROVE  /\ Reported(r) \in Channel /\ ~Reported(r).portDirty
         /\ \A f \in {"st", "err", "host", "port", "hostDirty", "needs", "fresh", "open", "asked"} :
              Reported(r)[f] = r[f]
         /\ Reported(r).eps # <<>> => Reported(r).eps[1] = <<r.host, r.port>>
         /\ r.eps = <<>> => Reported(r).eps = <<>>
         /\ ~r.portDirty => Reported(r).eps = r.eps
<1>0. r.eps \in Seq(Hosts \X Ports) /\ r.port \in Ports /\ r.host \in Hosts
  BY DEF Channel
<1>1. CASE r.portDirty
  <2> DEFINE e == [i \in DOMAIN r.eps |-> <<r.eps[i][1], r.port>>]
  <2>1. e \in Seq(Hosts \X Ports) /\ Len(e) = Len(r.eps)
    BY <1>0
  <2>2. Reported(r) = [r EXCEPT !.portDirty = FALSE, !.eps = e]
    BY <1>1 DEF Reported
  <2>3. e # <<>> => e[1] = <<r.host, r.port>>
    BY <1>0, <2>1 DEF AddressFits
  <2>4. r.eps = <<>> => e = <<>>
    BY <1>0, <2>1
  <2> HIDE DEF e
  <2> QED
    BY <1>1, <2>1, <2>2, <2>3, <2>4 DEF Channel
<1>2. CASE ~r.portDirty
  <2>1. Reported(r) = [r EXCEPT !.portDirty = FALSE, !.eps = r.eps]
    BY <1>2 DEF Reported
  <2>2. r.eps # <<>> => r.eps[1] = <<r.host, r.port>>
    BY <1>0, <1>2 DEF AddressFits
  <2> QED
    BY <2>1, <2>2 DEF Channel
<1> QED
  BY <1>1, <1>2

-----------------------------------------------------------------------------
(* Steps that change one channel at most, and no query.                    *)
LEMMA ChannelMoves ==
  ASSUME AddressInv, NEW c \in Channels, NEW r \in Channel, ChannelFits(r),
         ch' = [ch EXCEPT ![c] = r],
         /\ r.st = ch[c].st /\ r.err = ch[c].err /\ r.eps = ch[c].eps
         /\ r.st = "RESOLVING" => r.host = ch[c].host /\ r.port = ch[c].port,
         UNCHANGED <<ares, queries, work, token, writer, life, todo>>,
         queued \subseteq queued', queued' \subseteq Channels,
         wake' \in BOOLEAN, dnsDirty' \in BOOLEAN
  PROVE  AddressInv'
<1>1. Shapes'
  BY DEF AddressInv, Shapes
<1>2. \A d \in Channels : d # c => ch'[d] = ch[d]
  BY DEF AddressInv, Shapes
<1>3. ch'[c] = r
  BY DEF AddressInv, Shapes
<1>4. ChannelsFit'
  BY <1>2, <1>3 DEF AddressInv, ChannelsFit, ChannelFits, AddressFits
<1>5. \A q \in queries : q.c \in Channels
  BY DEF AddressInv, Shapes, Query
<1>6. Awaited' /\ OneQuery'
  BY <1>2, <1>3, <1>5 DEF AddressInv, Awaited, AwaitsQuery, OneQuery
<1>7. InTurn' /\ Counted'
  BY DEF AddressInv, InTurn, Counted, WorkExact
<1>8. ResolvingHasQuery' /\ ConnectingKept'
  BY <1>2, <1>3 DEF AddressInv, ResolvingHasQuery, ConnectingKept
<1> QED
  BY <1>1, <1>4, <1>6, <1>7, <1>8 DEF AddressInv

LEMMA CallsKeepAddress ==
  ASSUME ~Rehost, AddressInv, NEW c \in Channels,
         \/ OpenInternal(c) \/ CacheExpires(c)
         \/ \E h \in Hosts, p \in Ports : SetAddress(c, h, p)
  PROVE  AddressInv'
<1>0. ch[c] \in Channel /\ ChannelFits(ch[c]) /\ ch \in [Channels -> Channel]
  BY DEF AddressInv, Shapes, ChannelsFit
<1>w. wake \in BOOLEAN /\ dnsDirty \in BOOLEAN /\ queued \subseteq Channels
  BY DEF AddressInv, Shapes
<1>1. CASE OpenInternal(c)
  <2> DEFINE r == [ch[c] EXCEPT !.open = TRUE]
  <2>1. ch' = [ch EXCEPT ![c] = r] /\ ch[c].st \notin {"RESOLVING", "CONNECTING"}
    BY <1>1 DEF OpenInternal
  <2>2. r \in Channel
    BY <1>0 DEF Channel
  <2>3. /\ r.st = ch[c].st /\ r.err = ch[c].err /\ r.eps = ch[c].eps
        /\ r.host = ch[c].host /\ r.port = ch[c].port /\ r.asked = ch[c].asked
        /\ r.hostDirty = ch[c].hostDirty /\ r.portDirty = ch[c].portDirty
    BY <1>0 DEF Channel
  <2>4. ChannelFits(r)
    BY <1>0, <2>1, <2>3 DEF ChannelFits, AddressFits
  <2>5. /\ UNCHANGED <<ares, queries, work, token, writer, life, todo, dnsDirty>>
        /\ queued' = queued \cup {c} /\ wake' = TRUE
    BY <1>1 DEF OpenInternal
  <2> HIDE DEF r
  <2> QED
    BY <1>w, <2>1, <2>2, <2>3, <2>4, <2>5, ChannelMoves
<1>2. CASE CacheExpires(c)
  <2> DEFINE r == [ch[c] EXCEPT !.fresh = FALSE]
  <2>1. ch' = [ch EXCEPT ![c] = r]
    BY <1>2 DEF CacheExpires
  <2>2. r \in Channel
    BY <1>0 DEF Channel
  <2>3. /\ r.st = ch[c].st /\ r.err = ch[c].err /\ r.eps = ch[c].eps
        /\ r.host = ch[c].host /\ r.port = ch[c].port /\ r.asked = ch[c].asked
        /\ r.hostDirty = ch[c].hostDirty /\ r.portDirty = ch[c].portDirty
        /\ r.open = ch[c].open
    BY <1>0 DEF Channel
  <2>4. ChannelFits(r)
    BY <1>0, <2>1, <2>3 DEF ChannelFits, AddressFits
  <2>5. UNCHANGED <<ares, queries, work, token, writer, life, todo, dnsDirty, queued, wake>>
    BY <1>2 DEF CacheExpires
  <2> HIDE DEF r
  <2> QED
    BY <1>w, <2>1, <2>2, <2>3, <2>4, <2>5, ChannelMoves
<1>3. ASSUME NEW h \in Hosts, NEW p \in Ports, SetAddress(c, h, p) PROVE AddressInv'
  <2> DEFINE r == [ch[c] EXCEPT !.host = h, !.port = p,
                                !.hostDirty = @ \/ ch[c].host # h,
                                !.portDirty = @ \/ ch[c].port # p]
  <2>0. ch' = [ch EXCEPT ![c] = r]
    BY <1>3, ZenonT(60) DEF SetAddress
  <2>1. ch' = [ch EXCEPT ![c] = r] /\ ch[c].st # "RESOLVING"
    BY <1>3, <2>0 DEF SetAddress
  <2>2. ch[c].hostDirty \in BOOLEAN /\ ch[c].portDirty \in BOOLEAN
    BY <1>0 DEF Channel
  <2>3. (ch[c].hostDirty \/ ch[c].host # h) \in BOOLEAN /\ (ch[c].portDirty \/ ch[c].port # p) \in BOOLEAN
    OBVIOUS
  <2>4. r \in Channel
    BY <1>0, <2>3 DEF Channel
  <2>5. /\ r.st = ch[c].st /\ r.err = ch[c].err /\ r.eps = ch[c].eps
        /\ r.host = h /\ r.port = p /\ r.asked = ch[c].asked /\ r.open = ch[c].open
        /\ r.hostDirty = (ch[c].hostDirty \/ ch[c].host # h)
        /\ r.portDirty = (ch[c].portDirty \/ ch[c].port # p)
    BY <1>0 DEF Channel
  <2>6. UNCHANGED <<ares, queries, work, token, writer, life, todo, dnsDirty, queued, wake>>
    BY <1>3 DEF SetAddress
  <2> HIDE DEF r
  <2>7. ChannelFits(r)
    BY <1>0, <2>1, <2>5 DEF ChannelFits, AddressFits
  <2> QED
    BY <1>w, <2>1, <2>4, <2>5, <2>6, <2>7, ChannelMoves
<1> QED
  BY <1>1, <1>2, <1>3

LEMMA TurnKeepsAddress ==
  ASSUME AddressInv,
         TurnBegins \/ SetDnsDirty \/ Restart \/ Finalize \/ DestroyChannels
         \/ \E c \in Channels : VisitOther(c)
  PROVE  AddressInv'
<1> USE DEF AddressInv, Shapes, ChannelsFit, Awaited, OneQuery, InTurn, Counted,
            WorkExact, ResolvingHasQuery, ConnectingKept
<1>1. CASE TurnBegins
  BY <1>1 DEF TurnBegins
<1>2. CASE SetDnsDirty
  BY <1>2 DEF SetDnsDirty
<1>3. CASE Restart
  BY <1>3 DEF Restart
<1>4. CASE Finalize
  BY <1>4 DEF Finalize
<1>5. CASE DestroyChannels
  BY <1>5 DEF DestroyChannels
<1>6. ASSUME NEW c \in Channels, VisitOther(c) PROVE AddressInv'
  BY <1>6 DEF VisitOther
<1> QED
  BY <1>1, <1>2, <1>3, <1>4, <1>5, <1>6

(* The connection ends; the channel had no query.                          *)
LEMMA ConnectEndsKeepsAddress ==
  ASSUME AddressInv, NEW c \in Channels, ConnectEnds(c)
  PROVE  AddressInv'
<1>0. ch[c] \in Channel /\ ChannelFits(ch[c]) /\ ch \in [Channels -> Channel]
  BY DEF AddressInv, Shapes, ChannelsFit
<1>1. PICK out \in {"OPENED", "CLOSED"} : ch' = [ch EXCEPT ![c].st = out, ![c].err = "ok"]
  BY DEF ConnectEnds
<1>2. ch[c].st \in {"CONNECTING", "OPENED"}
  BY DEF ConnectEnds
<1> DEFINE r == [ch[c] EXCEPT !.st = out, !.err = "ok"]
<1>3. r \in Channel
  BY <1>0 DEF Channel
<1>4. /\ r.st = out /\ r.err = "ok" /\ r.eps = ch[c].eps
      /\ r.host = ch[c].host /\ r.port = ch[c].port /\ r.asked = ch[c].asked
      /\ r.hostDirty = ch[c].hostDirty /\ r.portDirty = ch[c].portDirty
      /\ r.open = ch[c].open
  BY <1>0 DEF Channel
<1>5. ch' = [ch EXCEPT ![c] = r]
  BY <1>0, <1>1
<1> HIDE DEF r
<1>6. ch' \in [Channels -> Channel] /\ ch'[c] = r /\ \A d \in Channels : d # c => ch'[d] = ch[d]
  BY <1>0, <1>3, <1>5
<1>7. UNCHANGED <<ares, queries, work, token, writer, life, todo, dnsDirty, queued, wake>>
  BY DEF ConnectEnds
<1>8. ChannelsFit'
  BY <1>0, <1>2, <1>4, <1>6 DEF AddressInv, ChannelsFit, ChannelFits, AddressFits
<1>9. \A q \in queries : q.c \in Channels
  BY DEF AddressInv, Shapes, Query
<1>10. Awaited' /\ OneQuery'
  BY <1>2, <1>6, <1>7, <1>9 DEF AddressInv, Awaited, AwaitsQuery, OneQuery
<1>11. ResolvingHasQuery' /\ ConnectingKept'
  BY <1>4, <1>6, <1>7 DEF AddressInv, ResolvingHasQuery, ConnectingKept
<1> QED
  BY <1>6, <1>7, <1>8, <1>10, <1>11 DEF AddressInv, Shapes, InTurn, Counted, WorkExact

-----------------------------------------------------------------------------
(* A query thread that moves on is still the query of its channel.         *)
LEMMA QueryMoves ==
  ASSUME AddressInv, ~ares, NEW q \in queries, NEW p \in Query,
         p.c = q.c, p.host = q.host, p.port = q.port,
         Becomes(q, {p}),
         UNCHANGED <<ares, ch, queued, todo, wake, dnsDirty, work, token, writer, life>>
  PROVE  AddressInv'
<1>1. queries' = (queries \ {q}) \cup {p}
  BY DEF Becomes
<1>2. Shapes' /\ ChannelsFit' /\ InTurn' /\ Counted' /\ ConnectingKept'
  BY <1>1 DEF AddressInv, Shapes, ChannelsFit, InTurn, Counted, WorkExact, ConnectingKept
<1>3. Awaited' /\ OneQuery'
  BY <1>1 DEF AddressInv, Awaited, AwaitsQuery, OneQuery
<1>4. ResolvingHasQuery'
  BY <1>1 DEF AddressInv, ResolvingHasQuery
<1> QED
  BY <1>2, <1>3, <1>4 DEF AddressInv

(* A query that is given up because the service is: nobody waits for it.   *)
LEMMA QueryDropped ==
  ASSUME AddressInv, ~ares, ~token, NEW q \in queries, Becomes(q, {}),
         UNCHANGED <<ares, ch, queued, todo, wake, dnsDirty, work, token, writer, life>>
  PROVE  AddressInv'
  BY DEF Becomes, AddressInv, Shapes, ChannelsFit, Awaited, OneQuery, InTurn, Counted,
         WorkExact, ResolvingHasQuery, ConnectingKept

(* The answer ends the one query of its channel.                           *)
LEMMA AnswerArrives ==
  ASSUME AddressInv, NEW q \in queries, NEW r \in Channel,
         \/ r = [ch[q.c] EXCEPT !.eps = <<<<q.host, q.port>>>>, !.fresh = TRUE]
         \/ r = [ch[q.c] EXCEPT !.err = "failed"],
         ch' = [ch EXCEPT ![q.c] = r], Becomes(q, {}),
         ares => work' = work - 1, ~ares => work' = work, wake' = TRUE,
         UNCHANGED <<ares, queued, todo, dnsDirty, token, writer, life>>
  PROVE  AddressInv'
<1>0. /\ q \in Query /\ q.c \in Channels /\ ch \in [Channels -> Channel]
      /\ ch[q.c] \in Channel /\ ChannelFits(ch[q.c]) /\ AwaitsQuery(ch[q.c], q)
  BY DEF AddressInv, Shapes, Query, ChannelsFit, Awaited
<1>1. queries' = queries \ {q}
  BY DEF Becomes
<1>2. /\ r.st = "RESOLVING" /\ r.host = ch[q.c].host /\ r.port = ch[q.c].port
      /\ r.hostDirty = ch[q.c].hostDirty /\ r.portDirty = ch[q.c].portDirty
      /\ r.open = ch[q.c].open
      /\ \/ r.eps # <<>> /\ r.eps[1] = <<r.host, r.port>> /\ r.err = "inprogress"
         \/ r.eps = <<>> /\ r.err = "failed"
  <2>1. CASE r = [ch[q.c] EXCEPT !.eps = <<<<q.host, q.port>>>>, !.fresh = TRUE]
    BY <1>0, <2>1 DEF Channel, AwaitsQuery
  <2>2. CASE r = [ch[q.c] EXCEPT !.err = "failed"]
    BY <1>0, <2>2 DEF Channel, AwaitsQuery
  <2> QED
    BY <2>1, <2>2
<1>3. ChannelFits(r)
  <2>1. AddressFits(r)
    BY <1>0, <1>2 DEF AddressFits
  <2>2. r.err # "ok" /\ ~r.hostDirty /\ ~r.portDirty /\ ~r.open
    BY <1>0, <1>2 DEF ChannelFits, AwaitsQuery
  <2> QED
    BY <1>2, <2>1, <2>2 DEF ChannelFits
<1>4. /\ ch' \in [Channels -> Channel] /\ ch'[q.c] = r
      /\ \A d \in Channels : d # q.c => ch'[d] = ch[d]
  BY <1>0
<1>5. ChannelsFit'
  BY <1>3, <1>4 DEF AddressInv, ChannelsFit
<1>6. \A p \in queries' : p.c \in Channels /\ p.c # q.c /\ p \in queries
  BY <1>1 DEF AddressInv, Shapes, Query, OneQuery
<1>7. Awaited' /\ OneQuery'
  BY <1>4, <1>6 DEF AddressInv, Awaited, AwaitsQuery, OneQuery
<1>8. ResolvingHasQuery'
  <2> SUFFICES ASSUME NEW c \in Channels, ch'[c].st = "RESOLVING", ch'[c].err = "inprogress",
                      ch'[c].eps = <<>>, token'
               PROVE  \E p \in queries' : p.c = c
    BY DEF ResolvingHasQuery
  <2>1. c # q.c
    BY <1>2, <1>4
  <2>2. PICK p \in queries : p.c = c
    BY <1>4, <2>1 DEF AddressInv, ResolvingHasQuery
  <2> QED
    BY <1>1, <2>1, <2>2
<1>9. ConnectingKept'
  BY <1>2, <1>4 DEF AddressInv, ConnectingKept
<1>10. Counted'
  <2>1. IsFiniteSet(queries)
    BY QueriesFinite DEF AddressInv, Shapes
  <2>2. Cardinality(queries') = Cardinality(queries) - 1
    BY <1>1, <2>1, FS_RemoveElement
  <2> QED
    BY <2>2 DEF AddressInv, Counted, WorkExact
<1> QED
  BY <1>1, <1>4, <1>5, <1>7, <1>8, <1>9, <1>10 DEF AddressInv, Shapes, InTurn

LEMMA QueryKeepsAddress ==
  ASSUME AddressInv, NEW q \in queries, QuerySteps(q)
  PROVE  AddressInv'
<1>0. /\ q \in Query /\ q.c \in Channels /\ ch[q.c] \in Channel /\ AwaitsQuery(ch[q.c], q)
      /\ q.host \in Hosts /\ q.port \in Ports
  BY DEF AddressInv, Shapes, Query, Awaited
<1>1. CASE QueryChecks(q)
  <2>1. CASE token
    <3>1. [q EXCEPT !.qpc = "asking"] \in Query
      BY <1>0 DEF Query
    <3> QED
      BY <1>0, <1>1, <2>1, <3>1, QueryMoves DEF QueryChecks, Query
  <2>2. CASE ~token
    BY <1>1, <2>2, QueryDropped DEF QueryChecks
  <2> QED
    BY <2>1, <2>2
<1>2. CASE QueryAnswers(q)
  <2>1. PICK b \in BOOLEAN : Becomes(q, {[q EXCEPT !.qpc = "answered", !.ok = b]})
    BY <1>2 DEF QueryAnswers
  <2>2. [q EXCEPT !.qpc = "answered", !.ok = b] \in Query
    BY <1>0 DEF Query
  <2> QED
    BY <1>0, <1>2, <2>1, <2>2, QueryMoves DEF QueryAnswers, Query
<1>3. CASE QueryLocks(q)
  <2>1. [q EXCEPT !.qpc = "locked"] \in Query
    BY <1>0 DEF Query
  <2> QED
    BY <1>0, <1>3, <2>1, QueryMoves DEF QueryLocks, Query
<1>4. CASE QueryRechecks(q)
  <2>1. CASE token
    <3>1. [q EXCEPT !.qpc = "updating"] \in Query
      BY <1>0 DEF Query
    <3> QED
      BY <1>0, <1>4, <2>1, <3>1, QueryMoves DEF QueryRechecks, Query
  <2>2. CASE ~token
    BY <1>4, <2>2, QueryDropped DEF QueryRechecks
  <2> QED
    BY <2>1, <2>2
<1>s. <<<<q.host, q.port>>>> \in Seq(Hosts \X Ports)
  BY <1>0
<1>5. CASE QueryUpdates(q)
  <2> DEFINE r == IF q.ok THEN [ch[q.c] EXCEPT !.eps = <<<<q.host, q.port>>>>, !.fresh = TRUE]
                  ELSE [ch[q.c] EXCEPT !.err = "failed"]
  <2>1. r \in Channel
    BY <1>0, <1>s DEF Channel
  <2>2. ch' = [ch EXCEPT ![q.c] = r]
    BY <1>5 DEF QueryUpdates
  <2> QED
    BY <1>5, <2>1, <2>2, AnswerArrives DEF QueryUpdates
<1>6. CASE AresAnswers(q)
  <2>1. PICK found \in {<<>>, <<<<q.host, q.port>>>>} :
          ch' = [ch EXCEPT ![q.c] = AresCallback(ch[q.c], found)]
    BY <1>6 DEF AresAnswers
  <2>2. ch[q.c].eps \o found = found
    BY <1>0, <1>s DEF AwaitsQuery
  <2>3. \/ AresCallback(ch[q.c], found) = [ch[q.c] EXCEPT !.eps = <<<<q.host, q.port>>>>, !.fresh = TRUE]
        \/ AresCallback(ch[q.c], found) = [ch[q.c] EXCEPT !.err = "failed"]
    BY <2>2 DEF AresCallback
  <2>4. AresCallback(ch[q.c], found) \in Channel
    BY <1>0, <1>s, <2>3, ZenonT(60) DEF Channel
  <2>5. work' = work - 1
    BY <1>6 DEF AresAnswers, AresPolled, AresWorkFinished
  <2> QED
    BY <1>6, <2>1, <2>3, <2>4, <2>5, AnswerArrives DEF AresAnswers, AresPolled
<1> QED
  BY <1>1, <1>2, <1>3, <1>4, <1>5, <1>6 DEF QuerySteps

(* A stopping worker cancels the queries of c-ares: each tells its channel *)
(* that it failed.                                                         *)
LEMMA DestroyAresFits ==
  ASSUME AddressInv
  PROVE  /\ DestroyAres(ch) \in [Channels -> Channel]
         /\ \A c \in Channels :
              LET r == DestroyAres(ch)[c] IN
              /\ ChannelFits(r) /\ r.st = ch[c].st /\ r.eps = ch[c].eps
              /\ (\E q \in queries : q.c = c) => r.err = "failed"
              /\ r.err # ch[c].err => r.err = "failed" /\ r.st = "RESOLVING"
<1> SUFFICES ASSUME NEW c \in Channels
             PROVE  LET r == IF \E q \in queries : q.c = c THEN AresCallback(ch[c], <<>>) ELSE ch[c] IN
                    /\ r \in Channel
                    /\ ChannelFits(r) /\ r.st = ch[c].st /\ r.eps = ch[c].eps
                    /\ (\E q \in queries : q.c = c) => r.err = "failed"
                    /\ r.err # ch[c].err => r.err = "failed" /\ r.st = "RESOLVING"
  BY DEF DestroyAres
<1>0. ch[c] \in Channel /\ ChannelFits(ch[c])
  BY DEF AddressInv, Shapes, ChannelsFit
<1>1. CASE ~ \E q \in queries : q.c = c
  BY <1>0, <1>1
<1>2. CASE \E q \in queries : q.c = c
  <2>1. ch[c].eps = <<>> /\ ch[c].st = "RESOLVING"
    BY <1>2 DEF AddressInv, Awaited, AwaitsQuery
  <2>2. AresCallback(ch[c], <<>>) = [ch[c] EXCEPT !.err = "failed"]
    BY <2>1 DEF AresCallback
  <2>3. [ch[c] EXCEPT !.err = "failed"] \in Channel
    BY <1>0 DEF Channel
  <2>4. ChannelFits([ch[c] EXCEPT !.err = "failed"])
    BY <1>0, <2>1 DEF Channel, ChannelFits, AddressFits
  <2> QED
    BY <1>0, <1>2, <2>1, <2>2, <2>3, <2>4 DEF Channel
<1> QED
  BY <1>1, <1>2

LEMMA WorkerExitsKeepsAddress ==
  ASSUME AddressInv, WorkerExits
  PROVE  AddressInv'
<1>1. CASE ~ares
  BY <1>1 DEF WorkerExits, AddressInv, Shapes, ChannelsFit, Awaited, OneQuery, InTurn, Counted,
              WorkExact, ResolvingHasQuery, ConnectingKept
<1>2. CASE ares
  <2>1. /\ ch' = DestroyAres(ch) /\ queries' = {} /\ work' = 0 /\ wake' = TRUE
        /\ life' = "idle" /\ todo = {} /\ life = "running"
        /\ UNCHANGED <<ares, queued, todo, dnsDirty, token, writer>>
    BY <1>2 DEF WorkerExits
  <2>2. Shapes' /\ ChannelsFit'
    BY <2>1, DestroyAresFits DEF AddressInv, Shapes, ChannelsFit
  <2>3. Awaited' /\ OneQuery' /\ InTurn' /\ Counted'
    BY <2>1, FS_EmptySet DEF AddressInv, Awaited, OneQuery, InTurn, Counted, WorkExact
  <2>4. ResolvingHasQuery'
    BY <2>1, DestroyAresFits DEF AddressInv, ResolvingHasQuery
  <2>5. ConnectingKept'
    BY <2>1, DestroyAresFits DEF AddressInv, ConnectingKept
  <2> QED
    BY <2>2, <2>3, <2>4, <2>5 DEF AddressInv
<1> QED
  BY <1>1, <1>2

-----------------------------------------------------------------------------
(* A visit.  The record that do_resolve works on has the address that was  *)
(* asked for, or none; and one that waits for an answer is left waiting.   *)
VisitStart(c) == [ch[c] EXCEPT !.open = FALSE, !.st = IF ch[c].open THEN "RESOLVING" ELSE @,
                               !.asked = <<ch[c].host, ch[c].port>>]
Looked(c) == Reported(Rehosted(VisitStart(c)))
IsStale(c) == dnsDirty /\ Looked(c).eps # <<>> /\ Looked(c).needs
Left(c) == IF Usable(Looked(c), IsStale(c)) THEN Looked(c) ELSE [Looked(c) EXCEPT !.eps = <<>>]

LEMMA VisitLooks ==
  ASSUME AddressInv, NEW c \in Channels, VisitStart(c).st = "RESOLVING"
  PROVE  /\ Looked(c) \in Channel /\ Left(c) \in Channel
         /\ \A r \in {Looked(c), Left(c)} :
              /\ r.st = "RESOLVING" /\ r.err = ch[c].err /\ ~r.open
              /\ ~r.hostDirty /\ ~r.portDirty
              /\ r.host = ch[c].host /\ r.port = ch[c].port /\ r.asked = <<r.host, r.port>>
              /\ r.eps # <<>> => r.eps[1] = <<r.host, r.port>> /\ r.eps[1] = r.asked
         /\ ch[c].err # "ok" =>
              /\ ch[c].st = "RESOLVING" /\ Looked(c).eps = ch[c].eps
              /\ ch[c].err = "inprogress" => Left(c).eps = ch[c].eps
<1>0. ch[c] \in Channel /\ ChannelFits(ch[c])
  BY DEF AddressInv, Shapes, ChannelsFit
<1> DEFINE r0 == VisitStart(c)
           r1 == Rehosted(r0)
<1>1. /\ ch[c].host \in Hosts /\ ch[c].port \in Ports
      /\ (IF ch[c].open THEN "RESOLVING" ELSE ch[c].st) \in {"CLOSED", "RESOLVING", "CONNECTING", "OPENED"}
  BY <1>0 DEF Channel
<1>2. r0 \in Channel
  BY <1>0, <1>1 DEF VisitStart, Channel
<1>3. /\ ~r0.open /\ r0.asked = <<ch[c].host, ch[c].port>>
      /\ r0.err = ch[c].err /\ r0.host = ch[c].host /\ r0.port = ch[c].port
      /\ r0.hostDirty = ch[c].hostDirty /\ r0.portDirty = ch[c].portDirty
      /\ r0.eps = ch[c].eps /\ r0.needs = ch[c].needs
      /\ r0.st = IF ch[c].open THEN "RESOLVING" ELSE ch[c].st
  BY <1>0 DEF VisitStart, Channel
<1>4. AddressFits(r0)
  BY <1>0, <1>3 DEF ChannelFits, AddressFits
<1>5. r0.st = "RESOLVING"
  OBVIOUS
<1> HIDE DEF r0
<1>6. /\ r1 \in Channel /\ AddressFits(r1) /\ ~r1.hostDirty
      /\ r1.st = r0.st /\ r1.err = r0.err /\ r1.host = r0.host /\ r1.port = r0.port
      /\ r1.portDirty = r0.portDirty /\ r1.open = r0.open /\ r1.asked = r0.asked
      /\ ~r0.hostDirty => r1 = r0
  BY <1>2, <1>4, RehostedFits
<1> HIDE DEF r1
<1>7. Looked(c) = Reported(r1)
  BY DEF Looked, r0, r1
<1>8. /\ Looked(c) \in Channel /\ ~Looked(c).portDirty
      /\ Looked(c).st = r1.st /\ Looked(c).err = r1.err /\ Looked(c).host = r1.host
      /\ Looked(c).port = r1.port /\ Looked(c).hostDirty = r1.hostDirty
      /\ Looked(c).open = r1.open /\ Looked(c).asked = r1.asked
      /\ Looked(c).eps # <<>> => Looked(c).eps[1] = <<r1.host, r1.port>>
      /\ ~r1.portDirty => Looked(c).eps = r1.eps
  BY <1>6, <1>7, ReportedFits
<1>9. Left(c) = Looked(c) \/ Left(c) = [Looked(c) EXCEPT !.eps = <<>>]
  BY DEF Left
<1>10. [Looked(c) EXCEPT !.eps = <<>>] \in Channel
  <2>1. <<>> \in Seq(Hosts \X Ports)
    OBVIOUS
  <2> QED
    BY <1>8, <2>1 DEF Channel
<1>11. Left(c) \in Channel
  BY <1>8, <1>9, <1>10
<1>12. /\ Left(c).st = Looked(c).st /\ Left(c).err = Looked(c).err /\ Left(c).open = Looked(c).open
       /\ Left(c).hostDirty = Looked(c).hostDirty /\ Left(c).portDirty = Looked(c).portDirty
       /\ Left(c).host = Looked(c).host /\ Left(c).port = Looked(c).port
       /\ Left(c).asked = Looked(c).asked
       /\ Left(c).eps = Looked(c).eps \/ Left(c).eps = <<>>
  BY <1>8, <1>9 DEF Channel
<1>13. ASSUME ch[c].err # "ok"
       PROVE  /\ ch[c].st = "RESOLVING" /\ Looked(c).eps = ch[c].eps
              /\ ch[c].err = "inprogress" => Left(c).eps = ch[c].eps
  <2>1. ch[c].st \in {"CLOSED", "RESOLVING", "CONNECTING", "OPENED"}
    BY <1>0 DEF Channel
  <2>2. ch[c].st = "RESOLVING" /\ ~ch[c].hostDirty /\ ~ch[c].portDirty
    BY <1>0, <1>3, <1>5, <1>13, <2>1 DEF ChannelFits
  <2>3. Looked(c).eps = ch[c].eps
    BY <1>3, <1>6, <1>8, <2>2
  <2>4. ASSUME ch[c].err = "inprogress" PROVE Left(c).eps = ch[c].eps
    <3>1. Looked(c).err = "inprogress"
      BY <1>3, <1>6, <1>8, <2>4
    <3>2. CASE Looked(c).eps = <<>>
      BY <1>12, <2>3, <3>2
    <3>3. CASE Looked(c).eps # <<>>
      BY <2>3, <3>1, <3>3 DEF Left, Usable
    <3> QED
      BY <3>2, <3>3
  <2> QED
    BY <2>2, <2>3, <2>4
<1> QED
  BY <1>3, <1>5, <1>6, <1>8, <1>11, <1>12, <1>13

(* What a visit of another channel may do to this one: its cache expires,  *)
(* its query is cancelled.                                                 *)
Cancels(c) == IsStale(c) /\ ares
Others(c) == IF Cancels(c) THEN RecreateAres(ch) ELSE IF IsStale(c) THEN Expired(ch) ELSE ch

LEMMA ExpiredFits ==
  ASSUME NEW chs \in [Channels -> Channel], NEW d \in Channels, ChannelFits(chs[d])
  PROVE  /\ Expired(chs) \in [Channels -> Channel]
         /\ LET r == Expired(chs)[d] IN
            /\ ChannelFits(r) /\ r.st = chs[d].st /\ r.err = chs[d].err /\ r.eps = chs[d].eps
            /\ r.host = chs[d].host /\ r.port = chs[d].port
<1>1. ASSUME NEW e \in Channels PROVE [chs[e] EXCEPT !.fresh = FALSE] \in Channel
  <2>1. chs[e] \in Channel
    OBVIOUS
  <2> QED
    BY <2>1 DEF Channel
<1>2. Expired(chs) \in [Channels -> Channel] /\ Expired(chs)[d] = [chs[d] EXCEPT !.fresh = FALSE]
  BY <1>1 DEF Expired
<1> DEFINE r == [chs[d] EXCEPT !.fresh = FALSE]
<1>3. /\ r.st = chs[d].st /\ r.err = chs[d].err /\ r.eps = chs[d].eps
      /\ r.host = chs[d].host /\ r.port = chs[d].port /\ r.asked = chs[d].asked
      /\ r.hostDirty = chs[d].hostDirty /\ r.portDirty = chs[d].portDirty /\ r.open = chs[d].open
  BY DEF Channel
<1> HIDE DEF r
<1>4. ChannelFits(r)
  BY <1>3 DEF ChannelFits, AddressFits
<1> QED
  BY <1>2, <1>3, <1>4 DEF r

LEMMA OthersFit ==
  ASSUME AddressInv, NEW c \in Channels
  PROVE  /\ Others(c) \in [Channels -> Channel]
         /\ \A d \in Channels :
              LET r == Others(c)[d] IN
              /\ ChannelFits(r) /\ r.st = ch[d].st /\ r.eps = ch[d].eps
              /\ ~Cancels(c) => r.err = ch[d].err /\ r.host = ch[d].host /\ r.port = ch[d].port
              /\ Cancels(c) /\ (\E q \in queries : q.c = d) => r.err = "failed"
              /\ r.err # ch[d].err => r.err = "failed" /\ r.st = "RESOLVING"
<1>0. ch \in [Channels -> Channel] /\ \A d \in Channels : ChannelFits(ch[d])
  BY DEF AddressInv, Shapes, ChannelsFit
<1>1. CASE Cancels(c)
  <2>1. Others(c) = Expired(DestroyAres(ch))
    BY <1>1 DEF Others, RecreateAres
  <2> QED
    BY <1>1, <2>1, DestroyAresFits, ExpiredFits
<1>2. CASE ~Cancels(c) /\ IsStale(c)
  <2>1. Others(c) = Expired(ch)
    BY <1>2 DEF Others
  <2> QED
    BY <1>0, <1>2, <2>1, ExpiredFits
<1>3. CASE ~Cancels(c) /\ ~IsStale(c)
  BY <1>0, <1>3 DEF Others
<1> QED
  BY <1>1, <1>2, <1>3

Asks(c) == MustAsk(Left(c))
Opens(c) == Asks(c) /\ ch'[c] = StartQuery(Left(c))

(* What a visit does, in the terms above.                                  *)
LEMMA VisitUnfolds ==
  ASSUME NEW c \in Channels, Visit(c)
  PROVE  /\ c \in todo /\ VisitStart(c).st = "RESOLVING"
         /\ todo' = todo \ {c}
         /\ \/ /\ Left(c).eps # <<>>
               /\ \E out \in {"CONNECTING", "OPENED", "CLOSED"} :
                    ch' = [Others(c) EXCEPT ![c] = [Left(c) EXCEPT !.st = out,
                             !.err = IF out = "CONNECTING" THEN "inprogress" ELSE "ok"]]
            \/ /\ Asks(c)
               /\ \E r2 \in AresGetaddrinfo(Left(c)) :
                    ch' = [Others(c) EXCEPT ![c] = IF r2.err = "failed" THEN Failed(r2) ELSE r2]
            \/ /\ ~Asks(c) /\ Left(c).eps = <<>> /\ Left(c).err = "inprogress" /\ Left(c).host # NoName
               /\ ch' = [Others(c) EXCEPT ![c] = Left(c)]
            \/ /\ Left(c).eps = <<>> /\ (Left(c).err = "failed" \/ Left(c).host = NoName)
               /\ ch' = [Others(c) EXCEPT ![c] = Failed(Left(c))]
         /\ queries' = (IF Cancels(c) THEN {} ELSE queries) \cup (IF Opens(c) THEN {NewQuery(c)} ELSE {})
         /\ work' = IF Opens(c) /\ ares THEN AresWorkStarted(IF Cancels(c) THEN 0 ELSE work)
                    ELSE IF Cancels(c) THEN 0 ELSE work
         /\ queued' = IF ch'[c].err = "inprogress" THEN queued ELSE queued \ {c}
         /\ UNCHANGED <<ares, token, writer, life>>
BY Zenon DEF Visit, VisitStart, Looked, IsStale, Left, Cancels, Others, Asks, Opens

LEMMA VisitFlags ==
  ASSUME Shapes, NEW c \in Channels, Visit(c)
  PROVE  wake' \in BOOLEAN /\ dnsDirty' \in BOOLEAN
BY Zenon DEF Visit, Shapes

(* A record whose address is that of its host and port, and whose state    *)
(* agrees with its error.                                                  *)
LEMMA LeftFits ==
  ASSUME NEW r \in Channel,
         ~r.hostDirty, ~r.portDirty, ~r.open,
         r.eps # <<>> => r.eps[1] = <<r.host, r.port>> /\ r.eps[1] = r.asked,
         \/ r.st = "RESOLVING" /\ r.err # "ok"
         \/ r.st = "CONNECTING" /\ r.err = "inprogress"
         \/ r.st \in {"CLOSED", "OPENED"} /\ r.err = "ok"
  PROVE  ChannelFits(r)
<1>1. AddressFits(r)
  BY SMTT(30) DEF AddressFits
<1> QED
  BY <1>1 DEF ChannelFits

LEMMA VisitOutcome ==
  ASSUME AddressInv, NEW c \in Channels, Visit(c)
  PROVE  /\ ch' \in [Channels -> Channel] /\ \A d \in Channels : d # c => ch'[d] = Others(c)[d]
         /\ ChannelFits(ch'[c])
         /\ ch'[c].st = "RESOLVING" /\ ch'[c].err = "inprogress" /\ ch'[c].eps = <<>> =>
              \/ Opens(c)
              \/ ch[c].st = "RESOLVING" /\ ch[c].err = "inprogress" /\ ch[c].eps = <<>> /\ ~Cancels(c)
         /\ Opens(c) => ch[c].err = "ok" /\ AwaitsQuery(ch'[c], NewQuery(c))
         /\ \A q \in queries : q.c = c => ~Cancels(c) /\ ~Opens(c) /\ AwaitsQuery(ch'[c], q)
<1> DEFINE r == Left(c)
<1>0. VisitStart(c).st = "RESOLVING"
  BY VisitUnfolds, ZenonT(60)
<1>1. /\ r \in Channel /\ r.st = "RESOLVING" /\ r.err = ch[c].err /\ ~r.open
      /\ ~r.hostDirty /\ ~r.portDirty /\ r.host = ch[c].host /\ r.port = ch[c].port
      /\ r.eps # <<>> => r.eps[1] = <<r.host, r.port>> /\ r.eps[1] = r.asked
      /\ r.host \in Hosts /\ r.port \in Ports /\ r.asked = <<r.host, r.port>>
  BY <1>0, VisitLooks DEF Channel
<1>2. ch[c].err # "ok" =>
        /\ ch[c].st = "RESOLVING" /\ Looked(c).eps = ch[c].eps
        /\ ch[c].err = "inprogress" => r.eps = ch[c].eps
  BY <1>0, VisitLooks
<1>3. Others(c) \in [Channels -> Channel]
  BY OthersFit
<1>4. \A q \in queries : q.c = c => /\ r.eps = <<>> /\ r.err = "inprogress" /\ r.host # NoName
                                    /\ ~Cancels(c) /\ ~Asks(c) /\ AwaitsQuery(r, q)
  <2> SUFFICES ASSUME NEW q \in queries, q.c = c
               PROVE  /\ r.eps = <<>> /\ r.err = "inprogress" /\ r.host # NoName
                      /\ ~Cancels(c) /\ ~Asks(c) /\ AwaitsQuery(r, q)
    OBVIOUS
  <2>1. AwaitsQuery(ch[c], q)
    BY DEF AddressInv, Awaited
  <2>2. Looked(c).eps = <<>> /\ r.eps = <<>> /\ r.err = "inprogress"
    BY <1>1, <1>2, <2>1 DEF AwaitsQuery
  <2> QED
    BY <1>1, <2>1, <2>2 DEF AwaitsQuery, Cancels, IsStale, Asks, MustAsk
<1> HIDE DEF r
<1>5. ASSUME NEW n \in Channel, ch' = [Others(c) EXCEPT ![c] = n]
      PROVE  /\ ch' \in [Channels -> Channel] /\ ch'[c] = n
             /\ \A d \in Channels : d # c => ch'[d] = Others(c)[d]
  BY <1>3, <1>5
<1>6. CASE /\ r.eps # <<>>
           /\ \E out \in {"CONNECTING", "OPENED", "CLOSED"} :
                ch' = [Others(c) EXCEPT ![c] = [r EXCEPT !.st = out,
                         !.err = IF out = "CONNECTING" THEN "inprogress" ELSE "ok"]]
  <2>1. PICK out \in {"CONNECTING", "OPENED", "CLOSED"} :
               ch' = [Others(c) EXCEPT ![c] = [r EXCEPT !.st = out,
                        !.err = IF out = "CONNECTING" THEN "inprogress" ELSE "ok"]]
    BY <1>6
  <2> DEFINE n == [r EXCEPT !.st = out, !.err = IF out = "CONNECTING" THEN "inprogress" ELSE "ok"]
  <2>2. n \in Channel
    BY <1>1 DEF Channel
  <2>3. /\ n.st = out /\ n.err = (IF out = "CONNECTING" THEN "inprogress" ELSE "ok")
        /\ n.eps = r.eps /\ n.host = r.host /\ n.port = r.port /\ n.open = r.open
        /\ n.asked = r.asked /\ n.hostDirty = r.hostDirty /\ n.portDirty = r.portDirty
    BY <1>1 DEF Channel
  <2>4. ch'[c] = n
    BY <1>5, <2>1, <2>2
  <2> HIDE DEF n
  <2>5. ChannelFits(n)
    BY <1>1, <2>2, <2>3, LeftFits
  <2>6. ~Opens(c)
    BY <1>6 DEF Opens, Asks, MustAsk, r
  <2> QED
    BY <1>4, <1>5, <1>6, <2>1, <2>2, <2>3, <2>4, <2>5, <2>6 DEF n
<1>7. CASE /\ Asks(c)
           /\ \E r2 \in AresGetaddrinfo(r) :
                ch' = [Others(c) EXCEPT ![c] = IF r2.err = "failed" THEN Failed(r2) ELSE r2]
  <2>0. r.eps = <<>> /\ r.err = "ok" /\ r.host # NoName
    BY <1>7 DEF Asks, MustAsk, r
  <2>1. PICK r2 \in AresGetaddrinfo(r) :
          ch' = [Others(c) EXCEPT ![c] = IF r2.err = "failed" THEN Failed(r2) ELSE r2]
    BY <1>7
  <2> DEFINE s == StartQuery(r)
  <2>2. s \in Channel
    BY <1>1 DEF StartQuery, Channel
  <2>3. /\ s.st = "RESOLVING" /\ s.err = "inprogress" /\ s.eps = <<>>
        /\ s.host = r.host /\ s.port = r.port /\ ~s.open
        /\ s.asked = r.asked /\ ~s.hostDirty /\ ~s.portDirty
    BY <1>1, <2>0 DEF StartQuery, Channel
  <2> HIDE DEF s
  <2>4. \/ r2 = s
        \/ r2 = AresCallback(s, <<>>)
        \/ r2 = AresCallback(s, <<<<r.host, r.port>>>>)
    BY <2>1 DEF AresGetaddrinfo, s
  <2>5. CASE r2 = s
    <3>1. ch'[c] = s
      BY <1>5, <2>1, <2>2, <2>3, <2>5
    <3>2. ChannelFits(s)
      BY <2>2, <2>3, LeftFits
    <3>3. Opens(c)
      BY <1>7, <3>1 DEF Opens, s, r
    <3>4. AwaitsQuery(s, NewQuery(c))
      BY <1>1, <2>0, <2>3 DEF AwaitsQuery, NewQuery
    <3> QED
      BY <1>1, <1>4, <1>5, <1>7, <2>0, <2>1, <2>2, <2>3, <2>5, <3>1, <3>2, <3>3, <3>4
  <2>6. CASE r2 = AresCallback(s, <<>>)
    <3>1. r2 = [s EXCEPT !.err = "failed"]
      BY <2>3, <2>6 DEF AresCallback
    <3> DEFINE n == Failed(r2)
    <3>2. n = [[s EXCEPT !.err = "failed"] EXCEPT !.st = "CLOSED", !.err = "ok", !.open = FALSE]
      BY <3>1 DEF Failed
    <3>3. n \in Channel
      BY <2>2, <3>2 DEF Channel
    <3>4. /\ n.st = "CLOSED" /\ n.err = "ok" /\ ~n.open /\ n.eps = s.eps /\ n.host = s.host
          /\ n.port = s.port /\ n.asked = s.asked
          /\ n.hostDirty = s.hostDirty /\ n.portDirty = s.portDirty
      BY <2>2, <3>2 DEF Channel
    <3>5. r2.err = "failed"
      BY <2>2, <3>1 DEF Channel
    <3> HIDE DEF n
    <3>6. ch' = [Others(c) EXCEPT ![c] = n]
      BY <2>1, <3>5 DEF n
    <3>7. ch'[c] = n
      BY <1>5, <3>3, <3>6
    <3>8. ChannelFits(n)
      BY <2>3, <3>3, <3>4, LeftFits
    <3>9. ~Opens(c)
      BY <2>3, <3>4, <3>7 DEF Opens, s, r
    <3> QED
      BY <1>4, <1>5, <1>7, <3>3, <3>4, <3>6, <3>7, <3>8, <3>9
  <2>7. CASE r2 = AresCallback(s, <<<<r.host, r.port>>>>)
    <3> DEFINE e == <<<<r.host, r.port>>>>
    <3>1. e \in Seq(Hosts \X Ports) /\ e # <<>> /\ s.eps \o e = e /\ e[1] = <<r.host, r.port>>
      BY <1>1, <2>3
    <3> HIDE DEF e
    <3>2. r2 = [s EXCEPT !.eps = e, !.fresh = TRUE]
      BY <2>7, <3>1 DEF AresCallback, e
    <3>3. r2 \in Channel
      BY <2>2, <3>1, <3>2 DEF Channel
    <3>4. /\ r2.st = "RESOLVING" /\ r2.err = "inprogress" /\ ~r2.open /\ r2.eps = e
          /\ r2.host = s.host /\ r2.port = s.port /\ r2.asked = s.asked
          /\ ~r2.hostDirty /\ ~r2.portDirty
      BY <2>2, <2>3, <3>2 DEF Channel
    <3>5. ch' = [Others(c) EXCEPT ![c] = r2]
      BY <2>1, <3>4
    <3>6. ch'[c] = r2
      BY <1>5, <3>3, <3>5
    <3>7. r2.asked = <<r.host, r.port>>
      BY <1>1, <2>3, <3>4
    <3>8. ChannelFits(r2)
      BY <2>3, <3>1, <3>3, <3>4, <3>7, LeftFits
    <3>9. ~Opens(c)
      BY <2>3, <3>1, <3>4, <3>6 DEF Opens, s, r
    <3> QED
      BY <1>4, <1>5, <1>7, <3>1, <3>3, <3>4, <3>5, <3>6, <3>8, <3>9
  <2> QED
    BY <2>4, <2>5, <2>6, <2>7
<1>8. CASE /\ ~Asks(c) /\ r.eps = <<>> /\ r.err = "inprogress" /\ r.host # NoName
           /\ ch' = [Others(c) EXCEPT ![c] = r]
  <2>1. ch'[c] = r /\ ~Opens(c)
    BY <1>1, <1>5, <1>8 DEF Opens
  <2>2. ChannelFits(r)
    BY <1>1, <1>8, LeftFits
  <2>3. /\ ch[c].st = "RESOLVING" /\ ch[c].err = "inprogress" /\ ch[c].eps = <<>>
        /\ Looked(c).eps = <<>>
    BY <1>1, <1>2, <1>8
  <2>4. ~Cancels(c)
    BY <2>3 DEF Cancels, IsStale
  <2> QED
    BY <1>1, <1>4, <1>5, <1>8, <2>1, <2>2, <2>3, <2>4
<1>9. CASE /\ r.eps = <<>> /\ (r.err = "failed" \/ r.host = NoName)
           /\ ch' = [Others(c) EXCEPT ![c] = Failed(r)]
  <2> DEFINE n == Failed(r)
  <2>1. n \in Channel
    BY <1>1 DEF Failed, Channel
  <2>2. /\ n.st = "CLOSED" /\ n.err = "ok" /\ ~n.open /\ n.eps = r.eps /\ n.host = r.host
        /\ n.port = r.port /\ n.asked = r.asked
        /\ n.hostDirty = r.hostDirty /\ n.portDirty = r.portDirty
    BY <1>1 DEF Failed, Channel
  <2> HIDE DEF n
  <2>3. ch'[c] = n
    BY <1>5, <1>9, <2>1 DEF n
  <2>4. ChannelFits(n)
    BY <1>1, <2>1, <2>2, LeftFits
  <2>5. ~Opens(c)
    BY <1>9 DEF Opens, Asks, MustAsk, r
  <2> QED
    BY <1>4, <1>5, <1>9, <2>1, <2>2, <2>3, <2>4, <2>5 DEF n
<1> QED
  BY <1>6, <1>7, <1>8, <1>9, VisitUnfolds, ZenonT(60) DEF r

LEMMA VisitKeepsAddress ==
  ASSUME AddressInv, NEW c \in Channels, Visit(c)
  PROVE  AddressInv'
<1>0. /\ c \in todo /\ c \in queued /\ life = "running" /\ todo' = todo \ {c}
      /\ UNCHANGED <<ares, token, writer, life>>
      /\ queued' = IF ch'[c].err = "inprogress" THEN queued ELSE queued \ {c}
  BY VisitUnfolds, ZenonT(60) DEF AddressInv, InTurn
<1>1. queries' = (IF Cancels(c) THEN {} ELSE queries) \cup (IF Opens(c) THEN {NewQuery(c)} ELSE {})
  BY VisitUnfolds, ZenonT(60)
<1>2. /\ ch' \in [Channels -> Channel] /\ ChannelFits(ch'[c])
      /\ \A d \in Channels : d # c => ch'[d] = Others(c)[d]
      /\ Opens(c) => ch[c].err = "ok" /\ AwaitsQuery(ch'[c], NewQuery(c))
      /\ \A q \in queries : q.c = c => ~Cancels(c) /\ ~Opens(c) /\ AwaitsQuery(ch'[c], q)
  BY VisitOutcome
<1>3. NewQuery(c) \in Query /\ NewQuery(c).c = c
  BY DEF NewQuery, Query, AddressInv, Shapes, Channel
<1>4. Shapes'
  BY <1>0, <1>1, <1>2, <1>3, VisitFlags DEF AddressInv, Shapes
<1>5. ChannelsFit'
  BY <1>2, OthersFit DEF ChannelsFit
<1>6. \A q \in queries : q.c \in Channels
  BY DEF AddressInv, Shapes, Query
<1>7. Awaited'
  <2> SUFFICES ASSUME NEW q \in queries' PROVE AwaitsQuery(ch'[q.c], q)
    BY DEF Awaited
  <2>1. CASE q \in queries /\ q.c = c
    BY <1>2, <2>1
  <2>2. CASE q \in queries /\ q.c # c
    <3>1. CASE Cancels(c)
      BY <1>1, <1>2, <1>3, <2>2, <3>1
    <3>2. CASE ~Cancels(c)
      <4>1. AwaitsQuery(ch[q.c], q) /\ ch'[q.c] = Others(c)[q.c] /\ q.c \in Channels
        BY <1>2, <1>6, <2>2 DEF AddressInv, Awaited
      <4> QED
        BY <3>2, <4>1, OthersFit DEF AwaitsQuery
    <3> QED
      BY <3>1, <3>2
  <2>3. CASE q \notin queries
    BY <1>1, <1>2, <1>3, <2>3
  <2> QED
    BY <2>1, <2>2, <2>3
<1>8. OneQuery'
  BY <1>1, <1>2, <1>3 DEF AddressInv, OneQuery
<1>9. InTurn'
  BY <1>0 DEF AddressInv, InTurn
<1>10. Counted'
  <2>1. IsFiniteSet(queries)
    BY QueriesFinite DEF AddressInv, Shapes
  <2>2. Opens(c) => NewQuery(c) \notin queries
    BY <1>2, <1>3, SMTT(30)
  <2>3. work' = IF Opens(c) /\ ares THEN AresWorkStarted(IF Cancels(c) THEN 0 ELSE work)
                ELSE IF Cancels(c) THEN 0 ELSE work
    BY VisitUnfolds, ZenonT(60)
  <2>4. CASE ~ares
    BY <1>0, <2>3, <2>4 DEF AddressInv, Counted, WorkExact, Cancels
  <2>5. CASE ares /\ Cancels(c)
    <3>1. work' = IF Opens(c) THEN 1 ELSE 0
      BY <2>3, <2>5 DEF AresWorkStarted
    <3>2. queries' = IF Opens(c) THEN {NewQuery(c)} ELSE {}
      BY <1>1, <2>5
    <3> QED
      BY <1>0, <2>5, <3>1, <3>2, FS_EmptySet, FS_Singleton DEF Counted, WorkExact
  <2>6. CASE ares /\ ~Cancels(c)
    <3>1. work' = IF Opens(c) THEN work + 1 ELSE work
      BY <2>3, <2>6 DEF AresWorkStarted
    <3>2. queries' = IF Opens(c) THEN queries \cup {NewQuery(c)} ELSE queries
      BY <1>1, <2>6
    <3>3. Cardinality(queries') = IF Opens(c) THEN Cardinality(queries) + 1 ELSE Cardinality(queries)
      BY <2>1, <2>2, <3>2, FS_AddElement
    <3> QED
      BY <1>0, <2>6, <3>1, <3>3 DEF AddressInv, Counted, WorkExact
  <2> QED
    BY <2>4, <2>5, <2>6
<1>11. ResolvingHasQuery'
  <2> SUFFICES ASSUME NEW d \in Channels, ch'[d].st = "RESOLVING", ch'[d].err = "inprogress",
                      ch'[d].eps = <<>>, token'
               PROVE  \E q \in queries' : q.c = d
    BY DEF ResolvingHasQuery
  <2>1. CASE d = c /\ Opens(c)
    BY <1>1, <1>3, <2>1
  <2>2. CASE d = c /\ ~Opens(c)
    <3>1. ch[c].st = "RESOLVING" /\ ch[c].err = "inprogress" /\ ch[c].eps = <<>> /\ ~Cancels(c)
      BY <2>2, VisitOutcome
    <3>2. \E q \in queries : q.c = c
      BY <1>0, <3>1 DEF AddressInv, ResolvingHasQuery
    <3> QED
      BY <1>1, <2>2, <3>1, <3>2
  <2>3. CASE d # c
    <3>1. /\ Others(c)[d].st = "RESOLVING" /\ Others(c)[d].err = "inprogress"
          /\ Others(c)[d].eps = <<>>
      BY <1>2, <2>3
    <3>2. ch[d].st = "RESOLVING" /\ ch[d].err = "inprogress" /\ ch[d].eps = <<>>
      BY <3>1, OthersFit
    <3>3. PICK q \in queries : q.c = d
      BY <1>0, <3>2 DEF AddressInv, ResolvingHasQuery
    <3>4. ~Cancels(c)
      BY <3>1, <3>3, OthersFit
    <3> QED
      BY <1>1, <3>3, <3>4
  <2> QED
    BY <2>1, <2>2, <2>3
<1>12. ConnectingKept'
  <2> SUFFICES ASSUME NEW d \in Channels, ch'[d].st = "CONNECTING"
               PROVE  d \in queued' /\ ch'[d].err = "inprogress"
    BY DEF ConnectingKept
  <2>1. CASE d = c
    BY <1>0, <1>2, <2>1 DEF ChannelFits
  <2>2. CASE d # c
    <3>1. Others(c)[d].st = "CONNECTING" /\ ch'[d] = Others(c)[d]
      BY <1>2, <2>2
    <3>2. ch[d].st = "CONNECTING" /\ Others(c)[d].err = ch[d].err
      BY <3>1, OthersFit
    <3> QED
      BY <1>0, <2>2, <3>1, <3>2 DEF AddressInv, ConnectingKept
  <2> QED
    BY <2>1, <2>2
<1> QED
  BY <1>4, <1>5, <1>7, <1>8, <1>9, <1>10, <1>11, <1>12, SMTT(30) DEF AddressInv

LEMMA AddressInit == ResolverInit => AddressInv
<1> SUFFICES ASSUME ResolverInit PROVE AddressInv
  OBVIOUS
<1>1. PICK h \in Hosts \ {NoName}, p \in Ports :
        ch = [c \in Channels |->
               [st |-> "CLOSED", err |-> "ok", host |-> h, port |-> p, hostDirty |-> TRUE,
                portDirty |-> TRUE, needs |-> FALSE, eps |-> <<>>, fresh |-> FALSE,
                open |-> FALSE, asked |-> <<h, p>>]]
  BY DEF ResolverInit
<1>2. ch \in [Channels -> Channel]
  BY <1>1 DEF Channel
<1>3. \A c \in Channels : ch[c].st = "CLOSED" /\ ch[c].err = "ok" /\ ~ch[c].open /\ ch[c].eps = <<>>
  BY <1>1
<1>4. ChannelsFit
  BY <1>3 DEF ChannelsFit, ChannelFits, AddressFits
<1>5. wake \in BOOLEAN /\ dnsDirty \in BOOLEAN /\ token \in BOOLEAN /\ writer \in BOOLEAN /\ ares \in BOOLEAN
  BY Zenon DEF ResolverInit
<1> QED
  BY <1>2, <1>3, <1>4, <1>5, FS_EmptySet
  DEF ResolverInit, AddressInv, Shapes, Awaited, OneQuery, InTurn, Counted, WorkExact,
      ResolvingHasQuery, ConnectingKept

(* A channel connects to the host and port it was given, a connection      *)
(* under way stays in channel_ops_, a channel in RESOLVING has a query     *)
(* that will answer it, and ares_outstanding_work_ counts the queries:     *)
(* with threads or c-ares, for any number of channels, however answers,    *)
(* stale caches, stops and restarts fall together.                         *)
THEOREM AddressesResolved ==
  ASSUME ~Rehost
  PROVE  ResolverSpec => []ResolverSafe
<1>1. AddressInv /\ [ResolverNext]_rvars => AddressInv'
  <2> SUFFICES ASSUME AddressInv, [ResolverNext]_rvars PROVE AddressInv'
    OBVIOUS
  <2>1. CASE UNCHANGED rvars
    BY <2>1 DEF rvars, AddressInv, Shapes, ChannelsFit, Awaited, OneQuery, InTurn, Counted,
                WorkExact, ResolvingHasQuery, ConnectingKept
  <2>2. CASE ResolverNext
    BY <2>2, VisitKeepsAddress, QueryKeepsAddress, WorkerExitsKeepsAddress, TurnKeepsAddress,
       ConnectEndsKeepsAddress, CallsKeepAddress DEF ResolverNext, ResolverLoop, AnyQuery
  <2> QED
    BY <2>1, <2>2
<1> QED
  BY <1>1, AddressInit, AddressInvSafe, PTL DEF ResolverSpec

-----------------------------------------------------------------------------
(* Listening channels.  The proofs assume that no channel changes its kind *)
(* and that connect_n leaves no datagram socket unconnected: either puts   *)
(* transport_map_ out of step.                                             *)

DatagramServer(c) == Datagram(c) /\ ~IsClient(c)

(* The transports: transport_map_ is a function into the live datagram     *)
(* transports of servers, which stand where their peers were routed to;    *)
(* what has been told of a transport follows from its state; and its       *)
(* socket hears of its peer alone.                                         *)
Story(t) ==
  \/ t.st = "CONNECTING" /\ t.ok = 0 /\ t.bad = 0 /\ t.lost = 0
  \/ t.st = "OPENED" /\ t.ok = 1 /\ t.bad = 0 /\ t.lost = 0
  \/ t.st = "FREED" /\ t.ok + t.bad <= 1 /\ t.lost = t.ok

Homed(t) == t.connected /\ t.from \subseteq {t.peer} /\ (Datagram(t.c) => <<t.c, t.peer>> \in Routes)

MapIsFunction == \A e, f \in tmap : e[1] = f[1] => e = f
MapRouted == \A e \in tmap : DatagramServer(conns[e[2]].c)
GotMade == \A g \in got : g[3] \in DOMAIN conns
Stories == \A i \in DOMAIN conns : Story(conns[i])
Homes == \A i \in DOMAIN conns : Homed(conns[i])

ConnsTypeOK ==
  /\ conns \in Seq(Connection) /\ Len(conns) <= MaxConns
  /\ tmap \subseteq Peers \X (1..MaxConns) /\ got \subseteq Servers \X Peers \X (1..MaxConns)
  /\ kind \in [Servers -> Kind]

ConnsInv ==
  /\ ConnsTypeOK /\ MapIsFunction /\ MapRouted /\ MapAlive /\ MapWhole
  /\ GotMade /\ RoutedHome /\ Stories /\ Homes /\ SchedExact

(* The loop: it visits what is there, and a channel that is being visited  *)
(* is queued.                                                              *)
Visits ==
  /\ phase = "transports" => left \subseteq Live
  /\ phase = "channels" => left \subseteq ops
  /\ seen # None => phase = "channels" /\ seen[1] \in ops /\ seen[1] \notin left
                     /\ seen[3] = IsClient(seen[1])

PendRouted == \A c \in Servers : \A i \in DOMAIN pend[c] : <<c, pend[c][i]>> \in Routes

LoopTypeOK ==
  /\ srv \in [Servers -> ChannelState]
  /\ ops \subseteq Servers /\ pushing \subseteq Servers /\ pend \in [Servers -> Seq(Peers)]
  /\ phase \in {"poll", "transports", "channels", "exited"}
  /\ seen \in {None} \cup Servers \X (SUBSET {"OPEN", "CLOSE"}) \X BOOLEAN

LoopInv == LoopTypeOK /\ Visits /\ PendRouted /\ ListenerQueued

ServerInv == ConnsInv /\ LoopInv

(* The live transports are finitely many. *)
LEMMA LiveFinite ==
  ASSUME ConnsInv
  PROVE  /\ DOMAIN conns = 1..Len(conns) /\ Len(conns) \in Nat
         /\ IsFiniteSet({i \in Live : Kcp(conns[i].c)})
         /\ nsched \in Nat /\ nsched <= MaxConns
<1>1. DOMAIN conns = 1..Len(conns) /\ Len(conns) \in Nat
  BY DEF ConnsInv, ConnsTypeOK
<1>2. IsFiniteSet(1..Len(conns)) /\ Cardinality(1..Len(conns)) = Len(conns)
  <2>1. PICK n \in Nat : n = Len(conns)
    BY <1>1
  <2>2. IsFiniteSet(1..n) /\ Cardinality(1..n) = IF 1 > n THEN 0 ELSE n - 1 + 1
    BY FS_Interval
  <2>3. Cardinality(1..n) = n
    BY <2>2
  <2> QED BY <2>1, <2>2, <2>3, SMTT(30)
<1> DEFINE K == {i \in Live : Kcp(conns[i].c)}
<1>3. K \subseteq 1..Len(conns)
  BY <1>1 DEF Live
<1>4. IsFiniteSet(K) /\ Cardinality(K) <= Len(conns) /\ Cardinality(K) \in Nat
  BY <1>2, <1>3, FS_Subset, FS_CardinalityType
<1>5. nsched = Cardinality(K) /\ Len(conns) <= MaxConns
  BY DEF ConnsInv, SchedExact, ConnsTypeOK
<1> QED BY <1>1, <1>4, <1>5, ServerAssumption

(* Steps after which the same transports are alive. *)
LEMMA ConnsMarked ==
  ASSUME ConnsInv, UNCHANGED <<kind, tmap, nsched>>, conns' \in Seq(Connection), Len(conns') = Len(conns),
         \A i \in DOMAIN conns : /\ conns'[i].c = conns[i].c /\ conns'[i].peer = conns[i].peer
                                 /\ conns'[i].st = "FREED" <=> conns[i].st = "FREED"
                                 /\ Story(conns'[i]) /\ Homed(conns'[i]),
         \A g \in got' : \/ g \in got
                         \/ /\ g \in Servers \X Peers \X (1..MaxConns) /\ g[3] \in DOMAIN conns
                            /\ conns[g[3]].peer = g[2] /\ (conns[g[3]].c = g[1] \/ Shared(g[2]))
  PROVE  ConnsInv' /\ Live' = Live
<1>1. DOMAIN conns' = DOMAIN conns
  BY DEF ConnsInv, ConnsTypeOK
<1>2. Live' = Live
  BY <1>1 DEF Live
<1>3. ConnsTypeOK' /\ MapIsFunction'
  BY DEF ConnsInv, ConnsTypeOK, MapIsFunction
<1>4. \A e \in tmap : e[2] \in DOMAIN conns
  BY DEF ConnsInv, MapAlive, Live
<1>5. MapRouted'
  <2> SUFFICES ASSUME NEW e \in tmap PROVE DatagramServer(conns[e[2]].c)'
    BY DEF MapRouted
  <2>1. conns'[e[2]].c = conns[e[2]].c /\ DatagramServer(conns[e[2]].c)
    BY <1>4 DEF ConnsInv, MapRouted
  <2> QED BY <2>1 DEF DatagramServer, Datagram, IsClient
<1>6. MapAlive'
  BY <1>2, <1>4 DEF ConnsInv, MapAlive
<1>7. MapWhole'
  <2> SUFFICES ASSUME NEW i \in Live', Datagram(conns[i].c)', ~IsClient(conns[i].c)', ~Shared(conns[i].peer)'
               PROVE  <<conns[i].peer, i>>' \in tmap'
    BY DEF MapWhole
  <2>1. i \in Live /\ conns'[i].c = conns[i].c /\ conns'[i].peer = conns[i].peer
    BY <1>2 DEF Live
  <2>2. Datagram(conns[i].c) /\ ~IsClient(conns[i].c)
    BY <2>1 DEF Datagram, IsClient
  <2>3. ~Shared(conns[i].peer)
    BY <2>1 DEF Shared, Datagram, IsClient
  <2> QED BY <2>1, <2>2, <2>3 DEF ConnsInv, MapWhole
<1>8. GotMade'
  BY <1>1 DEF ConnsInv, GotMade
<1>9. RoutedHome'
  <2> SUFFICES ASSUME NEW g \in got'
               PROVE  conns'[g[3]].peer = g[2] /\ (conns'[g[3]].c = g[1] \/ Shared(g[2])')
    BY DEF RoutedHome
  <2>1. g[3] \in DOMAIN conns /\ conns[g[3]].peer = g[2] /\ (conns[g[3]].c = g[1] \/ Shared(g[2]))
    BY DEF ConnsInv, GotMade, RoutedHome
  <2>2. Shared(g[2]) => Shared(g[2])'
    BY DEF Shared, Datagram, IsClient
  <2> QED BY <2>1, <2>2
<1>10. Stories'
  BY <1>1 DEF Stories
<1>11. Homes'
  BY <1>1 DEF Homes, Homed, Datagram
<1>12. SchedExact'
  <2>1. {i \in Live : Kcp(conns[i].c)}' = {i \in Live : Kcp(conns[i].c)}
    BY <1>2 DEF Live, Kcp
  <2> QED BY <2>1 DEF ConnsInv, SchedExact
<1> QED BY <1>2, <1>3, <1>5, <1>6, <1>7, <1>8, <1>9, <1>10, <1>11, <1>12 DEF ConnsInv

(* A transport is made: the first of its peer, if it is one for datagrams. *)
LEMMA ConnsMade ==
  ASSUME ConnsInv, UNCHANGED kind, NEW t \in Connection, t.st # "FREED", Story(t), Homed(t),
         conns' = Append(conns, t), Len(conns) < MaxConns, nsched' = nsched + Scheduled(t.c),
         DatagramServer(t.c) => Routed(t.peer) = {} /\ tmap' = tmap \cup {<<t.peer, Len(conns) + 1>>},
         ~DatagramServer(t.c) => UNCHANGED tmap,
         got' \subseteq got \cup {<<t.c, t.peer, Len(conns) + 1>>}
  PROVE  ConnsInv' /\ Live \subseteq Live'
<1> DEFINE n == Len(conns) + 1
<1>1. /\ Len(conns) \in Nat /\ MaxConns \in Nat /\ DOMAIN conns = 1..Len(conns) /\ conns \in Seq(Connection)
      /\ conns' \in Seq(Connection) /\ Len(conns') = n /\ DOMAIN conns' = DOMAIN conns \cup {n}
      /\ conns'[n] = t /\ n \notin DOMAIN conns /\ n \in 1..MaxConns
      /\ \A i \in DOMAIN conns : conns'[i] = conns[i]
  BY ServerAssumption DEF ConnsInv, ConnsTypeOK
<1>13. DatagramServer(t.c) => tmap' = tmap \cup {<<t.peer, n>>}
  OBVIOUS
<1>14. got' \subseteq got \cup {<<t.c, t.peer, n>>}
  OBVIOUS
<1> HIDE DEF n
<1>2. Live' = Live \cup {n} /\ n \notin Live
  BY <1>1 DEF Live
<1>3. t.c \in Servers /\ t.peer \in Peers
  BY DEF Connection
<1>4. ConnsTypeOK'
  <2>1. <<t.peer, n>> \in Peers \X (1..MaxConns) /\ <<t.c, t.peer, n>> \in Servers \X Peers \X (1..MaxConns)
    BY <1>1, <1>3
  <2>2. tmap' \subseteq Peers \X (1..MaxConns)
    BY <1>13, <2>1 DEF ConnsInv, ConnsTypeOK
  <2>3. got' \subseteq Servers \X Peers \X (1..MaxConns)
    BY <1>14, <2>1 DEF ConnsInv, ConnsTypeOK
  <2>4. Len(conns') <= MaxConns
    BY <1>1
  <2> QED BY <1>1, <2>2, <2>3, <2>4 DEF ConnsInv, ConnsTypeOK
<1>5. \A e \in tmap : e[2] \in DOMAIN conns /\ e[2] \in Live
  BY DEF ConnsInv, MapAlive, Live
<1>6. \A e \in tmap' : e \in tmap \/ (e = <<t.peer, n>> /\ DatagramServer(t.c))
  BY <1>13
<1>7. MapIsFunction'
  <2>1. DatagramServer(t.c) => \A e \in tmap : e[1] # t.peer
    BY DEF Routed
  <2> QED BY <1>6, <2>1 DEF ConnsInv, MapIsFunction
<1>8. MapRouted'
  <2> SUFFICES ASSUME NEW e \in tmap' PROVE DatagramServer(conns[e[2]].c)'
    BY DEF MapRouted
  <2>1. CASE e \in tmap
    <3>1. conns'[e[2]] = conns[e[2]] /\ DatagramServer(conns[e[2]].c)
      BY <1>1, <1>5, <2>1 DEF ConnsInv, MapRouted
    <3> QED BY <3>1 DEF DatagramServer, Datagram, IsClient
  <2>2. CASE e \notin tmap
    <3>1. conns'[e[2]] = t /\ DatagramServer(t.c)
      BY <1>1, <1>6, <2>2
    <3> QED BY <3>1 DEF DatagramServer, Datagram, IsClient
  <2> QED BY <2>1, <2>2
<1>9. MapAlive'
  BY <1>1, <1>2, <1>5, <1>6 DEF ConnsInv, MapAlive
<1>10. MapWhole'
  <2> SUFFICES ASSUME NEW i \in Live', Datagram(conns[i].c)', ~IsClient(conns[i].c)', ~Shared(conns[i].peer)'
               PROVE  <<conns[i].peer, i>>' \in tmap'
    BY DEF MapWhole
  <2>1. CASE i = n
    <3>1. conns'[i] = t /\ DatagramServer(t.c)
      BY <1>1, <2>1 DEF DatagramServer, Datagram, IsClient
    <3> QED BY <1>13, <2>1, <3>1
  <2>2. CASE i \in Live
    <3>1. conns'[i] = conns[i]
      BY <1>1, <2>2 DEF Live
    <3>2. Datagram(conns[i].c) /\ ~IsClient(conns[i].c)
      BY <3>1 DEF Datagram, IsClient
    <3>3. ~Shared(conns[i].peer)
      BY <3>1 DEF Shared, Datagram, IsClient
    <3>4. <<conns[i].peer, i>> \in tmap
      BY <2>2, <3>2, <3>3 DEF ConnsInv, MapWhole
    <3> QED BY <1>13, <3>1, <3>4
  <2> QED BY <1>2, <2>1, <2>2
<1>11. GotMade' /\ RoutedHome'
  <2>1. \A g \in got' : g \in got \/ g = <<t.c, t.peer, n>>
    BY <1>14
  <2>2. \A p \in Peers : Shared(p) => Shared(p)'
    BY DEF Shared, Datagram, IsClient
  <2>3. GotMade'
    BY <1>1, <2>1 DEF ConnsInv, GotMade
  <2>4. ASSUME NEW g \in got' PROVE conns'[g[3]].peer = g[2] /\ (conns'[g[3]].c = g[1] \/ Shared(g[2])')
    <3>1. CASE g \in got
      <4>1. g[3] \in DOMAIN conns /\ conns[g[3]].peer = g[2] /\ (conns[g[3]].c = g[1] \/ Shared(g[2]))
        BY <3>1 DEF ConnsInv, GotMade, RoutedHome
      <4>2. g[2] \in Peers
        BY <3>1 DEF ConnsInv, ConnsTypeOK
      <4> QED BY <1>1, <2>2, <4>1, <4>2
    <3>2. CASE g = <<t.c, t.peer, n>>
      BY <1>1, <3>2
    <3> QED BY <2>1, <3>1, <3>2
  <2>5. RoutedHome'
    BY <2>4 DEF RoutedHome
  <2> QED BY <2>3, <2>5
<1>12. Stories' /\ Homes'
  <2>1. Stories'
    BY <1>1 DEF ConnsInv, Stories
  <2>2. Homes'
    BY <1>1 DEF ConnsInv, Homes, Homed, Datagram
  <2> QED BY <2>1, <2>2
<1>15. SchedExact'
  <2> DEFINE K == {i \in Live : Kcp(conns[i].c)}
             K1 == {i \in Live' : kind[conns'[i].c] \in {"kcp", "kcpclient"}}
  <2>1. IsFiniteSet(K) /\ nsched = Cardinality(K) /\ n \notin K
    BY LiveFinite, <1>2 DEF ConnsInv, SchedExact
  <2>2. K1 = IF Kcp(t.c) THEN K \cup {n} ELSE K
    BY <1>1, <1>2 DEF Live, Kcp
  <2>3. (SchedExact)' <=> nsched' = Cardinality(K1)
    BY DEF SchedExact, Kcp
  <2> HIDE DEF K, K1
  <2>4. Cardinality(K) \in Nat /\ Cardinality(K \cup {n}) = Cardinality(K) + 1
    BY <2>1, FS_CardinalityType, FS_AddElement
  <2>5. nsched' = Cardinality(K1)
    BY <2>1, <2>2, <2>4 DEF Scheduled
  <2> QED BY <2>3, <2>5
<1> QED BY <1>2, <1>4, <1>7, <1>8, <1>9, <1>10, <1>11, <1>12, <1>15 DEF ConnsInv

(* handle_close of a live transport whose read left it as t. *)
LEMMA ConnsClosed ==
  ASSUME ConnsInv, UNCHANGED kind, NEW i \in Live, NEW t \in Connection,
         t.c = conns[i].c, t.peer = conns[i].peer, Homed(t),
         \/ t.st = "OPENED" /\ t.ok = 1 /\ t.bad = 0 /\ t.lost = 0
         \/ t.st = "CONNECTING" /\ t.ok = 0 /\ t.bad <= 1 /\ t.lost = 0,
         conns' = [conns EXCEPT ![i] = Closed(t)], Unregister(t),
         \A g \in got' : g \in got \/ g = <<conns[i].c, conns[i].peer, i>>
  PROVE  ConnsInv' /\ Live' = Live \ {i}
<1>1. /\ i \in DOMAIN conns /\ DOMAIN conns' = DOMAIN conns /\ conns'[i] = Closed(t)
      /\ \A j \in DOMAIN conns : j # i => conns'[j] = conns[j]
  BY DEF Live
<1>2. /\ Closed(t) \in Connection /\ Closed(t).c = t.c /\ Closed(t).peer = t.peer
      /\ Closed(t).st = "FREED" /\ Story(Closed(t)) /\ Homed(Closed(t))
  <2> DEFINE z == Closed(t)
  <2>1. t.ok \in 0..2 /\ t.bad \in 0..2 /\ t.lost = 0 /\ t.ok + t.bad <= 1
    BY DEF Connection
  <2>2. PICK k \in 0..2 : k = (IF t.st = "OPENED" THEN t.lost + 1 ELSE t.lost) /\ k = t.ok
    BY <2>1
  <2>3. z = [t EXCEPT !.st = "FREED", !.lost = k]
    BY <2>2 DEF Closed, Connection
  <2> HIDE DEF z
  <2>4. /\ z \in Connection /\ z.c = t.c /\ z.peer = t.peer /\ z.st = "FREED" /\ z.lost = k
        /\ z.ok = t.ok /\ z.bad = t.bad /\ z.connected = t.connected /\ z.from = t.from
    BY <2>3 DEF Connection
  <2>5. Story(z)
    BY <2>1, <2>2, <2>4 DEF Story
  <2>6. Homed(z)
    BY <2>4, Zenon DEF Homed
  <2> QED BY <2>4, <2>5, <2>6 DEF z
<1>3. conns' \in Seq(Connection) /\ Len(conns') = Len(conns)
  BY <1>1, <1>2 DEF ConnsInv, ConnsTypeOK
<1>4. Live' = Live \ {i}
  BY <1>1, <1>2 DEF Live
<1>5. \A g \in got' : g \in got \/ g = <<conns[i].c, conns[i].peer, i>>
  OBVIOUS
<1>6. i \in 1..MaxConns /\ conns[i].c \in Servers /\ conns[i].peer \in Peers
  BY <1>1, ServerAssumption DEF ConnsInv, ConnsTypeOK, Connection
<1>7. tmap' \subseteq tmap /\ \A e \in tmap : e \in tmap' <=> (Datagram(conns[i].c) => e[1] # conns[i].peer)
  <2>1. RemoteEndpoint(t) = conns[i].peer
    BY DEF Homed, RemoteEndpoint
  <2> QED BY <2>1 DEF Unregister
<1>8. ConnsTypeOK' /\ MapIsFunction'
  <2>1. <<conns[i].c, conns[i].peer, i>> \in Servers \X Peers \X (1..MaxConns)
    BY <1>6
  <2> QED BY <1>3, <1>5, <1>7, <2>1 DEF ConnsInv, ConnsTypeOK, MapIsFunction
<1>9. \A e \in tmap : e[2] \in DOMAIN conns /\ e[2] \in Live /\ conns[e[2]].peer = e[1]
                     /\ DatagramServer(conns[e[2]].c)
  BY DEF ConnsInv, MapAlive, MapRouted, Live
<1>10. \A e \in tmap' : e \in tmap /\ e[2] # i
  BY <1>7, <1>9 DEF DatagramServer
<1>11. MapRouted'
  <2> SUFFICES ASSUME NEW e \in tmap' PROVE DatagramServer(conns[e[2]].c)'
    BY DEF MapRouted
  <2>1. conns'[e[2]] = conns[e[2]] /\ DatagramServer(conns[e[2]].c)
    BY <1>1, <1>9, <1>10
  <2> QED BY <2>1 DEF DatagramServer, Datagram, IsClient
<1>12. MapAlive'
  BY <1>1, <1>4, <1>9, <1>10 DEF MapAlive
<1>13. MapWhole'
  <2> SUFFICES ASSUME NEW j \in Live', Datagram(conns[j].c)', ~IsClient(conns[j].c)', ~Shared(conns[j].peer)'
               PROVE  <<conns[j].peer, j>>' \in tmap'
    BY DEF MapWhole
  <2>1. j \in Live /\ j # i /\ conns'[j] = conns[j] /\ j \in DOMAIN conns
    BY <1>1, <1>4 DEF Live
  <2>2. Datagram(conns[j].c) /\ ~IsClient(conns[j].c)
    BY <2>1 DEF Datagram, IsClient
  <2>3. ~Shared(conns[j].peer)
    BY <2>1 DEF Shared, Datagram, IsClient
  <2>4. <<conns[j].peer, j>> \in tmap
    BY <2>1, <2>2, <2>3 DEF ConnsInv, MapWhole
  <2>5. ASSUME Datagram(conns[i].c), conns[i].peer = conns[j].peer PROVE FALSE
    <3>1. <<conns[i].c, conns[i].peer>> \in Routes /\ <<conns[j].c, conns[j].peer>> \in Routes
      BY <1>1, <2>1, <2>2, <2>5 DEF ConnsInv, Homes, Homed
    <3>2. conns[i].c = conns[j].c
      <4> SUFFICES ASSUME conns[i].c # conns[j].c PROVE FALSE
        OBVIOUS
      <4>1. PICK r \in Routes, s \in Routes : r = <<conns[i].c, conns[i].peer>> /\ s = <<conns[j].c, conns[j].peer>>
        BY <3>1
      <4>2. /\ r[2] = conns[j].peer /\ s[2] = conns[j].peer /\ r[1] # s[1]
            /\ Datagram(r[1]) /\ Datagram(s[1]) /\ ~IsClient(s[1])
        BY <2>2, <2>5, <4>1
      <4> QED BY <2>3, <4>2 DEF Shared
    <3>3. <<conns[i].peer, i>> \in tmap
      BY <2>2, <2>3, <2>5, <3>2 DEF ConnsInv, MapWhole
    <3>4. <<conns[j].peer, j>> = <<conns[i].peer, i>>
      BY <2>4, <2>5, <3>3 DEF ConnsInv, MapIsFunction
    <3> QED BY <2>1, <3>4
  <2> QED BY <1>7, <2>1, <2>4, <2>5
<1>14. GotMade' /\ RoutedHome'
  <2>1. GotMade'
    BY <1>1, <1>5 DEF ConnsInv, GotMade
  <2>2. \A p \in Peers : Shared(p) => Shared(p)'
    BY DEF Shared, Datagram, IsClient
  <2>3. ASSUME NEW g \in got' PROVE conns'[g[3]].peer = g[2] /\ (conns'[g[3]].c = g[1] \/ Shared(g[2])')
    <3>1. CASE g \in got
      <4>1. g[3] \in DOMAIN conns /\ conns[g[3]].peer = g[2] /\ (conns[g[3]].c = g[1] \/ Shared(g[2]))
        BY <3>1 DEF ConnsInv, GotMade, RoutedHome
      <4>2. g[2] \in Peers
        BY <3>1 DEF ConnsInv, ConnsTypeOK
      <4>3. conns'[g[3]].c = conns[g[3]].c /\ conns'[g[3]].peer = conns[g[3]].peer
        BY <1>1, <1>2, <4>1
      <4> QED BY <2>2, <4>1, <4>2, <4>3
    <3>2. CASE g = <<conns[i].c, conns[i].peer, i>>
      BY <1>1, <1>2, <3>2
    <3> QED BY <1>5, <3>1, <3>2
  <2>4. RoutedHome'
    BY <2>3 DEF RoutedHome
  <2> QED BY <2>1, <2>4
<1>15. Stories' /\ Homes'
  <2>1. Stories'
    BY <1>1, <1>2 DEF ConnsInv, Stories
  <2>2. \A j \in DOMAIN conns : Homed(conns'[j])
    BY <1>1, <1>2 DEF ConnsInv, Homes
  <2>3. Homes'
    BY <1>1, <2>2 DEF Homes, Homed, Datagram
  <2> QED BY <2>1, <2>3
<1>16. SchedExact'
  <2> DEFINE K == {j \in Live : Kcp(conns[j].c)}
             K1 == {j \in Live' : kind[conns'[j].c] \in {"kcp", "kcpclient"}}
  <2>1. IsFiniteSet(K) /\ nsched = Cardinality(K)
    BY LiveFinite DEF ConnsInv, SchedExact
  <2>2. K1 = K \ {i} /\ (i \in K <=> Kcp(conns[i].c))
    BY <1>1, <1>4 DEF Live, Kcp
  <2>3. (SchedExact)' <=> nsched' = Cardinality(K1)
    BY DEF SchedExact, Kcp
  <2> HIDE DEF K, K1
  <2>4. Cardinality(K) \in Nat /\ Cardinality(K \ {i}) = IF i \in K THEN Cardinality(K) - 1 ELSE Cardinality(K)
    BY <2>1, FS_CardinalityType, FS_RemoveElement
  <2>5. nsched' = Cardinality(K1)
    BY <2>1, <2>2, <2>4 DEF Unregister, Scheduled
  <2> QED BY <2>3, <2>5
<1> QED BY <1>4, <1>8, <1>11, <1>12, <1>13, <1>14, <1>15, <1>16 DEF ConnsInv

(* What reading a live transport can make of it. *)
LEMMA ReadFacts ==
  ASSUME ConnsInv, NEW i \in Live, NEW out \in Read(conns[i])
  PROVE  /\ out.s \in Connection /\ out.s.c = conns[i].c /\ out.s.peer = conns[i].peer
         /\ out.s.st # "FREED" /\ out.again \in BOOLEAN
         /\ \/ out.s.st = "OPENED" /\ out.s.ok = 1 /\ out.s.bad = 0 /\ out.s.lost = 0
            \/ out.s.st = "CONNECTING" /\ out.s.ok = 0 /\ out.s.bad <= 1 /\ out.s.lost = 0
         /\ out.alive => Story(out.s)
         /\ Homed(out.s) /\ conns[i].from \subseteq {conns[i].peer}
<1>1. PICK t \in Connection : t = conns[i] /\ t.st # "FREED" /\ Story(t) /\ Homed(t)
  BY DEF ConnsInv, ConnsTypeOK, Stories, Homes, Live
<1>2. out \in Read(t)
  BY <1>1
<1>5. t.from \subseteq {t.peer} /\ t.connected
  BY <1>1 DEF Homed
<1>6. ASSUME NEW u, u.c = t.c, u.peer = t.peer, u.connected = t.connected, u.from \subseteq t.from
      PROVE  Homed(u)
  BY <1>1, <1>6 DEF Homed
<1>3. CASE t.st = "CONNECTING"
  <2>1. t.ok = 0 /\ t.bad = 0 /\ t.lost = 0
    BY <1>1, <1>3 DEF Story
  <2>2. \/ out = [s |-> t, alive |-> TRUE, again |-> TRUE]
        \/ out = [s |-> [t EXCEPT !.st = "OPENED", !.ok = 1], alive |-> TRUE, again |-> FALSE]
        \/ \E b \in {0, 1} : out = [s |-> [t EXCEPT !.bad = b], alive |-> FALSE, again |-> FALSE]
    BY <1>2, <1>3, <2>1 DEF Read, Handshake, Connection
  <2>3. 1 \in 0..2 /\ 0 \in 0..2
    OBVIOUS
  <2>4. CASE out = [s |-> t, alive |-> TRUE, again |-> TRUE]
    BY <1>1, <1>3, <1>5, <2>1, <2>4
  <2>5. CASE out = [s |-> [t EXCEPT !.st = "OPENED", !.ok = 1], alive |-> TRUE, again |-> FALSE]
    <3>1. /\ out.s \in Connection /\ out.s.st = "OPENED" /\ out.s.ok = 1 /\ out.s.bad = 0 /\ out.s.lost = 0
          /\ out.s.c = t.c /\ out.s.peer = t.peer /\ out.again = FALSE
          /\ out.s.connected = t.connected /\ out.s.from = t.from
      BY <2>1, <2>3, <2>5 DEF Connection
    <3>2. Homed(out.s)
      BY <1>6, <3>1
    <3> QED BY <1>1, <1>5, <3>1, <3>2 DEF Story
  <2>6. CASE \E b \in {0, 1} : out = [s |-> [t EXCEPT !.bad = b], alive |-> FALSE, again |-> FALSE]
    <3>1. PICK b \in {0, 1} : out = [s |-> [t EXCEPT !.bad = b], alive |-> FALSE, again |-> FALSE]
      BY <2>6
    <3>2. /\ out.s \in Connection /\ out.s.st = "CONNECTING" /\ out.s.ok = 0 /\ out.s.bad = b /\ out.s.lost = 0
          /\ out.s.c = t.c /\ out.s.peer = t.peer /\ out.again = FALSE /\ ~out.alive
          /\ out.s.connected = t.connected /\ out.s.from = t.from
      BY <1>3, <2>1, <2>3, <3>1 DEF Connection
    <3>3. Homed(out.s)
      BY <1>6, <3>2
    <3> QED BY <1>1, <1>5, <3>1, <3>2, <3>3
  <2> QED BY <2>2, <2>4, <2>5, <2>6
<1>4. CASE t.st # "CONNECTING"
  <2>1. t.st = "OPENED" /\ t.ok = 1 /\ t.bad = 0 /\ t.lost = 0
    BY <1>1, <1>4 DEF Story
  <2>2. PICK a \in BOOLEAN :
          \E u : out = [s |-> u, alive |-> a, again |-> FALSE] /\ (u = t \/ u \in Received(t))
    BY <1>2, <1>4 DEF Read
  <2>3. PICK u : out = [s |-> u, alive |-> a, again |-> FALSE] /\ (u = t \/ u \in Received(t))
    BY <2>2
  <2>4. /\ u \in Connection /\ u.c = t.c /\ u.peer = t.peer /\ u.connected = t.connected
        /\ u.from \subseteq t.from /\ u.st = t.st /\ u.ok = t.ok /\ u.bad = t.bad /\ u.lost = t.lost
    <3>1. CASE u = t
      BY <3>1
    <3>2. CASE u \in Received(t)
      <4>1. PICK p \in t.from : u = [t EXCEPT !.from = @ \ {p}, !.remote = IF t.connected THEN @ ELSE p]
        BY <3>2 DEF Received
      <4>2. PICK f \in SUBSET Peers : f = t.from \ {p} /\ f \subseteq t.from
        BY DEF Connection
      <4>3. u = [t EXCEPT !.from = f, !.remote = t.remote]
        BY <1>5, <4>1, <4>2
      <4> QED BY <4>2, <4>3 DEF Connection
    <3> QED BY <2>3, <3>1, <3>2
  <2>5. Homed(u)
    BY <1>6, <2>4
  <2>6. Story(u)
    BY <2>1, <2>4 DEF Story
  <2> QED BY <1>1, <1>5, <2>1, <2>3, <2>4, <2>5, <2>6
<1> QED BY <1>3, <1>4

LEMMA ConnsSame ==
  ASSUME ConnsInv, UNCHANGED <<kind, conns, tmap, nsched>>, got' \in {got, {}}
  PROVE  ConnsInv' /\ Live' = Live
BY DEF ConnsInv, ConnsTypeOK, MapIsFunction, MapRouted, MapAlive, MapWhole, GotMade, RoutedHome, Stories, Homes,
       Homed, SchedExact, Live, DatagramServer, Datagram, IsClient, Kcp, Shared

(* The request bits of channels change.                                    *)
LEMMA BitsChange ==
  ASSUME ServerInv, srv' \in [Servers -> ChannelState], \A d \in Servers : srv'[d].st = srv[d].st,
         UNCHANGED <<kind, ops, pend, conns, phase, left, seen>>, pushing' \subseteq Servers
  PROVE  LoopInv'
BY DEF ServerInv, LoopInv, LoopTypeOK, Visits, PendRouted, ListenerQueued, Live, IsClient

LEMMA MarkedKeeps ==
  ASSUME NEW x \in ChannelState
  PROVE  Marked(x) \in ChannelState /\ Marked(x).st = x.st
<1>1. PICK b \in SUBSET {"OPEN", "CLOSE"} : Marked(x) = [x EXCEPT !.bits = b]
  <2>1. x.bits \in SUBSET {"OPEN", "CLOSE"} /\ {"CLOSE"} \in SUBSET {"OPEN", "CLOSE"} /\ {} \in SUBSET {"OPEN", "CLOSE"}
    BY DEF ChannelState
  <2> QED BY <2>1 DEF Marked
<1> QED BY <1>1 DEF ChannelState

(* A visit of a channel ends. *)
LEMMA VisitEnds ==
  ASSUME ServerInv, seen # None, seen' = None, UNCHANGED <<kind, pushing, phase, left>>,
         NEW x \in ChannelState,
         srv' = [srv EXCEPT ![seen[1]] = x],
         \/ UNCHANGED ops
         \/ ops' = ops \ {seen[1]} /\ (IsClient(seen[1]) \/ x.st # "OPENED"),
         pend' \in [Servers -> Seq(Peers)],
         \A c \in Servers : \/ pend'[c] = pend[c]
                            \/ \A i \in DOMAIN pend'[c] : \E j \in DOMAIN pend[c] : pend'[c][i] = pend[c][j]
  PROVE  LoopInv'
<1>1. phase = "channels" /\ seen[1] \in ops /\ seen[1] \notin left /\ left \subseteq ops /\ seen[1] \in Servers
  BY DEF ServerInv, LoopInv, LoopTypeOK, Visits
<1>2. /\ srv' \in [Servers -> ChannelState]
      /\ srv'[seen[1]] = x /\ \A d \in Servers : d # seen[1] => srv'[d] = srv[d]
  BY <1>1 DEF ServerInv, LoopInv, LoopTypeOK
<1>3. LoopTypeOK' /\ Visits'
  BY <1>1, <1>2 DEF ServerInv, LoopInv, LoopTypeOK, Visits
<1>4. PendRouted'
  <2> SUFFICES ASSUME NEW c \in Servers, NEW i \in DOMAIN pend'[c] PROVE <<c, pend'[c][i]>> \in Routes
    BY DEF PendRouted
  <2>1. PICK j \in DOMAIN pend[c] : pend'[c][i] = pend[c][j]
    OBVIOUS
  <2>2. <<c, pend[c][j]>> \in Routes
    BY DEF ServerInv, LoopInv, PendRouted
  <2> QED BY <2>1, <2>2
<1>5. ListenerQueued'
  BY <1>1, <1>2 DEF ServerInv, LoopInv, ListenerQueued, IsClient
<1> QED BY <1>3, <1>4, <1>5 DEF LoopInv

LEMMA ServerCalls ==
  ASSUME ServerInv, ~Rekind,
                    \/ Stop
                    \/ \E c \in Servers : Open(c) \/ Push(c) \/ CloseChannel(c)
                    \/ \E i \in DOMAIN conns : CloseTransport(i)
                    \/ \E c \in Servers, p \in Peers : Arrives(c, p)
  PROVE  ServerInv'
<1>0. ConnsInv /\ LoopInv
  BY DEF ServerInv
<1>7. srv \in [Servers -> ChannelState] /\ kind \in [Servers -> Kind] /\ pushing \subseteq Servers
  BY <1>0 DEF LoopInv, LoopTypeOK, ConnsInv, ConnsTypeOK
<1>1. CASE Stop
  <2>1. ConnsInv' /\ Live' = Live
    BY <1>0, <1>1, ConnsSame DEF Stop, Call
  <2>2. srv' \in [Servers -> ChannelState] /\ \A d \in Servers : srv'[d].st = srv[d].st
    <3>1. srv' = [c \in Servers |-> Marked(srv[c])]
      BY <1>1 DEF Stop
    <3> QED BY <1>7, <3>1, MarkedKeeps
  <2>3. UNCHANGED <<kind, ops, pend, conns, phase, left, seen, pushing>>
    BY <1>1 DEF Stop, Call
  <2> QED BY <1>7, <2>1, <2>2, <2>3, BitsChange DEF ServerInv
<1>2. ASSUME NEW c \in Servers, Open(c) PROVE ServerInv'
  <2>4. UNCHANGED kind
    BY <1>2, <1>7 DEF Open
  <2>1. ConnsInv'
    BY <1>0, <1>2, <2>4, ConnsSame DEF Open, Call
  <2>2. pushing' \subseteq Servers
    BY <1>2, <1>7 DEF Open
  <2>3. srv' \in [Servers -> ChannelState] /\ \A d \in Servers : srv'[d].st = srv[d].st
    <3>1. srv' = [srv EXCEPT ![c].bits = {"OPEN"}]
      BY <1>2 DEF Open
    <3>2. [srv[c] EXCEPT !.bits = {"OPEN"}] \in ChannelState
      BY <1>7 DEF ChannelState
    <3> QED BY <1>7, <3>1, <3>2
  <2> QED BY <1>2, <2>1, <2>2, <2>3, <2>4, BitsChange DEF Open, Call, ServerInv
<1>3. ASSUME NEW c \in Servers, Push(c) PROVE ServerInv'
  <2>1. ConnsInv' /\ Live' = Live
    BY <1>0, <1>3, ConnsSame DEF Push
  <2> QED BY <1>0, <1>3, <2>1 DEF Push, ServerInv, LoopInv, LoopTypeOK, Visits, PendRouted, ListenerQueued, IsClient
<1>4. ASSUME NEW c \in Servers, CloseChannel(c) PROVE ServerInv'
  <2>1. ConnsInv'
    BY <1>0, <1>4, ConnsSame DEF CloseChannel, Call
  <2>2. srv' \in [Servers -> ChannelState] /\ \A d \in Servers : srv'[d].st = srv[d].st
    <3>1. srv' = [srv EXCEPT ![c] = Marked(srv[c])]
      BY <1>4 DEF CloseChannel
    <3>2. Marked(srv[c]) \in ChannelState /\ Marked(srv[c]).st = srv[c].st
      BY <1>7, MarkedKeeps
    <3> QED BY <1>7, <3>1, <3>2
  <2>4. LoopInv'
    BY <1>4, <1>7, <2>2, BitsChange DEF CloseChannel, Call
  <2> QED BY <2>1, <2>4 DEF ServerInv
<1>5. ASSUME NEW i \in DOMAIN conns, CloseTransport(i) PROVE ServerInv'
  <2>1. conns' = [conns EXCEPT ![i].close = TRUE] /\ UNCHANGED <<kind, tmap, nsched, got>>
    BY <1>5 DEF CloseTransport, Call
  <2>2. conns \in Seq(Connection) /\ DOMAIN conns' = DOMAIN conns
    BY <1>0, <2>1 DEF ConnsInv, ConnsTypeOK
  <2>3. [conns[i] EXCEPT !.close = TRUE] \in Connection
    <3>1. PICK t \in Connection : t = conns[i]
      BY <2>2
    <3>2. [t EXCEPT !.close = TRUE] \in Connection
      BY DEF Connection
    <3> QED BY <3>1, <3>2
  <2>4. conns' \in Seq(Connection) /\ Len(conns') = Len(conns)
    BY <2>1, <2>2, <2>3
  <2>5. \A j \in DOMAIN conns : /\ conns'[j].c = conns[j].c /\ conns'[j].peer = conns[j].peer
                                /\ conns'[j].st = conns[j].st /\ conns'[j].ok = conns[j].ok
                                /\ conns'[j].bad = conns[j].bad /\ conns'[j].lost = conns[j].lost
                                /\ conns'[j].connected = conns[j].connected /\ conns'[j].from = conns[j].from
    BY <2>1, <2>2 DEF Connection
  <2>6. \A j \in DOMAIN conns : Story(conns'[j])
    BY <1>0, <2>5 DEF ConnsInv, Stories, Story
  <2>8. \A j \in DOMAIN conns : Homed(conns'[j])
    BY <1>0, <2>5, Zenon DEF ConnsInv, Homes, Homed
  <2>7. ConnsInv' /\ Live' = Live
    BY <1>0, <2>1, <2>4, <2>5, <2>6, <2>8, ConnsMarked
  <2> QED BY <1>0, <1>5, <2>7 DEF CloseTransport, Call, ServerInv, LoopInv, LoopTypeOK, Visits, PendRouted, ListenerQueued, IsClient
<1>6. ASSUME NEW c \in Servers, NEW p \in Peers, Arrives(c, p) PROVE ServerInv'
  <2>1. UNCHANGED <<kind, pushing, srv, ops, tmap, nsched, got, phase, left, seen>> /\ <<c, p>> \in Routes
    BY <1>6 DEF Arrives
  <2>2. CASE UNCHANGED conns /\ pend' = [pend EXCEPT ![c] = Append(@, p)]
    <3>1. ConnsInv' /\ Live' = Live
      BY <1>0, <2>1, <2>2, ConnsSame
    <3>2. pend[c] \in Seq(Peers) /\ pend'[c] = Append(pend[c], p) /\ pend' \in [Servers -> Seq(Peers)]
      BY <1>0, <2>2 DEF LoopInv, LoopTypeOK
    <3>3. \A j \in DOMAIN pend'[c] : pend'[c][j] = p \/ (j \in DOMAIN pend[c] /\ pend'[c][j] = pend[c][j])
      BY <3>2
    <3>4. PendRouted'
      BY <1>0, <2>1, <2>2, <3>2, <3>3 DEF LoopInv, LoopTypeOK, PendRouted
    <3> QED BY <1>0, <2>1, <3>1, <3>2, <3>4 DEF ServerInv, LoopInv, LoopTypeOK, Visits, ListenerQueued, IsClient
  <2>3. ASSUME NEW i \in Live, conns[i].peer = p \/ ~conns[i].connected,
               conns' = [conns EXCEPT ![i].from = @ \cup {p}], UNCHANGED pend
        PROVE  ServerInv'
    <3>1. conns \in Seq(Connection) /\ i \in DOMAIN conns /\ DOMAIN conns' = DOMAIN conns
      BY <1>0, <2>3 DEF ConnsInv, ConnsTypeOK, Live
    <3>2. PICK t \in Connection : t = conns[i] /\ Homed(t)
      BY <1>0, <3>1 DEF ConnsInv, Homes
    <3>3. t.peer = p /\ t.from \subseteq {p}
      BY <2>3, <3>2 DEF Homed
    <3>4. PICK f \in SUBSET Peers : f = t.from \cup {p} /\ f \subseteq {t.peer}
      BY <3>3 DEF Connection
    <3>5. PICK u : u = [t EXCEPT !.from = f]
      OBVIOUS
    <3>6. /\ u \in Connection /\ u.c = t.c /\ u.peer = t.peer /\ u.st = t.st /\ u.ok = t.ok /\ u.bad = t.bad
          /\ u.lost = t.lost /\ u.connected = t.connected /\ u.from = f
      BY <3>5 DEF Connection
    <3>7. Homed(u)
      BY <3>2, <3>4, <3>6, Zenon DEF Homed
    <3>8. conns' = [conns EXCEPT ![i] = u]
      BY <2>3, <3>2, <3>4, <3>5
    <3>9. conns' \in Seq(Connection) /\ Len(conns') = Len(conns)
      BY <3>1, <3>6, <3>8
    <3>10. \A j \in DOMAIN conns : /\ conns'[j].c = conns[j].c /\ conns'[j].peer = conns[j].peer
                                   /\ conns'[j].st = conns[j].st /\ conns'[j].ok = conns[j].ok
                                   /\ conns'[j].bad = conns[j].bad /\ conns'[j].lost = conns[j].lost
      BY <3>1, <3>2, <3>6, <3>8
    <3>11. \A j \in DOMAIN conns : Story(conns'[j])
      BY <1>0, <3>10 DEF ConnsInv, Stories, Story
    <3>12. \A j \in DOMAIN conns : Homed(conns'[j])
      BY <1>0, <3>1, <3>7, <3>8 DEF ConnsInv, Homes
    <3>13. ConnsInv' /\ Live' = Live
      BY <1>0, <2>1, <3>9, <3>10, <3>11, <3>12, ConnsMarked
    <3> QED BY <1>0, <2>1, <2>3, <3>13 DEF ServerInv, LoopInv, LoopTypeOK, Visits, PendRouted, ListenerQueued, IsClient
  <2>4. \/ UNCHANGED conns /\ pend' = [pend EXCEPT ![c] = Append(@, p)]
        \/ \E i \in Live : /\ conns[i].peer = p \/ ~conns[i].connected
                           /\ conns' = [conns EXCEPT ![i].from = @ \cup {p}] /\ UNCHANGED pend
    BY <1>6, ZenonT(60) DEF Arrives, Takers, Strays
  <2> QED BY <2>2, <2>3, <2>4
<1> QED BY <1>1, <1>2, <1>3, <1>4, <1>5, <1>6

LEMMA NewConnFacts ==
  ASSUME NEW c \in Servers, NEW p \in Peers, NEW b \in BOOLEAN, NEW con \in Connects(c), NEW t, ~Loose,
         t = NewConn(c, p, con) \/ t = [NewConn(c, p, con) EXCEPT !.close = b],
         <<c, p>> \in Routes \/ ~Datagram(c)
  PROVE  t \in Connection /\ t.c = c /\ t.peer = p /\ t.st # "FREED" /\ Story(t) /\ Homed(t)
<1>1. 0 \in 0..2 /\ 1 \in 0..2 /\ {} \in SUBSET Peers
  OBVIOUS
<1>5. con = TRUE
  BY DEF Connects
<1>2. PICK b1 \in BOOLEAN :
        t = [c |-> c, peer |-> p, remote |-> p, connected |-> TRUE, from |-> {},
             st |-> IF Tls(c) THEN "CONNECTING" ELSE "OPENED", close |-> b1,
             ok |-> IF Tls(c) THEN 0 ELSE 1, bad |-> 0, lost |-> 0]
  BY <1>5 DEF NewConn
<1>6. Homed(t) /\ t.c = c /\ t.peer = p
  BY <1>2 DEF Homed
<1>3. CASE Tls(c)
  <2>1. t = [c |-> c, peer |-> p, remote |-> p, connected |-> TRUE, from |-> {},
             st |-> "CONNECTING", close |-> b1, ok |-> 0, bad |-> 0, lost |-> 0]
    BY <1>2, <1>3
  <2>2. t \in Connection /\ t.st # "FREED" /\ Story(t)
    BY <1>1, <2>1 DEF Connection, Story
  <2> QED BY <1>6, <2>2
<1>4. CASE ~Tls(c)
  <2>1. t = [c |-> c, peer |-> p, remote |-> p, connected |-> TRUE, from |-> {},
             st |-> "OPENED", close |-> b1, ok |-> 1, bad |-> 0, lost |-> 0]
    BY <1>2, <1>4
  <2>2. t \in Connection /\ t.st # "FREED" /\ Story(t)
    BY <1>1, <2>1 DEF Connection, Story
  <2> QED BY <1>6, <2>2
<1> QED BY <1>3, <1>4

LEMMA ServerTurns ==
  ASSUME ServerInv, \/ Turn \/ PeerLost \/ ToChannels \/ TurnEnds
                    \/ \E c \in Servers : ReadOpmask(c)
                    \/ \E i \in DOMAIN conns : ProcessTransport(i)
  PROVE  ServerInv'
<1>0. ConnsInv /\ LoopInv
  BY DEF ServerInv
<1>1. CASE Turn \/ PeerLost
  <2>1. ConnsInv' /\ Live' = Live
    BY <1>0, <1>1, ConnsSame DEF Turn, PeerLost
  <2>2. /\ phase' = "transports" /\ left' = Live /\ phase = "poll"
        /\ UNCHANGED <<kind, pushing, srv, ops, pend, seen>>
    BY <1>1 DEF Turn, PeerLost
  <2> QED BY <1>0, <2>1, <2>2 DEF ServerInv, LoopInv, LoopTypeOK, Visits, PendRouted, ListenerQueued, IsClient
<1>2. CASE ToChannels \/ TurnEnds
  <2>1. ConnsInv' /\ Live' = Live
    BY <1>0, <1>2, ConnsSame DEF ToChannels, TurnEnds
  <2>2. \/ phase = "transports" /\ phase' = "channels" /\ left' = ops
        \/ phase' \in {"exited", "poll"} /\ UNCHANGED left /\ seen = None
    BY <1>2 DEF ToChannels, TurnEnds
  <2>3. UNCHANGED <<kind, pushing, srv, ops, pend, seen>>
    BY <1>2 DEF ToChannels, TurnEnds
  <2> QED BY <1>0, <2>1, <2>2, <2>3 DEF ServerInv, LoopInv, LoopTypeOK, Visits, PendRouted, ListenerQueued, IsClient
<1>3. ASSUME NEW c \in Servers, ReadOpmask(c) PROVE ServerInv'
  <2>1. ConnsInv' /\ Live' = Live
    BY <1>0, <1>3, ConnsSame DEF ReadOpmask
  <2>2. /\ phase = "channels" /\ c \in left /\ seen' = <<c, srv[c].bits, IsClient(c)>> /\ left' = left \ {c}
        /\ UNCHANGED <<kind, pushing, srv, ops, pend, phase>>
    BY <1>3 DEF ReadOpmask
  <2>4. srv[c].bits \in SUBSET {"OPEN", "CLOSE"} /\ IsClient(c) \in BOOLEAN
    BY <1>0 DEF LoopInv, LoopTypeOK, ChannelState, IsClient
  <2>3. seen' \in Servers \X (SUBSET {"OPEN", "CLOSE"}) \X BOOLEAN /\ seen'[1] = c /\ seen'[3] = IsClient(c)
    BY <2>2, <2>4
  <2> QED BY <1>0, <2>1, <2>2, <2>3 DEF ServerInv, LoopInv, LoopTypeOK, Visits, PendRouted, ListenerQueued, IsClient
<1>4. ASSUME NEW i \in DOMAIN conns, ProcessTransport(i) PROVE ServerInv'
  <2>1. /\ phase = "transports" /\ i \in Live /\ left' = left \ {i} /\ left \subseteq Live
        /\ UNCHANGED <<kind, pushing, ops, pend, phase, seen>>
    BY <1>0, <1>4 DEF ProcessTransport, LoopInv, Visits
  <2>2. PICK out \in Read(conns[i]) :
          /\ got' = IF out.alive
                    THEN got \cup {<<conns[i].c, p, i>> : p \in conns[i].from \ out.s.from} ELSE got
          /\ \/ /\ out.alive
                /\ conns' = [conns EXCEPT ![i] = out.s]
                /\ UNCHANGED <<srv, tmap, nsched>>
             \/ HandleClose(i, out.s)
    BY <1>4 DEF ProcessTransport
  <2>3. PICK t \in Connection :
          /\ t = out.s /\ t.c = conns[i].c /\ t.peer = conns[i].peer /\ t.st # "FREED"
          /\ \/ t.st = "OPENED" /\ t.ok = 1 /\ t.bad = 0 /\ t.lost = 0
             \/ t.st = "CONNECTING" /\ t.ok = 0 /\ t.bad <= 1 /\ t.lost = 0
          /\ out.alive => Story(t)
          /\ Homed(t) /\ conns[i].from \subseteq {conns[i].peer}
    BY <1>0, <2>1, ReadFacts
  <2>4. \A g \in got' : g \in got \/ g = <<conns[i].c, conns[i].peer, i>>
    BY <2>2, <2>3
  <2>5. conns \in Seq(Connection) /\ i \in 1..MaxConns /\ conns[i].c \in Servers /\ conns[i].peer \in Peers
    <3>1. conns \in Seq(Connection) /\ i \in DOMAIN conns /\ Len(conns) <= MaxConns /\ MaxConns \in Nat
      BY <1>0, <2>1, ServerAssumption DEF ConnsInv, ConnsTypeOK, Live
    <3>2. i \in 1..MaxConns /\ conns[i] \in Connection
      BY <3>1
    <3> QED BY <3>1, <3>2 DEF Connection
  <2>6. CASE out.alive /\ conns' = [conns EXCEPT ![i] = t] /\ UNCHANGED <<srv, tmap, nsched>>
    <3>1. conns' \in Seq(Connection) /\ Len(conns') = Len(conns)
      BY <2>5, <2>6
    <3>2. \A j \in DOMAIN conns : /\ conns'[j].c = conns[j].c /\ conns'[j].peer = conns[j].peer
                                  /\ conns'[j].st = "FREED" <=> conns[j].st = "FREED"
                                  /\ Story(conns'[j]) /\ Homed(conns'[j])
      BY <1>0, <2>1, <2>3, <2>6 DEF ConnsInv, Stories, Homes, Live
    <3>3. <<conns[i].c, conns[i].peer, i>> \in Servers \X Peers \X (1..MaxConns)
      BY <2>5
    <3>4. ConnsInv' /\ Live' = Live
      BY <1>0, <2>1, <2>4, <2>6, <3>1, <3>2, <3>3, ConnsMarked
    <3> QED BY <1>0, <2>1, <2>6, <3>4 DEF ServerInv, LoopInv, LoopTypeOK, Visits, PendRouted, ListenerQueued, IsClient
  <2>7. CASE HandleClose(i, t)
    <3>1. ConnsInv' /\ Live' = Live \ {i}
      BY <1>0, <2>1, <2>3, <2>4, <2>7, ConnsClosed DEF HandleClose
    <3>2. \/ UNCHANGED srv
          \/ \E b \in SUBSET {"OPEN", "CLOSE"} :
               IsClient(t.c) /\ srv' = [srv EXCEPT ![t.c].st = "CLOSED", ![t.c].bits = b]
      <4>1. srv[t.c].bits \ {"CLOSE"} \in SUBSET {"OPEN", "CLOSE"} /\ {} \in SUBSET {"OPEN", "CLOSE"}
        BY <1>0, <2>3, <2>5 DEF LoopInv, LoopTypeOK, ChannelState
      <4>2. \/ UNCHANGED srv
            \/ /\ IsClient(t.c)
               /\ srv' = [srv EXCEPT ![t.c].st = "CLOSED",
                                     ![t.c].bits = IF t.bad > 0 THEN {} ELSE srv[t.c].bits \ {"CLOSE"}]
        BY <2>7 DEF HandleClose
      <4> QED BY <4>1, <4>2
    <3>3. /\ srv' \in [Servers -> ChannelState]
          /\ \A d \in Servers : ~IsClient(d) => srv'[d].st = srv[d].st
      <4>1. t.c \in Servers /\ srv \in [Servers -> ChannelState] /\ srv[t.c] \in ChannelState
        BY <1>0, <2>3, <2>5 DEF LoopInv, LoopTypeOK
      <4>2. CASE UNCHANGED srv
        BY <4>1, <4>2
      <4>3. ASSUME NEW b \in SUBSET {"OPEN", "CLOSE"}, IsClient(t.c),
                   srv' = [srv EXCEPT ![t.c].st = "CLOSED", ![t.c].bits = b]
            PROVE  srv' \in [Servers -> ChannelState] /\ \A d \in Servers : ~IsClient(d) => srv'[d].st = srv[d].st
        <5>1. [srv[t.c] EXCEPT !.st = "CLOSED", !.bits = b] \in ChannelState
          BY <4>1 DEF ChannelState
        <5>2. srv' = [srv EXCEPT ![t.c] = [srv[t.c] EXCEPT !.st = "CLOSED", !.bits = b]]
          BY <4>1, <4>3
        <5> QED BY <4>1, <4>3, <5>1, <5>2
      <4> QED BY <3>2, <4>2, <4>3
    <3> QED BY <1>0, <2>1, <3>1, <3>3 DEF ServerInv, LoopInv, LoopTypeOK, Visits, PendRouted, ListenerQueued, IsClient
  <2> QED BY <2>2, <2>3, <2>6, <2>7
<1> QED BY <1>1, <1>2, <1>3, <1>4

LEMMA ServerVisits ==
  ASSUME ~Loose, ServerInv,
         DoAccept \/ CleanupChannel \/ VisitIdle \/ AcceptStream \/ AcceptDatagram \/ VisitClient
  PROVE  ServerInv'
<1>0. ConnsInv /\ LoopInv
  BY DEF ServerInv
<1>1. /\ seen # None /\ seen' = None /\ UNCHANGED <<kind, pushing, phase, left>>
  BY DEF DoAccept, CleanupChannel, VisitIdle, AcceptStream, AcceptDatagram, VisitClient
<1>2. PICK c \in Servers : c = seen[1]
  BY <1>0, <1>1 DEF LoopInv, LoopTypeOK
<1>11. seen[3] = IsClient(c)
  BY <1>0, <1>1, <1>2 DEF LoopInv, Visits
<1>3. srv \in [Servers -> ChannelState] /\ srv[c] \in ChannelState /\ pend \in [Servers -> Seq(Peers)] /\ pend[c] \in Seq(Peers)
  BY <1>0 DEF LoopInv, LoopTypeOK
<1>4. srv = [srv EXCEPT ![c] = srv[c]]
  BY <1>3
<1>5. CASE DoAccept \/ CleanupChannel
  <2>1. ConnsInv'
    BY <1>0, <1>5, ConnsSame DEF DoAccept, CleanupChannel
  <2>2. PICK x \in ChannelState :
          /\ srv' = [srv EXCEPT ![c] = x]
          /\ pend' = [pend EXCEPT ![c] = <<>>]
          /\ UNCHANGED ops \/ (ops' = ops \ {c} /\ x.st # "OPENED")
    <3>1. CASE DoAccept
      <4>0. Datagram(c) \in BOOLEAN
        BY DEF Datagram
      <4>3. PICK d \in BOOLEAN : d = Datagram(c)
        BY <4>0
      <4>1. PICK ok \in BOOLEAN :
              /\ pend' = [pend EXCEPT ![c] = <<>>]
              /\ srv' = [srv EXCEPT ![c] = [st |-> IF ok THEN "OPENED" ELSE "CLOSED", bits |-> {}, dgram |-> d]]
              /\ ops' = IF ok THEN ops ELSE ops \ {c}
        BY <1>2, <3>1, <4>3 DEF DoAccept
      <4>2. PICK x \in ChannelState : x = [st |-> IF ok THEN "OPENED" ELSE "CLOSED", bits |-> {}, dgram |-> d]
        BY DEF ChannelState
      <4> QED BY <4>1, <4>2
    <3>2. CASE CleanupChannel
      <4>1. /\ srv' = [srv EXCEPT ![c].st = "CLOSED", ![c].bits = {}]
            /\ pend' = [pend EXCEPT ![c] = <<>>] /\ ops' = ops \ {c}
        BY <1>2, <3>2 DEF CleanupChannel
      <4>4. PICK y \in ChannelState : y = srv[c]
        BY <1>3
      <4>5. {} \in SUBSET {"OPEN", "CLOSE"}
        OBVIOUS
      <4>6. [y EXCEPT !.st = "CLOSED", !.bits = {}] \in ChannelState
        BY <4>5 DEF ChannelState
      <4>2. PICK x \in ChannelState : x = [y EXCEPT !.st = "CLOSED", !.bits = {}] /\ x.st = "CLOSED"
        BY <4>6 DEF ChannelState
      <4>3. srv' = [srv EXCEPT ![c] = x]
        BY <1>3, <4>1, <4>2, <4>4
      <4> QED BY <4>1, <4>2, <4>3
    <3> QED BY <1>5, <3>1, <3>2
  <2>4. pend' \in [Servers -> Seq(Peers)] /\ \A d \in Servers : pend'[d] = pend[d] \/ pend'[d] = <<>>
    BY <1>3, <2>2
  <2>5. \/ UNCHANGED ops
        \/ ops' = ops \ {c} /\ x.st # "OPENED"
    BY <2>2
  <2>7. \A d \in Servers : \/ pend'[d] = pend[d]
                           \/ \A i \in DOMAIN pend'[d] : \E j \in DOMAIN pend[d] : pend'[d][i] = pend[d][j]
    BY <2>4
  <2>8. srv' = [srv EXCEPT ![seen[1]] = x]
    BY <1>2, <2>2
  <2>6. LoopInv'
    BY <1>1, <1>2, <2>4, <2>5, <2>7, <2>8, VisitEnds
  <2> QED BY <2>1, <2>6 DEF ServerInv
<1>6. CASE VisitIdle
  <2>1. ConnsInv'
    BY <1>0, <1>6, ConnsSame DEF VisitIdle
  <2>2. LoopInv'
    BY <1>1, <1>2, <1>3, <1>4, <1>6, VisitEnds DEF VisitIdle, Listening
  <2> QED BY <2>1, <2>2 DEF ServerInv
<1>7. CASE VisitClient
  <2>2. ops' = ops \ {c} /\ UNCHANGED pend /\ IsClient(c) /\ UNCHANGED <<tmap, got>>
    BY <1>2, <1>7, <1>11 DEF VisitClient
  <2>1. PICK x \in ChannelState : srv' = [srv EXCEPT ![c] = x]
    <3>1. \/ \E d \in BOOLEAN : srv' = [srv EXCEPT ![c] = [st |-> "OPENED", bits |-> {}, dgram |-> d]]
          \/ srv' = [srv EXCEPT ![c].st = "CLOSED", ![c].bits = {}]
          \/ srv' = srv
      <4>0. Datagram(c) \in BOOLEAN
        BY DEF Datagram
      <4>1. PICK d \in BOOLEAN : d = Datagram(c)
        BY <4>0
      <4> QED BY <1>2, <1>7, <4>1 DEF VisitClient
    <3>2. /\ \A d \in BOOLEAN : [st |-> "OPENED", bits |-> {}, dgram |-> d] \in ChannelState
          /\ [srv[c] EXCEPT !.st = "CLOSED", !.bits = {}] \in ChannelState
      BY <1>3 DEF ChannelState
    <3>3. [srv EXCEPT ![c].st = "CLOSED", ![c].bits = {}]
            = [srv EXCEPT ![c] = [srv[c] EXCEPT !.st = "CLOSED", !.bits = {}]]
      BY <1>3
    <3> QED BY <1>3, <1>4, <3>1, <3>2, <3>3
  <2>3. LoopInv'
    BY <1>1, <1>2, <1>3, <2>1, <2>2, VisitEnds
  <2>4. CASE UNCHANGED <<conns, nsched>>
    BY <1>0, <1>1, <2>2, <2>3, <2>4, ConnsSame DEF ServerInv
  <2>5. ASSUME Len(conns) < MaxConns, NEW r \in Routes, r[1] = c, Makes(c, r[2]) PROVE ServerInv'
    <3>1. PICK p \in Peers : p = r[2] /\ <<c, p>> \in Routes
      BY <2>5, ServerAssumption
    <3>2. PICK con \in Connects(c) : conns' = Append(conns, NewConn(c, p, con))
      BY <2>5, <3>1 DEF Makes
    <3>4. PICK t : t = NewConn(c, p, con)
      OBVIOUS
    <3>7. PICK b \in BOOLEAN : b = FALSE
      OBVIOUS
    <3>5. t \in Connection /\ t.c = c /\ t.st # "FREED" /\ Story(t) /\ Homed(t)
      BY <3>1, <3>4, <3>7, NewConnFacts
    <3>6. conns' = Append(conns, t) /\ nsched' = nsched + Scheduled(t.c)
      BY <2>5, <3>2, <3>4, <3>5 DEF Makes
    <3>8. ~DatagramServer(t.c)
      BY <2>2, <3>5 DEF DatagramServer
    <3>3. ConnsInv'
      BY <1>0, <1>1, <2>2, <2>5, <3>5, <3>6, <3>8, ConnsMade
    <3> QED BY <2>3, <3>3 DEF ServerInv
  <2>6. \/ UNCHANGED <<conns, nsched>>
        \/ Len(conns) < MaxConns /\ \E r \in Routes : r[1] = c /\ Makes(c, r[2])
    BY <1>2, <1>7 DEF VisitClient
  <2> QED BY <2>4, <2>5, <2>6
<1>8. ASSUME srv[c].st = "OPENED", pend[c] # <<>>, pend' = [pend EXCEPT ![c] = Tail(@)],
             ops' = IF Listening(c) THEN ops ELSE ops \ {c}, UNCHANGED srv
      PROVE  LoopInv' /\ Head(pend[c]) \in Peers /\ <<c, Head(pend[c])>> \in Routes
  <2>1. /\ Head(pend[c]) = pend[c][1] /\ 1 \in DOMAIN pend[c] /\ Tail(pend[c]) \in Seq(Peers) /\ pend[c][1] \in Peers
        /\ \A i \in DOMAIN Tail(pend[c]) : i + 1 \in DOMAIN pend[c] /\ Tail(pend[c])[i] = pend[c][i + 1]
    BY <1>3, <1>8
  <2>2. /\ pend' \in [Servers -> Seq(Peers)]
        /\ \A d \in Servers : pend'[d] = pend[d] \/ (d = c /\ pend'[d] = Tail(pend[c]))
    BY <1>3, <1>8, <2>1
  <2>3. \A d \in Servers : \/ pend'[d] = pend[d]
                           \/ \A i \in DOMAIN pend'[d] : \E j \in DOMAIN pend[d] : pend'[d][i] = pend[d][j]
    BY <2>1, <2>2, ZenonT(60)
  <2>4. UNCHANGED ops
    BY <1>8 DEF Listening
  <2>5. LoopInv'
    BY <1>1, <1>2, <1>3, <1>4, <1>8, <2>2, <2>3, <2>4, VisitEnds
  <2> QED BY <1>0, <2>1, <2>5 DEF LoopInv, PendRouted
<1>9. CASE AcceptStream
  <2>1. /\ srv[c].st = "OPENED" /\ ~Datagram(c) /\ pend[c] # <<>>
        /\ pend' = [pend EXCEPT ![c] = Tail(@)]
        /\ ops' = IF Listening(c) THEN ops ELSE ops \ {c}
        /\ UNCHANGED <<srv, tmap, got>>
        /\ IF Len(conns) < MaxConns THEN Makes(c, Head(pend[c])) ELSE UNCHANGED <<conns, nsched>>
    BY <1>2, <1>9 DEF AcceptStream
  <2>2. LoopInv' /\ Head(pend[c]) \in Peers
    BY <1>8, <2>1
  <2>3. CASE Len(conns) < MaxConns
    <3>8. PICK p \in Peers : p = Head(pend[c])
      BY <2>2
    <3>6. PICK con \in Connects(c) : conns' = Append(conns, NewConn(c, p, con))
      BY <2>1, <2>3, <3>8 DEF Makes
    <3>1. PICK t : t = NewConn(c, p, con)
      OBVIOUS
    <3>5. PICK b \in BOOLEAN : b = FALSE
      OBVIOUS
    <3>9. <<c, p>> \in Routes
      BY <1>8, <2>1, <3>8
    <3>2. t \in Connection /\ t.c = c /\ t.st # "FREED" /\ Story(t) /\ Homed(t)
      BY <3>1, <3>5, <3>9, NewConnFacts
    <3>7. ~DatagramServer(t.c)
      BY <2>1, <3>2 DEF DatagramServer
    <3>3. conns' = Append(conns, t) /\ nsched' = nsched + Scheduled(t.c)
      BY <2>1, <2>3, <3>1, <3>2, <3>6 DEF Makes
    <3>4. ConnsInv'
      BY <1>0, <1>1, <2>1, <2>3, <3>2, <3>3, <3>7, ConnsMade
    <3> QED BY <2>2, <3>4 DEF ServerInv
  <2>4. CASE ~(Len(conns) < MaxConns)
    BY <1>0, <1>1, <2>1, <2>2, <2>4, ConnsSame DEF ServerInv
  <2> QED BY <2>3, <2>4
<1>10. CASE AcceptDatagram
  <2>1. /\ srv[c].st = "OPENED" /\ Datagram(c) /\ pend[c] # <<>>
        /\ pend' = [pend EXCEPT ![c] = Tail(@)]
        /\ ops' = IF Listening(c) THEN ops ELSE ops \ {c}
        /\ UNCHANGED srv
    BY <1>2, <1>10 DEF AcceptDatagram
  <2>2. LoopInv' /\ Head(pend[c]) \in Peers /\ <<c, Head(pend[c])>> \in Routes
    BY <1>8, <2>1
  <2>3. PICK p \in Peers, bad \in BOOLEAN :
          /\ p = Head(pend[c])
          /\ \/ \E i \in Routed(p) :
                  /\ got' = got \cup {<<c, p, i>>}
                  /\ conns' = [conns EXCEPT ![i].close = @ \/ bad]
                  /\ UNCHANGED <<tmap, nsched>>
             \/ /\ Routed(p) = {} /\ Len(conns) < MaxConns
                /\ \E con \in Connects(c) :
                     conns' = Append(conns, [NewConn(c, p, con) EXCEPT !.close = bad])
                /\ nsched' = nsched + Scheduled(c)
                /\ tmap' = tmap \cup {<<p, Len(conns) + 1>>}
                /\ got' = got \cup {<<c, p, Len(conns) + 1>>}
             \/ UNCHANGED <<conns, nsched, tmap, got>>
    BY <1>2, <1>10, <2>2, ZenonT(60) DEF AcceptDatagram
  <2>7. DatagramServer(c)
    BY <1>2, <1>10, <1>11, <2>1 DEF AcceptDatagram, DatagramServer
  <2>4. CASE UNCHANGED <<conns, nsched, tmap, got>>
    BY <1>0, <1>1, <2>2, <2>4, ConnsSame DEF ServerInv
  <2>5. ASSUME Routed(p) = {}, Len(conns) < MaxConns, NEW con \in Connects(c),
               conns' = Append(conns, [NewConn(c, p, con) EXCEPT !.close = bad]),
               nsched' = nsched + Scheduled(c),
               tmap' = tmap \cup {<<p, Len(conns) + 1>>},
               got' = got \cup {<<c, p, Len(conns) + 1>>}
        PROVE  ServerInv'
    <3>1. PICK t : t = [NewConn(c, p, con) EXCEPT !.close = bad]
      OBVIOUS
    <3>2. t \in Connection /\ t.c = c /\ t.peer = p /\ t.st # "FREED" /\ Story(t) /\ Homed(t)
      BY <2>2, <2>3, <3>1, NewConnFacts
    <3>3. conns' = Append(conns, t)
      BY <2>5, <3>1
    <3>5. /\ nsched' = nsched + Scheduled(t.c) /\ Routed(t.peer) = {} /\ DatagramServer(t.c)
          /\ tmap' = tmap \cup {<<t.peer, Len(conns) + 1>>}
          /\ got' \subseteq got \cup {<<t.c, t.peer, Len(conns) + 1>>}
      BY <2>5, <2>7, <3>2
    <3>4. ConnsInv'
      BY <1>0, <1>1, <2>5, <3>2, <3>3, <3>5, ConnsMade
    <3> QED BY <2>2, <3>4 DEF ServerInv
  <2>6. ASSUME NEW i \in Routed(p), got' = got \cup {<<c, p, i>>},
               conns' = [conns EXCEPT ![i].close = @ \/ bad], UNCHANGED <<tmap, nsched>>
        PROVE  ServerInv'
    <3>1. <<p, i>> \in tmap
      BY <1>0 DEF Routed, ConnsInv, ConnsTypeOK
    <3>2. i \in Live /\ i \in DOMAIN conns /\ conns[i].peer = p /\ DatagramServer(conns[i].c)
      BY <1>0, <3>1 DEF ConnsInv, MapAlive, MapRouted, Live
    <3>3. conns[i].c = c \/ Shared(p)
      <4> SUFFICES ASSUME conns[i].c # c PROVE Shared(p)
        OBVIOUS
      <4>1. <<conns[i].c, p>> \in Routes
        BY <1>0, <3>2 DEF ConnsInv, Homes, Homed, DatagramServer
      <4>2. PICK r \in Routes, q \in Routes : r = <<conns[i].c, p>> /\ q = <<c, p>>
        BY <2>2, <2>3, <4>1
      <4>3. /\ r[2] = p /\ q[2] = p /\ r[1] # q[1]
            /\ Datagram(r[1]) /\ Datagram(q[1]) /\ ~IsClient(q[1])
        BY <2>7, <3>2, <4>2 DEF DatagramServer
      <4> QED BY <4>3 DEF Shared
    <3>4. conns \in Seq(Connection) /\ i \in 1..MaxConns
      BY <1>0, <3>2, ServerAssumption DEF ConnsInv, ConnsTypeOK
    <3>5. PICK t \in Connection : t = conns[i]
      BY <3>2, <3>4
    <3>6. PICK b \in BOOLEAN : b = (t.close \/ bad)
      OBVIOUS
    <3>7. PICK u \in Connection :
            /\ u.c = t.c /\ u.peer = t.peer /\ u.st = t.st /\ u.ok = t.ok /\ u.bad = t.bad /\ u.lost = t.lost
            /\ u.connected = t.connected /\ u.from = t.from
            /\ conns' = [conns EXCEPT ![i] = u]
      <4>1. PICK u : u = [t EXCEPT !.close = b]
        OBVIOUS
      <4>2. /\ u \in Connection /\ u.c = t.c /\ u.peer = t.peer /\ u.st = t.st /\ u.ok = t.ok /\ u.bad = t.bad
            /\ u.lost = t.lost /\ u.connected = t.connected /\ u.from = t.from
        BY <4>1 DEF Connection
      <4>3. conns' = [conns EXCEPT ![i] = u]
        BY <2>6, <3>5, <3>6, <4>1
      <4> QED BY <4>2, <4>3
    <3>8. conns' \in Seq(Connection) /\ Len(conns') = Len(conns)
      BY <3>2, <3>4, <3>7
    <3>9. \A j \in DOMAIN conns : /\ conns'[j].c = conns[j].c /\ conns'[j].peer = conns[j].peer
                                  /\ conns'[j].st = conns[j].st /\ conns'[j].ok = conns[j].ok
                                  /\ conns'[j].bad = conns[j].bad /\ conns'[j].lost = conns[j].lost
                                  /\ conns'[j].connected = conns[j].connected /\ conns'[j].from = conns[j].from
      BY <3>4, <3>5, <3>7
    <3>10. \A j \in DOMAIN conns : Story(conns'[j])
      BY <1>0, <3>9 DEF ConnsInv, Stories, Story
    <3>14. \A j \in DOMAIN conns : Homed(conns'[j])
      BY <1>0, <3>9, Zenon DEF ConnsInv, Homes, Homed
    <3>11. <<c, p, i>> \in Servers \X Peers \X (1..MaxConns)
      BY <3>4
    <3>13. \A g \in got' : \/ g \in got
                            \/ /\ g \in Servers \X Peers \X (1..MaxConns) /\ g[3] \in DOMAIN conns
                               /\ conns[g[3]].peer = g[2] /\ (conns[g[3]].c = g[1] \/ Shared(g[2]))
      BY <2>6, <3>2, <3>3, <3>11
    <3>12. ConnsInv'
      BY <1>0, <1>1, <2>6, <3>8, <3>9, <3>10, <3>13, <3>14, ConnsMarked
    <3> QED BY <2>2, <3>12 DEF ServerInv
  <2> QED BY <2>3, <2>4, <2>5, <2>6
<1> QED BY <1>5, <1>6, <1>7, <1>9, <1>10

LEMMA ServerKeepsInv ==
  ASSUME ~Rekind, ~Loose, ServerInv, ServerNext
  PROVE  ServerInv'
BY ServerCalls, ServerTurns, ServerVisits DEF ServerNext, ServerLoop

LEMMA ServerInvSafe ==
  ASSUME ServerInv
  PROVE  ServerSafe
<1>1. ConnsInv /\ LoopInv
  BY DEF ServerInv
<1>2. nsched \in 0..MaxConns
  BY <1>1, LiveFinite, ServerAssumption
<1>3. ServerTypeOK
  BY <1>1, <1>2 DEF ServerTypeOK, ConnsInv, ConnsTypeOK, LoopInv, LoopTypeOK
<1>4. OnePerPeer
  <2> SUFFICES ASSUME NEW i \in Live, NEW j \in Live, Datagram(conns[i].c), ~IsClient(conns[i].c),
                      ~Shared(conns[i].peer), conns[i].c = conns[j].c, conns[i].peer = conns[j].peer
               PROVE  i = j
    BY DEF OnePerPeer
  <2>1. <<conns[i].peer, i>> \in tmap /\ <<conns[j].peer, j>> \in tmap
    BY <1>1 DEF ConnsInv, MapWhole
  <2> QED BY <1>1, <2>1 DEF ConnsInv, MapIsFunction
<1>5. EventsPaired
  BY <1>1 DEF ConnsInv, ConnsTypeOK, Connection, Stories, Story, EventsPaired
<1> QED BY <1>1, <1>3, <1>4, <1>5 DEF ServerSafe, ConnsInv, LoopInv

LEMMA ServerStarts ==
  ASSUME ServerInit
  PROVE  ServerInv
<1> USE ServerAssumption DEF ServerInit
<1>1. /\ srv \in [Servers -> ChannelState]
      /\ pend \in [Servers -> Seq(Peers)] /\ \A c \in Servers : pend[c] = <<>> /\ srv[c].st = "CLOSED"
  BY DEF ChannelState
<1>2. conns = <<>> /\ conns \in Seq(Connection) /\ Len(conns) = 0 /\ DOMAIN conns = {}
  OBVIOUS
<1>3. Live = {}
  BY <1>2 DEF Live
<1>4. SchedExact
  <2>1. {i \in Live : Kcp(conns[i].c)} = {}
    BY <1>3
  <2>2. Cardinality({}) = 0
    BY FS_EmptySet
  <2> QED BY <2>1, <2>2 DEF SchedExact
<1>5. ConnsInv
  BY <1>2, <1>3, <1>4 DEF ConnsInv, ConnsTypeOK, MapIsFunction, MapRouted, MapAlive, MapWhole, GotMade, RoutedHome,
                          Stories, Homes
<1>6. LoopInv
  BY <1>1 DEF LoopInv, LoopTypeOK, Visits, PendRouted, ListenerQueued
<1> QED BY <1>5, <1>6 DEF ServerInv

-----------------------------------------------------------------------------
(* A UDP client.  Its invariant: destination_ is the peer of the first     *)
(* write; an association that datagrams may be sent over is allowed to all *)
(* of those that wait; one without a destination waits only while send is  *)
(* the callback, unless it was cut; and the channel is in its group, or    *)
(* about to join, while multicast is enabled.                              *)
Ends == Remotes \cup {NoPeer}
Addresses == Groups \cup {NoPeer}

Sends == [to : Ends, may : SUBSET Ends, cut : BOOLEAN]
Calls == [what : {"none", "connect", "disconnect", "enable", "disable"}, at : 0..4, ok : BOOLEAN]
Mcasts == [bit : BOOLEAN, addr : Addresses, open : BOOLEAN, joined : SUBSET Addresses,
           turn : {"closed", "test", "join", "done"}, raced : BOOLEAN]

UdpTypeOK ==
  /\ udp \in [peer : Ends, dest : Ends, connected : BOOLEAN, cb : {"send", "sendto"}]
  /\ ksock \in Ends /\ home \in Ends
  /\ call \in Calls /\ uq \in Seq(Sends) /\ mc \in Mcasts
  /\ went \in [to : Ends \cup {"error", "assert"}, may : SUBSET Ends, cut : BOOLEAN]

Switching == call.at \in {1, 2}
Associated == udp.connected \/ udp.cb = "send" \/ (Switching /\ call.what = "connect")

HomeInv ==
  /\ udp.dest = home
  /\ udp.peer = NoPeer => /\ uq = <<>> /\ home = NoPeer /\ ~Switching
                          /\ ~udp.connected /\ udp.cb = "sendto"

SwitchInv ==
  /\ Switching /\ call.ok => ksock # NoPeer /\ call.what = "connect"
  /\ Switching => call.what \in {"connect", "disconnect"}
  /\ Switching /\ call.what = "connect" /\ call.at = 1 => ~udp.connected
  /\ call.at = 2 => udp.connected = call.ok

OpInv(op) ==
  /\ Associated /\ ksock # NoPeer => ksock \in op.may
  /\ op.to # NoPeer => op.to \in op.may
  /\ op.to = NoPeer /\ ~op.cut => udp.connected /\ udp.cb = "send" /\ ~Switching

QueueInv == \A i \in DOMAIN uq : OpInv(uq[i])

McastInv ==
  /\ ~mc.open <=> mc.turn = "closed"
  /\ ~mc.open => mc.joined = {}
  /\ mc.bit /\ mc.turn = "done" /\ ~(call.what = "enable" /\ call.at \in {3, 4})
       => mc.addr \in mc.joined
  /\ ~mc.raced =>
       /\ mc.joined \subseteq {mc.addr}
       /\ ~mc.bit /\ ~(call.what = "disable" /\ call.at = 3) => mc.joined = {} /\ mc.turn # "join"
  /\ call.what \in {"none", "connect", "disconnect"} => call.at \notin {3, 4}
  /\ call.what = "enable" => mc.bit
  /\ call.what = "disable" => ~mc.bit

UdpInv ==
  /\ UdpTypeOK /\ HomeInv /\ SwitchInv /\ QueueInv /\ McastInv
  /\ UdpAgrees /\ UdpRouted


LEMMA MarkedOps ==
  ASSUME NEW q \in Seq(Sends), NEW k \in Ends
  PROVE  [i \in DOMAIN q |-> [q[i] EXCEPT !.may = @ \cup {k}]] \in Seq(Sends)
<1>1. Len(q) \in Nat /\ DOMAIN q = 1..Len(q) /\ \A i \in DOMAIN q : q[i] \in Sends
  OBVIOUS
<1>2. \A i \in DOMAIN q : [q[i] EXCEPT !.may = @ \cup {k}] \in Sends
  BY <1>1 DEF Sends
<1> QED BY <1>1, <1>2

LEMMA CutOps ==
  ASSUME NEW q \in Seq(Sends)
  PROVE  [i \in DOMAIN q |-> [q[i] EXCEPT !.cut = TRUE]] \in Seq(Sends)
<1>1. Len(q) \in Nat /\ DOMAIN q = 1..Len(q) /\ \A i \in DOMAIN q : q[i] \in Sends
  OBVIOUS
<1>2. \A i \in DOMAIN q : [q[i] EXCEPT !.cut = TRUE] \in Sends
  BY <1>1 DEF Sends
<1> QED BY <1>1, <1>2

(* The steps of multicast leave the transport alone. *)
LEMMA McastFrame ==
  ASSUME UdpInv, McastStep, call' \in Calls, mc' \in Mcasts, McastInv',
         UNCHANGED call \/ (~Switching /\ ~Switching')
  PROVE  UdpInv'
BY DEF UdpInv, McastStep, Calls, Mcasts, UdpTypeOK, HomeInv, SwitchInv, QueueInv, OpInv, Associated,
       Switching, UdpAgrees, UdpRouted

(* The others leave multicast alone. *)
LEMMA TransportFrame ==
  ASSUME UdpInv, UNCHANGED mc,
         \/ UNCHANGED call
         \/ call.what \in {"none", "connect", "disconnect"}
            /\ call'.what \in {"none", "connect", "disconnect"} /\ call'.at \notin {3, 4}
  PROVE  McastInv'
BY DEF UdpInv, McastInv

LEMMA McastKeepsInv ==
  ASSUME UdpInv, \/ OpenSocket \/ TestMcast \/ JoinOnOpen \/ EnableMcast \/ EnableAddress
                 \/ JoinNow \/ DisableMcast \/ LeaveNow
  PROVE  UdpInv'
<1> USE UdpAssumption
<1>0. McastStep /\ mc \in Mcasts /\ call \in Calls /\ McastInv
  BY DEF OpenSocket, TestMcast, JoinOnOpen, EnableMcast, EnableAddress, JoinNow, DisableMcast,
         LeaveNow, McastOption, UdpInv, UdpTypeOK, Mcasts, Calls
<1>1. CASE OpenSocket
  <2>1. mc' \in Mcasts /\ McastInv'
    BY <1>0, <1>1 DEF OpenSocket, Mcasts, McastInv
  <2> QED BY <1>0, <1>1, <2>1, McastFrame DEF OpenSocket
<1>2. CASE TestMcast
  <2>1. mc' \in Mcasts /\ McastInv'
    BY <1>0, <1>2 DEF TestMcast, Mcasts, McastInv
  <2> QED BY <1>0, <1>2, <2>1, McastFrame DEF TestMcast
<1>3. CASE JoinOnOpen
  <2>1. mc.open /\ mc' = [[mc EXCEPT !.joined = @ \cup {mc.addr}] EXCEPT !.turn = "done"]
    BY <1>0, <1>3 DEF JoinOnOpen, JoinGroup, McastInv, Mcasts
  <2>2. mc' \in Mcasts
    BY <1>0, <2>1 DEF Mcasts
  <2>3. /\ mc'.turn = "done" /\ mc'.joined = mc.joined \cup {mc.addr} /\ mc'.addr = mc.addr
        /\ mc'.bit = mc.bit /\ mc'.open = mc.open /\ mc'.raced = mc.raced
    BY <1>0, <2>1 DEF Mcasts
  <2>4. McastInv'
    BY <1>0, <1>3, <2>1, <2>3 DEF JoinOnOpen, McastInv, Mcasts
  <2> QED BY <1>0, <1>3, <2>2, <2>4, McastFrame DEF JoinOnOpen
<1>4. CASE EnableMcast
  <2>1. call' \in Calls
    BY <1>4 DEF EnableMcast, McastOption, Calls
  <2>2. mc' \in Mcasts
    BY <1>0, <1>4 DEF EnableMcast, Mcasts
  <2>3. McastInv'
    BY <1>0, <1>4 DEF EnableMcast, McastOption, McastInv, Mcasts, Idle
  <2> QED BY <1>0, <1>4, <2>1, <2>2, <2>3, McastFrame DEF EnableMcast, McastOption, Idle, Switching
<1>5. CASE EnableAddress
  <2>1. call' \in Calls /\ call.at = 3 /\ call'.at = 4 /\ call'.what = "enable" /\ call.what = "enable"
    <3>1. call.what = "enable" /\ call.at = 3 /\ call' = [call EXCEPT !.at = 4]
      BY <1>5, Zenon DEF EnableAddress
    <3>2. 4 \in 0..4
      OBVIOUS
    <3> QED BY <1>0, <3>1, <3>2 DEF Calls
  <2>2. PICK a \in Groups, r \in BOOLEAN :
          /\ mc' = [mc EXCEPT !.addr = a, !.raced = r]
          /\ ~r => ~mc.raced /\ ~(mc.addr \in mc.joined /\ a # mc.addr)
    BY <1>0, <1>5 DEF EnableAddress, Mcasts
  <2>3. mc' \in Mcasts
    BY <1>0, <2>2 DEF Mcasts, Addresses
  <2>4. McastInv'
    BY <1>0, <2>1, <2>2 DEF McastInv, Mcasts
  <2>5. ~Switching /\ ~Switching'
    BY <2>1 DEF Switching
  <2> QED BY <1>0, <2>1, <2>3, <2>4, <2>5, McastFrame
<1>6. CASE JoinNow
  <2>1. mc' = (IF mc.open THEN [mc EXCEPT !.joined = @ \cup {mc.addr}] ELSE mc) /\ call' = Idle
    BY <1>6 DEF JoinNow, JoinGroup
  <2>2. call' \in Calls
    BY <2>1 DEF Calls, Idle
  <2>3. mc' \in Mcasts /\ McastInv'
    BY <1>0, <1>6, <2>1 DEF JoinNow, Mcasts, Calls, McastInv, Idle
  <2> QED BY <1>0, <1>6, <2>1, <2>2, <2>3, McastFrame DEF JoinNow, Idle, Switching
<1>7. CASE DisableMcast
  <2>1. call' \in Calls
    BY <1>7 DEF DisableMcast, McastOption, Calls
  <2>2. mc' \in Mcasts
    BY <1>0, <1>7 DEF DisableMcast, Mcasts
  <2>3. McastInv'
    BY <1>0, <1>7 DEF DisableMcast, McastOption, McastInv, Mcasts, Idle
  <2> QED BY <1>0, <1>7, <2>1, <2>2, <2>3, McastFrame DEF DisableMcast, McastOption, Idle, Switching
<1>8. CASE LeaveNow
  <2>1. call' \in Calls /\ call' = Idle
    BY <1>8 DEF LeaveNow, Calls, Idle
  <2>2. PICK r \in BOOLEAN :
          /\ mc' = [mc EXCEPT !.joined = IF mc.open THEN @ \ {mc.addr} ELSE @, !.raced = r]
          /\ ~r => ~mc.raced /\ mc.turn # "join"
    BY <1>0, <1>8 DEF LeaveNow, Mcasts
  <2>3. mc' \in Mcasts
    BY <1>0, <2>2 DEF Mcasts
  <2>4. McastInv'
    BY <1>0, <1>8, <2>1, <2>2 DEF LeaveNow, McastInv, Mcasts, Idle
  <2> QED BY <1>0, <1>8, <2>1, <2>3, <2>4, McastFrame DEF LeaveNow, Idle, Switching
<1> QED BY <1>1, <1>2, <1>3, <1>4, <1>5, <1>6, <1>7, <1>8

(* A datagram is queued. *)
LEMMA WriteKeeps ==
  ASSUME UdpInv, udp.peer # NoPeer, NEW op, uq' = Append(uq, op), UNCHANGED <<ksock, call, went, mc>>,
         udp' \in [peer : Ends, dest : Ends, connected : BOOLEAN, cb : {"send", "sendto"}],
         home' \in Ends, udp'.cb = udp.cb, udp'.connected = udp.connected,
         op.to = NoPeer => udp.connected,
         op.to # NoPeer => op.to \in op.may,
         op.cut = (call.at \in {1, 2}),
         udp.connected \/ call # Idle => ksock \in op.may,
         op.to \in Ends, op.may \in SUBSET Ends,
         op = [to |-> op.to, may |-> op.may, cut |-> op.cut]
  PROVE  UdpTypeOK' /\ QueueInv'
<1>1. op.cut \in BOOLEAN
  OBVIOUS
<1>2. op \in Sends
  BY <1>1 DEF Sends
<1>3. uq \in Seq(Sends)
  BY DEF UdpInv, UdpTypeOK, Sends
<1>4. /\ uq' \in Seq(Sends) /\ DOMAIN uq' = 1..Len(uq) + 1 /\ uq'[Len(uq) + 1] = op
      /\ DOMAIN uq = 1..Len(uq) /\ Len(uq) \in Nat /\ \A i \in DOMAIN uq : uq'[i] = uq[i]
  BY <1>2, <1>3
<1>5. UdpTypeOK'
  BY <1>4 DEF UdpInv, UdpTypeOK, Sends
<1>6. OpInv(op)'
  BY DEF OpInv, UdpInv, Associated, Switching, UdpAgrees, Callbacks, Idle
<1>7. \A i \in DOMAIN uq' : i \in DOMAIN uq \/ uq'[i] = op
  BY <1>4
<1>8. \A i \in DOMAIN uq : OpInv(uq[i])'
  BY <1>4 DEF OpInv, UdpInv, QueueInv, Associated, Switching
<1> QED BY <1>4, <1>5, <1>6, <1>7, <1>8 DEF QueueInv

LEMMA UdpKeepsInv ==
  ASSUME UdpInv, UdpNext
  PROVE  UdpInv'
<1> USE UdpAssumption DEF UdpInv
<1>1. CASE mc.turn = "done" /\ ConfigureRemote
  <2>1. McastInv'
    BY <1>1, TransportFrame DEF ConfigureRemote
  <2>2. PICK ok \in BOOLEAN :
          /\ udp' = [udp EXCEPT !.peer = Remote, !.connected = ok, !.cb = IF ok THEN "send" ELSE "sendto"]
          /\ ksock' = (IF ok THEN Remote ELSE NoPeer)
          /\ udp.peer = NoPeer /\ UNCHANGED <<uq, call, went, home>>
    BY <1>1 DEF ConfigureRemote, Callbacks
  <2>3. UdpTypeOK' /\ UdpRouted'
    BY <2>2, <1>1 DEF UdpTypeOK, Ends, UdpRouted, ConfigureRemote
  <2>4. HomeInv' /\ SwitchInv' /\ UdpAgrees'
    BY <2>2 DEF UdpTypeOK, HomeInv, SwitchInv, Switching, UdpAgrees, Callbacks
  <2>5. QueueInv'
    BY <2>2 DEF HomeInv, QueueInv
  <2> QED BY <2>1, <2>3, <2>4, <2>5
<1>2. CASE UdpConnect
  <2>1. McastInv'
    BY <1>2, TransportFrame DEF UdpConnect, Option, Idle
  <2>2. PICK ok \in BOOLEAN :
          /\ ksock' = (IF ok THEN udp.peer ELSE ksock)
          /\ call' = [what |-> "connect", at |-> 1, ok |-> ok]
    BY <1>2 DEF UdpConnect
  <2>3. /\ ~udp.connected /\ udp.peer # NoPeer /\ call.at = 0 /\ UNCHANGED <<udp, went, home, mc>>
        /\ uq' = [i \in DOMAIN uq |-> [uq[i] EXCEPT !.may = @ \cup {ksock'}]]
    BY <1>2 DEF UdpConnect, Option, Idle
  <2>4. ksock' \in Ends /\ (ok => ksock' # NoPeer)
    BY <2>2, <2>3 DEF UdpTypeOK
  <2>5. call' \in Calls
    BY <2>2 DEF Calls
  <2>6. DOMAIN uq' = DOMAIN uq /\ \A i \in DOMAIN uq : uq'[i] = [uq[i] EXCEPT !.may = @ \cup {ksock'}]
    BY <2>3
  <2>7. uq' \in Seq(Sends) /\ uq \in Seq(Sends)
    BY <2>3, <2>4, MarkedOps DEF UdpTypeOK, Sends
  <2>8. UdpTypeOK'
    BY <2>3, <2>4, <2>5, <2>7 DEF UdpTypeOK, Calls, Sends
  <2>9. HomeInv' /\ SwitchInv' /\ UdpAgrees' /\ UdpRouted'
    BY <2>2, <2>3, <2>4 DEF HomeInv, SwitchInv, Switching, UdpAgrees, UdpRouted
  <2>10. QueueInv'
    <3> SUFFICES ASSUME NEW i \in DOMAIN uq' PROVE OpInv(uq[i])'
      BY DEF QueueInv
    <3>1. i \in DOMAIN uq /\ uq[i] \in Sends
      BY <2>6, <2>7
    <3>2. /\ uq'[i].to = uq[i].to /\ uq'[i].cut = uq[i].cut /\ uq'[i].may = uq[i].may \cup {ksock'}
      BY <2>6, <3>1 DEF Sends
    <3>3. OpInv(uq[i])
      BY <3>1 DEF QueueInv
    <3> QED BY <2>2, <2>3, <3>2, <3>3 DEF OpInv, Associated, Switching
  <2> QED BY <2>1, <2>8, <2>9, <2>10
<1>3. CASE UdpDisconnect
  <2>1. McastInv'
    BY <1>3, TransportFrame DEF UdpDisconnect, Option, Idle
  <2>2. /\ call.at = 0 /\ udp.peer # NoPeer /\ UNCHANGED <<udp, went, home, mc>> /\ ksock' \in {NoPeer, ksock}
        /\ uq' = [i \in DOMAIN uq |-> [uq[i] EXCEPT !.cut = TRUE]]
        /\ call' = [what |-> "disconnect", at |-> 1, ok |-> FALSE]
    BY <1>3 DEF UdpDisconnect, Option, Idle
  <2>3. ksock' \in Ends
    BY <2>2 DEF UdpTypeOK, Ends
  <2>4. call' \in Calls
    BY <2>2 DEF Calls
  <2>5. DOMAIN uq' = DOMAIN uq /\ \A i \in DOMAIN uq : uq'[i] = [uq[i] EXCEPT !.cut = TRUE]
    BY <2>2
  <2>6. uq' \in Seq(Sends) /\ uq \in Seq(Sends)
    BY <2>2, CutOps DEF UdpTypeOK, Sends
  <2>7. UdpTypeOK'
    BY <2>2, <2>3, <2>4, <2>6 DEF UdpTypeOK, Calls, Sends
  <2>8. HomeInv' /\ SwitchInv' /\ UdpAgrees' /\ UdpRouted'
    BY <2>2 DEF HomeInv, SwitchInv, Switching, UdpAgrees, UdpRouted
  <2>9. QueueInv'
    <3> SUFFICES ASSUME NEW i \in DOMAIN uq' PROVE OpInv(uq[i])'
      BY DEF QueueInv
    <3>1. i \in DOMAIN uq /\ uq[i] \in Sends
      BY <2>5, <2>6
    <3>2. /\ uq'[i].to = uq[i].to /\ uq'[i].cut = TRUE /\ uq'[i].may = uq[i].may
      BY <2>5, <3>1 DEF Sends
    <3>3. OpInv(uq[i])
      BY <3>1 DEF QueueInv
    <3> QED BY <2>2, <3>2, <3>3 DEF OpInv, Associated, Switching
  <2> QED BY <2>1, <2>7, <2>8, <2>9
<1>4. CASE SetConnected
  <2>1. McastInv'
    BY <1>4, TransportFrame DEF SetConnected, SwitchInv, Switching, UdpTypeOK
  <2>2. UdpTypeOK' /\ HomeInv' /\ SwitchInv'
    BY <1>4 DEF SetConnected, UdpTypeOK, Calls, Ends, HomeInv, SwitchInv, Switching
  <2>3. QueueInv'
    BY <1>4 DEF SetConnected, UdpTypeOK, Calls, Ends, HomeInv, SwitchInv, Switching, QueueInv, OpInv, Associated
  <2> QED BY <1>4, <2>1, <2>2, <2>3 DEF SetConnected, UdpTypeOK, UdpAgrees, UdpRouted
<1>5. CASE SetPrimitives
  <2>1. McastInv'
    BY <1>5, TransportFrame DEF SetPrimitives, SwitchInv, Switching, Idle
  <2>2. UdpTypeOK' /\ HomeInv' /\ SwitchInv'
    BY <1>5 DEF SetPrimitives, Callbacks, UdpTypeOK, Calls, Ends, HomeInv, SwitchInv, Switching, Idle
  <2>3. QueueInv'
    BY <1>5 DEF SetPrimitives, Callbacks, UdpTypeOK, Calls, Ends, HomeInv, SwitchInv, Switching, QueueInv, OpInv, Associated, Idle
  <2> QED BY <1>5, <2>1, <2>2, <2>3 DEF SetPrimitives, UdpTypeOK, SwitchInv, Switching, UdpAgrees, UdpRouted
<1>6. CASE UdpWrite
  <2>1. McastInv'
    BY <1>6, TransportFrame DEF UdpWrite
  <2>2. udp.peer # NoPeer /\ UNCHANGED <<ksock, call, went, mc>>
    BY <1>6 DEF UdpWrite
  <2>3. PICK op \in {UdpOp(NoPeer, ksock), UdpOp(EnsureDestination, home')} :
          /\ uq' = Append(uq, op)
          /\ udp.connected => UNCHANGED <<udp, home>> /\ op = UdpOp(NoPeer, ksock)
          /\ ~udp.connected => /\ home' = (IF home = NoPeer THEN udp.peer ELSE home)
                               /\ udp' = [udp EXCEPT !.dest = EnsureDestination]
                               /\ op = UdpOp(EnsureDestination, home')
    BY <1>6 DEF UdpWrite
  <2>4. ~udp.connected => EnsureDestination = home' /\ home' \in Remotes
    BY <2>2, <2>3 DEF EnsureDestination, HomeInv, UdpTypeOK, Ends
  <2>5. /\ udp' \in [peer : Ends, dest : Ends, connected : BOOLEAN, cb : {"send", "sendto"}]
        /\ home' \in Ends /\ udp'.dest = home' /\ udp'.peer = udp.peer /\ udp'.cb = udp.cb
        /\ udp'.connected = udp.connected
    BY <2>3, <2>4 DEF UdpTypeOK, HomeInv, Ends
  <2>6. /\ op.to = NoPeer => udp.connected
        /\ op.to # NoPeer => op.to \in op.may
        /\ op.cut = (call.at \in {1, 2})
        /\ udp.connected \/ call # Idle => ksock \in op.may
        /\ op.to \in Ends /\ op.may \in SUBSET Ends
        /\ op = [to |-> op.to, may |-> op.may, cut |-> op.cut]
    <3>1. ksock \in Ends /\ (udp.connected \/ op = UdpOp(home', home')) /\ (udp.connected => op = UdpOp(NoPeer, ksock))
      BY <2>3, <2>4 DEF UdpTypeOK
    <3>2. CASE udp.connected
      BY <3>1, <3>2 DEF UdpOp, Ends
    <3>3. CASE ~udp.connected
      BY <2>4, <3>1, <3>3 DEF UdpOp, Ends
    <3> QED BY <3>2, <3>3
  <2>7. UdpTypeOK' /\ QueueInv'
    BY <2>2, <2>3, <2>5, <2>6, WriteKeeps
  <2>8. HomeInv' /\ SwitchInv' /\ UdpAgrees' /\ UdpRouted'
    BY <2>2, <2>5 DEF HomeInv, SwitchInv, Switching, UdpAgrees, UdpRouted, Callbacks
  <2> QED BY <2>1, <2>7, <2>8 DEF UdpWrite
<1>7. CASE UdpWriteTo
  <2>1. McastInv'
    BY <1>7, TransportFrame DEF UdpWriteTo
  <2>2. PICK to \in Remotes : uq' = Append(uq, UdpOp(to, to))
    BY <1>7 DEF UdpWriteTo
  <2>3. udp.peer # NoPeer /\ UNCHANGED <<udp, ksock, call, went, home, mc>>
    BY <1>7 DEF UdpWriteTo
  <2>4. PICK op : op = UdpOp(to, to)
    OBVIOUS
  <2>5. /\ op.to = NoPeer => udp.connected
        /\ op.to # NoPeer => op.to \in op.may
        /\ op.cut = (call.at \in {1, 2})
        /\ udp.connected \/ call # Idle => ksock \in op.may
        /\ op.to \in Ends /\ op.may \in SUBSET Ends
        /\ op = [to |-> op.to, may |-> op.may, cut |-> op.cut]
    BY <2>4 DEF UdpOp, UdpTypeOK, Ends
  <2>6. UdpTypeOK' /\ QueueInv'
    BY <2>2, <2>3, <2>4, <2>5, WriteKeeps DEF UdpTypeOK, HomeInv
  <2>7. HomeInv' /\ SwitchInv' /\ UdpAgrees' /\ UdpRouted'
    BY <2>3 DEF HomeInv, SwitchInv, Switching, UdpAgrees, UdpRouted, Callbacks
  <2> QED BY <2>1, <2>6, <2>7
<1>8. CASE UdpPerform
  <2>1. McastInv'
    BY <1>8, TransportFrame DEF UdpPerform
  <2>2. /\ uq # <<>> /\ uq' = Tail(uq) /\ UNCHANGED <<udp, ksock, call, home>>
        /\ \E to \in {Performed(Head(uq)), "error"} : went' = [Head(uq) EXCEPT !.to = to]
    BY <1>8 DEF UdpPerform
  <2>9. uq \in Seq(Sends)
    BY DEF UdpTypeOK, Sends
  <2>10. /\ Head(uq) = uq[1] /\ 1 \in DOMAIN uq /\ uq[1] \in Sends /\ uq' \in Seq(Sends)
         /\ Len(uq') = Len(uq) - 1 /\ Len(uq) \in Nat /\ \A i \in 1..Len(uq') : uq'[i] = uq[i + 1]
    BY <2>2, <2>9
  <2>3. /\ uq \in Seq(Sends) /\ Head(uq) \in Sends /\ uq' \in Seq(Sends) /\ OpInv(Head(uq))
        /\ Len(uq') = Len(uq) - 1 /\ Len(uq) \in Nat /\ \A i \in 1..Len(uq') : uq'[i] = uq[i + 1]
    BY <2>9, <2>10 DEF QueueInv
  <2>4. QueueInv'
    <3>1. \A i \in DOMAIN uq' : i + 1 \in DOMAIN uq /\ uq'[i] = uq[i + 1]
      BY <2>3
    <3> QED BY <2>2, <3>1 DEF QueueInv, OpInv, Associated, Switching
  <2>5. PICK op \in Sends : op = Head(uq)
    BY <2>3
  <2>6. PICK to \in Ends \cup {"error", "assert"} :
          /\ went' = [op EXCEPT !.to = to]
          /\ to \notin {"error", "assert"} => to \in op.may
          /\ to = "assert" => op.cut
    <3>1. PICK to \in {Performed(op), "error"} : went' = [op EXCEPT !.to = to]
      BY <2>2, <2>5
    <3>2. OpInv(op) /\ ksock \in Ends /\ op.to \in Ends /\ udp.cb \in {"send", "sendto"}
      BY <2>3, <2>5 DEF Sends, UdpTypeOK
    <3>3. CASE to = "error"
      BY <3>1, <3>3
    <3>4. CASE to = Performed(op) /\ udp.cb = "send"
      BY <3>1, <3>2, <3>4 DEF Performed, OpInv, Associated, Ends
    <3>5. CASE to = Performed(op) /\ udp.cb = "sendto"
      BY <3>1, <3>2, <3>5 DEF Performed, OpInv, Ends
    <3> QED BY <3>1, <3>2, <3>3, <3>4, <3>5
  <2>7. UdpRouted' /\ went' \in [to : Ends \cup {"error", "assert"}, may : SUBSET Ends, cut : BOOLEAN]
    BY <2>6 DEF UdpRouted, Sends
  <2>8. UdpTypeOK' /\ HomeInv' /\ SwitchInv' /\ UdpAgrees'
    BY <2>2, <2>3, <2>7, <1>8 DEF UdpTypeOK, Sends, HomeInv, SwitchInv, Switching, UdpAgrees, Callbacks, UdpPerform
  <2> QED BY <2>1, <2>4, <2>7, <2>8
<1>9. CASE UdpReceive
  <2>1. McastInv'
    BY <1>9, TransportFrame DEF UdpReceive
  <2> QED BY <1>9, <2>1 DEF UdpReceive, UdpTypeOK, Ends, HomeInv, SwitchInv, QueueInv, OpInv,
        Associated, Switching, UdpAgrees, UdpRouted
<1> QED BY McastKeepsInv, <1>1, <1>2, <1>3, <1>4, <1>5, <1>6, <1>7, <1>8, <1>9 DEF UdpNext

-----------------------------------------------------------------------------
LEMMA UdpStarts ==
  ASSUME UdpInit
  PROVE  UdpInv
<1> USE UdpAssumption DEF UdpInit
<1>1. /\ udp \in [peer : Ends, dest : Ends, connected : BOOLEAN, cb : {"send", "sendto"}]
      /\ ksock \in Ends /\ home \in Ends /\ uq \in Seq(Sends)
  BY DEF Ends
<1>2. call \in Calls
  <2>1. 0 \in 0..4
    OBVIOUS
  <2> QED BY <2>1 DEF Calls, Idle
<1>3. went \in [to : Ends \cup {"error", "assert"}, may : SUBSET Ends, cut : BOOLEAN] /\ UdpRouted
  <2>1. went = [to |-> NoPeer, may |-> {NoPeer}, cut |-> FALSE] /\ NoPeer \in Ends
    BY DEF NotYet, Ends
  <2>2. went.to = NoPeer /\ went.may = {NoPeer}
    BY <2>1
  <2>3. NoPeer # "assert" /\ NoPeer # "error"
    BY DEF NoPeer
  <2>4. UdpRouted
    BY <2>2, <2>3 DEF UdpRouted
  <2> QED BY <2>1, <2>4
<1>4. mc \in Mcasts /\ McastInv
  BY DEF Mcasts, McastInv, Idle, Addresses
<1>5. HomeInv /\ SwitchInv /\ QueueInv /\ UdpAgrees
  BY DEF HomeInv, SwitchInv, Switching, Idle, QueueInv, UdpAgrees, Callbacks
<1> QED BY <1>1, <1>2, <1>3, <1>4, <1>5 DEF UdpInv, UdpTypeOK

(* Channels and their transports, for any number of servers, clients,      *)
(* peers and connections, while no channel changes its kind and connect_n  *)
(* succeeds: transport_map_ never leads to a destroyed transport, even     *)
(* where a UDP client or a second server shares the endpoint; it leads to  *)
(* the one live transport of each endpoint that is not shared, and what    *)
(* that endpoint sends reaches the transport of its channel; ON_OPEN and   *)
(* ON_CLOSE come in pairs, a listening channel stays queued and nsched_    *)
(* counts the KCP transports; and a UDP client that is connected and       *)
(* disconnected while it sends addresses every datagram to a peer it may   *)
(* go to, and is in its multicast group once the option has returned.      *)
THEOREM ChannelsInStep ==
  ASSUME ~Rekind, ~Loose
  PROVE  MCSpec => []ChannelsSafe
<1> DEFINE Inv == ServerInv /\ UdpInv
<1>1. MCInit => Inv
  BY ServerStarts, UdpStarts DEF MCInit
<1>2. Inv /\ [MCNext]_all => Inv'
  <2> SUFFICES ASSUME Inv, [MCNext]_all PROVE Inv'
    OBVIOUS
  <2>3. ASSUME UNCHANGED svars PROVE ServerInv'
    <3>1. ConnsInv' /\ Live' = Live
      BY <2>3, ConnsSame DEF svars, ServerInv
    <3> QED BY <2>3, <3>1 DEF svars, ServerInv, LoopInv, LoopTypeOK, Visits, PendRouted, ListenerQueued, IsClient
  <2>4. ASSUME UNCHANGED udpvars PROVE UdpInv'
    BY <2>4 DEF udpvars, UdpInv, UdpTypeOK, HomeInv, SwitchInv, QueueInv, OpInv, Associated, Switching,
                McastInv, UdpAgrees, UdpRouted
  <2>5. \/ UNCHANGED <<svars, udpvars>> \/ (ServerNext /\ UNCHANGED udpvars) \/ (UdpNext /\ UNCHANGED svars)
    BY DEF MCNext, all, ButServer, ButResolver, ButUdp
  <2>6. CASE ServerNext /\ UNCHANGED udpvars
    BY <2>4, <2>6, ServerKeepsInv
  <2>7. CASE UdpNext /\ UNCHANGED svars
    BY <2>3, <2>7, UdpKeepsInv
  <2> QED BY <2>3, <2>4, <2>5, <2>6, <2>7
<1>3. Inv => ChannelsSafe
  <2>1. UdpInv => UdpSafe
    <3>1. UdpInv => McastKept
      BY DEF UdpInv, McastInv, McastKept, Idle
    <3> QED BY <3>1 DEF UdpInv, UdpSafe
  <2> QED BY <2>1, ServerInvSafe DEF ChannelsSafe
<1> QED BY <1>1, <1>2, <1>3, PTL DEF MCSpec
=============================================================================
