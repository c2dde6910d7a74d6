------------------------------ MODULE Resolver ------------------------------
(***************************************************************************)
(* Name resolution of client channels: do_resolve with its dirty flags and *)
(* its cache, start_query on a detached thread (or on the loop, through    *)
(* c-ares), and finalize, which must not destroy a channel that a query    *)
(* thread is about to update.                                              *)
(*                                                                         *)
(* A turn of the loop visits the channels of channel_ops_; what happens    *)
(* after the address is known (connect, completion, timeout) is one step.  *)
(***************************************************************************)
EXTENDS Integers, Sequences, FiniteSets

CONSTANTS
  Channels,    \* the channels of the service
  Names,       \* host names, which need a query
  Ports,       \* remote ports
  Rehost,      \* the address may be changed while the channel is resolving
  MaxSets,     \* bound: changes of an address
  MaxOpens,    \* bound: accepted opens
  MaxStops     \* bound: stops of the worker

Literal == "literal"   \* a host that is an IP address
NoName == "empty"      \* an empty host
Hosts == Names \cup {Literal, NoName}

ASSUME ResolverAssumption ==
  /\ Literal \notin Names /\ NoName \notin Names
  /\ IsFiniteSet(Channels) /\ Rehost \in BOOLEAN
  /\ MaxSets \in Nat /\ MaxOpens \in Nat /\ MaxStops \in Nat

VARIABLES
  ares,      \* built with c-ares: queries run on the loop
  ch,        \* the channels
  queued,    \* channel_ops_
  todo,      \* channels this turn has still to visit
  wake,      \* the interrupter is signalled
  dnsDirty,  \* options_.dns_dirty_
  queries,   \* queries in flight: [c, host, port, ok, qpc]
  work,      \* ares_outstanding_work_
  token,     \* life_token_ is held by the service
  writer,    \* life_mutex_ is held exclusively
  life,      \* "running", "idle" or "gone"
  sets, opens, stops  \* calls so far

rvars == <<ares, ch, queued, todo, wake, dnsDirty, queries, work, token,
           writer, life, sets, opens, stops>>

Channel == [st : {"CLOSED", "RESOLVING", "CONNECTING", "OPENED"},
            err : {"ok", "inprogress", "failed"},
            host : Hosts, port : Ports,
            hostDirty : BOOLEAN, portDirty : BOOLEAN, needs : BOOLEAN,
            eps : Seq(Hosts \X Ports), fresh : BOOLEAN, open : BOOLEAN,
            asked : Hosts \X Ports]

Query == [c : Channels, host : Hosts, port : Ports, ok : BOOLEAN,
          qpc : {"new", "asking", "answered", "locked", "updating"}]

(***************************************************************************)
(* Calls of the application, between two turns.                            *)
(***************************************************************************)
SetAddress(c, h, p) ==
  /\ life # "gone" /\ todo = {} /\ sets < MaxSets /\ sets' = sets + 1
  /\ Rehost \/ ch[c].st # "RESOLVING"
  /\ <<h, p>> # <<ch[c].host, ch[c].port>>
  /\ ch' = [ch EXCEPT ![c].host = h, ![c].port = p,
                      ![c].hostDirty = @ \/ ch[c].host # h,
                      ![c].portDirty = @ \/ ch[c].port # p]
  /\ UNCHANGED <<ares, queued, todo, wake, dnsDirty, queries, work, token,
                 writer, life, opens, stops>>

(* open_internal: refused while an attempt is under way.                   *)
OpenInternal(c) ==
  /\ life = "running" /\ todo = {} /\ opens < MaxOpens /\ opens' = opens + 1
  /\ ch[c].st \notin {"RESOLVING", "CONNECTING"}
  /\ ch' = [ch EXCEPT ![c].open = TRUE]
  /\ queued' = queued \cup {c}
  /\ wake' = TRUE
  /\ UNCHANGED <<ares, todo, dnsDirty, queries, work, token, writer, life,
                 sets, stops>>

(* YOPT_S_DNS_DIRTY.                                                       *)
SetDnsDirty ==
  /\ life # "gone" /\ todo = {} /\ ~dnsDirty /\ sets < MaxSets /\ sets' = sets + 1
  /\ dnsDirty' = TRUE
  /\ UNCHANGED <<ares, ch, queued, todo, wake, queries, work, token, writer,
                 life, opens, stops>>

(* dns_cache_timeout passes.                                               *)
CacheExpires(c) ==
  /\ ch[c].fresh
  /\ ch' = [ch EXCEPT ![c].fresh = FALSE]
  /\ UNCHANGED <<ares, queued, todo, wake, dnsDirty, queries, work, token,
                 writer, life, sets, opens, stops>>

(***************************************************************************)
(* do_resolve.                                                             *)
(***************************************************************************)
Rehosted(r) ==
  IF ~r.hostDirty THEN r
  ELSE [r EXCEPT !.hostDirty = FALSE, !.needs = r.host # Literal,
                 !.eps = IF r.host = Literal THEN <<<<Literal, r.port>>>> ELSE <<>>]

Reported(r) == [r EXCEPT !.portDirty = FALSE,
                         !.eps = IF r.portDirty THEN [i \in DOMAIN @ |-> <<@[i][1], r.port>>] ELSE @]

IgnoresPending(r, stale) ==
  r.eps # <<>> /\ (~r.needs \/ (r.fresh /\ ~stale))

(* The address is used: a literal, the answer of this attempt's query, or  *)
(* a cached one that has not expired.                                      *)
Usable(r, stale) ==
  r.eps # <<>> /\ (~r.needs \/ r.err = "inprogress" \/ (r.fresh /\ ~stale))

(* ares_getaddrinfo_cb appends what was found to what the channel has; a   *)
(* channel left without an address is told of the failure.                 *)
AresCallback(r, found) ==
  LET eps == r.eps \o found IN
  IF eps # <<>> THEN [r EXCEPT !.eps = eps, !.fresh = TRUE] ELSE [r EXCEPT !.err = "failed"]

AresWorkStarted(n) == n + 1
AresWorkFinished(n) == IF n > 0 THEN n - 1 ELSE n

(* destroy_ares_channel cancels the queries: their callbacks find nothing. *)
DestroyAres(chs) ==
  [c \in Channels |-> IF \E q \in queries : q.c = c THEN AresCallback(chs[c], <<>>) ELSE chs[c]]

(* update_dns_status: every cached address expires at once.                *)
Expired(chs) == [c \in Channels |-> [chs[c] EXCEPT !.fresh = FALSE]]

(* ... and c-ares is set up again, for the servers of now.                 *)
RecreateAres(chs) == Expired(DestroyAres(chs))

Failed(r) == [r EXCEPT !.st = "CLOSED", !.err = "ok", !.open = FALSE]

(* start_query takes copies of the host and the port.                      *)
StartQuery(r) == [r EXCEPT !.err = "inprogress"]

MustAsk(r) == r.eps = <<>> /\ r.err = "ok" /\ r.host # NoName

(* The name is asked of a thread that answers later, or of c-ares, which   *)
(* may know it at once (its hosts file) and call back before it returns.   *)
AresGetaddrinfo(r) ==
  {StartQuery(r)} \cup
  IF ares THEN {AresCallback(StartQuery(r), found) : found \in {<<>>, <<<<r.host, r.port>>>>}} ELSE {}

NewQuery(c) == [c |-> c, host |-> ch[c].host, port |-> ch[c].port, ok |-> TRUE, qpc |-> "new"]

TurnBegins ==
  /\ life = "running" /\ todo = {} /\ wake
  /\ wake' = FALSE
  /\ todo' = queued
  /\ UNCHANGED <<ares, ch, queued, dnsDirty, queries, work, token, writer,
                 life, sets, opens, stops>>

(* A visit that finds the channel RESOLVING, or asked to open: do_resolve, *)
(* and what its result leads to.                                           *)
Visit(c) ==
  LET r0 == [ch[c] EXCEPT !.open = FALSE, !.st = IF ch[c].open THEN "RESOLVING" ELSE @,
                          !.asked = <<ch[c].host, ch[c].port>>]
      r1 == Reported(Rehosted(r0))
      stale == dnsDirty /\ r1.eps # <<>> /\ r1.needs
      cancel == stale /\ ares
      left == IF cancel THEN {} ELSE queries
      others == IF cancel THEN RecreateAres(ch) ELSE IF stale THEN Expired(ch) ELSE ch
      r == IF Usable(r1, stale) THEN r1 ELSE [r1 EXCEPT !.eps = <<>>]
      asks == MustAsk(r)
      base == IF cancel THEN 0 ELSE work
  IN
  /\ c \in todo /\ r0.st = "RESOLVING"
  /\ dnsDirty' = (dnsDirty /\ ~stale)
  /\ todo' = todo \ {c}
  /\ \/ /\ r.eps # <<>>   \* do_connect: begins, or ends at once
        /\ \E out \in {"CONNECTING", "OPENED", "CLOSED"} :
             ch' = [others EXCEPT ![c] = [r EXCEPT !.st = out,
                      !.err = IF out = "CONNECTING" THEN "inprogress" ELSE "ok"]]
     \/ /\ asks
        /\ \E r2 \in AresGetaddrinfo(r) : ch' = [others EXCEPT ![c] = IF r2.err = "failed" THEN Failed(r2) ELSE r2]
     \/ /\ ~asks /\ r.eps = <<>> /\ r.err = "inprogress" /\ r.host # NoName
        /\ ch' = [others EXCEPT ![c] = r]
     \/ /\ r.eps = <<>> /\ (r.err = "failed" \/ r.host = NoName)
        /\ ch' = [others EXCEPT ![c] = Failed(r)]
  /\ LET open == asks /\ ch'[c] = StartQuery(r) IN
     /\ queries' = left \cup IF open THEN {NewQuery(c)} ELSE {}
     /\ work' = IF open /\ ares THEN AresWorkStarted(base) ELSE base
     /\ wake' = (wake \/ (cancel /\ queries # {}) \/ (asks /\ ~open))
  /\ queued' = IF ch'[c].err = "inprogress" THEN queued ELSE queued \ {c}
  /\ UNCHANGED <<ares, token, writer, life, sets, opens, stops>>

(* A visit that finds it CONNECTING or done: it stays while in progress.   *)
VisitOther(c) ==
  /\ c \in todo /\ ~ch[c].open /\ ch[c].st # "RESOLVING"
  /\ todo' = todo \ {c}
  /\ queued' = IF ch[c].err = "inprogress" THEN queued ELSE queued \ {c}
  /\ UNCHANGED <<ares, ch, wake, dnsDirty, queries, work, token, writer, life,
                 sets, opens, stops>>

(* Completion, failure or timeout of the connection, and its later close.  *)
ConnectEnds(c) ==
  /\ life = "running" /\ todo = {}
  /\ ch[c].st \in {"CONNECTING", "OPENED"}
  /\ \E out \in {"OPENED", "CLOSED"} :
       /\ out # ch[c].st
       /\ ch' = [ch EXCEPT ![c].st = out, ![c].err = "ok"]
  /\ UNCHANGED <<ares, queued, todo, wake, dnsDirty, queries, work, token,
                 writer, life, sets, opens, stops>>

(***************************************************************************)
(* The detached thread of a query.                                         *)
(***************************************************************************)
Becomes(q, r) == queries' = (queries \ {q}) \cup r

QueryChecks(q) ==
  /\ ~ares /\ q.qpc = "new"
  /\ Becomes(q, IF token THEN {[q EXCEPT !.qpc = "asking"]} ELSE {})
  /\ UNCHANGED <<ares, ch, queued, todo, wake, dnsDirty, work, token, writer,
                 life, sets, opens, stops>>

QueryAnswers(q) ==
  /\ ~ares /\ q.qpc = "asking"
  /\ \E b \in BOOLEAN : Becomes(q, {[q EXCEPT !.qpc = "answered", !.ok = b]})
  /\ UNCHANGED <<ares, ch, queued, todo, wake, dnsDirty, work, token, writer,
                 life, sets, opens, stops>>

QueryLocks(q) ==
  /\ ~ares /\ q.qpc = "answered" /\ ~writer
  /\ Becomes(q, {[q EXCEPT !.qpc = "locked"]})
  /\ UNCHANGED <<ares, ch, queued, todo, wake, dnsDirty, work, token, writer,
                 life, sets, opens, stops>>

QueryTrusts(q) ==
  /\ ~ares /\ q.qpc = "locked"
  /\ Becomes(q, {[q EXCEPT !.qpc = "updating"]})
  /\ UNCHANGED <<ares, ch, queued, todo, wake, dnsDirty, work, token, writer,
                 life, sets, opens, stops>>

QueryRechecks(q) ==
  /\ ~ares /\ q.qpc = "locked"
  /\ Becomes(q, IF token THEN {[q EXCEPT !.qpc = "updating"]} ELSE {})
  /\ UNCHANGED <<ares, ch, queued, todo, wake, dnsDirty, work, token, writer,
                 life, sets, opens, stops>>

QueryUpdatesSilently(q) ==
  /\ ~ares /\ q.qpc = "updating"
  /\ ch' = [ch EXCEPT ![q.c] = IF q.ok THEN [@ EXCEPT !.eps = <<<<q.host, q.port>>>>, !.fresh = TRUE]
                               ELSE [@ EXCEPT !.err = "failed"]]
  /\ Becomes(q, {})
  /\ UNCHANGED <<ares, queued, todo, wake, dnsDirty, work, token, writer, life,
                 sets, opens, stops>>

QueryUpdates(q) ==
  /\ ~ares /\ q.qpc = "updating"
  /\ ch' = [ch EXCEPT ![q.c] = IF q.ok THEN [@ EXCEPT !.eps = <<<<q.host, q.port>>>>, !.fresh = TRUE]
                               ELSE [@ EXCEPT !.err = "failed"]]
  /\ wake' = TRUE
  /\ Becomes(q, {})
  /\ UNCHANGED <<ares, queued, todo, dnsDirty, work, token, writer, life,
                 sets, opens, stops>>

(* ares_get_fds: c-ares is given the chance to answer, also of its own     *)
(* timeouts, while there is outstanding work.                              *)
AresPolled == ares /\ work > 0

AresAnswers(q) ==
  /\ AresPolled /\ life = "running" /\ todo = {}
  /\ \E found \in {<<>>, <<<<q.host, q.port>>>>} : ch' = [ch EXCEPT ![q.c] = AresCallback(@, found)]
  /\ Becomes(q, {})
  /\ work' = AresWorkFinished(work)
  /\ wake' = TRUE
  /\ UNCHANGED <<ares, queued, todo, dnsDirty, token, writer, life, sets, opens, stops>>

(***************************************************************************)
(* The end of the worker and of the service.                               *)
(***************************************************************************)
WorkerExits ==
  /\ life = "running" /\ todo = {} /\ stops < MaxStops /\ stops' = stops + 1
  /\ life' = "idle"
  /\ IF ares THEN ch' = DestroyAres(ch) /\ queries' = {} /\ work' = 0 /\ wake' = TRUE
     ELSE UNCHANGED <<ch, queries, work, wake>>
  /\ UNCHANGED <<ares, queued, todo, dnsDirty, token, writer, sets, opens>>

Restart ==
  /\ life = "idle" /\ token
  /\ life' = "running"
  /\ UNCHANGED <<ares, ch, queued, todo, wake, dnsDirty, queries, work, token,
                 writer, sets, opens, stops>>

Readers == {q \in queries : q.qpc \in {"locked", "updating"}}

(* finalize: the exclusive lock is held until the channels are gone.       *)
Finalize ==
  /\ life = "idle" /\ token /\ Readers = {}
  /\ token' = FALSE /\ writer' = TRUE
  /\ UNCHANGED <<ares, ch, queued, todo, wake, dnsDirty, queries, work, life,
                 sets, opens, stops>>

DestroyChannels ==
  /\ life = "idle" /\ writer
  /\ life' = "gone" /\ writer' = FALSE /\ queued' = {}
  /\ UNCHANGED <<ares, ch, todo, wake, dnsDirty, queries, work, token, sets,
                 opens, stops>>

ResolverInit ==
  /\ ares \in BOOLEAN
  /\ \E h \in Hosts \ {NoName}, p \in Ports :
       ch = [c \in Channels |->
              [st |-> "CLOSED", err |-> "ok", host |-> h, port |-> p, hostDirty |-> TRUE,
               portDirty |-> TRUE, needs |-> FALSE, eps |-> <<>>, fresh |-> FALSE,
               open |-> FALSE, asked |-> <<h, p>>]]
  /\ queued = {} /\ todo = {} /\ wake = FALSE /\ dnsDirty = FALSE
  /\ queries = {} /\ work = 0 /\ token = TRUE /\ writer = FALSE /\ life = "running"
  /\ sets = 0 /\ opens = 0 /\ stops = 0

ResolverLoop == TurnBegins \/ \E c \in Channels : Visit(c) \/ VisitOther(c)

QuerySteps(q) == \/ QueryChecks(q) \/ QueryAnswers(q) \/ QueryLocks(q)
                 \/ QueryRechecks(q) \/ QueryUpdates(q) \/ AresAnswers(q)

AnyQuery == \E q \in queries : QuerySteps(q)

ResolverNext ==
  \/ ResolverLoop \/ AnyQuery \/ SetDnsDirty
  \/ WorkerExits \/ Restart \/ Finalize \/ DestroyChannels
  \/ \E c \in Channels : \/ OpenInternal(c) \/ CacheExpires(c) \/ ConnectEnds(c)
                         \/ \E h \in Hosts, p \in Ports : SetAddress(c, h, p)

(* The loop runs and every query is answered in the end, well or ill.      *)
ResolverSpec == ResolverInit /\ [][ResolverNext]_rvars
                /\ WF_rvars(ResolverLoop) /\ WF_rvars(AnyQuery)

-----------------------------------------------------------------------------
(* Types.                                                                  *)
ResolverTypeOK ==
  /\ ares \in BOOLEAN /\ wake \in BOOLEAN /\ dnsDirty \in BOOLEAN
  /\ ch \in [Channels -> Channel]
  /\ queued \subseteq Channels /\ todo \subseteq Channels
  /\ queries \subseteq Query /\ work \in 0..Cardinality(Channels)
  /\ token \in BOOLEAN /\ writer \in BOOLEAN /\ life \in {"running", "idle", "gone"}

(* No query thread writes to a channel that finalize has destroyed, or is  *)
(* destroying: the token is looked at again under the lock that finalize   *)
(* takes exclusively.                                                      *)
UpdateWhileAlive == \A q \in queries : q.qpc = "updating" => life # "gone" /\ ~writer

(* A channel in RESOLVING has a request to do so, an answer, or a query    *)
(* that will bring one.  It matters because open() refuses such a channel, *)
(* close() ignores it and no timer watches it.                             *)
ResolvingHasQuery ==
  \A c \in Channels :
    ch[c].st = "RESOLVING" /\ ch[c].err = "inprogress" /\ ch[c].eps = <<>> /\ token =>
      \E q \in queries : q.c = c

(* A connection goes to the host and the port the channel had when its     *)
(* address was last looked at, through changes of either, a stale cache    *)
(* and answers that come at any time.                                      *)
ConnectsToAsked ==
  \A c \in Channels :
    ch[c].st \in {"CONNECTING", "OPENED"} /\ ch[c].eps # <<>> => ch[c].eps[1] = ch[c].asked

(* A connection under way stays in channel_ops_: no late answer touches    *)
(* its error_.                                                             *)
ConnectingKept ==
  \A c \in Channels : ch[c].st = "CONNECTING" /\ life # "gone" => c \in queued /\ ch[c].err = "inprogress"

(* ares_outstanding_work_ counts the queries: at zero the loop stops       *)
(* asking c-ares for its descriptors.                                      *)
WorkExact == ares => work = Cardinality(queries)

(* RESOLVING ends, by an answer that wakes the loop, unless the worker     *)
(* stops.                                                                  *)
ResolvingEnds ==
  \A c \in Channels : []<>(ch[c].st # "RESOLVING" \/ life # "running")

(* A channel connects to the address it was last given, and one that waits *)
(* for an answer will get one: flags, cache and queries stay in step.      *)
ResolverSafe ==
  /\ ResolverTypeOK /\ ResolvingHasQuery /\ ConnectsToAsked
  /\ ConnectingKept /\ WorkExact
=============================================================================
