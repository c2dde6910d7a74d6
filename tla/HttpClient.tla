----------------------------- MODULE HttpClient -----------------------------
(***************************************************************************)
(* The request scheduler of extensions/yasio_http: requests are sent from  *)
(* the application's threads, take one of MAX_CHANNELS channels or wait in *)
(* _pendingResponseQueue, are carried out by handleNetworkEvent on the     *)
(* worker, follow redirects, and come back through a queue, a promise or a *)
(* callback on the worker.  A response is one reference-counted object.    *)
(***************************************************************************)
EXTENDS Integers, Sequences, FiniteSets, SequencesExt

CONSTANTS
  HttpChannels, \* channel indices
  Requests,     \* requests, each sent once
  MaxRedirect   \* MAX_REDIRECT_COUNT

NoRequest == "none"

ASSUME HttpAssumption ==
  /\ MaxRedirect \in Nat /\ NoRequest \notin Requests
  /\ IsFiniteSet(Requests) /\ IsFiniteSet(HttpChannels)

VARIABLES
  mode,      \* how each request answers: "sync", else by _dispatchOnWorkThread
  step,      \* where each request is in send()
  resp,      \* the responses
  pendingQ,  \* _pendingResponseQueue
  finishedQ, \* _finishedResponseQueue
  avail,     \* _availChannelQueue
  chan,      \* per channel: state, ud_, the response the read timer holds
  promised   \* sync requests whose promise is set

hvars == <<mode, step, resp, pendingQ, finishedQ, avail, chan, promised>>

Fresh == [refs |-> 0, valid |-> TRUE, redirects |-> 0, fin |-> FALSE, code |-> -1,
          answered |-> 0, dropped |-> FALSE]
Idle == [st |-> "closed", ud |-> NoRequest, timer |-> NoRequest]

Retain(rs, r) == [rs EXCEPT ![r].refs = @ + 1]
Release(rs, r) == [rs EXCEPT ![r].refs = @ - 1]

(* finishResponse: the promise, the callback at once, or the queue.        *)
LeaksWorker(rs, r) ==
  CASE mode[r] = "sync" -> [resp |-> rs, finishedQ |-> finishedQ, promised |-> promised \cup {r}]
    [] mode[r] = "worker" -> [resp |-> [rs EXCEPT ![r].answered = @ + 1],
                              finishedQ |-> finishedQ, promised |-> promised]
    [] mode[r] = "queue" -> [resp |-> rs, finishedQ |-> Append(finishedQ, r), promised |-> promised]

Finish(rs, r) ==
  CASE mode[r] = "sync" -> [resp |-> rs, finishedQ |-> finishedQ, promised |-> promised \cup {r}]
    [] mode[r] = "worker" -> [resp |-> Release([rs EXCEPT ![r].answered = @ + 1], r),
                              finishedQ |-> finishedQ, promised |-> promised]
    [] mode[r] = "queue" -> [resp |-> rs, finishedQ |-> Append(finishedQ, r), promised |-> promised]

Finishes(rs, r) ==
  LET f == Finish(rs, r) IN
  resp' = f.resp /\ finishedQ' = f.finishedQ /\ promised' = f.promised

(***************************************************************************)
(* send() and sendSync().                                                  *)
(***************************************************************************)
(* A new response; an URL that does not parse finishes it at once.         *)
Send(r) ==
  /\ step[r] = "new"
  /\ \/ /\ step' = [step EXCEPT ![r] = "take"]
        /\ resp' = [resp EXCEPT ![r].refs = 2]
        /\ UNCHANGED <<finishedQ, promised>>
     \/ /\ step' = [step EXCEPT ![r] = "sent"]
        /\ Finishes([resp EXCEPT ![r].refs = 1, ![r].valid = FALSE], r)
  /\ UNCHANGED <<mode, pendingQ, avail, chan>>

(* A channel is opened for the response.                                   *)
Started(c, r) == [chan EXCEPT ![c] = [@ EXCEPT !.st = "opening", !.ud = r]]

(* tryTakeAvailChannel and what follows when there is one.                 *)
SendTakes(r) ==
  /\ step[r] = "take" /\ avail # <<>>
  /\ avail' = Tail(avail)
  /\ chan' = Started(Head(avail), r)
  /\ step' = [step EXCEPT ![r] = "sent"]
  /\ resp' = Release(resp, r)
  /\ UNCHANGED <<mode, pendingQ, finishedQ, promised>>

(* None: the push comes later, and others run in between.                  *)
SendFindsNone(r) ==
  /\ step[r] = "take" /\ avail = <<>>
  /\ step' = [step EXCEPT ![r] = "push"]
  /\ UNCHANGED <<mode, resp, pendingQ, finishedQ, avail, chan, promised>>

SendPushes(r) ==
  /\ step[r] = "push"
  /\ pendingQ' = Append(pendingQ, r)
  /\ step' = [step EXCEPT ![r] = "sent"]
  /\ resp' = Release(resp, r)
  /\ UNCHANGED <<mode, finishedQ, avail, chan, promised>>

(***************************************************************************)
(* handleNetworkEvent, on the worker.                                      *)
(***************************************************************************)
(* handleNetworkEOF: follow a redirect on the same channel, or finish and  *)
(* give the channel to the next request that waits, or back.               *)
Redirected(t) == [t EXCEPT !.redirects = @ + 1, !.fin = FALSE, !.code = -1]

CanRedirect(t) == t.code = 302 /\ t.redirects < MaxRedirect

GivesBack(c, r) ==
  /\ Finishes(resp, r)
  /\ IF pendingQ # <<>>
     THEN /\ chan' = [chan EXCEPT ![c] = [Idle EXCEPT !.st = "opening", !.ud = Head(pendingQ)]]
          /\ pendingQ' = Tail(pendingQ) /\ UNCHANGED avail
     ELSE /\ chan' = [chan EXCEPT ![c] = Idle]
          /\ avail' = <<c>> \o avail /\ UNCHANGED pendingQ

(* No location, or one that does not parse, ends the request.              *)
Eof(c, r) ==
  \/ /\ CanRedirect(resp[r])
     /\ chan' = [chan EXCEPT ![c] = [Idle EXCEPT !.st = "opening", !.ud = r]]
     /\ resp' = [resp EXCEPT ![r] = Redirected(@)]
     /\ UNCHANGED <<finishedQ, promised, pendingQ, avail>>
  \/ GivesBack(c, r)

Opened(c) ==
  /\ chan[c].st = "opening"
  /\ chan' = [chan EXCEPT ![c].st = "open", ![c].timer = chan[c].ud]
  /\ UNCHANGED <<mode, step, resp, pendingQ, finishedQ, avail, promised>>

OpenFails(c) ==
  /\ chan[c].st = "opening"
  /\ Eof(c, chan[c].ud)
  /\ UNCHANGED <<mode, step>>

(* A packet that ends the message closes the channel; one that the parser  *)
(* refuses does too, with the code still -1, like any that redirects not.  *)
PacketEnds(c) ==
  /\ chan[c].st = "open" /\ ~resp[chan[c].ud].fin
  /\ \E code \in {200, 302} :
       resp' = [resp EXCEPT ![chan[c].ud].fin = TRUE, ![chan[c].ud].code = code]
  /\ chan' = [chan EXCEPT ![c].st = "closing"]
  /\ UNCHANGED <<mode, step, pendingQ, finishedQ, avail, promised>>

ReadTimeout(c) ==
  /\ chan[c].st = "open" /\ chan[c].timer # NoRequest
  /\ chan' = [chan EXCEPT ![c].st = "closing", ![c].timer = NoRequest]
  /\ UNCHANGED <<mode, step, resp, pendingQ, finishedQ, avail, promised>>

(* ON_CLOSE: asked for, or by the peer.                                    *)
OnClose(c) ==
  /\ chan[c].st \in {"open", "closing"}
  /\ Eof(c, chan[c].ud)
  /\ UNCHANGED <<mode, step>>

(***************************************************************************)
(* The application takes its answers, or clears the queues.                *)
(***************************************************************************)
Dispatch ==
  /\ finishedQ # <<>>
  /\ finishedQ' = Tail(finishedQ)
  /\ resp' = Release([resp EXCEPT ![Head(finishedQ)].answered = @ + 1], Head(finishedQ))
  /\ UNCHANGED <<mode, step, pendingQ, avail, chan, promised>>

(* sendSync returns; its caller releases the response.                     *)
SyncReturns(r) ==
  /\ r \in promised /\ step[r] = "sent" /\ resp[r].answered = 0
  /\ resp' = Release([resp EXCEPT ![r].answered = @ + 1], r)
  /\ UNCHANGED <<mode, step, pendingQ, finishedQ, avail, chan, promised>>

Dropped(rs, q) ==
  [r \in Requests |-> IF r \in ToSet(q) THEN [rs[r] EXCEPT !.refs = @ - 1, !.dropped = TRUE] ELSE rs[r]]

ClearPending ==
  /\ pendingQ # <<>> /\ pendingQ' = <<>>
  /\ resp' = Dropped(resp, pendingQ)
  /\ UNCHANGED <<mode, step, finishedQ, avail, chan, promised>>

ClearFinished ==
  /\ finishedQ # <<>> /\ finishedQ' = <<>>
  /\ resp' = Dropped(resp, finishedQ)
  /\ UNCHANGED <<mode, step, pendingQ, avail, chan, promised>>

HttpInit ==
  /\ \E plain \in {"queue", "worker"} : mode \in [Requests -> {plain, "sync"}]
  /\ step = [r \in Requests |-> "new"]
  /\ resp = [r \in Requests |-> Fresh]
  /\ pendingQ = <<>> /\ finishedQ = <<>> /\ promised = {}
  /\ avail = SetToSeq(HttpChannels)
  /\ chan = [c \in HttpChannels |-> Idle]

Sending(r) == SendTakes(r) \/ SendFindsNone(r) \/ SendPushes(r)
Carrying(c) == Opened(c) \/ OpenFails(c) \/ PacketEnds(c) \/ ReadTimeout(c) \/ OnClose(c)
Taking == Dispatch \/ \E r \in Requests : SyncReturns(r)

HttpNext ==
  \/ \E r \in Requests : Send(r) \/ Sending(r) \/ SyncReturns(r)
  \/ \E c \in HttpChannels : Carrying(c)
  \/ Dispatch \/ ClearPending \/ ClearFinished

(* send() runs to its end, the application dispatches, and every attempt   *)
(* ends: connecting has a timeout, reading has one, closing is the         *)
(* service's promise.                                                      *)
HttpSpec ==
  /\ HttpInit /\ [][HttpNext]_hvars
  /\ \A r \in Requests : WF_hvars(Sending(r))
  /\ \A c \in HttpChannels : WF_hvars(Carrying(c))
  /\ WF_hvars(Taking)

-----------------------------------------------------------------------------
HttpTypeOK ==
  /\ step \in [Requests -> {"new", "take", "push", "sent"}]
  /\ \A r \in Requests : /\ resp[r].refs \in 0..2 /\ resp[r].redirects \in 0..MaxRedirect
                         /\ resp[r].answered \in Nat
  /\ ToSet(pendingQ) \subseteq Requests /\ ToSet(finishedQ) \subseteq Requests
  /\ ToSet(avail) \subseteq HttpChannels
  /\ \A c \in HttpChannels : chan[c].ud \in Requests \cup {NoRequest}

(* Every reference has a holder and every holder a reference: a response   *)
(* is neither freed under a channel, a queue or a caller nor leaked.       *)
Holders(r) ==
  Cardinality({c \in HttpChannels : chan[c].ud = r})
  + Cardinality({i \in DOMAIN pendingQ : pendingQ[i] = r})
  + Cardinality({i \in DOMAIN finishedQ : finishedQ[i] = r})
  + (IF step[r] \in {"take", "push"} THEN 2 ELSE 0)
  + (IF r \in promised /\ resp[r].answered = 0 THEN 1 ELSE 0)

RefsExact == \A r \in Requests : resp[r].refs = Holders(r)

(* A channel is free or works for one response, never both and never none: *)
(* none is lost however its request ends.                                  *)
ChannelsKept ==
  \A c \in HttpChannels :
    /\ (c \in ToSet(avail)) = (chan[c].st = "closed")
    /\ (chan[c].st = "closed") = (chan[c].ud = NoRequest)
    /\ Cardinality({i \in DOMAIN avail : avail[i] = c}) <= 1

(* The callback runs at most once, and never for a request that was        *)
(* cleared.                                                                *)
AnsweredOnce ==
  \A r \in Requests : resp[r].answered + (IF resp[r].dropped THEN 1 ELSE 0) <= 1

(* The read timer holds a raw pointer: only to the response its channel    *)
(* works for.                                                              *)
TimerOwned ==
  \A c \in HttpChannels : chan[c].timer # NoRequest =>
    chan[c].timer = chan[c].ud /\ resp[chan[c].ud].refs > 0

(* A request that has a channel is answered, through redirects that lead   *)
(* nowhere, timeouts and failures.                                         *)
CarriedEnds ==
  \A r \in Requests : (\E c \in HttpChannels : chan[c].ud = r) ~>
                        (resp[r].answered = 1 \/ resp[r].dropped)

(* sendSync blocks "until request finished", and send ends in a callback:  *)
(* every request that is not cleared is answered.                          *)
EveryAnswered ==
  \A r \in Requests : step[r] = "sent" ~> (resp[r].answered = 1 \/ resp[r].dropped)

(* No response is leaked or used after its release, no channel is lost,    *)
(* nobody is answered twice, and no timer outlives its request.            *)
HttpSafe == HttpTypeOK /\ RefsExact /\ ChannelsKept /\ AnsweredOnce /\ TimerOwned
=============================================================================
