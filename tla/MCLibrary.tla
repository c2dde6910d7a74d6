---- MODULE MCLibrary ----
(***************************************************************************)
(* The parts beside the loop, for TLC: the http extension with its cookies *)
(* and urls, the reader-writer lock, the memory utilities, the streams and *)
(* text conversions, the options as scripts set them, and the owners of    *)
(* descriptors.  They share no state; a behaviour is one of them at work,  *)
(* the others stand still.                                                 *)
(***************************************************************************)
EXTENDS HttpClient, SharedMutex, ObjectPool, Ownership, PodVector, ByteStream,
        BasicString, HttpCookie, Uri, InetText, Endpoint, XxSocket,
        HostConnect, Interrupter, Options

VARIABLE focus

MCBlobs == {<<>>, <<3, 15>>}
MCInts == {-1, 8, -128}
MCOptInts == {-1, 41}
MCHosts == {<<1>>, <<2, 1>>}
MCPaths == {<<1>>, <<1, 2>>}
MCDefaultPort == [http |-> 3, https |-> 4, ftp |-> 2]
MCPeers == [af : {4}, addr : {8, 9}, port : {2, 3}, scope : {0}] \cup
           [af : {6}, addr : {8, 9}, port : {2}, scope : {0, 1}]

all == <<focus, hvars, lockvars, poolvars, ownvars, podvars, bytevars,
         viewvars, strvars, jarvars, urivars, inetvars, epvars, sockvars, hcvars, intrvars, optvars>>

MCInit ==
  /\ focus \in {"http", "lock", "pool", "own", "vector", "stream",
                "view", "string", "cookie", "uri", "inet", "endpoint", "socket", "connect",
                "interrupter", "options"}
  /\ focus # "http" => mode = [r \in Requests |-> "sync"]
  /\ focus # "stream" => order = "network" /\ fixed = TRUE
  /\ HttpInit /\ LockInit /\ PoolInit /\ OwnInit /\ PodInit /\ StreamInit
  /\ ViewInit /\ StrInit /\ JarInit /\ UriInit /\ InetInit /\ EpInit /\ SockInit /\ HcInit
  /\ OptInit /\ IntrInit /\ (focus # "interrupter" => it.kind = "pipe")

ButHttp == UNCHANGED <<focus, lockvars, poolvars, ownvars, podvars, bytevars, viewvars,
      strvars, jarvars, urivars, inetvars, epvars, sockvars, hcvars, intrvars, optvars>>
ButLock == UNCHANGED <<focus, hvars, poolvars, ownvars, podvars, bytevars, viewvars,
      strvars, jarvars, urivars, inetvars, epvars, sockvars, hcvars, intrvars, optvars>>
ButPool == UNCHANGED <<focus, hvars, lockvars, ownvars, podvars, bytevars, viewvars,
      strvars, jarvars, urivars, inetvars, epvars, sockvars, hcvars, intrvars, optvars>>
ButOwn == UNCHANGED <<focus, hvars, lockvars, poolvars, podvars, bytevars, viewvars,
      strvars, jarvars, urivars, inetvars, epvars, sockvars, hcvars, intrvars, optvars>>
ButVector == UNCHANGED <<focus, hvars, lockvars, poolvars, ownvars, bytevars, viewvars,
      strvars, jarvars, urivars, inetvars, epvars, sockvars, hcvars, intrvars, optvars>>
ButStream == UNCHANGED <<focus, hvars, lockvars, poolvars, ownvars, podvars, viewvars,
      strvars, jarvars, urivars, inetvars, epvars, sockvars, hcvars, intrvars, optvars>>
ButView == UNCHANGED <<focus, hvars, lockvars, poolvars, ownvars, podvars, bytevars,
      strvars, jarvars, urivars, inetvars, epvars, sockvars, hcvars, intrvars, optvars>>
ButString == UNCHANGED <<focus, hvars, lockvars, poolvars, ownvars, podvars, bytevars,
      viewvars, jarvars, urivars, inetvars, epvars, sockvars, hcvars, intrvars, optvars>>
ButCookie == UNCHANGED <<focus, hvars, lockvars, poolvars, ownvars, podvars, bytevars,
      viewvars, strvars, urivars, inetvars, epvars, sockvars, hcvars, intrvars, optvars>>
ButUri == UNCHANGED <<focus, hvars, lockvars, poolvars, ownvars, podvars, bytevars,
      viewvars, strvars, jarvars, inetvars, epvars, sockvars, hcvars, intrvars, optvars>>
ButInet == UNCHANGED <<focus, hvars, lockvars, poolvars, ownvars, podvars, bytevars,
      viewvars, strvars, jarvars, urivars, epvars, sockvars, hcvars, intrvars, optvars>>
ButEndpoint == UNCHANGED <<focus, hvars, lockvars, poolvars, ownvars, podvars, bytevars,
      viewvars, strvars, jarvars, urivars, inetvars, sockvars, hcvars, intrvars, optvars>>
ButSocket == UNCHANGED <<focus, hvars, lockvars, poolvars, ownvars, podvars, bytevars,
      viewvars, strvars, jarvars, urivars, inetvars, epvars, hcvars, intrvars, optvars>>
ButConnect == UNCHANGED <<focus, hvars, lockvars, poolvars, ownvars, podvars, bytevars,
      viewvars, strvars, jarvars, urivars, inetvars, epvars, sockvars, intrvars, optvars>>
ButInterrupter == UNCHANGED <<focus, hvars, lockvars, poolvars, ownvars, podvars, bytevars,
      viewvars, strvars, jarvars, urivars, inetvars, epvars, sockvars, hcvars, optvars>>
ButOptions == UNCHANGED <<focus, hvars, lockvars, poolvars, ownvars, podvars, bytevars,
      viewvars, strvars, jarvars, urivars, inetvars, epvars, sockvars, hcvars, intrvars>>

MCNext ==
  \/ focus = "http" /\ HttpNext /\ ButHttp
  \/ focus = "lock" /\ LockNext /\ ButLock
  \/ focus = "pool" /\ PoolNext /\ ButPool
  \/ focus = "own" /\ OwnNext /\ ButOwn
  \/ focus = "vector" /\ PodNext /\ ButVector
  \/ focus = "stream" /\ StreamNext /\ ButStream
  \/ focus = "view" /\ ViewNext /\ ButView
  \/ focus = "string" /\ StrNext /\ ButString
  \/ focus = "cookie" /\ JarNext /\ ButCookie
  \/ focus = "uri" /\ UriNext /\ ButUri
  \/ focus = "inet" /\ InetNext /\ ButInet
  \/ focus = "endpoint" /\ EpNext /\ ButEndpoint
  \/ focus = "socket" /\ SockNext /\ ButSocket
  \/ focus = "connect" /\ HcNext /\ ButConnect
  \/ focus = "interrupter" /\ IntrNext /\ ButInterrupter
  \/ focus = "options" /\ OptNext /\ ButOptions

(* The fairness of HttpClient and of SharedMutex; the others promise       *)
(* nothing.                                                                *)
MCSpec ==
  /\ MCInit /\ [][MCNext]_all
  /\ \A r \in Requests : WF_all(focus = "http" /\ Sending(r) /\ ButHttp)
  /\ \A c \in HttpChannels : WF_all(focus = "http" /\ Carrying(c) /\ ButHttp)
  /\ WF_all(focus = "http" /\ Taking /\ ButHttp)
  /\ \A t \in Lockers : WF_all(focus = "lock" /\ (Woken(t) \/ Leaves(t)) /\ ButLock)

(* The memory utilities: free lists, reference counts, the one instance of *)
(* a singleton and the content of a vector survive any sequence of calls.  *)
MemorySafe ==
  /\ PoolTypeOK /\ FreeListExact
  /\ OwnTypeOK /\ NoDangling /\ OneInstance /\ SameInstance
  /\ PodTypeOK /\ ContentKept

(* What is written to a stream, kept in a string or searched in a view is  *)
(* what is read and found; of the text of an address, what is parsed is    *)
(* what was written, and what is printed parses to the same.               *)
DataExact ==
  /\ StreamExact /\ ViewExact /\ StringKept
  /\ Parses6 /\ PrintReads6 /\ Parses4

(* Addresses and urls: endpoints of a family are ordered, what to_string   *)
(* prints reads back, a connector gives up on a host only after every      *)
(* address it could use, and a url keeps its parts.                        *)
AddressExact ==
  /\ EndpointReads /\ OrderStrict /\ ConnectExhausts
  /\ ParsedExact /\ PrintParses

(* Descriptors: every one has one owner, and the two ends of an            *)
(* interrupter are open as long as it is.                                  *)
DescriptorsSafe == SocketSafe /\ []InterrupterKept

(* A request that has a channel is finished, and a writer gets the lock.   *)
LibraryLive == CarriedEnds /\ WriterGets
====
