# yasio: a TLA+ model of the library

yasio is a C++ asynchronous socket library. One *worker* thread runs an event
loop over channels, transports, timers and an event queue; the application calls
`open`, `close`, `write`, `schedule`, `set_option`, `stop` from its own threads or
from the loop's callbacks. Most of what can go wrong lies between those threads,
because only part of the shared state is guarded by locks. Around the loop stand
the parts it is built from (sockets, pollers, buffers, streams, a reader-writer
lock) and an HTTP client built on it. The modules here model both.

## The system

| Part | State | Operations | Talks to |
|---|---|---|---|
| Service lifecycle | `state_`, `stop_flag_`, `worker_`, `worker_id_` | `start`, `stop`, destructor, `handle_stop`, `run` | joins the worker; closes channels; clears transports and timers |
| Client channel | `state_`, `opmask_`, `error_`, `socket_`, membership of `channel_ops_` | `open`, `close`, `do_resolve`, `do_connect`, `do_connect_completion`, `cleanup_io` | connect timer, transports, event queue |
| Name resolution | dirty flags, cached endpoints, queries, `life_token_`, `ares_outstanding_work_` | `do_resolve`, `start_query`, `ares_getaddrinfo_cb`, `finalize` | detached threads or c-ares; wakes the loop |
| Server channel | listener socket, accepted transports, `transport_map_` | `do_accept`, `do_accept_completion`, `do_dgram_accept`, `handle_close` | pool of transports, event queue, poller |
| Transports | `transports_`, `tpool_`, each with `opmask_`, `send_queue_`, receive buffer; TLS session, KCP control block, UDP association | `write`, `do_read`, `do_write`, `handle_close`, `connect`/`disconnect` (UDP) | shares the channel's socket; fires events |
| Timers | `timer_queue_`, `expire_time_`, cached `current_time_` | `expires_from_now`, `async_wait`, `cancel`, `process_timers`, `get_timeout` | bounds the poll; callbacks call anything |
| Event queue | `queue_`, `deal_` | `fire_event`, `dispatch`, `clear` | network thread to dispatching thread |
| Poller, interrupter | registered events, `revents_`, `nrevents_`, two descriptors | `mod_event`, `poll_io`, `is_ready`, `wakeup`, `reset`, `recreate` | every other part |
| Options | channel and service settings | `set_option`, five script front-ends | read by all of the above |
| `xxsocket` | a descriptor | open, close, accept, move, timed connect, send, receive | kernel |
| HTTP client | pending, finished and free-channel queues, responses, cookies | `send`, `sendSync`, `handleNetworkEvent`, `dispatch` | an `io_service` of its own |
| Utilities | pools, counts, buffers, locks | | all of the above |

One turn of the loop (`io_service::run`) is: cache the time; compute the wait;
poll unless the wait is zero; `process_transports`; `process_channels`;
`process_timers`; `process_deferred_events`.

What is hard about it:

* `opmask_` is a plain byte that both threads read, modify and write;
* the channel and its transport share one socket object;
* `revents_` outlives a skipped poll, and descriptors are reused;
* the loop decides how long to sleep from state that other threads change, and
  some input (TLS records, KCP messages) is where the poll cannot see it;
* `stop_flag_` and `state_` are tested and set one after the other;
* callbacks run in the middle of a loop over the container they may change;
* query threads outlive the host they were asked about, and perhaps the service.

`PROJECT.json` lists the hazards at their lines, with the properties that would
catch each.

## Modules

| Module | Models | Run in |
|---|---|---|
| `EventFifo`, `EventQueue` | the abstract FIFO; `concurrent_queue<T, true>`, `dispatch`, `clear`; `EventQueueProofs` | `MCEventQueue` |
| `ClientChannel` | a TCP client channel, its transports and its connect timer; `ClientChannelProofs` | `MCClientChannel` |
| `SendQueue` | the sending half of a transport; `SendQueueProofs` | `MCSendQueue` |
| `ServiceLifecycle` | start, stop, restart, destruction, dying workers, with one coarse channel that handlers reopen as often as they like; `ServiceLifecycleProofs` | `MCServiceLifecycle` |
| `Unpacker` | the receiving half: length-field framing, the end of the stream; `LoopIoProofs` | `MCLoopIo` |
| `TimerQueue` | `highp_timer`, the timer queue and the poll it bounds | `MCLoopIo` |
| `SslStream`, `Kcp` | sessions on top of a socket | `MCLoopIo` |
| `IoWatcher` | poll, select, epoll and kqueue with an interrupter | `MCLoopIo` |
| `LoopIoProofs` | the theorems about `Unpacker`, `TimerQueue`, `SslStream`, `Kcp` and `IoWatcher` | - |
| `ServerChannel` | listeners, accepted transports, datagram routing, and clients' transports beside them | `MCChannels` |
| `Resolver` | name queries and the life of the service | `MCChannels` |
| `UdpTransport` | a UDP client that is connected, disconnected, put into groups | `MCChannels` |
| `ChannelsProofs` | the theorems about `ServerChannel`, `Resolver` and `UdpTransport` | - |
| `HttpClient`, `HttpCookie`, `Uri` | the HTTP extension; `LibraryProofs`, for `Uri` `UtilityProofs` | `MCLibrary` |
| `RwLock`, `SharedMutex` | the abstract reader-writer lock; `shared_mutex`; `UtilityProofs` | `MCLibrary` |
| `ObjectPool`, `Ownership`, `PodVector`, `BasicString` | memory; `UtilityProofs` for the first three | `MCLibrary` |
| `ByteStream`, `StringView` | streams and views | `MCLibrary` |
| `InetText`, `Endpoint`, `HostConnect` | addresses and connectors; `UtilityProofs` for the last two | `MCLibrary`, `MCEndpoint` |
| `XxSocket`, `Interrupter` | owners of descriptors; `LibraryProofs` | `MCLibrary` |
| `Options` | `set_option` and the front-ends; `LibraryProofs` | `MCLibrary` |

`MCLoopIo`, `MCChannels` and `MCLibrary` put several components that share no
state side by side: `focus` chooses one at the start, the others stand still, so
the state spaces add up and do not multiply. The runs
`kcp_report` and `http_lost_request` take `Kcp` and `HttpClient` as they are. There is no symmetry reduction, since
every passing run checks liveness too. Operators that stand directly in front of a
definition without a comment of their own and differ from it in one place
(`NoWakeup`, `EraseAlways`, `QueryTrusts`, ...) are wrong variants of it. They belong
to no specification; they exist to show that a property fails when the code is
changed that way.

### The loop's own state

**EventQueue.** `queue`/`deal` are `queue_`/`deal_`. A step is a critical section
or an unlocked test. `drains` is the stack of `consume` calls in progress, each
with what is left of its count: a handler may call `dispatch` again
(`Dispatch` is enabled at `pc = "handler"`). `ClearQueue`/`ClearDeal` are the two
halves of `clear()`, which `handle_stop` calls only after joining a worker that
was terminated from outside. `fired` and `delivered` are history.

**ClientChannel.** `OnIoThread = TRUE` makes the calls from handlers, which run
inside the loop's dispatch; `FALSE` makes them from another thread at any moment.
Every statement of `open`, `close(index)`, `process_channels`, `handle_close` and
`cleanup_io` that touches shared state is a step, and the loop's
read-modify-write of `opmask_` is two (`TakeOpenRead`/`TakeOpenWrite`,
`HandleCloseMaskRead`/`HandleCloseMaskWrite`). `OpsLocked` is
`channel_ops_mtx_`. `net` is the kernel's view of the one socket that channel and
transport share, `ready` its entry in `revents_`; `Poll` leaves `ready` alone when
the poll is skipped. `handle` and `tmask` model transports placed in pooled
memory, so that a handle can designate the block's next tenant. `pending` and
`answers` only observe.

**SendQueue.** `WriteAccepted`, `WriteEmplace`, `WriteWakeup` are `write` on the
application's thread; `Peek` to `Settle` are `do_write`, which holds the queue's
recursive mutex while an operation is peeked. `room` is the kernel's buffer.

**ServiceLifecycle.** The owner's `start`, `stop` and destructor go statement by
statement; the worker goes through the phases of the loop. The channel is coarse
(one step per phase), enough to see what a stop leaves behind.

**Unpacker.** A byte is a pair (frame, position), so any byte lost, repeated or
misplaced is visible. A frame has its header on the wire and announces any length:
0, a negative one, one below the strip or the header, one beyond the limit.
`Received` is `recv` with any legal count, including none when the descriptor is not
ready; `ReadFails` is `call_read`'s end of stream or error, which is also what a
`recv` into a full buffer looks like; `DoRead`, `DecodeAndCut`, `Unpack`, `Decode`
follow `do_read`, `unpack` and `__builtin_decode_len`. Bytes cut behind a short frame
begin no frame, and are decoded as anything.

**TimerQueue.** `expires_from_now` is unlocked and `async_wait` is locked, so on
the application's thread they are two steps. `std::sort` leaves timers of equal
expiry in any order (`Sorts`); an erase takes out the first entry of a timer
(`FirstOf`, `Erase`). `cur` is `current_time_`, cached once per turn: a
timer can be due without the loop, or `cancel`, knowing.

**SslStream.** A record is decrypted as a whole; what does not fit into `buffer_`
is `held` in the library, where the poll does not see it; `whole` counts the bytes
of complete packets handed on. When the session ends, what `off` and `part` count
is lost. The handshake runs inside
`do_read`. What the backend returns is chosen by the environment within the
return codes the callbacks translate.

**Kcp.** `told` is what `do_read` returned, `given` what `ikcp_recv` wrote. The
clock has `KcpSpan` values, starts at any of them and wraps; `asked` says that
`expire_time_` was set to 0 and no update has come since. ikcp is external.

**IoWatcher.** One state for four backends: the table given to the kernel, what
the last poll reported, what `is_ready` makes of it after a skipped or a failed
poll, and the bytes in the interrupter, read `Chunk` at a time.

**ServerChannel.** The worker alternates `process_transports` and
`process_channels`; the application opens and closes from its own thread at any
point, also between the worker's read of `opmask_` and the cleanup that clears it.
`kind` is the low byte of `properties_`, which `open` writes and `handle_close`
tests for transports that may be older; `Stop` marks every channel. Datagrams reach
the listener or the socket connected to their sender. A transport has the endpoint
it was made for (`peer`) and, when `connect_n` has failed, the one `recvfrom` wrote
last (`remote`): `Unregister` erases the entry of `RemoteEndpoint`, for a UDP client
too, although only servers make entries.

**Resolver.** A query thread is a record with a place in `start_query`: it checks
the token, asks, takes the lock shared, checks again, updates, wakes the loop.
`Finalize` takes the lock exclusively. With `ares` the queries run on the loop and
`work` is `ares_outstanding_work_`.

**UdpTransport.** `connect` and `disconnect` change the kernel's association,
`connected_` and the two callbacks one after the other; the worker may send,
receive and reopen between any two.

### The library

**HttpClient.** Two threads send, by callback on the worker, by queue or by
`sendSync`; a request takes a channel or waits, is redirected, times out, and is
answered. Responses are counted references. **HttpCookie** is the jar, and what
`Reloaded` gives of its file: nothing; **Uri** is `doParse` after its regular expressions have cut the text.

**SharedMutex.** Every critical section of `mut_` is a step, `Woken` a thread
that tests its gate again after a notification or spuriously. It is shown to
implement **RwLock** (many readers or one writer) with the holders as mapping.

**ObjectPool**, **Ownership**, **PodVector**, **BasicString** keep a reference
beside the code's representation: the set of objects in use, the true reference
counts, the sequence `std::vector` or `std::string` would hold. `MemorySafe` is about
the first three; what strings hold is part of `DataExact`. **ByteStream** and
**StringView** compare what is read or found with what was written or with a
definition by quantifiers; widths (bits of a group, bytes of an int, size of
`size_t`) are constants.

**InetText**, **Endpoint**, **HostConnect** print and parse addresses as tokens,
order them, and try them in turn: `AddressExact` is about the order, the tries and
urls; the texts are part of `DataExact`. A walk over a list (`OfFamily`, `GetIpsv`,
the erasing walk of the jar, `CleanupLinks`, the relays of a front-end) is a
recursive function of the position, so that a proof can go along it.

**XxSocket** gives each descriptor a generation, so that a close of a number that
was reused shows. **Interrupter** lets every system call of `open_descriptors`
fail. **Options** makes the argument list of each front-end explicit; an argument
that was not passed reads as anything.

## Runs

| Run | Shows | Result |
|---|---|---|
| `event_queue` | FIFO refinement, nothing lost, order kept, with nested dispatch; every event is delivered if `dispatch` keeps being called | holds |
| `client_handlers` | calls from handlers: one transport, the timer runs exactly while connecting, one answer, open means connected, an open is answered | holds |
| `client_thread` | calls from another thread: one ON_CLOSE each, no attempt and no request forgotten, no channel stays in CONNECTING | holds |
| `send_queue` | order, exact bytes, no sleep on unsent data, no busy poll, everything is flushed; stream and datagram transports | holds |
| `lifecycle` | idle is quiet, a joined stop makes idle, stop returns once handlers stop reopening the channel | holds |
| `loop_io` | `UnpackSafe`, `TimersSafe`, `SessionSafe`, `WatcherSafe`, and `LoopLive`: what has come is delivered unless the connection ends first, timers fire, wakeups are heard | holds |
| `channels` | `ChannelsSafe` (servers beside clients, UDP), `ResolverSafe`, `UpdateWhileAlive`, and `ChannelsLive`: transports close, connections are accepted, workers leave, resolutions end | holds |
| `library` | the ten properties of the parts beside the loop | holds |
| `client_lost_open` | an open from another thread is answered | **violated** |
| `kcp_report` | `do_read` reports what KCP gave | **violated** |
| `http_lost_request` | every request is answered | **violated** |
| `udp_peers` | a datagram reaches its sender's transport | **violated** |

The violated runs are disagreements between the code and its documentation or
comments; `PROJECT.json` quotes both sides under `findings`:

* **An accepted `open()` can vanish.** `cleanup_io` publishes `CLOSED` before it
  zeroes `opmask_`, and `handle_close` updates it by a read and a write. An `open()`
  from another thread in between returns `true` and is never answered.
* **KCP's `do_read` can report bytes it did not read**: the datagram's size, when
  no message is complete.
* **An HTTP request can be left in the pending queue**: looking for a channel and
  queueing are two critical sections, and the worker may give back the channel
  in between.
* **Two UDP peers can be one**: IPv4 endpoints are ordered by the sum of address
  and port.

### What the passing runs exclude

Some behaviours of the code break a property and are kept out of a passing run by
a constant, or are named in the property itself. A reader who changes the constant
sees the counterexample.

* `FdReuse` (`client_handlers`): a new socket with the number of the old one, and a
  skipped poll, is reported connected before its handshake. `client_thread` has it
  on; its properties hold regardless.
* `OnIoThread = FALSE` (`client_thread`): with calls from another thread a channel
  can have two transports, a timer without an attempt, and two answers to one
  `open()`; these properties belong to `client_handlers`.
* `ForeignReuse` (`loop_io`): another thread that postpones the earliest waiting
  timer can make the loop oversleep the next one.
* A packet as long as `buffer_` (`loop_io`): the read that completes it leaves the
  rest of the record inside the TLS library, and the loop may sleep on it.
* `Strip > HeaderEnd` (`loop_io`): more bytes stripped than the length field
  reaches, and a frame cut in between, make `unpack` insert a reversed range.
* A frame that announces a length which is not a frame's is not excluded, but
  nothing is promised of the stream behind it (`Bad`). An announced 0 is taken for an
  incomplete header: the loop waits until `buffer_` is full and then takes a `recv`
  of 0 bytes for the end of the stream. A length below the header but not below the
  strip is fired as that many bytes, and the next packet begins inside the header.
* A transport that is closed loses what `buffer_` and `expected_packet_` hold,
  complete frames among it: `unpack` cuts one a turn, and the `do_read` that meets
  the fin breaks off before the rest. `UnpackSafe` and `SessionSafe` account for
  these bytes (`NothingLost`, `TlsBytesExact`, `EndIsLast`); they do not say that the
  application is given them, and `AllDelivered` and `TlsDrained` except a connection
  that has ended.
* `stop()` may return in AT_EXITING, when the worker leaves between `do_stop`'s
  assignment and its test. `JoinMakesIdle` speaks of stops that reach `handle_stop`;
  a second `stop()` does.
* A handler that opens a channel again on every ON_CLOSE, with a connection that
  succeeds at once, keeps a stopping worker running for ever, and a `stop()` waiting
  for it: `open_internal` and `process_channels` do not test `stop_flag_`. `StopEnds`
  and `WorkerLeaves` are about behaviours in which the opening ends. Nothing bounds
  the opens in `lifecycle`: there TLC finds the loop when the premise is dropped (in
  `channels` the calls are bounded).
* After a restart, a channel that was connecting has lost its timer.
* `Rehost` (`channels`): with the host changed while a query for the old one is
  under way, the channel connects to the old one's address.
* `Rekind` (`channels`): `open(index, kind)` changes `properties_` while transports
  of the channel's former kind live, and `handle_close` goes by the new one: entries
  stay in `transport_map_` and lead to freed transports, and `nsched_` is wrong
  (`MapAlive`, `MapWhole`, `SchedExact`).
* `Loose` (`channels`): a datagram transport whose `connect_n` failed, or a multicast
  client's, is not connected. `recvfrom` then overwrites its `peer_`, so that
  `handle_close` erases the entry of another endpoint and leaves its own, which leads
  to a freed transport (`MapAlive`, `RoutedHome`).
* `transport_map_` is keyed by the remote endpoint alone. An endpoint that talks to a
  datagram server and to another datagram channel (`Shared`; `p2` in the run) is
  routed to whichever transport came first, and a UDP client's close erases a
  server's entry. `MapAlive` holds for these too; `MapWhole` and `OnePerPeer` except
  them, `RoutedHome` excepts the channel.
* The KCP clock (`loop_io`): in the upper half of its range `expire_time_ = 0` is
  still to come, and an update that was asked for waits for the wrap. `UpdatedInTurn`
  and `KcpFlushed` say so.
* `FrontendsAgree` names the two calls that do not agree: the KCP options exported
  by the sol binding, and DNS_LIST of the C interface.
* `McastKept` excepts the option that falls between the worker's test and its
  joining of the group.
* `InterrupterKept` excepts a stranger that connects to the socket interrupter's
  listener first.
* `BasicString` stops when a string as long as its capacity gets its terminator
  one cell behind the storage.
* `TimerQueue` excludes a callback that calls `async_wait` on its own timer and
  then returns false, which queues the timer twice.
* A port of 65536 in a url becomes 0, and so the scheme's default.
* A restart of the HTTP client loses the cookies it has written: `fsutils.hpp:42`
  passes a direction where `seekg` takes a position, and two bytes of the file are
  read (`Reloaded`). `CookiesExact` starts again from an empty jar.

### Bounds

Every bound is a constant with a comment. *EventQueue*: three events, counts up to
2, two nested drains, so that a drain is interrupted with `deal_` half empty and
`queue_` refilled. *ClientChannel*: four calls and connections from handlers,
three from a thread, enough for open, close, reopen and close of a reused block.
*SendQueue*: three operations of two bytes with room for three, so that sends are
partial, exact and blocked. *ServiceLifecycle*: two starts, and any number of
opens.
*Unpacker*: three frames of announced length 0, 1, 2, 4 or 5 with a header of
3, a strip of 2, a limit of 4 and a buffer of 8: waited on for ever, below the strip,
below the header, sound, too long; cut anywhere, ended or reset anywhere, two sound
frames in the buffer at the end. *TimerQueue*:
two timers, two durations, three calls. *SslStream*: records smaller than, as
large as, and together larger than the buffer. *Kcp*: a clock of 8
values that starts anywhere and moves by up to 2 a turn.
*IoWatcher*: two descriptors and two wakeups, so that a wakeup meets one that is
being reset. *ServerChannel*: two channels (two datagram
servers, a KCP server and a UDP client, a TLS server and a TLS client), two peers of
which one talks to both, two arrivals, two connections, three calls: open, close and
reopen around an accept. *Resolver*: two
channels, one name and a literal, two ports, two opens and a restart.
*HttpClient*: two requests for one channel, one redirect, so that one waits for
the other. *SharedMutex*: three threads. The data modules take sequences up to
length 3 to 6 over two or three values, and word sizes small enough for every
carry and wrap to occur.

`CHECK_DEADLOCK FALSE` stands only where everything may come to rest: a closed
transport, a delivered stream, a destroyed service, a finished sequence of calls.

### Fairness

The worker's thread runs (`WF` on the loop), a call that has begun returns (`WF`
on its steps) and time passes. Nobody owes a call, except that
`event_queue` assumes an application that keeps calling `dispatch`, as the
documentation asks of it. The network owes nothing in `ClientChannel` and
`ServiceLifecycle`: only the connect timer ends an attempt. `StopEnds` and
`WorkerLeaves` have a premise of their own, that handlers or callers stop opening
channels, since the code does not make them. `SendQueue` assumes a
peer that keeps reading, and that `send` is not interrupted for ever although it
has room (strong fairness of `SendAny`). `Unpacker`, `SslStream` and `Kcp` assume only that the loop runs: what
has arrived is dealt with although nothing more arrives. `KcpFlushed` has the premise
that the clock comes into its lower half again and again. `IoWatcher` assumes that polls do not fail for ever (strong fairness of
`PollReturns`). `Resolver` assumes that a query ends, well or ill, as
`getaddrinfo` and c-ares do by their own timeouts; the channel has none.
`HttpClient` assumes that the worker runs and that `dispatch` is called;
`SharedMutex` that a holder leaves and a notified thread runs. The five-minute cap
of the poll is left out of `SendQueue` and `TimerQueue`, so that no property rests
on it.

## Proofs

TLAPS checks these for every value of the constants allowed by the assumption
named in each module (bounds are natural numbers, sets of blocks are not empty,
switches are Boolean).

* **EventQueueProofs**: `TypeCorrect`, `ImplementsFifo` (the refinement
  mapping is `pending <- deal \o queue`; a swap happens only with `deal_` empty, so
  it is a stutter), `QueueLosesNothing`, `DeliveryInOrder`. The strengthening says
  when each `pc` has a drain in progress and that `pc = "swap"` implies an empty
  `deal_`.
* **ClientChannelProofs**: `TypeCorrect`, `NoAttemptForgotten`,
  `NoRequestForgotten`, `CloseExactlyOnce`, in both modes. `AttemptQueued` is not
  inductive: it needs that `error_` is EINPROGRESS whenever a connecting channel
  reaches the erase (`Underway`), and that the loop is inside the lock with the
  channel queued (`Locked`). `EventProtocol` needs that events name only
  connections made (`LogKnown`), that a closed connection is out of `transports_`
  except while its own close is under way (`ClosedGone`), and that the log repeats
  nothing (`NoRepeats`). `OpenIsConnected` holds in both modes without `FdReuse`.
  `OneTransportAtATime` and `TimerWithAttempt` assume calls from handlers
  (`OnIoThread`): `HandlerInv` relates `state_`, the transport and the timer to the
  place of the loop; a call from another thread comes between any two of them and
  breaks both properties. `AnsweredOnce` assumes both restrictions: a report can then
  not belong to an earlier socket (`Unready`).
* **SendQueueProofs**: `TypeCorrect`, `NoLostWakeup`, `NoSpinning`,
  `CompletionsOrdered`, for any number of writes; `BytesAccounted` (`BytesExact`),
  from an invariant that no byte behind the first open operation is out and that
  `offset_` counts that operation's bytes (`ByteInv`).
* **ServiceLifecycleProofs**: `IdleQuiet` and `JoinIdle`, with the places of the
  two threads related to `state_`, `flag` and `joinable`.
* **LoopIoProofs**:
  * `TimersKeepOrder` (`TimersSafe`), without `ForeignReuse`. `TimerInv` adds that a
    timer has one entry (`OneEntry`), that only the holder of the lock finds the
    queue unsorted (`SortedInv`), and that the poll's limit was taken from the entry at the back
    or a wakeup is there (`SleepInv`).
  * `SessionsKept` (`SessionSafe`), for packets shorter than `buffer_`
    (`PacketsFit`) and a clock of any width that starts anywhere and wraps. The
    argument is that a read which fills `buffer_` completes a packet with something
    behind it, so `do_read` asks for another turn while the library holds bytes
    (`HeldInv`, `PartInv`). It says where every byte is, not that all are delivered:
    at the end of a session `buffer_` and the packet under way are lost.
  * `WatcherFaithful` (`WatcherSafe`), without hypothesis. `TableInv` ties the tables
    of each backend to the registrations, and for kqueue `max_events_` to the number
    of filters; `ReportInv` says that an entry of the last answer names only what
    the kernel reported; `WakeInv` that an unheard wakeup is in the interrupter
    except while it is being reset.
  * `PacketsCut` (`UnpackSafe`), for any announced lengths, negative, 0 and short
    ones included, any end of the stream, buffer size, header and limit and any way
    of splitting it, with `Strip <= HeaderEnd`. `UnpackInv` says that either a bad
    frame's turn is over (`Derailed`), or what is in memory has its place in the
    stream (`OnTrack`): between packets `buffer_` is the part from the end of the last
    packet fired to the last byte read (`AtRest`); within one, `buffer_` is empty and
    the packet begun is the part from behind the stripped bytes (`InPacket`). A full
    buffer, which looks like the end of the stream, comes of bad frames only
    (`FullOnlyOnBad`). The lemmas are about parts of a sequence: of a part, a part is
    one, and two that meet make one (`PartConcat`).
* **ChannelsProofs**:
  * `QueriesUpdateAlive` (`UpdateWhileAlive`), for any number of
    channels, names and queries. The invariant says that an update under way holds
    the token (`UpdatingHoldsToken`), which it can since `Finalize` waits for
    the shared lock, and that the token outlives neither the exclusive lock nor the
    service (`TokenMeansAlive`).
  * `AddressesResolved` (`ResolverSafe`), without `Rehost`. `AddressInv` says what
    flags, cache and error a channel may have in each state (`ChannelsFit`), that a
    channel has one query at most (`OneQuery`) and which answer it waits for
    (`Awaited`).
  * `ChannelsInStep` (`ChannelsSafe`), for any servers, clients, peers and routes,
    shared endpoints included, without `Rekind` and `Loose`. For `ServerChannel`:
    `transport_map_` is a function (`MapIsFunction`) onto live transports of datagram
    servers (`MapRouted`), a transport's socket hears of its peer alone (`Homes`), every
    connection's events so far are those of its state (`Stories`), and a channel
    that is being visited is queued (`Visits`). For the UDP client: what each step
    of `connect`, `disconnect` and the multicast option has changed already
    (`SwitchInv`, `McastInv`) and where queued datagrams may go (`QueueInv`).
* **LibraryProofs**:
  * `RequestsAccounted` (`HttpSafe`), for any number of requests, channels and
    redirects. Counting references is not inductive; that a request sent is in
    exactly one place (`OnePlace`: waiting, carried, finished, promised or done with),
    that queues repeat nothing (`QueuesInv`) and that a channel at work is the only
    one for its request (`CarriersInv`) is, and the count follows from the place.
  * `DescriptorsOwned` (`DescriptorsSafe`, an invariant and an action property), for
    any number of socket objects and calls. `SockInv` says that a handle, the
    number of a descriptor with the generation that opened it, is in one object or
    with the caller (`HoldsOnce`), that every open descriptor is held (`Held`), that
    no handle is of the future (`GensPast`), and that what a sound object holds is
    open as long as nothing was closed through a stray one (`Live`). For the
    interrupters, what is open follows from the place in `open_descriptors`
    (`IntrInv`).
  * `CookiesKept` (`CookiesExact`), for any hosts, paths, names, expiries and
    requests. The property is inductive with the types; the work is in the walk of
    `checkAndGetFormatedMatchCookies`, which erases while it goes: it visits every
    cookie, and leaves those not erased, each once.
  * `OptionsKept` (`OptionsExact`), for any values an application passes. `OptInv`
    fixes the fields of a channel and says that an address `do_resolve` has not seen
    is flagged; for each front-end a lemma computes which parameter receives which
    argument.
* **UtilityProofs**:
  * `LockAccounts` (`LockSafe`) and `ImplementsRwLock` (`RefinesRwLock`), for any
    finite set of threads that the reader count can hold. Neither is inductive
    alone: the invariant `LockInv` adds that the bit is set exactly when some thread
    is past the first gate as a writer (`BitExact`) and that there is one such thread
    at most (`OneWriter`), which is also why waking one thread at the second gate is
    enough.
  * `MemoryKept` (`MemorySafe`), for any number of handles, threads, chunks and
    elements and any sequence of calls. `RefInv`: an object has at least as many
    references as handles hold it, and one more while its maker does. `OneInv`: the
    instance in place was made and is not among the deleted, and whoever was given
    one was given that. `PoolInv`: the list from the head passes every free element
    of every chunk once and ends; for `cleanup`, first the list of each chunk and then
    the list that joins them is followed. `PodInv`: the vector is well formed and
    its first `size_` cells are what `std::vector` would hold, but for cells nobody
    has written; each call is first shown to do one splice (`Splices`) or resize.
  * `AddressesKept` (`AddressExact`), for any peers, any host of bounded length, any
    outcome of a connect and any parts of a url. `EpInv`: two keys of
    `transport_map_` are always ordered, since an insertion needs that none is equal. `HcInv`: for some `k`, the
    first `k` answers have been handed over, and unless the connector has succeeded
    each address they stand for has been tried or is about to be (`TakenOf`); only
    the last one tried can have succeeded (`OutcomeOf`). `UriInv`: a `Uri` is what
    `doParse` makes of the text, and the second one what it makes of the first one's
    print.

The hypotheses `OnIoThread`, `~FdReuse`, `~ForeignReuse`, `~Rehost`, `~Rekind`,
`~Loose`, `PacketsFit` and `Strip <= HeaderEnd` are not conveniences of the
proofs: each excludes a behaviour listed under "What the passing runs exclude", the
constants of the passing runs satisfy them, and with constants that do not TLC finds
the property violated.

The library's induction theorems take the predicate as a parameter and cannot be
used here. Where a proof goes along a list, the predicate is a set of numbers: the
lemma `Inductive` (a set that has 0 and every successor is all of `Nat`) follows from
the well-foundedness of `<`, and `WalkExists` makes from it that a recursive function
of the position satisfies its equation. The theorems about the erasing walk of the
jar, the pool's lists, the relays of a front-end, the families of a host and the
frames of a stream rest on these two.

Leaves that need more than the provers' default time name the prover and a time
(`SMTT(30)`, `ZenonT(60)`).

Model-checked only:

* liveness: `LoopLive`, `ChannelsLive`, `LibraryLive` and the other properties under
  fairness, which is beyond the prover, as is `ENABLED`;
* `DataExact`: binary streams, views, strings and the texts of addresses compare
  what is computed digit by digit and character by character with a reference. Each
  part is an induction of its own over a number's digits or a text's tokens.

## Not modelled

* `impl/ifaddrs.hpp`, a parser of netlink messages for old Android; clocks,
  logging, compiler and platform detection: no protocol and no state of their own.
* The script bindings apart from `set_option`: they convert values of engines
  that are not in the repository.
* `evport_io_watcher`: its `poll_io` ends without returning a value.
* The backends of TLS, KCP, c-ares and the HTTP parser: third-party; what they
  return is an environment choice. Certificates and TLS contexts.
* `no_new_thread_` mode, the `moodycamel` queue, one-line wrappers of socket
  options.
* The formatting of an HTTP request. (Reading it: `HttpClient.cpp:425` writes the
  cookies without a line end after them.)

The kernel, the clock and the peer are environment actions.

## Plan

1. Proofs: of `DataExact`, the 7-bit and varint integers (that reading returns what
   was written, by induction over the groups), then `StringKept`.
2. One composition of `Resolver` with `ClientChannel`'s attempt, in place of the
   coarse connect of `Resolver`.
3. The refinement of `ServiceLifecycle`'s coarse channel by `ClientChannel`.
