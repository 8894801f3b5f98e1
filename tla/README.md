# A TLA+ specification of boringtun

boringtun is a userspace WireGuard implementation: a protocol library
(`boringtun/src/noise`), a device that runs it on a tunnel interface with a pool
of worker threads (`boringtun/src/device`), bindings for other languages and a
command line. This directory models the parts that have state and concurrency,
checks them with TLC on small instances, and proves the most important results
with TLAPS for every value of the constants.

Paths below are relative to `src/boringtun/src`. `PROJECT.json` maps every
definition to the lines that it models.

## The system

| Component | State | Operations | What makes it hard |
|---|---|---|---|
| Anti-replay window, `noise/session.rs` | `next`, `bitmap`, `receive_cnt` behind a mutex | `receiving_counter_quick_check`, decryption, `receiving_counter_mark` | the ring of words is cleared word by word, at any alignment of the window |
| Tunnel, `noise/mod.rs` | eight session slots, `current`, packet queue | `encapsulate`, `decapsulate`, the handlers of four messages, `set_static_private` | messages are lost, duplicated and reordered; the lock of a peer is released between a message and the flush of the queue |
| Handshake, `noise/handshake.rs` | `state`, `previous`, index, stamps, cookies | format and receive initiation, response and cookie reply | handshakes cross; late answers; a cyclic index |
| Timers, `noise/timers.rs` | nine timers, a stamp for each session, two flags | `update_timers`, `timer_tick`, `clear_all` | events between two updates have the same time; expiry and revival |
| Rate limiter, `noise/rate_limiter.rs` | atomic `count`, `last_reset` behind a mutex | `verify_packet`, `reset_count` | workers share it without a common lock; the clock is read before the mutex is taken |
| Device lock, `device/dev_lock.rs` | `wants_write`, the inner RwLock | `read`, `try_writeable` | a reader becomes a writer and releases its lock on the way; workers wait for events, and for the clients of the control socket, while they hold the lock |
| Worker loops, `device/mod.rs` | yield and exit notifications | `event_loop`, `trigger_yield`, `cancel_yield`, `trigger_exit` | a notification that is missed or stale |
| Device, `device/mod.rs`, `device/peer.rs` | key, three peer tables, listening and connected sockets, mark | `set_key`, `open_listen_socket`, `set_fwmark`, `update_peer`, `remove_peer`, event handlers | a peer is shared by the tables and the handlers; requests fail half way |
| Configuration protocol, `device/api.rs` | the request being read | each line of `set` | a request is not undone when it fails |
| Event poll, `device/epoll.rs`, `device/kqueue.rs` | table of events by descriptor, boxed events, registrations in the kernel | register, wait, guard drop, cancel, clear, notify | events are freed while the kernel and other threads may know them; descriptors are reused |
| Allowed IPs, `device/allowed_ips.rs` | prefix table | insert, remove, find | a prefix moves between peers; a peer has a table of its own |
| Index generator, `IndexLfsr` in `device/mod.rs` | a shift register | `next` | an index must not come back |
| Bindings, `ffi/`, `jni.rs`, `export.rs` | none of their own | forward to the tunnel under a mutex | |
| Interfaces, clock, text formats, command line | | system calls and conversions | |

A datagram goes through the rate limiter, is routed by the device to a peer, and
handled by that peer's tunnel. A packet of the interface is routed by address to
a peer whose tunnel encapsulates or queues it. A timer event calls
`update_timers` for every peer. A configuration request takes the device's
write lock, for which all other workers leave their loops.

## The modules

| Module | Models | State and actions |
|---|---|---|
| `ReplayFilter` | abstract specification | a filter that delivers each authentic counter of the window once |
| `ReplayWindow` | `ReceivingKeyCounterValidator`, `receive_packet_data` | the validator, its mutex and each caller's position; `receiving_counter_quick_check`, `Open`, `Mark` and the three clearing loops, one iteration per step |
| `Tunn` | `Tunn`, `Handshake`, `Timers`, sessions | operators from a tunnel record to its successor and result; no variables |
| `TunnelPair` | two endpoints and a network | `Encapsulate`, `Decapsulate`, `SendQueued`, `UpdateTimers`, `ForceHandshake`, `Tick` |
| `TunnTimers` | one endpoint over a long time | the same calls, with any accepted message of the peer at any moment, and `SetStaticPrivate` |
| `PacketLife` | abstract specification | the stages of a packet's life; implemented by `TunnelPair` |
| `DevLock` | `dev_lock.rs` and the worker loop | one action for each stretch between two blocking points |
| `RateLimiter` | `rate_limiter.rs` | one action for each access to shared state |
| `Device` | device, peers, sockets and `set` requests | one action for each line of a request or section of a peer, and one for each effect of an event handler |
| `AllowedIps` | `allowed_ips.rs` | operators on tables of networks: `insert`, `remove`, `find`; used by `Device` for the device's table and each peer's |
| `IndexLfsr` | `IndexLfsr` in `device/mod.rs` | operators on words of bits: `shift`, `index`, `Exhausted`; used by `Device` |
| `Epoll`, `Kqueue` | `epoll.rs`, `kqueue.rs` with the kernel's part | operators on a poll: descriptors, registrations, boxed events, the table |
| `EventLoop` | worker threads at either poll | wait, handler, guard drop, cancel; the handlers connect, register and shut down sockets; a writer triggers the yield and opens a new listener |
| `MC*` | instances for TLC | |
| `ReplayWindowProofs`, `DevLockProofs`, `RateLimiterProofs`, `DeviceProofs`, `TunnTimersProofs`, `TunnelPairProofs`, `EventLoopProofs` | theorems | |
| `TunnLemmas` | lemmas about the operators of `Tunn` | |

Choices worth knowing:

- **Cryptography** is symbolic. A session key is the pair of ephemeral keys it
  came from, and a message opens exactly under its key. Ephemerals and
  timestamps come from one increasing counter, bounded by `eph` of a bound.
- **The replay window** lets callers interleave, because `receive_packet_data`
  takes `&self` and its mutex twice. This allows more than can happen: its one
  caller has `&mut Tunn`. Counters are naturals up to `MaxCounter`:
  the code's `u64` sums wrap only after 2^64 - 1024 packets of one session.
  `Tunn` uses the window's effect (`will_accept` on the delivered counters).
- **The network** of `TunnelPair` is the set of all messages written. Delivery
  does not remove one, which covers loss, delay, reordering and duplication.
- **The peer's lock** is free between `decapsulate` and the flush that follows,
  so `flush` is a state of the caller and other calls come in between.
- **Cookies of an expired connection.** `clear_all` keeps the cookie while
  `Timers::clear` makes it young again, and `update_timers` of an expired
  connection returns before it looks at it. `CookieLifetime` excepts exactly
  these cookies; the history `lapsed` tells them apart.
- **`TunnTimers`** calls `update_timers` at least once per unit of time, as
  `register_timers` does every second.
- **The lock** allows several sources of API requests (`ApiSources`), so what is
  shown does not rest on the one-shot API event. The inner RwLock is
  parking_lot's: a writer sets a bit that stops new readers, then waits.
- **API clients** are read and written without a timeout: the first line while the
  worker holds the read lock (`command`), the lines of a `set` under the write lock
  (`mutate`), the answer under the read lock again (`answer`), and that of a `get`
  with the mutex of the peer it reports (`get`). A client goes on at each of these
  points, or takes `Stall` and never does; then handlers that need the peer of a
  stopped `get` wait as well (`WaitPeer`). `stalled` are the workers that wait in
  one of these ways. The liveness properties say what may then be held up: every
  write; a reader only behind a write that was begun; of the exiting workers the
  stalled ones, and those behind a write.
- **A cookie** is its epoch and the bytes its MAC is over: `addr_bytes` puts the
  octets of an address in front of zeros, so an IPv4 address and the IPv6 address
  that continues it with zeros have the same cookie, which one limiter may be asked
  to check for both. `CookieProves` names this pair (`Padded`) and rules out any
  other. The nonce of a reply is fresh and left out.
- **The clock** is read once by a call. Where `update_timers` gives up a connection,
  `Timers::clear` reads it a second time, but the call returns right after that and
  the next one starts later; `TimersInPast` does not exercise this second reading.
- **A `set` request** holds the write lock from first line to last, so handlers
  run between requests. The lines of a peer's section only fill local
  variables, so a section is one action, taken when it is committed. A section
  that names no endpoint has the one of the section before it, which the code
  does not reset. The end of the stream acts as an empty line.
- **Sockets.** The IPv4 and IPv6 listeners are one; ports are named by the
  opening that bound them; `can_mark` is the privilege to set `SO_MARK`;
  registration of an event succeeds. `ConnectOutcomes` says whether a connected
  socket can be made: `connect_endpoint` asks for a stream socket with the UDP
  protocol (`device/peer.rs:127`), which Linux refuses, and
  `use_connected_socket` may be off. The runs take both outcomes.
- **Prefixes and indices.** An address has `Bits` bits and a register `Width`
  bits, so the models run the code's algorithms on small words: `new_truncate`
  drops host bits, `longest_match` is the longest network that covers the
  address, and the register is shifted, tapped and masked bit by bit. The trie
  is the crate `ip_network_table`, modelled by what it returns.
- **The poll** is modelled down to descriptors and addresses. A handler owns the
  descriptor its event was registered under, so freeing the event closes it.
  The kernel knows an epoll registration by descriptor and open file, and drops
  it with the last descriptor of the file; kqueue knows it by descriptor. A
  call that other threads can come in between is two steps: closing and
  deleting in `clear_event_by_fd`, table and kernel in `register_event`. Free
  memory is a value of its own, so that a reference to it shows, and an address
  is not given out again while something refers to it. A new descriptor is the
  smallest that is free. An allocation that fails would end the program, so an
  event is registered only while there is memory (`MemoryLeft`). Timers and notifiers of kqueue, which have a table of
  their own under negative numbers, are given descriptors, and its second mutex is
  the same as the first: the calls under it touch other entries. A failed bind
  is in `Device` only. Connected sockets are part of the model although Linux
  refuses them today (see above), so what is shown of them holds where they can be
  made.
- **Packets.** `TunnelPair` maps each packet to a stage (in a queue, on the
  network, delivered, discarded), and `PacketLife` says which may follow which.

## The runs

Twelve runs, each a question about the system.

| Run | Shows |
|---|---|
| `replay` | Two concurrent callers, 2 words of 3 bits, counters up to 7 so that the ring is used again: no counter is delivered twice (`NoReplay`), the bitmap is exact within the window (`WindowExact`), the loss estimate is not negative (`LossEstimateSound`), and the abstract filter is implemented (`FilterRefinement`). |
| `pair` | Both sides initiate at once and one handshake is forced, or one side retries until it gives up while old messages arrive: no nonce is used twice (`NonceUnique`), both ends of a key send to each other's index (`KeyAgreement`), no packet is lost or doubled inside an endpoint (`PacketsConserved`), left in a queue that nobody will empty (`NoStuckQueue`) or delivered twice (`DeliveredOnce`), and the pair implements `PacketLife` (`PacketLifecycle`). |
| `pair_drain` | Under fairness a waiting packet is sent or discarded (`QueueDrains`). |
| `timers` | Sessions, rekeying, cookies, key changes, expiry and revival over 16 units of time: no timer is ahead of the clock (`TimersInPast`), so no `checked_sub().unwrap()` fails; no session outlives its limit (`SessionLifetime`); an expired tunnel is empty (`ExpiredIsClean`); a cookie is dropped when its time is over, unless the connection was expired since it came (`CookieLifetime`); `NoStuckQueue`. |
| `lock` | Three workers, three requests: one writer (`OneWriter`), alone (`MutateAlone`); no reader enters during a write (`NoNewReader`); no stale yield (`YieldOnlyForWriter`); writers complete, readers return and exit reaches all, but for what a client that stops for ever holds up (`WriterCompletes`, `ReaderReturns`, `AllExit`). |
| `limiter` | Two workers over two periods and two cookie epochs, with an IPv4 address and two IPv6 addresses that begin with its octets: at most `Limit` messages per period begun pass without a cookie (`LoadBound`), and one that passes under load carries a recent cookie sent to its address, or to the one of the other family with the same padded bytes (`CookieProves`). |
| `device` | Two peers, addresses, keys and prefixes, ports and marks: the three tables agree (`TablesAgree`), every peer has the device's key (`KeysAgree`), a packet is routed to a peer that may send from its address, by no shorter a prefix (`RoutesAllowed`), no two peers share an index (`IndicesDistinct`), connected sockets match their endpoint, port and mark (`ConnectionsCurrent`), and a removed peer has no open socket (`RemovedSilent`). |
| `events` | Two threads, one peer and eight descriptors, on epoll and on kqueue: an event is with one thread (`OneHolder`), none is used after it was freed (`NoDangling`), lost (`NoLostEvent`) or leaked (`NoLeak`), threads yield only for a writer (`YieldForWriter`), sockets that were shut down are closed on every descriptor (`ShutDownFreed`) and a writer gets its turn (`WriterRuns`). |

Four runs state what a comment or an assertion says, and TLC shows that the code
does otherwise:

| Run | The code says | What happens |
|---|---|---|
| `inflight_lost` | "Allow to have two outgoing handshakes in flight" (`noise/handshake.rs:326`) | The peer's initiation moves ours to `previous` and leaves `state` empty; our next initiation overwrites it, so a late answer to the first is refused. |
| `keepalive_missed` | "If a packet has been received ... but we have not sent one back ... in KEEPALIVE ms, we send an empty packet" (`noise/timers.rs:284`) | Data that arrives between the same two updates as the last send has the same time; the strict comparison misses it. |
| `old_port_served` | "First close any existing open socket, and remove them from the event loop" (`device/mod.rs:434`) | Events are removed by the descriptors of the originals but were registered under those of clones; the old port stays served. |
| `port_in_use` | `expect("Not connected")` (`device/mod.rs:839`) | A change of port gives up the old sockets before it binds; if that fails, the next packet of the interface ends the process. |

Deadlock is checked in every run except those of `Device`, where the process may
have ended by a panic.

### Bounds

`MaxCounter`, `MaxTime`, `MaxPackets`, `MaxEvents`, `MaxRequests`, `MaxCount`,
`MaxPeers`, `MaxPort`, `MaxConns`, `MaxLimiters`, `MaxListeners` and the `Bounds`
of `TunnelPair` (who initiates, time, forced handshakes, ephemerals) bound the
runs and appear in guards; `MaxChanges` is in the state constraint of `MCDevice`.
Structures are scaled to the smallest size that wraps: two words of three bits
(with two, clearing a word too many would go unnoticed), two session slots in an
index space of four, one place in the queue, a register of two bits that comes
round on the third call. Durations keep the order of the real ones.

Three changes in `device` allow a key with two peers, or a peer with a port and a
key. One-bit addresses give a prefix of everything, which is written with a host
bit, and a host inside it, which either peer may claim. In `events` five of the
eight descriptors are in use at the start, so three come and go: a connected
socket takes two, and a descriptor is reused while others refer to its number.

### Fairness

- `DevLock`: strong fairness of lock steps, since parking_lot hands a lock over
  eventually even under contention; weak fairness of yield and exit, whose
  notifications are level-triggered. No fairness of requests or events. Of a client
  nothing is assumed: weak fairness of "it goes on or it stalls" holds of any
  client, and the properties name what a stalled one may hold up. The handlers of
  packets are assumed to return, as in `EventLoop`.
- `TunnelPair`: weak fairness of the clock, of each endpoint's timers and flush
  (its caller's loop) and of delivery. The last is an assumption about the
  network; without it a queue is emptied by expiry only. `pair_drain` has one
  side that sends packets.
- `EventLoop`: strong fairness of what a thread has begun, since threads run and
  parking_lot's mutex is eventually fair, and of the delivery of the yield
  notification to each thread and of events of a descriptor to some thread, since
  the kernel reports what is ready in turn. Which handler a thread runs, and
  whether it connects or shuts down a socket, is not assumed. That a handler
  returns is: the loops of the handlers stop after `MAX_ITR` packets, but the UDP
  handler does not count those it refuses (`device/mod.rs:642-675`), so it is
  assumed that these do not come without a pause; and a client of the control
  socket is assumed to end its request, which `DevLock` does without.

## The proofs

| Module | Theorems |
|---|---|
| `ReplayWindowProofs` | `Invariance`, `TypeCorrect`, `ReplayProtection`, `BitmapExact`, `LossEstimate`, `FilterImplemented` |
| `DevLockProofs` | `LockInvariance`, `LockTypeCorrect`, `SingleWriter`, `WriterAlone`, `YieldAccounted`, `ReadersKeptOut` |
| `RateLimiterProofs` | `LimiterInvariance`, `LimiterTypeCorrect`, `LoadBounded`, `CookieProof` |
| `TunnTimersProofs` | `TimersInvariance`, `TypeCorrect`, `NoTimerAhead`, `SessionsExpire`, `ExpiredStaysClean`, `CookiesExpire`, `QueueNeverStuck` |
| `TunnelPairProofs` | `PairInvariance`, `AtMostOneDelivery`, `NoNonceReuse`, `SessionsAgree`, `NoPacketLost`, `NoPacketStuck`, `PairImplementsLife` |
| `EventLoopProofs` | `LoopInvariance`, `HoldersAreAlone`, `PointersAreLive`, `EventsAreWatched`, `EventsAreReachable`, `YieldsAreForWriters` |
| `DeviceProofs` | `DeviceInvariance`, `DeviceTypes`, `DeviceTables`, `DeviceRoutes`, `DeviceIndices`, `DeviceKeys`, `DeviceConnections`, `DeviceRemoved` |

They hold for every value of the constants that satisfies the named assumptions:
`SizeAssumption` and `ReceiverAssumption` (positive sizes), `LockAssumption`,
`LimiterAssumption` (positive periods), `AddressAssumption` (an address has one of
two lengths), `DeviceAssumption` (the values for "none"
are none, seeds are not zero), `TunnAssumption` (positive sizes and durations, the
session ring divides the index space, `REJECT_AFTER_TIME` is at least
`KEEPALIVE_TIMEOUT + REKEY_TIMEOUT`), `TimersAssumption`, `PairAssumption` (two
endpoints), `PollAssumption` (finitely many descriptors, among them and among the
addresses those that `Device::new` uses), `BitsAssumption` and `LfsrAssumption` (the
top bit of the register is tapped, as bit 23 of `LFSR_POLY` is).

**Replay window.** `NoReplay` is not inductive: it needs that a delivered counter
in the window has its bit set. `IInv` adds `WindowExact`, that `next - 1` is the
highest delivered counter (`NextInv`), how the callers hold the mutex
(`CallInv`), and for a caller in a clearing loop (`LoopInv`) that the bits from
`next` to `i - 1` are clear while those that stay in the window are exact. The
arithmetic is about words: two counters less than `N_BITS` apart never share a
bit, and a word is cleared only from its start. The refinement maps the last
iteration of the loop, or the mark itself, to the abstract delivery, and every
other step to a stutter or the abstract call.

**Device lock.** `LockInv` adds who holds the mutex (`MutexInv`), that readers
are the threads at a point that keeps the lock (`ReadersInv`), that
`wants_write` is set exactly while one thread is in its write section
(`MarkInv`), who owns the writer bit (`BitInv`), and that a stalled worker stays
where it waits for its client or for a peer (`StallInv`).

**Rate limiter.** `LoadBound` is a bound over time. The inductive form
(`CountInv`) is: what passed is at most `Limit` for each period up to
`last_reset`, plus what `count` has counted since, up to `Limit`. A resetter's
clock value is never ahead of the clock, so each reset moves `last_reset` by a
whole period or more. `CookieInv` says that every cookie was derived from the
padded bytes of its address in the epoch of its making, and `SameBytes` that two
addresses with the same bytes are equal or an IPv4 address and its continuation.

**Device.** Each property needs the others: that a new peer is in the tables under
an index of its own rests on the generator, that an open socket belongs to its
endpoint rests on which peers are configured. `DeviceInv` joins the properties of
the run with two strengthenings.
`GeneratorInv` is about the register, with the history `drawn` of the values it
had: each but the first is the shift of an earlier one, and the next is none of
them. A shift is injective because the top bit is tapped (`ShiftInjective`), so
the only value it could come back to is the first, where the code panics;
subtracting one and masking are injective too (`IndexInjective`), so indices
differ. `Wired` says how sockets and peers fit, for any set of peers and sockets:
it is stated as an operator because `set_endpoint`, `shutdown_endpoint` and
`connect_endpoint` are proved to keep it once, and every handler is composed of
them. `RoutesAllowed` is not part of the invariant: it follows from `TablesAgree`,
which puts each prefix of the device's table in its peer's own, and from
`FindLongest`, that a longest match exists and `find` returns it.
The lemmas come in this order: operations on peers and sockets, one lemma for each
action on sockets, one for each on the tables, the generator and the prefix table,
and the making of a peer.

**Tunnel.** `Tunn` has no variables, so `TunnLemmas` states what each operator does:
its type, which fields it leaves alone, and what it changes, as a named relation
between the tunnel before and after (`Begins`, `Seals`, `Accepts`, `Answers`,
`Confirms`, `StoresCookie`, `Aged`, `GaveUp`). The two compositions reason about
these relations and not about the code of the operators. They are proved for every
number of session slots, index space, queue depth, window and duration.

**Tunnel over time.** The properties of `TunnTimers` need each other.
`SessionLifetime` is about when a session was made, but `update_session_timers`
looks at the time stored for its slot, so `IndInv` says that this is never later
(`Born`), which in turn needs that no timer is ahead of the clock (`Past`).
`CookieLifetime` compares the cookie with the timer that was set when it came,
which an expired connection may set anew; `CookieInv` says that only cookies with
`lapsed` are concerned. `ExpiredIsClean` becomes `Clean`, and what `update_timers` has
just established is `UpToDate`. `NoStuckQueue` is inductive given the others.

**Pair of tunnels.** None of the properties is inductive, and they have one reason
in common: a session key never comes back once its session is gone. Otherwise a
session with the same key and a counter of zero would use nonces again, and one
with an empty filter would accept old messages. An endpoint has *burnt* a key
(`Burnt`) when the ephemeral of its own in the key has been drawn and no
initiation with it is outstanding. What is burnt stays burnt, because ephemerals
are drawn in order and an outstanding initiation is used once: `receive_handshake_response`
takes it out of `state` or `previous`. Each key in the ring is burnt and there
once (`RingSound`), and a session that a call brings into the ring has a key that
was not burnt before (`Introduced`). From this:

- each data message on the network is under a burnt key and behind the counter of
  the session with its key, if there still is one (`NonceInv`), which makes
  `NonceUnique` inductive;
- each session comes from a response on the network, and a responder writes only
  one for an ephemeral (`KeyInv`), which implies `KeyAgreement`;
- a message that has been delivered is *spent*: its key is burnt at the receiver
  and its counter is in the filter of the session, if there still is one
  (`DeliveryInv`); with `SealedOnce`, that a packet is in one message only, this
  gives `DeliveredOnce`;
- the packets given to an endpoint are split between queue, network and discarded
  (`Tally`), and the queue repeats none, which is `PacketsConserved` without
  cardinalities.

A call moves one endpoint and adds to the network. So the proof has one lemma for
what a call does to its endpoint (`EncapsulateAdvances`, `ForceAdvances`,
`FlushAdvances`, `TimersAdvance`, `DecapsulateAdvances`), and from their common
conclusion `Advances` one for each part of the invariant (`CallEnds`, `CallNonces`,
`CallKeys`, `SpentStays`). For the refinement, `StageIsPlace` shows that the stage that
`TunnelPair` gives a packet is its place in that split. Each action is then a step of
`PacketLife` for one packet, for all that wait at one end, or for none.

**Event loop.** The proof is about owners, for any number of threads, peers,
descriptors and addresses and for both polls at once. `LoopInv` says that every
descriptor in use has one owner: a boxed event, the endpoint of a peer, the device for
its listening socket, or a thread that is about to register or to close it (`Owned`,
`OwnersInv`). So a descriptor of an event is closed only by freeing the event, and one
that is given out again belongs to none. The two tables are then compared with the
events that there are: `Filed` for the table of the code and `Watched` for the
kernel's. A registration either belongs to the live event it names (`Current`), or it
has outlived it (`Stale`), which only epoll allows while a clone keeps the file open.
A stale one is disabled and its file is not the one its descriptor has now, so no
later call can enable or delete it by mistake. What is between the two steps of a
registration or a removal is known from the threads (`Busy`, `Late`), and a thread
between them owns the mutex wherever the code holds it (`ThreadInv`). `YieldInv` says
that the yield notification is up only while a writer waits; it needs that the writer
is the last to touch it, which holds because the others are out of the loop.

The invariant of the poll, `PollInv`, has these sets as parameters. So each call
(`close_all`, `wait`, the guard's drop, the two steps of registering and of clearing,
the notification) is proved once for any poll, for epoll and for kqueue, and an action is
such a call followed by what it does to the sets (`Sets`). `open_listen_socket` is
five of these calls in a row (`OpenCall`). That a free descriptor, file or address
is found when one is asked for is `Supply`, a hypothesis of the lemmas that need it;
`Supplied` proves it from `PollAssumption` and the library's facts on finite sets: open
files are never more than descriptors in use.

Only model-checked: liveness (`QueueDrains`, `WriterCompletes`, `ReaderReturns`,
`AllExit`, `ShutDownFreed`, `WriterRuns`), which is out of the prover's reach. Every
invariant, action property and refinement of the passing runs is also proved. The
four disagreements are counterexamples, which need no proof. The types of
`ReplayWindow`, `DevLock` and `RateLimiter` are only proved.

## Not modelled

- The contents of `get`, the text of requests, and the preshared key and keepalive
  lines, which reach the tunnel only. The mark of listening sockets.
- Signal handlers and the watch on the control socket's file, except that
  `DevLock` lets any worker be told to exit at any time. `new_write_event`,
  `get_mut` and `notify_writable` of the poll, which nothing calls.
- Raw cryptography, buffer sizes, statistics, `estimate_loss` in floating point.
- TUN interfaces, privileges, command line and text formats: system calls and
  conversions without state of the protocol.
- The bindings, but for the forced handshake: each call takes a mutex and forwards
  to one operation of `Tunn`, so `TunnTimers` covers what they can do to it.

## Plan

1. Cookies end to end: `Tunn` and `RateLimiter` composed, so that a sender that
   is told to use a cookie completes its handshake.
2. Configuration: `get`, the mark of listeners, and the sockets of peers dropped
   by `clear_peers`.
3. `QueueDrains` for handshakes that cross.
4. `EventLoop` shown to implement an abstract registry in which an event is ready,
   held or removed.
