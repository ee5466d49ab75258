# Verification of zeroconf-p2p-vpn

TLA+ models of the daemon, model-checked with TLC and proved with TLAPS. Every
definition is a translation of code under `src/src/`; the paths below are relative to
that directory. `PROJECT.json` gives the lines each definition stands for.

## The system and its parts

A node opens a TUN device, reads its configuration, and keeps one *session* per
configured peer. A session owns a persistent link (crate `iroh_persistent`), runs
the application handshake on each connection the link yields, registers the
peer's negotiated addresses in the shared *relay*, and pumps inbound datagrams to
the TUN device until the connection drops. The relay maps destination addresses
to connections and owns the kernel routes that bring packets to the TUN device.
The *data plane* looks every outgoing packet up in the relay and sends it, or
answers it with ICMP. A DNS registry maps peer names to negotiated addresses.

| Part | Source | Module |
|---|---|---|
| relay | `relay.rs` | `Relay`, `RelayProofs`; what it promises: `Dispatch` |
| routing table, its gauge | `route.rs` | `Relay`, `RouteGauge`, `RouteGaugeProofs` |
| peer session | `session.rs` | `Sessions`, `SessionsProofs` |
| persistent link (external) | as `session.rs` uses it | `Sessions` (link actions) |
| handshake, control protocol | `peer.rs`, `proto.rs`, `peer/validate_addr.rs` | `Handshake`, `HandshakeProofs` |
| data plane | `main.rs`, `tun.rs`, `peer.rs`, `tun/packet.rs` | `DataPlane`, `DataPlaneProofs` |
| buffer pool | `buffer_pool.rs` | `BufferPool`, `BufferPoolProofs` |
| bootstrap, configuration, start of the daemon | `generate.rs`, `show.rs`, `config.rs`, `main.rs` | `Startup`, `MainProofs` |
| incoming router | `connection.rs`, `main.rs` | `IncomingRouter`, `MainProofs` |
| metrics exporters | `peer/conn_metrics.rs`, `peer.rs` | `Exporter`, `MainProofs` |
| addresses and signatures | `addr.rs`, `config.rs`, `peer/validate_addr.rs` | `Addr`, `AlgorithmsProofs` |
| congestion signalling | `route/ecn.rs` | `Ecn`, `AlgorithmsProofs` |
| peer names | `dns.rs` | `Names`, `AlgorithmsProofs`; when sessions write them: `Sessions` |
| retry on a new adapter | `osal/retry.rs` | `Retry`, `AlgorithmsProofs` |

The modules compose along the code's own joints. `Sessions` extends `Relay` and takes the
place of its arbitrary callers. `Relay` implements `Dispatch`, and `DataPlane` extends
`Dispatch`: the table changes under the packets in every way the relay may change it.
`RouteGauge` counts beside the relay's steps. `Handshake` justifies the outcomes that
`Sessions` lets a handshake have, and `Addr` the validity test that `Handshake` takes as
"signed by the peer, within an allowed network". The MC modules `MCTasks` and
`MCAlgorithms` put components without common state into one run: a behaviour has
one of them at work and the others finished.

## Relay, Dispatch, RouteGauge

*State.* `peer_map` has for each address no entry, a parked entry, or a connection.
`handle` is the tokio mutex as the queue of callers inside it, the holder first
(tokio's mutex is fair). `step` says where each caller is inside the relay;
`current`, `stale` and `value` are the arguments it carries. `fut[ip]` is the
state of the holder's future for one address, `netlink[ip]` the requests sent to
the OS and not yet handled, `kernel` the OS routing table. `leaked` is a history
variable: routes whose removal the OS refused.

*Actions.* What runs between two `.await`s is one step, because `main.rs` polls all
sessions from one task (`join_all` inside `join!`).

| Action | Code |
|---|---|
| `CallReconcile`, `CallRemove`, `Park` | the three public operations up to their first await |
| `StartRemove`, `FinishRemove` | `remove`: mutex obtained, entries dropped and removals sent; all answered |
| `FinishDrop` | the `remove` inside `reconcile` returns and `insert` queues for the mutex again |
| `StartInsert` | first poll of `try_join_all`: re-arm existing entries, request the other routes |
| `InsertReply` | one `ScopedRoute::new` succeeded: the entry is created |
| `InsertFailed` | one failed: the other futures are dropped, the whole batch is removed |
| `FinishInsert`, `FinishRollback` | `insert` returns `Ok` or `Err` |
| `OsAdd`, `OsRemove` | the OS handles a request, with the faults of `OsFaults` |

`OsFaults` covers an add that is refused, an add that takes effect although an error
is reported, and a removal that is refused. Adding a route that exists fails.
A request is handled even when the future that sent it has been dropped.

`Dispatch` is the relay without mutex, batches and requests: a table and a set of
routed addresses, where an entry appears only over its route and a route goes only
when its entry has gone. `RouteGauge` adds `p2p_vpn_route_active`: a future counts
its route when it sees the add succeed, and a removal is discounted when its future sees
that succeed (`RemoveReturns`, or `RemovedOk` in the step in which `join_all` returns).
`unseen` has the removals in between. The futures of a failed batch are dropped and never
count, while the removals of the rollback are discounted, which leaves the gauge too low.

*Assumptions.* A request is sent when its future is first polled; the OS handles the
requests for one address in the order sent (netlink on Linux); nobody else
changes the routes through our device. The retry inside the two OS calls (Windows) is
modelled on its own, in `Retry`.

## Sessions

`pc` is where `run` is (at `link.changed()`, in the handshake, in `reconcile`, in
`recv_loop`, in the final `remove`, returned); `routes` is its local variable, `conn` the
connection it serves, `dns` the addresses registered for its name. The link is a
watched value: `latest`, `open`, `published`, `fresh`, `ended`. `changed()` returns the
newest value only, so a disconnection and reconnection may be seen as one change.
`tun_up` says whether `Tun::control` still runs.

`LinkUp`, `ConnClosed`, `LinkDown`, `LinkEnd` are the link's own moves. `TunFails` is the
fatal TUN error that closes the channel `recv_loop` sends to, while `join!` in `main.rs`
keeps the sessions alive. `SeeConnection`, `SeeDisconnect`, `SeeEnd` are the three arms of
the `match` in `run`; `HandshakeOk`, `HandshakeErr`, `Registered`, `RegisterFailed`,
`RecvEnded` the successive outcomes in `run_connection`; `Withdrawn` the end of
`withdraw_routes`. The final step of a relay call and the code that follows it up to
the next await are one action.

*Assumptions.* Two peers never have an address in common (`SessionsAssumption`): an
advertised address is derived from the peer's public key and carries its
signature. Collisions of the derivation are not considered, nor a public key that is
configured under two names. A link keeps its own handle of a connection, so a
connection stays open when a session returns from `run_connection`. The addresses of
one advertisement are distinct (they are a set in the model).

## Handshake

Two nodes over one connection. Each has a half that sends its request and reads the
response (`snd`: `write_control`) and a half that accepts the other's stream, handles the
request and responds (`rcv`: `read_control`, `handle_control_request`), joined by `join!`
under one deadline (`Joined`, `Timeout`); `Direct` is `wait_for_direct` before it. The
transport delivers a request in one piece or two, acknowledges, closes, and loses the
connection, as either node sees it first. A request is an advertisement with any
mixture of valid and invalid addresses, another command, or malformed.

A success is a response of zero bytes, and a `SendStream` that is dropped is finished by
the transport (`DropStream`). So a deadline that expires while a request is handled looks
like a success to the other side.

## DataPlane and BufferPool

`DataPlane` has the read task of the TUN device (`PopBuffer`, `ReadFrame`, `SendRx`), its
write task (`RecvTx`, `WriteFrame`), the `select!` around both (`ControlReturns`),
`tun_rx_loop` (`HandlePacket`, with `send_packet` and all its ways out), and for each
connection its `recv_loop` (`StartPump`, `PumpDatagram`, `PumpEnds`) and its datagram send
buffer (`Transmit`, `Close`). A packet is a destination, a family and whether it may be
marked. The tx channel is a count and the line of senders that wait for it, as
tokio's semaphore hands a free slot to the first in line.

`BufferPool` has the pool itself with the steps of `pop` and of `Drop for PooledBuffer` on
any thread: the report of the gauge is a load and a store, with other threads between
them. `PooledBuffer` and the slice made of it are one owner.

## Startup

One disk (a configuration file and key files at two paths) and one process at a time,
which is `generate`, `show` or the daemon up to its loops. Every file operation and every
step of the setup is an action; `Fail` ends the process at any of them, and leaves a torn
file when it was writing. `EditConfig` is the user. With the process go its device, the
address and the routes; the host's resolver configuration may stay (`Leftovers`), since no
code of `main.rs` withdraws it and what the `dns_host_config` crate does is not known here.

*Assumptions.* No two processes of the program work on the same directory at once. A
write that returns is on disk.

## IncomingRouter, Exporter

`IncomingRouter` registers the configured names, then runs one task that takes accepted
connections and waits for room in the channel of the peer it serves. Two names may
have one key, in which case the later one has the channel. `Exporter` has the
tasks that write one peer's gauges, one for each connection served, of which several
may be alive. The gauges are of three kinds, by what they are set under:
`update_connection` at every tick, `relayed` if a path is selected, `update_path` if its
`stats()` are there. `PathChanges` is the connection selecting and dropping paths at any time.

## Addr, Ecn, Names, Retry

Algorithms, on every input of a small domain. `Addr` has `addr.rs` over addresses of a few
bits; a signature verifies for its key and message only. Its powers of two are a
recursive function, `Pow2`. `Ecn` sends one packet through
several queues. `Names` has lower-casing, suffixes and the registry, with names as
sequences of labels. `Retry` has attempts, delays and the budget in ticks; the delays
are any in `1..MaxDelay`, which includes the randomised exponential ones, and a sleep ends
up to `MaxLate` after its time, as tokio's may.

## What the runs check

| Run | Question |
|---|---|
| `relay` | any two callers on two *shared* addresses under all OS faults: `NoOrphanRoute`, `RollbackIsTotal`, that the relay implements `Dispatch` (`ImplementsDispatch`), `DriftBounded` for the gauge, and the inductive invariant `RelayInv` |
| `sessions` | a peer with two addresses and a peer with one, two connections each: `RoutesMatchRelay`, `ConnectedMeansServed`, `EndedLeavesNothing`, `OnlyOwnerWithdraws`, and the inductive invariant `SessionsInv` |
| `sessions_live` | the sessions implement `RelaySpec` (`ImplementsRelay`); `CallsReturn`, `DeadConnectionIsDropped`, `SessionEnds` |
| `buffer_pool` | three buffers dropped on several threads, before and after the pool goes: the inductive invariant `PoolInv`, and `StarvationEnds` |
| `data_plane` | two connections, a pool of three and channels of one: `BuffersConserved`, `WaitersInLine`, `ReaderServed`, `SendersServed`, `TunFailureEndsAll` |
| `handshake` | requests of every kind from both nodes: `RoutesAreThePeers`, `RejectionFailsBoth`, `SplitNeedsExpiry`, `ClosedEndsHandshake`, `BothSucceed` |
| `startup` | any sequence of commands, crashes and edits: `KeyKept`, `PrintedIsStored`, and the inductive invariant `StartupInv` |
| `tasks` | router and exporters: `DeliveredInOrder`, `EveryConnectionSettled`, `GaugesFollow`, and the inductive invariant `TasksInv` (channel capacities among it) |
| `algorithms` | `GeneratedAloneVerifies`, `ConfigurableIsAcceptable`, `SignalUnderstood`, `DropsLinearly`, `ReadyInTimeSucceeds`, `ResolvesToReachable`, and the inductive invariant of the registry, `NamesInv` |
| `dns_in_sync` | violated: a failed `reconcile` leaves the name registered |
| `retries` | violated: after a failed handshake or `reconcile` nothing is retried on the open connection |
| `handshake_drop` | violated: a response that was never written reads as a success |

*What they show.* A dropped add never takes effect after the mutex is released, because
the rollback queues a removal behind it and awaits the answer. The map never
names an address without a kernel route, and `insert` never overwrites an entry, so the
`ScopedRoute` guard never panics. No path through a session leaves a connection in
the relay once the session is back at `link.changed()`. No way out of `send_packet` or
`tun_rx_loop` loses a pool buffer, and since `tun_rx_loop` never waits for the tx
channel, full channels and an empty pool form no circle. A rejection fails both
handshakes; two honest nodes that wait for each other's acknowledgement inside `join!`
do not block each other. No crash makes `generate` replace a key.

*Disagreements with the documentation, each shown by a run.* `session.rs:38-39` calls the
DNS registry "to keep in sync with this peer's negotiated addresses"; after a failed
`reconcile` (`session.rs:139`) the name still has the earlier addresses while the session
has no routes. `session.rs:61-62` says that `run` "on every other error [...] retries"; the
retry happens only when the link changes, and an open connection on which the
handshake or the registration failed is left unused for as long as it stays open.
`proto.rs:50-51` says that `read_control` sends "`f`'s outcome back"; when the request is
malformed or the deadline passes before `f` has run, the dropped stream tells the
other side that it succeeded.

*Remarks, without a run.*

- The gauge of free buffers may rest at 0 while one buffer is free, since each drop reports
  before it gives its buffer back (`buffer_pool.rs:83`); `tun.rs:74` says "0 means
  starvation". That starvation is shown as 0 does hold (`StarvationShown`).
- A packet that the congestion logic drops gets no ICMP reply (`peer.rs:136`), while
  `peer.rs:92-94` promises one when "the ECN/AQM logic drops it".
- `generate` writes the key before it restricts it (`generate.rs:73` and `:78`). A process
  killed in between leaves a key that later runs keep as it is; `PrivateUnlessCut`
  excepts exactly these.
- For an odd IPv4 /32 the broadcast correction of `addr.rs:102` changes the network
  itself. The daemon generates IPv6 addresses only; `HasHostBits` excludes the case.
- Peer names that differ only in case share one DNS entry (`dns.rs:26`): the last to register
  has it, and the first session to return removes it for both. The instance of `Names` has
  such a pair; `ResolvesToReachable` then says that an answer is that of one of the two.
- The suffix is used as it is spelled in the configuration (`config.rs:141`, `dns.rs:20`), while
  the queries that `resolve` sees are in lower case. With `matches_suffix` comparing exactly,
  which is how it is modelled, no name under a suffix with an upper-case letter resolves,
  while `DESIGN.rst:102` says that `alice.<suffix>` does. The first half of
  `ResolvesToReachable` therefore requires a suffix in lower case.
- `DESIGN.rst:131-134` says that on a platform without a host integration "the in-process
  resolver still answers queries sent to it directly"; `main.rs:177-181` refuses to start
  there with a `[dns]` section (`HostDns` needs `Linux`).
- `DESIGN.rst:110-112` says that the resolver configuration is withdrawn "on shutdown"; `main.rs`
  has no such call, and drops its handle right after `set` (`main.rs:164-173`).
- While the connection served has no selected path, or one without `stats()`, the gauges of the
  path keep the numbers of an earlier connection (`peer/conn_metrics.rs:121-128`).
- An attempt of `retry_on_windows_not_found` may begin after the budget when a sleep ends late;
  the budget limits which sleeps are begun.
- On Windows removing a route that does not exist looks like an adapter that is not
  ready, and is retried for the whole budget while the relay's mutex is held.
- The comment at `tun/packet.rs:171` says that a reply is not used yet; `main.rs:274` uses it.

*Bounds.* `MaxConn` bounds the connections a link makes; two let a reconnection find
parked entries, drop addresses and add others, and let an ended connection be
confused with its successor; in `tasks` two exporters let an old one write after its
successor, with the paths of both changing.
Two callers give contention for the mutex and, in `relay`, for the same address. Two
addresses give partial failure of a batch. `MaxDrift` bounds the batches that fail in a
behaviour, two, so that the drift of one adds to that of another. `sessions_live` has one
address per peer and only the fault that makes `reconcile` fail. The two addresses of one
peer are interchangeable (`AddrSymmetry`, used in `sessions` only, which checks no
liveness). `relay` has one value per peer, since no relay operation compares values.
A pool of three, channels of one and a send buffer of two let each be the one that is
full first. `MaxArrivals` fills the listener's channel, the router's hand and a peer's channel at once.
Three keys let a configuration go from one path to the other and back. In `algorithms`
the widths are the smallest with a network, a subnet and a host part, a header checksum
that wraps, and a budget of several delays; `MaxLate` lets a sleep end after the budget. `MaxLen` is the longest registered name with
its suffix, and two of the three peers have one name in two spellings.

*Deadlock.* Checked in `relay`, `data_plane` and `startup`. The others switch it off because
the system may rightly stop: when every session has ended, both handshakes are over,
the pool is gone with its buffers, or an algorithm has returned.

*Fairness.* In every module: weak fairness of each task's own progress (tokio polls a
woken future). Besides, where a liveness property needs it:

- `Sessions`: the OS handles each address's requests; a link notices that its connection
  is closed; a handshake and `recv_loop` fail on a closed connection. A handshake on an open
  connection is not assumed to end, since `wait_for_direct` is awaited outside the
  timeout (`peer.rs:153`). No connection is assumed ever to be made, and no packet to
  arrive after the TUN device has failed.
- `BufferPool`: owners drop what they hold. `DataPlane` says when they do: the transport sends
  what is queued or the connection is given up, and the device takes packets.
- `Handshake`: the transport delivers, or reports the connection closed. No direct path
  need be found, and no deadline need pass, so the two liveness properties do not
  owe their truth to the timeout.
- `IncomingRouter`: a link that has not ended polls its incoming stream.
- `Exporter`: strong fairness of the token's branch, because `select!` picks among its
  ready branches at random.

Each property also has a mutant: a definition next to the action it alters, named in
`PROJECT.json`, under which TLC finds the property violated.

## What is proved

*RelayProofs*, for any sets of callers and addresses and any subset of the OS faults.
`RelaySpec => []RelayInv` and from it the type invariant, `RouteBacked`, `NoOrphanRoute`,
`GuardNeverTrips`, `RollbackIsTotal`, and that the relay implements `Dispatch`. None of them
is inductive: that no route is orphaned when the mutex is released depends on which
requests are still queued while it is held. `RelayInv` adds three things.

- `QueueInv`: the mutex queue holds each caller inside the relay once, and only its
  head is at work.
- `BatchInv`: the futures and queued requests in existence are those of that caller's
  batch, in one of a few shapes (an add; a removal; an add of a dropped future
  followed by its removal).
- `OsInv`: wherever nothing is under way, the map and the OS table agree up to refused
  removals.

The proof has one lemma per action; the steps that only move the queue, and the two
OS steps, share lemmas. The assumption is `RelayAssumption`: the constants have their
kinds, and the markers `NoEntry` and `Parked` differ from each other and from every value.

*RouteGaugeProofs*, for finitely many addresses. Every step of the relay is for the gauge
one of six kinds (`SameCounts`, an add counted, removals seen, a batch failed, an add or a
removal handled by the OS). `GaugeInv` accounts for removals that have succeeded and are
not seen, for adds that have been answered and not counted, and for those of dropped
futures still to come; what a failed batch may add to
the drift is then at most the number of addresses, because these two sets are disjoint.

*SessionsProofs*, for any peers with disjoint addresses. `RelayStepOrStutter` shows that each
step of the sessions is a step of the relay or leaves it alone, which gives
`Spec => RelaySpec` and the relay's invariant for free. `SessionInv(p)` then says, for
each place inside a call, which entries session p has in the relay and with which
value. `UntouchedInv` shows that a step that leaves p's state and p's addresses alone
keeps it, so each action lemma is only about the session that moves. The safety
properties of `sessions` follow, and `ServedMeansConnected` and `NameFollowsRoutes`.

*BufferPoolProofs*, for any number of buffers of any size. `PoolInv`: the channel holds the
free buffers, each once; owned buffers are counted. From it: `NoForeignBytes`,
`ReclaimFindsRoom` (the "can't happen" of `drop` cannot happen), `ActiveCountsOwned`,
`StarvationShown`. The last needs `ReportInv`: nobody but `pop` takes from the channel, so
what `pop` is about to report is still there.

*DataPlaneProofs*, for any connections, packets and capacities. `LineInv` has the types and
`WaitersInLine`: every `recv_loop` that waits for the tx channel is in line once, and the
line is empty unless the channel is full. A step of the relay changes none of it.
`BufferInv` adds where the buffers are, which gives `BuffersConserved`. The datagrams queued
on all connections are one set, of pairs of a connection and a place in its send buffer;
lemmas say by how much a send, a transmission and a closed connection change its size
(`DatagramQueued`, `DatagramSent`, `SendBufferDropped`), and `SendPacketSettles` that each way
out of `send_packet` gives its buffer to the pool or to a send buffer. The set stays finite,
however many connections there are, since a step queues at most one datagram. The
invariant also needs the table's type: what `get` returns has a send buffer.

*HandshakeProofs*, for any requests and allowed networks. `HandshakeInv` says what must have
happened for a half to be where it is (`SuccessInv`), that nothing is on a response stream
before its request was handled, nor ever after a rejection (`ResponseInv`), and why
a half has failed (`FailureInv`). The three safety properties follow; the rejection
needs `ResponseInv`, since the rejected node may be about to read.

*MainProofs*, on what `main.rs` starts.

- `Startup`, for any number of keys, on either platform. `StartupInv`: what `generate` has
  found out is still so when it acts on it; the daemon's steps come in order; a
  readable key is being restricted or its writer was cut short. From it `PrintedIsStored`,
  `RunningIsComplete`, `PrivateUnlessCut` and `KeyKept`. It rests on there being one process.
- `IncomingRouter`, for any peers and keys, shared keys included, and any capacities.
  `DeliveredInOrder` and `Accounted` (no accepted connection vanishes, none of a configured
  peer is refused) are inductive together with what `RouterInv` adds: nothing is accepted
  before all are registered, a channel is registered under the key of its peer, and what
  `dispatch` has in hand has a channel. The order is that of one sequence, a link's
  connections followed by those still on their way; `AscendingConcat` and `MovedToLink` say
  how it is cut when a connection moves from one part to the other.
- `Exporter`: an exporter still at work is that of the connection served or is cancelled
  (`ExporterInv`). `TasksInvariant` is both, for the specification that the run checks.

*AlgorithmsProofs*.

- `Retry`, for any budget, delays, durations and lateness. `RetryInv` relates the last answer
  to when the adapter was ready and to the budget; `ReadyInTimeSucceeds` follows.
- `Ecn`, for any threshold, any number of queues and any header. `SignalUnderstood` is
  inductive with the types. `DropsLinearly` counts the random numbers that refuse: they
  are an initial segment, as long as the quotient rounded up.
- `Addr`, for any widths, prefix lengths, keys and signatures; 128, 48 and 16 are one case.
  `Pow2Def` shows that `Pow2` satisfies its recursion and `Pow2Sum` that it turns sums into
  products; both are inductions, done on sets of numbers from the existence of a least
  one (`LeastNumber`). `NetParts` splits an address into a multiple of the host size and a
  rest below it. Then generation depends on the truncated network only
  (`GeneratedFromTrunc`), it stays inside that network, the corrected broadcast address
  included (`GeneratedInNet`), and `VerifiesGenerated` makes the two
  directions of `GeneratedAloneVerifies`. `SubnetParts` places a subnet in its half of the
  prefix, which is `ConfigurableIsAcceptable`.
- `Names`, for any peers, labels and suffix, names that differ in spelling only included.
  `NameSplit`: a name that ends in the suffix is what is before it, and the suffix.
  With it `ResolvesToReachable`, a property of steps, follows from `NamesInv`: what is stored
  under a name is what a peer of that name registered last, and nothing of an unambiguous
  peer is missing (`NamesInvariant`). `LowerSuffix`: a suffix that matches is in lower case.

*Only model-checked.* The liveness properties (`CallsReturn`, `DeadConnectionIsDropped`,
`SessionEnds`, `StarvationEnds`, `ReaderServed`, `SendersServed`, `TunFailureEndsAll`,
`ClosedEndsHandshake`, `BothSucceed`, `EveryConnectionSettled`, `GaugesFollow`): TLAPS does not
reason about fairness or ENABLED here. Every invariant and every action property of
a passing run, and the two refinements, are proved.

## Not modelled

- `recv_control_loop` in `peer.rs`: no code of the daemon calls it.
- The bytes of things: TOML, DNS messages, protobuf, IP headers, ICMP replies, keys. They
  are the work of libraries; which input is accepted and what follows from it is
  modelled.
- `error.rs`, and counters that are only incremented: labels and numbers that no code
  reads. Logging.
- The platform layers under `osal/`: thin calls of the OS, present as steps that succeed or
  fail. `is_tun_transient` is in `DataPlane`.
- The QUIC stack and `iroh_persistent`, except for what the code relies on.
- Command-line parsing, the metrics endpoint, and the tests.
