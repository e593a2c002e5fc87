# l3_extract, verified

TLA+ specifications of l3_extract, model-checked with TLC and proved with TLAPS.
The crate turns the packets of a layer-3 device into async TCP streams and UDP
sockets. smoltcp does the protocols; what the crate adds, and what is verified
here, is the machinery between smoltcp's one thread and the users' many: an
event channel, an event loop that applies operations to sockets, wakers that put
operations back into the channel, and tables that say which handle is what.

Paths are relative to the repository (`src/tcp_stack/mod.rs` and so on);
`PROJECT.json` gives the lines of every definition.

## The system

| Component | State | Operations |
|---|---|---|
| `TcpStack` (`tcp_stack/mod.rs`) | `socket_set`, `socket_handles`, `accepted_udp_sockets`, the virtual interface | `drive_once`: a packet, the poll, then a batch of events |
| `TcpStream`, `UdpSocket` (`tcp.rs`, `udp.rs`) | a handle, a sender of the event channel | `read`, `write`, `shutdown`, `recv`, `send`, `Drop`; `read_exact`, `write_all` |
| `TcpAcceptor`, `UdpAcceptor` | a channel of `TcpInfo` / `UdpInfo` | `poll_next` |
| `notify_channel` and `EventGenerator` | a crossbeam queue, an `Event` | `send`, `wait`, `collect_nonblock`, `generate` |
| `wake_once_fn` (`wake_fn.rs`) | a closure and an `AtomicBool` | `wake`, `drop` |
| `SharedBuf` (`shared_buf.rs`) | the user's buffer behind an `Arc` | casts back to the buffer (`mod.rs` 1042-1056) |
| `VirtualInterface` | two packet queues | `receive`, `transmit`, `push`, `pop_all` |
| builder, `parse_packet` | none | `build`, packet classification |
| driver loops (`run_stack` of the examples) | three flume channels, the sleep | tasks that read and write the tun, run `generate`, and run `drive_once` |

How they interact. A user's `read` puts a `Read` event, with a buffer and the
sender of a result channel, into the event channel and awaits the result. The
generator collects what is queued into a batch, the driver gives the batch to
`drive_once`. There a `Read` either moves data and answers, or registers a
waker whose closure owns the event and sends it again. So the one thing that
can answer a future travels: channel, batch, waker, channel. `Ready` (a
connection is to be announced) and `Close` (a stream was dropped) travel the
same way, and they are the only things that lead to a socket's acceptance and
removal.

What is hard to test: users, wakers and the loop interleave at every send; the
events of a batch are applied in another order than they were sent (`Ready`,
`Shutdown`, `Close` first); a socket has one waker per direction, and
registering drops the previous one with all it owns; handles are reused; a
future may be cancelled and leave its event behind; connections change between
the moment a `Ready` event is sent and the moment it is handled; the stack, the
generator and the acceptors may be dropped at any time; buffers are shared
between a future's thread and the driver's, and taken back on the strength of a
reference count; the driver sleeps, and any of its four tasks may end. `hazards`
in `PROJECT.json` lists them line by line.

What makes each part correct:

* channel: no wakeup lost, every message once and in order, all delivered;
* event loop: one answer per operation; nobody waits for what is there already;
  tables that match the socket set; every socket announced at most once, owned
  by somebody until it is removed, and removed in the end; data delivered to
  its own stream;
* wakers: a closure is used up exactly once, run or destroyed;
* operations: a buffer is taken back when nobody else refers to it; bytes keep
  their order over the rounds of `read_exact` and `write_all`; what a call
  reports is what happened;
* driver: no sleep on work to do, no starved channel, no packet left inside, and
  the end of the reader ends the driver, the end of the driver ends the writer and
  is told to every operation.

## The modules

* `EventQueue` - the abstract channel: senders append, `Deliver` hands over all
  that is queued and never nothing, `Fail` is the error that no sender is left,
  `Close` the drop of the generator.
* `NotifyChannel` - the channel and `generate` as they are. One action per atomic
  access to the queue or the `Event`: `Push` and `Notify` are the two halves of
  `send`, `Check`, `Listen`, `Recheck`, `Wake` the lines of `wait`, `TryRecv`,
  `Return`, `Disconnected` the loop of `collect_nonblock`. `Cancel` drops the
  future at its await. It implements `EventQueue` under the mapping
  `pending <- items \o queue`, `delivered <- out`.
* `WakeOnce` - `wake_once_fn` composed with `NotifyChannel`: some of the channel's
  senders are owned by closures inside wakers. `Clone`, `Take` (the
  `compare_exchange`), the steps of the closure, `Release` of a handle and
  `Destroy` (`AtomicOption::drop`) of each handle interleave with everything
  else.
* `Operation` - one stream's futures and the buffers they lend: `read`, `write`,
  `read_exact`, `write_all`, `SharedBuf`, the casts, and `handle_tcp_wake_event` at
  the grain of single drops and sends. `owns` is what is left of an event, its
  reference to the buffer and its `result_tx`; `at` is where it is; `Busy` keeps
  the driver's thread sequential, while futures and foreign drops (`"lost"`)
  interleave with it. A byte is its position in the stream.
* `Runtime` - `run_stack`: the tasks, their channels, `drive_once` reduced to
  what they depend on, and the two queues of `VirtualInterface`. `pc` is the
  driver's place in its loop, `sleep` what `drive_once` returned.
* `Smoltcp` - the contract that smoltcp 0.11, a library, is assumed to keep:
  which queries hold in which TCP state, what segments, `close`, timers and the
  UDP egress do, and which changes wake which waker. All its definitions are
  external. A socket is a record; a buffer is how many units are in it
  (`rx`, `tx`); a segment is one of SYN, ACK, DATA, FIN, RST.
* `TcpStack` - `drive_once`, the futures, acceptors, drops and the driver. The
  thread of `drive_once` is split at its loops, since users act in between:
  `Drive...` (packet, new socket, poll), `Egress` (UDP sockets transmit), one
  action per event of the batch (`HandleEvent`), then per event put aside
  (`HandleOp`). `Fail` is the early return with an error, `Free` what dropping
  the stack or a panic frees. `batch`, `tcp_events`, `udp_events` are the local
  variables, `phase` the place in the code. The code's `SocketHandle` is `h`;
  `id` is a history value that tells the sockets of a slot apart and guards
  nothing.
* `MCTcpStack`, `MCOperation` add the symmetry sets of operations and futures.
* `NotifyChannelProof`, `WakeOnceProof`, `OperationProof`, `RuntimeProof` - the
  proofs about these modules. Those about `TcpStack` build on each other:
  `TcpStackProof` (types, tables and wakers), `TcpStackLedger` (what each step does
  with events and wakers), `TcpStackOwnership` (who holds a sender or a socket),
  `TcpStackUse` (what a careful user can rely on).

How they fit together. `TcpStack` is the whole; the others look closer at a part
of it, and what they establish is what `TcpStack` takes for granted: that the
channel is a queue (`NotifyChannel`), that a waker sends its event once and drops
it otherwise (`WakeOnce`), that an answered future gets its buffer and the bytes
(`Operation`), and that somebody calls `drive_once` when there is something to do
(`Runtime`).

In `TcpStack` the channel is a sequence, and a batch any prefix of it (batches
in transit between `generate` and the driver included). That `NotifyChannel`
behaves so is the refinement `ImplementsQueue`.

Abstractions. In `TcpStack` payloads, addresses, ports and lengths are left out; a buffer
moves some units per operation (a read at least one and at most all, a write at
least one and at most the room left). User buffers are not empty. A datagram may
be too long for the reader or unsendable: `HandleRecv` and `HandleSend` may
answer with an error. `parse_packet` is the distinction that it makes: a SYN
without ACK, a datagram, anything else. Port 0, which `listen` and `bind`
refuse, is `BadAddrs`. Retransmissions and time are not modelled, except that
TIME-WAIT ends.

`Operation` has the lengths and positions of the bytes, and of the socket only its
buffers and open directions. An event may be lost wherever `TcpStack` allows it
and its wakeups are arbitrary, so its properties do not depend on `TcpStack`'s.
The fields of an event are dropped in the order of their declaration, as the
language says, and the captures of a closure in the order of their first mention,
as the compiler does it: both put `buffer` before `result_tx`. `Runtime` gives
each user a socket of its own; three kinds of packets come in: data, a segment
that is answered at once, and one that `drive_once` refuses with an error.

## What is checked

Every bound is a constant of the cfg: `MaxSockets` slots, `MaxIds` sockets ever,
`Ops` operations, `RxCap` and `TxCap` units, `MaxSends` messages per sender,
`Handles` per waker, `MaxBytes` of the peer, `MaxQueue` packets in a channel.
`Faults` says what users and owners may do: cancel, run two operations of a
direction at once, drop the generator, the stack, an acceptor.

| Run | Specification | Checks | Shows |
|---|---|---|---|
| `notify` | fair | `NoLostWakeup`, `ExactlyOnceInOrder`, `ClosureOnce`, `ImplementsQueue` | a sender with two messages and a waker with three handles, against one receiver; the refinement includes that what is sent is delivered |
| `use` | fair | `LostOnlyIfGone`, `NoOrphan`, `NoPanic`, `DataReachesReader`, `OpServed`, `LastingIsAnnounced` | TCP and UDP in a program without cancellation and with one operation per direction |
| `faults` | safety | `TypeOK`, `HandleTable`, `OneHolder`, `ParkedBlocked`, `OwnersUnique` | all faults at once, two sockets in turn in one slot, refused packets |
| `release` | fair | `NoOrphan`, `DroppedIsReleased` | dropped streams, with resets and repeated SYNs, leave the socket set if their peers go on and reach them |
| `operation` | safety | `TypeOK`, `BufferExclusive`, `BytesInOrder`, `ReportIsTrue` | two futures of any kind and size on one stream |
| `runtime` | fair | `TypeOK`, `InterfaceDrained`, `WrittenIsSent`, `OpsReturn`, `DataArrives`, `TasksEnd`, `EndIsTold` | the tasks with a reader and a writer, endless packets and operations, and the end of any task |

The bounds are small and the cases happen in them: two sockets reuse
a handle, or put two connections on one endpoint; in `faults` both go through one
slot, so that operations and events of the first outlive it in the slot of the
second (its invariants are all proved for every number of slots); one unit makes a buffer full and empty; two operations
overwrite each other's waker, or read and write at once; three handles of a waker
wake, wake again and are dropped at once; a buffer of two bytes takes two rounds
of `write_all` through a transmit buffer of one, and one of `read_exact` or two,
and a buffer of none is the edge case of both; three bytes let two reads share a
stream. In `runtime` a channel of one packet at a time is always full again, which
is what starvation needs. `use` has no RST: connections end by FIN and by
time, and `release` and `faults` have both. Every action of every module fires in
some run. Each property is broken by a mutant of the code, listed in
`PROJECT.json`. Deadlock is not checked: when peers, users and the bounds allow
nothing more, the system rests.

Fairness. `NotifyChannel` and `WakeOnce`: a started `send` and a started `wake`
end, and `events_task` calls `generate` in a loop. `TcpStack!FairSpec`: the driver
is woken by a batch and hands it to `drive_once` (`drive_task`), and `drive_once`
runs to its end. Nothing makes anybody drop a batch for a driver that has ended,
and `OpServed` is about a stack that is up. `PeersGoOn`, the premise of
`DroppedIsReleased` and part of `PeerFairSpec`, adds that a peer acknowledges
and finishes, and that the driver does not sleep longer than the delay that
`drive_once` returned, so that TIME-WAIT ends. It is kept apart because a FIN
that must come would hide a lost wakeup. `Runtime!FairSpec`: the executor runs
every task that can go on, and a sleep ends. All of this is weak fairness. The one
strong fairness is that of `SelectFails`: flume's `Selector` starts at a random
channel, so a driver whose packets have ended notices it although batches never
stop. No other property needs it; that neither channel starves the other follows
from the `try_recv` after each selection. Users, peers and the tun are never
obliged to do anything.

`EndIsTold` leaves out operations in a batch that the driver has not received when
it ends: flume keeps the batch as long as `events_task` has the sender, which it
drops after its next failed send. If no further event comes, those operations
wait.

`TasksEnd` says what the tasks do by themselves. The end of the writer is noticed by
the driver with the next packet it forwards, the end of the driver by the tun
reader with the next packet it reads and by `events_task` with the next batch; if
there is none, these go on waiting.

`NoOrphan` says that a socket has an owner, not that the owner gets to act: the
listener that a repeated SYN leaves behind, and a connection as in `early_fin`, keep
their `Ready` in a waker that nothing wakes.

`DroppedIsReleased` has a premise besides the fairness of the peers: again and again
no socket in a lower slot has the connection too (`Shadowed`). The next section says
how one gets there; as long as it has the connection, the peer's segments go
to it and not to the socket that is being closed. With three sockets through two
slots the run has such takeovers, for a time and for good. Its segments carry no
data, on which closing does not depend. Without operations and datagrams it also
passes with four sockets, with three slots, and with two peers.

`LastingIsAnnounced` is about connections that stay
established; for the others the next section applies.

## Where the code disagrees

Runs with the expectation `violation`; TLC's trace is the scenario.

* `two_reads` - two reads of one stream at once: the second drops the first's
  waker, which reports BrokenPipe. `tcp.rs:78` holds that only a dropped stack
  or generator can do this, and the README that streams can be used
  concurrently. `write` and `shutdown` collide in the same way.
* `early_reset` - SYN, data and RST before the `Ready` event is handled:
  `may_recv` holds, since data is left, but the socket has no peer any more, and
  `mod.rs:480` panics.
* `early_fin` - SYN and FIN before `Ready` is handled: CLOSE-WAIT, nothing to
  read. The stack waits for a receive wakeup that never comes; the connection
  is never announced.
* `cancelled_read` - a cancelled read in the batch of its stream's `Close`. The
  `Close` is handled first and waits on the receive waker; the read then
  overwrites it. The socket stays for ever.
* `reused_handle` - a cancelled `recv` parked on a UDP socket is put back into
  the channel by the socket's `close()`, and takes the first datagram of the
  next socket in the slot.
* `shutdown_after_reset` - `shutdown` of a connection that the peer reset waits
  for a wakeup that `close()` on a closed socket does not give.

Not runs of their own:

* Dropping the last sender notifies nobody, so `generate` sleeps on instead of
  returning the error that `collect_nonblock` prepares.
* `init_tcp` adds a listener for every SYN and does not ask whether its connection
  exists. Let two connections be in slots 0 and 1, and the first be closed and
  removed. A repeated SYN of the second makes a listener in slot 0, which comes
  first and takes it, and with it all that the peer sends from then on. This is the
  state that `Shadowed` describes; without it as a premise `DroppedIsReleased` fails in
  the run `release`.

## What is proved

For all values of the constants, under the assumptions next to their
declarations: capacities at least 1 (`CapAssumption`; in `Operation` only
natural numbers, `CapsAssumption`, like the `Lens`), bounds natural numbers
(`BoundAssumption`, `MaxSendsAssumption`), `None` not an address, a connection,
an operation or a future, segments and faults among the ones defined, and the
senders in wakers among the senders (`WakersAssumption`).

`NotifyChannelProof`
: `WakeupSafety` (`NoLostWakeup`) and `ChannelSafety` (`ExactlyOnceInOrder`).
  `NoLostWakeup` is not inductive: the receiver may be about to sleep. The
  invariant adds that between its registration and its sleep it has looked at
  the queue, and that a listener exists exactly between `Listen` and `Wake`. For
  the order, the invariant says that `Log`, `out \o items \o queue`, only ever
  grows at its end, and by the next message of its sender. `QueueRefinement`
  shows step by step that the channel implements `EventQueue`: `Push` is the
  `Send`, `Return` the `Deliver`, and everything between is invisible. It needs
  from the invariant that `collect_nonblock` is entered with something to collect,
  since a delivery is never empty.

`WakeOnceProof`
: `WakersUseChannel`, that every step of the composition is a step of
  `NotifyChannel`, whose theorems so hold with wakers too, and `ClosureSafety`
  (`ClosureOnce`). The invariant says that at most one handle runs the closure
  and that whoever finds itself last is alone (`OneRunner`), that nobody runs it
  and nothing was sent before `used` is set (`FlagInv`), and where the closure is:
  in the `Arc`, with the thread that runs it, or nowhere (`ClosureInv`).

`OperationProof`
: `BufferSafety` (`BufferExclusive`). The invariant says of every event where it is
  and what is left of it: the buffer and the sender while it travels, never the
  buffer without the sender (`EventInv`); that a future which is not waiting, or
  has an answer in its result channel, has no event left (`FutureInv`); and that a
  waker owns an event of its own (`WakerInv`), without which waking or dropping one
  could touch an event that is elsewhere. One lemma per action.
  `OperationTypes` (`TypeOK`) and `BytesSafety` (`BytesInOrder`) rest on `BytesInv`,
  which says where the bytes of a future are: `Done`, the bytes reported and the
  bytes moved since the last report, is where the next byte goes; what a read has
  is a rising sequence of positions that no other future has (`ReadOK`,
  `Spread`), and what a write has sent are its first `Done` bytes, so that the
  cardinality in `BytesInOrder` is that of an interval (`WriteOK`).
  `ReportSafety` (`ReportIsTrue`) adds `ReportInv`: an answer on its way says what
  moved, and an end of stream is reported only when there is no more to read.

`TcpStackProof`
: `TypeCorrect` (`TypeOK`), `TablesCorrect` (`HandleTable`) and `NobodySleepsServed`
  (`ParkedBlocked`). `Typed` adds to the types that a loop of
  `drive_once` is entered only with an event to look at (`PhaseOK`), without
  which `Head(batch)` is not known to be an event. There is one lemma per
  operator of `Smoltcp` and one per group of actions.
  `Safe` states the tables pointwise (`Describe`), and adds that a UDP socket has
  no TCP state: that is why `handle_close_event` removes it at once and why a
  parked `Close` belongs to a closing TCP connection. The steps of a socket are
  of two sorts: those that the tables do not see (`Same`), and adding or removing
  one (`AddedDescribed`, `RemovedDescribed`). `BlockedSteps` shows for each
  smoltcp operation that it wakes what it serves, `MoveSafe` that moving data
  needs data or room that nobody waits for.

`TcpStackLedger`
: no theorem of its own, the bookkeeping for the next module. `Held(S)` counts the
  events and wakers in a set `S` over the channel, the local variables of
  `drive_once` and the slots of the sockets. `Ledger(gone, e, w)` says of a step
  that for every `S` the count changes by what left (`gone`, and `e` if a handler
  used it up) and by what came (`w`); `Spends` adds that exactly the operations
  that `gone` answers are settled. One lemma per action says which ledger it
  keeps. It needs `Tidy`: empty slots have no wakers, a waker names the socket it
  is registered with and is in the slot of its direction, and a loop of
  `drive_once` has only the events of its place in the code.

`TcpStackOwnership`
: `HolderSafety` (`OneHolder`): the inductive invariant `AnswerInv` says of an
  operation `o` that as many events and wakers carry its sender as its state
  allows (`Accounted`: one if it is pending, at most one if it was cancelled, none
  if it has its answer), and that only events of operations carry one
  (`AllShaped`). With the ledger of `NextFlows` this is counting: whatever an
  action drops, it drops the sender with it. `OwnerSafety` (`OwnersUnique`): `OwnershipInv`
  counts in the same way what owns socket `id` (`Ready` and `Close` events and
  wakers, announcements in the acceptors' channels, streams): at most one, and
  none of a socket that was not made yet (`OneOwner`); while the stack is up each
  of them finds its own socket at its handle (`Named`). The second part needs the
  first: `SocketSet::remove` by one owner would leave the others with a stale
  handle.

`TcpStackUse`
: what holds for a careful user; the hypotheses say what that is, and all of them
  are met by the run `use`. `ReaderSafety` (`DataReachesReader`) and `LossSafety`
  (`LostOnlyIfGone`): `reused_handle` and `two_reads` show data and results going
  astray without them. `ReaderSafety` assumes that nobody cancels. Then an event of an operation, wherever it is,
  belongs to a stream that is still there and to a future that still waits
  (`AllManned`); the stream names its own socket
  (`OwnershipInv`), so the handle of the event does too. `LossSafety` also assumes
  one operation per direction of a stream and no packet to port 0, whose refusal
  makes `drive_once` return and drop its batch. Two operations in the stack are then
  of different streams or directions (`Apart`), and as long as a stream owns its
  socket no `Ready` or `Close` of that socket is under way (`OneOwner`). So the slot
  in which a handler puts its waker has no waker of another operation (`OpAlone`,
  `OwnerAlone`), and `Remove`, which `Close` calls, frees none.
  `OrphanSafety` (`NoOrphan`) is the converse of `OwnersUnique`: not at most one
  owner but at least one (`Anchored`). It assumes no cancellation (`cancelled_read`
  shows the socket that is left without), a generator and acceptors that stay, since
  events and announcements are lost with them, and no packet to port 0, since the
  early return drops the `Ready` and `Close` events of the batch. Concurrent
  operations and a dropped stack are allowed. The danger is the waker that a handler
  replaces. If it is an owner, it owns the socket it is registered with (`SlotOwner`).
  An operation that is handled belongs to a stream (`OpOwned`), which owns the
  socket too, so by `OneOwner` no owner was parked there. A `Ready` or `Close` that
  parks itself is the owner, and still there after the step (`OwnerParked`). A packet
  moves owners from wakers to the channel (`DriveOwned`); the only owner used up
  without a successor is a `Close` that removes its socket (`HandleCloseOwned`).
  `PanicSafety` (`NoPanic`) assumes no cancellation and no RST: `early_reset` is the
  panic that a reset causes. `handle_ready_wake_event` can panic because the handle
  is gone, or because the socket has no peer. The first is excluded by `Named`, and
  the second by `ReadyFresh`: as long as its `Ready` is under way, a socket has no
  other owner (`SoleOwner`) and no operations (`OpNotReady`), so nobody has closed it;
  what remains are the segments of the peer, after which it is in LISTEN without data
  or has a peer (`ProcessFresh`, `DriveFresh`).

`RuntimeProof`
: `RuntimeTypes` (`TypeOK`) and `DrainedSafety` (`InterfaceDrained`). `Drained` says at
  which places of the driver's loop each of the two queues may hold packets; the
  types of what is forwarded depend on it.

Every invariant and every action property that a passing run checks is so proved,
with the hypotheses above for the four about careful users. Only model-checked: the
liveness properties, and the fairness of `ImplementsQueue`, which are beyond the
prover.

## Not modelled

What `build` refuses, the setters, the interface's addresses and routes, checksums
and MTU: they configure smoltcp's `Interface`, and nothing in the crate's own
state depends on them. The header checks of `parse_packet`, which are smoltcp's.
Retransmission and time in numbers. The addresses that streams report, logging,
the tun device and netlink code of the examples, and their assertions. `Operation`
has TCP's operations; `recv` and `send` lend their buffers in the same way, and
the handlers let go of them in the same order on every path.

## Plan

1. Done: `NotifyChannel`, `Smoltcp`, `TcpStack`, their runs and proofs; then
   `EventQueue` and the refinement, `WakeOnce`, `Operation` (buffers, casts and the
   loops of `read_exact` and `write_all`), `Runtime` (the driver, its tasks and
   `VirtualInterface`).
2. Done: the proofs of `OneHolder` and `OwnersUnique` for `TcpStack`, of `TypeOK`,
   `BytesInOrder` and `ReportIsTrue` for `Operation`, of `TypeOK` and
   `InterfaceDrained` for `Runtime`.
3. Done: `DataReachesReader` and `LostOnlyIfGone` for the users for whom they hold.
4. Done: `NoOrphan` and `NoPanic`, with the hypotheses that they need.
