# mio 0.6.4: a TLA+ verification project

mio is a non-blocking I/O library. A `Poll` multiplexes operating-system
readiness (epoll, kqueue, IOCP through the `Selector` of each platform) with
user-space readiness that any thread may set. This directory holds TLA+ models
of the parts of mio whose correctness depends on the order in which threads and
callbacks run, TLC configurations that check them on small instances, and TLAPS
proofs of the properties that matter most for every instance.

`PROJECT.json` lists the components, the runs, the source lines every definition
models, the mutants that show that each property can fail, the findings, the
hazards and the theorems.

## The system

| part | source | module | status |
|------|--------|--------|--------|
| `Poll`, `Registration`, `SetReadiness`, readiness queue | `poll.rs`, `event.rs` | `ReadinessQueue` | modelled, checked, proved |
| what these promise to the code that uses them | the same | `Readiness` | implemented by `ReadinessQueue` (checked, proved) |
| unix `Awakener` | `sys/unix/awakener.rs` | `ReadinessQueue` | modelled |
| `channel` | `channel.rs` | `Channel` | modelled, checked, proved |
| `Timer` and its wakeup thread | `timer.rs` | `Timer` | modelled, checked, proved |
| `EventLoop`, `Handler`, `Sender` | `deprecated/event_loop.rs` | `EventLoop`, over `Channel` | modelled, checked, proved |
| `SelectorId`, registration of `net::{TcpStream, TcpListener, UdpSocket}` | `net/`, `poll.rs` | `SelectorId` | modelled, checked |
| epoll selector | `sys/unix/epoll.rs` | `Epoll` (operators), `SelectorId` | modelled, checked |
| kqueue selector | `sys/unix/kqueue.rs` | `Kqueue` (operators), `SelectorId` | modelled, checked |
| `Binding` of a socket to a completion port | `sys/windows/selector.rs` | `SelectorId` | modelled, checked |
| `ReadyBinding`, reference counts, buffer pool | `sys/windows/` | `ReadyBinding` | modelled, checked, proved |
| TCP streams and listeners over IOCP | `sys/windows/tcp.rs` | `WindowsTcp` | modelled, checked, proved |
| UDP sockets over IOCP | `sys/windows/udp.rs` | `WindowsUdp` | modelled, checked, proved |
| all Windows objects with kernel, poll and user | `sys/windows/` | `WindowsIo` | composes the three above |
| descriptor wrappers, `TryRead`, `IoVec`, `Token`, helpers | the rest | | keep no state |

The parts meet at `SetReadiness`. A channel's senders and a timer's wakeup thread
are threads that set the readiness of a registration; the owner of the `Poll`
learns of it from `Poll::poll`. `EventLoop` puts a channel and a timer behind one
`Poll`. On Windows every socket is also a registration, and the completion
callbacks of IOCP set its readiness. `Readiness` is the common ground: `Channel`,
`Timer` and `ReadyBinding` treat `set_readiness`, `update` and a look by `poll` as
the single steps it describes, and `ReadinessQueue` is shown to implement it.

## Conventions

An atomic access to shared memory is one action; what a thread does between two of
them touches only what it owns and belongs to the action before or after. Threads
have a program counter (`pc`, `rpc`, `tpc`) named after the next access. Memory is
sequentially consistent. Definitions keep the names of the source where they can.
A definition whose comment starts with "Mutant" is the code with one plausible
mistake; no specification uses it.

## ReadinessQueue

Registrations that are not file descriptors live in `ReadinessNode` cells. A
thread with a `SetReadiness` stores the node's `events` (`SetReadiness`), wins the
node's `queued` flag with a CAS (`CasQueued`) and prepends the node to the
lock-free list at `head_readiness` (`LoadHead`, `CasHead`). If it replaced the
sleep token it writes a byte to the awakener's pipe (`Wakeup`). The last handle to
go does the same with the drop event (`RegistrationDrop`, `SetReadinessDrop`,
`StoreDrop`).

The owner of the `Poll` calls `poll` (`PollStart`); over an empty queue it tries to
replace null by the sleep token (`PrepareForSleep`). `select` returns with the
awakener's event (`SelectAwoken`), with something else or a timeout
(`SelectOther`), or fails (`SelectInterrupted`). Then the pipe is drained
(`Cleanup`), the list taken (`TakeReady`), and for every node (`NextNode`) the
events are read (`LoadEvents`), a drop is recognised (`DecideDrop`), the flag is
reset and the events read again (`Dequeue`, `Reread`) or the node is prepended
again (`Requeue`), and the node is freed or reported (`ProcessDrop`,
`ProcessEvent`).

State: `head`, `next`, `queued`, `events` are the atomics and links of the source;
`interest` and `opts` are `RegistrationData`; `refs` is `ref_count`; `pipe` and
`edge` are the bytes in the pipe and epoll's edge-triggered view of it. `handles`
and `regOwner` say which threads hold which handle, `alive` which nodes are
allocated. `owed` (readiness stored and not yet looked at) and `armed` (registered
and not yet disarmed) are history.

Left out: tokens, the error for a registration moved to another `Poll`, and
dropping the `Poll` itself. `NODE_QUEUED_FLAG` is the only value of `queued` but 0.
`LastDroppers` says which threads may drop a node's last handle: see
`rq_drop_race`.

## Readiness

The calls of `Registration`, `SetReadiness` and `Poll` as single steps: `Set` stores
the readiness and, unless it is empty, leaves a note that `poll` has to look;
`Update` does so for a registration that is ready; `Look` reports what is ready and of
interest at that instant, disarms a one-shot registration and may take the note away;
`LastDrop` and `Free` end a registration.

`ReadinessQueueRefinement` gives the mapping. The note of a node is its `queued` flag,
or a thread about to set it, or `poll` about to read the events again. `poll` takes
effect when it reads the events for the last time (`Settled`): from then on the
report is what it holds in `evs`, and one-shot data it is about to disable
(`Spent`) is gone. The mapping uses no history variable.

`Look` may leave the note although nothing was set since. The code does that: a setter
that stored before `poll`'s last read and wins the flag after it queues the node once
more, so an edge can be reported twice. It also allows the note to go for a
level-triggered registration (see `LevelStaysQueued` below). `Channel`, `Timer` and
`ReadyBinding` leave the note open after every look for the same reason.

## Channel

`Send` is the enqueue of `std::sync::mpsc`, which is external: the model keeps how
many messages it holds and who is blocked. `IncFetchAdd` and `IncSetReadiness` are
`SenderCtl::inc`; `SenderDrop` and `SenderCtlDrop` are the two fields of a sender
going away; `DecLoad`, `DecUnset`, `DecFetchSub` and `DecReset` are
`ReceiverCtl::dec`; `Register` and `RegisterFill` are the two halves of `register`,
before and after the count is read. `pending` is a counter modulo `W`, because
`try_recv` may overtake `inc`. `set_readiness` and `poll` are one step each here, as in
`Readiness`.
`told` says that the user was given an event and has not yet seen `try_recv` fail.

## Timer

`entries`, `head`, `nextTick`, `tick` and `next` are the wheel. `SetTimeout`,
`CancelTimeout` and the steps of `poll_to` (`PollStart`, `PollTick`, `PollFire`,
`PollSkip`, `PollNone`) belong to the owner, as do `SchedLoad`, `SchedCas` and
`SchedUnpark` (`schedule_readiness`). `WakeLoad`, `WakeCheck`, `WakeUnpark`,
`WakeSpurious`, `WakeCas` and `WakeSet` are the wakeup thread. Time is `now`, in
ticks. The slab is external and hands out any free token. `Kept` says which ended
timeouts leave a handle behind.

Left out: rounding of durations to ticks, the truncation of a tick to a 32-bit
`usize` in `wakeup_state`, and the end of the thread. The thread ends when
`wakeup_state` is 0, and no code stores 0 there.

## EventLoop

The loop's thread runs `Run`, `PollReturns` (or `PollInterrupted`, `PollFails`),
`Process` for each event, `Tick` and `EndOfTick`. `NotifyMessage`, `NotifyEmpty` and
`NotifyReregister` are `notify`: at most `messages_per_tick` messages, then the
one-shot registration is renewed. `TimerFires` and `TimerDone` are `timer_process`.
A callback runs until `CallbackReturns`, and the handler may call `Shutdown`,
`Timeout`, `ClearTimeout` and `NewSender` meanwhile, as may the user between two runs.

The notification channel is not abstracted. `EventLoop` has the variables of
`Channel`, and every step of it that touches them is an action of `Channel`
(`Chan!TryRecv`, `Chan!Reregister(TRUE)`, ...). The timer is abstracted to timeouts
that become due and make the timer's registration readable, which is what
`TimeoutFires` shows of `Timer`. Descriptors are events that may come with any poll.

## SelectorId, Epoll, Kqueue

A `Poll` is not `Sync` and a socket is, so the threads of `SelectorId` are the Polls.
`register` of a socket is a load of its `SelectorId`, a store, and the selector's own
call (`AssociateLoad`, `AssociateStore`, `SysRegister`); `Reregister` and `Deregister`
go to the selector at once, also for a socket that was never registered. The platform is
chosen at the start:

- `Kqueue`: a selector is the kernel's knotes and the list of changes. `kevent` applies
  changes one by one and stops at the first that fails; `flush_changes` clears the list
  only when all were applied; `coalesce` folds the kernel's events into one event per
  token. The kernel's part is external: a deletion of a filter that is not there fails,
  and any change may fail for want of memory. Its events may carry an error or the end of
  the stream.
- `Epoll`: the conversions between `Ready`/`PollOpt` and epoll's flags, the interest
  list, and `Events`: `select` removes the awakener's event, `push_event` adds the event of
  a registration, `get` reads either.
- completion ports: `Binding`, which remembers the first selector, and `add_socket`,
  which succeeds once for a socket.

`want` is what the last successful call asked for, or unknown after a failed call with
kqueue, which may have applied some of its changes. `raced` and `strayed` mark the two
ways in which a socket can come to two Polls.

## ReadyBinding, WindowsTcp, WindowsUdp, WindowsIo

On Windows an object is a record: the states of its read and write, its registration,
its reference count, and what the kernel has of it. Methods and completion callbacks
hold the object's mutex, so each is one action and the helpers they call are operators
from record to record with the names of the source (`schedule_read`, `post_register`,
`add_readiness`, ...). `ops` are operations in progress, `port` those whose completion
is queued; `Callback` dispatches them in any order. The kernel may accept, complete at
once or refuse what it is given (`ReadResults`, `WriteResults`, ...), input arrives, a
connection is refused, the peer closes or resets.

`told`, `sub`, `late` and `deaf` are history: what the user was told and has not
exhausted, what the user asked for, a stream dropped when its connect had succeeded and
the completion was queued, a listener whose `accept` failed half way. `sub` is set by a (re-)registration that
succeeded.

Assumed of Windows: an accept or a connect never completes at once; a socket is
associated with a port once. Left out: `try_clone`, socket options, addresses, and the
bytes themselves.

## Runs

| run | instance | shows |
|-----|----------|-------|
| `rq_lifecycle` | 2 nodes, 1 setter, edge and level; handles move and are dropped | types, `NoLostWakeup`, `QueuedFlagIsOwnership`, `NoUseAfterFree`, `DroppedNodeIsReclaimed`, `NoLostReadiness`, `RequeueNeedsNoWakeup` |
| `rq_liveness` | 1 node, 1 setter, two kinds of readiness, one-shot, pipe of 2 | `ReportsOnlyArmed`, `QueuedIsPolled`, `DroppedIsFreed`, `ImplementsReadiness` |
| `rq_drop_race` | as above, a setter may drop the last handle | `NoUseAfterFree` fails |
| `ch_channel` | 2 senders, capacity 2, registered at any time, all modes | types, `PendingIsExact`, `PendingIsReadable`, `MessageIsSignalled`, `MessageIsReceived`, `BlockedSendGetsSlot` |
| `ch_register_race` | 2 senders, registered at any time | `RegisterMissesNothing` fails |
| `tm_wheel` | 3 tokens, 2 slots, 4 ticks | types, `WheelIsLinked`, `NothingOverdue`, `StaleHandleIsDead` |
| `tm_wakeup` | 2 tokens, 1 slot, registered at any time | `WakeupCovers`, `ParkIsNotStale`, `TimeoutFires` |
| `win_objects` | a stream, a listener or a UDP socket; two items of input, writes of two | types, `ReferencesMatch`, `CallbackFindsItsOperation`, `InputIsSignalled`, `OutputIsSignalled`, `InputIsTaken`, `DroppedIsFreed` |
| `win_connect_race` | a stream, re-registered before its connect was dispatched | `ElseConnectFinished` fails |
| `win_drop_leak` | a stream, dropped before its connect was dispatched | `DroppedReadEnds` fails |
| `el_loop` | channel of 2, 2 senders, 2 messages per tick, 1 timeout | `MessagesAreNotStranded`, `MessageIsHandled`, `TimeoutIsHandled`, `ShutdownEndsRun` |
| `sel_register` | 2 sockets and 1 Poll, 1 socket and 2 Polls; three platforms | `AsRegistered`, `OneSelector`, `BindingIsPort`, `PollReportsAll` |

### Bounds

Two nodes give the list a link to corrupt and let ABA happen on `head`. One setter and
the owner, which also sets readiness, contend for a flag and for the head; the invariants
are proved for any number of setters. A pipe of one byte is full after one wakeup, which is the case in which `wakeup` drops its
byte; a pipe of two makes it possible to drain more than one. `rq_liveness` has one
node because liveness is checked without symmetry; `ImplementsReadiness` also holds of
the instance of `rq_lifecycle`, where it takes about four minutes.

Two senders are enough for one to be between its enqueue and its count while the other
is blocked or drops the last handle; the safety properties are proved for any number.
`W = 16` lets `pending` wrap below zero while the values on both sides stay distinct.
Two slots and four ticks make timeouts of different ticks share a slot; three tokens
make a list with a middle. For the wakeup thread the wheel only supplies a next tick,
so one slot is enough, with two timeouts for one to be scheduled before the other.

Two messages per tick and a sender that goes on make the loop leave `notify` with messages
left. The Windows objects share nothing but the buffer pool, so each is checked alone;
two items of input and writes of two bytes make reads and writes partial. Two sockets
with one kqueue let the changes of one be applied by a call for the other; a list of
four changes holds the changes of two failed calls. Three events are two of one token
around one of another, or the awakener's. Of kqueue's events at most one, the first or
the last, carries flags, and all of epoll's in one poll report of the same happening
(`Happenings`): an event's flags are converted without regard to the others.

`MaxTick` stops the clock, so a state in which time is up has no successor. The users
of `Channel`, `Timer`, `EventLoop`, the Windows objects and the selectors may stop
calling, so their runs do not check deadlock. The runs of `ReadinessQueue` do.

Symmetry is used in safety runs only, over nodes and setters, over tokens and over
sockets, which the specifications never order.

### Fairness

- `ReadinessQueue`: a thread inside a call is scheduled (weak fairness of `Step`
  and `PollStep`), the owner keeps calling `poll` (strong fairness of `PollStart`,
  because its other calls disable it for a while), and a `select` with a zero
  timeout returns. Nothing is assumed of a blocked `select` other than that it
  reports the awakener, so a lost wakeup shows as a liveness failure.
- `Channel`: calls finish, the owner polls, and a user who was told reads until
  `try_recv` fails, as edge-triggered use requires. A user who was not told need not
  do anything.
- `Timer`: the clock runs, the wakeup thread is scheduled, the owner polls, and
  calls `Timer::poll` until it returns `None` once told.
- `EventLoop`: senders finish their calls, callbacks return, the loop's thread is
  scheduled, and a poll that can return does so, now and then without being interrupted
  (strong fairness of `PollReturns`). Nobody is assumed to send, set timeouts or shut
  down.
- `WindowsIo`: the port dispatches what is queued, the kernel completes what can
  complete, the owner polls and reads what it was told is readable until a call would
  block. The kernel does not refuse every receive or accept it is offered (strong
  fairness), since the code retries only when the user calls again.
- `SelectorId` states no liveness.

## Proofs

The theorems hold for any finite set of setters and senders, any set of nodes, tokens,
slots and Windows objects, any capacity, any pipe and any counter width that satisfies
the modules' assumptions. They state every safety invariant that the passing runs of the
readiness queue, the channel, the timer, the event loop and the Windows objects check, and
the refinement of `Readiness`. Each rests on an inductive invariant that is stronger than the property.

**Readiness queue.** `ReadinessQueueControl` proves the step lemmas of `IInv`,
`ReadinessQueueLists` those of the lists, and `ReadinessQueueProofs` has the theorems.

- `TypeOK` alone is not inductive: `ref_count` stays a natural number only because it
  counts the handles (`RefInv`). `NoLostWakeup` needs to know that the sleep token is in
  the queue only while `poll` may sleep (`SleepInv`), that `select` reports bytes left in
  the pipe unless the owner is about to drain it (`EdgeInv`), and which thread may be at
  which step (`ThreadInv`). From `IInv`: `TypeCorrect`, `PollIsWoken` (`NoLostWakeup`),
  `ReadinessIsKept` (`NoLostReadiness`) and `RequeueAssert` (`RequeueNeedsNoWakeup`).
- `ListInv` is about the two intrusive lists. `Chain(h)` is the least set that holds `h`
  and, with a node, its successor, so a list changes by adding or removing its first
  node and no induction over it is needed. `ShapeInv`: the lists are disjoint and no two
  listed nodes share a successor. `HoldInv`: a node's flag is set exactly when it is
  listed or held by one thread, and its link is null otherwise. `LiveInv`: everything
  pointed to is allocated, because a setter holds a handle throughout `set_readiness`.
  `DropInv` and `ReturnInv`: the drop event is stored once and `poll` never gives such a
  node back. From them: `FlagIsLock` (`QueuedFlagIsOwnership`), `MemorySafety`
  (`NoUseAfterFree`) and `Reclaimed` (`DroppedNodeIsReclaimed`), under the hypothesis
  `LastDroppers \subseteq {PollThread}`: last handles are dropped on the thread of the
  Poll. `rq_drop_race` shows what happens without it.
- `Refinement` proves `ImplementsReadiness` under the same hypothesis. Each atomic access
  maps to a call of `Readiness` or to no step: `set_readiness` takes effect at its store,
  `poll` at its last read of a node's events (`Settled`). Beyond `ListInv` the proof needs
  `LookInv`: the drop event comes alone, and the options `poll` copied are those of the
  registration until it has read the events for the last time.
- `ArmedReports` proves `ReportsOnlyArmed` under `RegThreads \subseteq {PollThread}`: a
  Registration is dropped only on the thread of the Poll, as in `rq_liveness`. Its
  invariant `ArmedInv` says that a disarmed registration has no interest and that what
  `poll` holds in `evs` belongs to an armed one. The hypothesis is needed: with the
  constants of `rq_lifecycle`, where a Registration moves to another thread, TLC finds it
  dropped there after `poll` read its events and before `poll` pushes them, so the event
  of a dropped registration is reported once.

**Channel.** `ChannelProofs` proves `CInv`. Its heart is `CountInv`: `pending` is, modulo
`W`, the messages in the channel plus the disconnect, less those not yet counted, plus one
not yet uncounted. `RecvInv` adds that while `dec` is between its load and its
`fetch_sub`, having seen 1, that balance cannot fall below 1; `SignalInv` and `NoteInv`
then say who will signal. From `CInv`: `TypeCorrect`, `CountIsExact`, `PendingReadable`
and `NothingIsMissed`. `W` is assumed to exceed the messages that can be counted at once.

**Event loop.** `EventLoopProofs` proves `MessagesAreNotStranded`
(`NoMessageStranded`). `ChannelProofs` cannot be applied as it
stands: it counts on a user who reads until `try_recv` fails, and `notify` stops after
`messages_per_tick`. The module instantiates `ChannelProofs` with the loop's one-shot
interest in the place of what the user was told, shows that the loop keeps `CInv` read so
(`ChanInv`), and adds `LoopInv`: the interest is renewed, or `notify` is running or due.

**Timer.** `TimerProofs` proves `Inv`. The lists of the wheel are ordered by a rank whose
existence is part of the invariant (`WheelInv`): inserting gives a new least rank,
unlinking closes the gap, and what is due, or forgotten by its slot's `next_tick`, is at
or behind the cursor of `poll_to`. `FreshInv` says when every `next_tick` is right, and
`CoverInv` and `ParkInv` relate the timeouts to the wakeup thread. Theorems: `TypeCorrect`,
`Linked` (`WheelIsLinked`), `NeverOverdue` (`NothingOverdue`), `Wakeup` (`WakeupCovers`),
`Park` (`ParkIsNotStale`), and `FiredHandleIsDead` (`StaleHandleIsDead`) for handles of
timeouts that fired: a cancelled handle may match a new timeout, see below.

**Windows objects.** `WindowsIoCallbacks` states what holds of one object (`Good`) and
proves that every helper, completion callback, drop and kernel step keeps it;
`WindowsIoProofs` does the same for the user's calls and poll, and lifts it to any set of
objects. `Flight`, `Writes` and `Counted` say that the operations in flight are those the
object's state names and that each holds one reference; `Heard` and `Output` say who was
told. From it: `TypeCorrect`, `References`, `Callbacks`, `Input` and `OutputSignalled`,
under the hypothesis `~Impatient`, which `win_connect_race` shows to be needed.

Only model-checked:

- every liveness property: fairness and `ENABLED` are out of the prover's reach;
- the invariants of `SelectorId`: `AsRegistered`, `OneSelector` and `PollReportsAll`
  depend on what a fold over a sequence of changes computes, which takes an induction over
  data that the installed provers cannot do, and `BindingIsPort` is checked with them.

## Findings

Four runs show the code doing something other than its comments say; `PROJECT.json`
quotes the lines.

- `rq_drop_race`: `RegistrationInner::drop` stores the drop event and then tries
  the CAS on `queued`. If the node was queued already, `poll` can see the event and
  free the node in between. The runs that pass let only the owner of the `Poll`
  drop a last handle.
- `ch_register_race`: a message counted between `register`'s load of `pending` and
  its filling of `set_readiness` is signalled by nobody. The history variable
  `raced` marks this, and the passing runs except it.
- `win_connect_race`: `reregister` of a stream looks only at its read state. While the
  completion of the connect is queued, that state is empty and a read is issued on the
  same `OVERLAPPED`; `read_done` then takes one completion for the other. The other
  Windows runs have `Impatient = FALSE`: their user does not re-register a stream before
  the connect was dispatched.
- `win_drop_leak`: `Drop` of a stream cancels its read or its connect, but a connect that
  has succeeded can no longer be cancelled. Its completion is still dispatched, and
  `read_done` issues a read although the stream has no user. If the peer neither sends nor
  closes, the read stays outstanding and the stream is never freed. `DroppedIsFreed`
  excepts these streams (`late`) and holds of all others, those whose connect was
  cancelled included.

The modules also define properties that fail and have no configuration here. The
constants not named are those of the configuration in brackets.

- `UpdateNeedsNoWakeup` (`rq_drop_race`, `LastDroppers = {p}`): after a failed
  `select` the sleep token is still in the queue, and the `debug_assert` of `update`
  fails.
- `LevelStaysQueued` (the same with `OptChoices <- EdgeAndLevel`): the decision to
  dequeue a level-triggered node uses events read before the CAS.
- `EmptyIsNotReady` (`ch_register_race`, `Modes <- LevelMode`, `Registered = TRUE`):
  a message that is read before it is counted leaves an empty channel readable.
- `BlockedSendGetsSlot` (`ch_channel`, `Bound = 0`, `Registered = TRUE`): `send` of a
  rendezvous channel waits for a receiver before it counts its message, so a receiver
  that waits for `poll` is never told (`channel.rs:32` promises a channel that "can be
  registered with `Poll`").
- `FiresNotEarly` (`tm_wakeup`, `Slots = 2`): `poll_to` leaves the wheel one tick beyond
  its target; a second poll in the same tick, caused for instance by a wakeup for a
  timeout cancelled since, raises its target to that tick and fires its timeouts early.
- `NextTickIsAhead` (`tm_wakeup`, `Slots = 2`): a cancelled timeout leaves its slot's `next_tick`
  behind.
- `NextTickMissesNothing` (`tm_wheel`): inside a slot, `next_tick` can be later than a timeout.
- `StaleHandleIsDead` (`tm_wheel`, `Kept = {"cancelled"}`): a cancelled handle
  matches a new timeout with the same token and tick.
- `OneSelectorEver` (`sel_register`, `Platforms = {"epoll"}`): two overlapping calls of
  `register` with two Polls both find no selector and both register the socket. With
  `{"kqueue"}` a call of `reregister` with another Poll does the same, because only
  `register` asks the `SelectorId` and kqueue adds what is not there. It holds with
  `{"iocp"}`. (`epoll.rs:25`, `kqueue.rs:15`: "the operation will return with an error".)
- `WritableAllowsWrite` (`win_objects`): a write that failed leaves the write state in
  `Error`, which no later call clears.
- `ReceivesIntoBigBuffers` (`win_objects`, `Programs <- StreamAndUdp`): the pool hands a
  small buffer, put back by a failed stream write, to a receive of a datagram.

Some properties are weaker than one would like, because the code is. `PollReportsAll`
allows an event of the readiness queue to lose `Ready::error()` on its way through epoll's
`Events`: `ioevent_to_epoll` has no flag for it. `AsRegistered` says nothing of a kqueue
registration between a call for it that failed and the next that succeeds: a failed
`kevent` leaves its changes in the list, where they make later calls for other sockets
fail or are applied later, and a `deregister` that fails because a one-shot filter is gone
leaves the other filter on. `InputIsSignalled` excepts a listener whose `accept` failed to make
the socket non-blocking (`deaf`): no accept is scheduled until the user re-registers it.
`OutputIsSignalled` asks for an event after a write that would block, not after a `send_to`
that failed, which clears the readiness and returns the error.

Remarks that are not properties of a model: `EventLoop::is_running` is true before the first `run`, and `run` forgets
a `shutdown` that came before it. `timer_process` has no budget, so a handler that sets a
timeout which is due at once from every callback keeps messages waiting.

## Not modelled

- Weak memory: the relaxed store of `events` relies on the CAS of `queued` to publish
  it, and a CAS that fails publishes nothing. The models cannot show whether that
  matters on a weakly ordered machine.
- Dropping a `Poll` or a readiness queue while handles exist, and registrations moved to
  another `Poll`.
- `try_clone` of sockets. A clone is another object over the same socket with a copy of
  the `SelectorId`; what the system does with two registrations of one socket is not
  in the code.
- The Windows awakener, which posts a completion instead of writing a byte; it has no
  bound and no state, so the unix one is the harder case.
- Wrappers of system calls (`sys/unix/{tcp,udp,uds,io,eventedfd,iovec}.rs`,
  `deprecated/{unix,io}.rs`, `io.rs`, most of `net/`): they pass arguments on, convert
  errors and keep no state.
