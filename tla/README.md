# A verification project for the glass2glass runtime

glass2glass is a media pipeline runtime in Rust. A pipeline is a graph of
elements (sources, transforms, sinks, tees, muxers); each element runs as an
*arm*, an async loop, and neighbouring arms are joined by bounded links. The
same core drives everything from a desktop player to a heap-free capture path
on a microcontroller. These TLA+ modules model the concurrent core of
`src/g2g-core`: the links, the lifecycle controller and the sink arms that obey
it, seeking up to and past the end of a stream, the mutation of a running graph,
what a source can be asleep on, inputs added to a running muxer, the join that
polls the arms, and the interrupt-driven capture ring. From the element plugins
they take the one with a protocol of its own over an unreliable network, the
RIST transport.

All paths below are in the repository; line references are in `PROJECT.json`.

## Inventory

The parts of the system that keep state and could go wrong under concurrency,
failure or long call sequences. The remaining parts are listed, with the reason
they are left out, at the end and in `PROJECT.json`.

| Part | State | Operations | What is hard | What makes it correct |
|---|---|---|---|---|
| **Bounded channel** (`runtime/channel.rs`) | queue, sender and receiver counts, parked wakers | clone and drop of either end, `try_send`, `poll_send`, `evict_front_matching`, `try_recv`, `recv`; `SenderSink::poll_push` under three link policies | several lock sections per push with the other end running between them; futures dropped while parked; last-sender and receiver drop racing both | every packet ends in exactly one place, order per handle, only data is shed, no parked future is forgotten, the end is reported once everything is drained |
| **State controller** (`runtime/state.rs`) | lifecycle state, preroll latch, count, target and generation, play anchor, two waker lists | `set_state`, `expect_prerolls`, `arm_play_anchor`, `request_repreroll`, `notify_prerolled`, `await_prerolled`, the flow gate | half a dozen atomics written one at a time and read by other threads; re-arming while sinks are mid-frame | a parked arm is always woken, preroll completes exactly when every sink has prerolled, the frame shown after a paused seek is the one sought |
| **Sink arm** (`runtime/graph_runner.rs`, `sink_arm_loop`) | has it prerolled, the generation it saw, is it draining to a `Flush` | gate, receive, process, notify | state read before an await and used after it; `Flush` and `Eos` arriving in either order with a seek | as above, together with the controller |
| **Join** (`runtime/join.rs`) | arms in slots, live count, woken bits, parent waker and its flag | poll a pass, fold arriving arms in, wake an arm, resolve | wakes from any thread at any moment, coalesced through one flag; the task's waker changing; slots reused | a woken arm is polled, an arrival is noticed, results are kept once, the join resolves when it should and not before |
| **Capture ring** (`spsc.rs`) | slots, two cursors, an overrun counter, the source's hold and frame limit | `produce` in an interrupt; `next`, `borrow`, `release`, `recover` in the task | loads and stores only, no compare-and-swap; a slot is lent with no copy and no lifetime | a lent slot is never written, frames come in capture order, nothing published is lost before it is released |
| **Mutation endpoint and service** (`runtime/channel.rs` 383-685, `runtime/mutate.rs`) and **property mailbox** (`runtime/property_mailbox.rs`) | park requests, the links producers gave up or are to pick up, claims, numbering; queued property requests | park, detach, unpark, cancel, claim, retire, rehome; push, drain, withdraw | a request withdrawn at its deadline while the producer is parking; a producer still on its way back from one resume when the next park is asked for; arms that end meanwhile | a link is in one place, no frame is lost or reordered, what timed out changed nothing, every request is answered |
| **Seek controller**, **seeking after the end** (`runtime/seek.rs`, `seek_after_end.rs`) | pending seek and its ticket, seeks taken, ended sinks, the hold of the application | `seek`, `take_seek`, refuse, follow, `wait_event`, sink reports, end of run | the pending slot cleared before the seek is counted; an old `Eos` in the links; three parties waking one another | the end is marked at the `Eos` of the latest seek, a held run stays up, a seek is answered, a run that may end does |
| **Source waits**: pool (`pool.rs`), manual unblock, run end, `block_on` (`runtime/unblock.rs`, `run_end.rs`, `blocking.rs`) | free buffers and waiters; a release and a waker; a request and its waiters; a flag and a thread token | acquire, return; release, wait; request, wait; poll, park, wake | an event between a test and the registration that follows; a token swallowed inside a poll | no source sleeps through what it waits for, one release frees one life |
| **Dynamic fan-in** (`runtime/fanin.rs`) | pads reserved, requests, new arms, inputs configured, merged caps | `add_input` and its rollback, negotiate, attach, merge, end | adds from several threads racing rollbacks, failures and the end of the run | no pad is shared, frames follow caps that cover them, the merged `Eos` stands for all inputs, every add is answered |
| **RIST transport** (`g2g-plugins`: `ristsink.rs`, `ristsrc.rs`, `rist.rs`, `rtpjitter.rs`, `rtx.rs`) | sender: number, copies kept, report time; receiver: stream and the one before, jitter buffer, holes and their requests, address to answer to | send, report, resend, drain, goodbye; accept, release, request, follow a restarted sender | datagrams late, lost, doubled and reordered; 16-bit numbers that wrap; timers on both sides; a sender that dies and comes back | packets go out once and in order, losses are recovered in time, the output is never held up, a late packet does not bring an old stream back |
| Supervisor (`supervise.rs`) | attempts, restart budget | poll, recover, escalate | a recovery that fails half way | bounded attempts, no silent loss |
| Static fan-in, aggregation, fan-out (`aggregator.rs`, `fanout.rs`) | queues per input, round state, branch set | push, round, add and remove a branch | one input stalling while others run | no round with a frame missing |
| Caps and solver (`caps.rs`, `runtime/solver.rs`) | none (pure) | intersect, fixate, solve | search order | agrees with the set-theoretic definition |
| Clocks, pacing, segments; PTP | offsets, rates, elected master | convert, wait, servo | overflow, reordered messages | monotone conversions |

How the parts interact. An arm owns the sending end of its output links and the
receiving end of its input; a push that finds a link full parks the arm, and the
wake the receiver leaves behind goes through the join, which marks the arm's bit
and wakes the task. A sink arm also passes the state controller's gate before
each receive and reports its first frame to it; the application drives the same
controller from its own task or thread. A seek goes to the source through the
seek controller and reaches the sinks as a `Flush` in the links, while
`request_repreroll` reaches them through the controller's generation: two paths
that can overtake one another. After the `Eos` the source stays parked in the
seek controller until a seek comes or the run's end test, woken by the sinks,
shuts it down. A mutation stops a producer at its next push, takes the sending
end of its link and hands it another. In the threaded runner every arm is a
`block_on` of its own, which also waits for a sink's request to end the run. On
a microcontroller the capture ring takes the
place of a live source.

The main hazards this leads to are listed, each at its line, in `PROJECT.json`.

## Modules

| Module | Models | Proofs |
|---|---|---|
| `AbstractLink` | what a link promises: a bounded FIFO that loses data frames only, and only as its policy lets it | |
| `Channel` | the bounded channel and `poll_push`; implements `AbstractLink` | `ChannelProofs` |
| `StateController` | the controller, the runner's startup, application tasks, the sink arms and the source as the sinks see it | `StateControllerProofs` |
| `SeekRun` | the seek controllers, a source that takes seeks after its end, the arms and sinks below it, the run's end test | `SeekRunProofs` |
| `Mutation` | one mutable edge: producer endpoint, mutation service, mailbox, source, spliced element and consumer arms | `MutationProofs` |
| `SourceWait` | the source arms' executor, pool, unblock handle and end-of-run request | `RunnerProofs` |
| `DynamicFanin` | a muxer whose inputs are added while it runs, with the handle, the join's control channel and the sink | `DynamicFaninProofs` |
| `Rist` | a RIST sender, its restarts, the receiver and the network between them | `RistProofs` |
| `ArmSet` | the join and its wakers | `RunnerProofs` |
| `SpscRing` | the capture ring and its source | `SpscRingProofs` |

Some definitions stand just before the one they resemble and no action uses
them (`WakeOneSender` before `WakeSenders`, `FoldEndUnparked` before `FoldEnd`).
Each is a plausible mistake in that definition; putting it in place must make
TLC report the property it is paired with in `PROJECT.json`. That is how each
property is known to be able to fail.

### Channel

`queue`, `senders`, `receivers`, `sendWakers` and `recvWaker` are the fields of
the code's `Inner`. `tx`, `slot` and `rx` say where each handle and the receiver
stand. A section run under the channel's mutex is one action, and any other
actor may step between two of them. `StartPush` is `poll_push` up to its first
lock section; from there `TrySend`, `Evict` and `RetrySend` are the three
sections of a leaky push and `PollSend` the blocking one. `CancelPush` and
`CancelRecv` drop a future at an await, which leaves its waker behind, as the
code does. A packet is its handle, its number and whether it is data: contents
never influence a link. Only lossless links are ever cloned in the source, so
`CloneSender` requires `Block`; the proof that the retry after an eviction
always fits needs exactly that.

`AbstractLink` has no locks, wakers or polls. A link there has its policy too: a
`Block` link has no step that loses a packet, a `DropNewest` link may refuse a
data frame, a `DropOldest` link may shed its oldest one. The mapping takes the live handles
for `open` and forgets whether the receiver is parked; its fairness (what is
accepted is delivered, the end is reported) is checked along with its steps.

### StateController

`ctl` holds the controller's atomics; every load or store that another actor
could come between is an action. `FlowGate::poll` and `PrerollGate::poll` read
and register under their waker lock and are one action each. Drivers are
application tasks calling `set_state`, seeking while paused (`seek` followed by
`request_repreroll`) and awaiting preroll. A sink arm goes through gate,
generation test, receive, process, notify. Its input is reduced to what the arm
tells apart: how many `Flush`es it has seen, how many stale frames stand before
the next one, and the end of stream.

`set_state` is `SetState` (the swap), `SetStateWake`, `SetStateAnchor`, then
`SetStateSettle` on the way to Playing or, on the way down, `SetStateLoad` and
`SetStateStore`: the count is re-armed from a target read one step earlier.
`request_repreroll` reads the same target in the step that stores it
(`RequestRearm`); the runner stores the target once, before its arms run, and
that is the one store the read could race.

With `Threaded = FALSE` the actors share one executor thread and an actor runs
from one await to the next undisturbed (`Busy`, `MayRun`); with
`Threaded = TRUE` each step interleaves. With `Patient = TRUE` the application
awaits preroll before it plays or seeks, which is the documented way to use it.

The model starts in Ready, where the controller is built; the runner starts at
any moment after, so every other state is reached before, while or after it
starts. It is a run that takes seeks after its end: the sink arm goes on after
`Eos`. Left out: caps changes, window closing, element errors, metrics and bus
messages, and `expect_prerolls(0)`, a graph with no sink. `owes`, `visible` and
`aim` are history variables.

### ArmSet

A slot is absent, live or finished. `bits`, `parent` and `parentWoken` are the
fields under the lock of `WokenArms`; each section under that lock is an action.
`BeginPoll` is the executor polling the task, with a waker that may differ from
the last. `FoldArm` and `FoldEnd` are `fold_new_arms`; `BeginPass`, `TakeNext`,
`ArmPending`, `ArmReady` and `EndPass` are `poll_woken` and the test for
completion. `ArmWakes` is a wake from inside a polled arm and `ThreadMarks`
followed by `ThreadWakesTask` one from another thread: the mark under the lock,
the waker's call after it. The bit words are modelled as the set they encode.
The executor and the threads are modelled from how the join uses them. An arm is
sent by `insert` (`mutate.rs` 1576) and likewise when a sink or a source is
replaced (1798, 1989) or a fan-in grows (`fanin.rs` 2818); how much the control
channel holds is left to `DynamicFanin`, since a send that waits for room has
not happened yet for the join. `task.open` distinguishes `OpenJoin` from `DynamicJoin`; `JoinAll`
is either with nothing sent.

### SpscRing

Every atomic access is an action, and filling a slot takes two, between which
the slot holds `Torn`. The cursors' acquire and release orders publish a slot's
bytes together with the cursor that passes it, so the model is sequentially
consistent. A frame is the number of its capture. `Recover` may strike between
any two calls of `next`, as a fault does, and `Drain` is the loop it runs. The
overrun counter wraps at `CounterSpan` (2^32 in the code).

### SeekRun

`ctl` is one seek controller per source (slot, shutdown, waker of `wait_event`),
`counts` the leader's counts, `ticket` the answers the application holds. The
application seeks through the leader, and the same call passes the seek to the
followers one by one (`SeekLeader`, `SeekFollower`). `take_seek` is two steps,
`TakeSeek` and then `ServeSeek` or `RefuseSeek`: the slot is empty before the
seek is counted. The source loop is the one of `mp4src.rs`; its frames are left
out, since only `Flush` and `Eos` decide when a run ends. The arm below it is a
transform, a tee or a demuxer, which treat those two alike. When a sink below
has gone, the arm's next push fails it; with `BranchDrop` it is a tee that
allows branches to drop, which goes on with the others and is done when a
packet finds none left. A tee the mutator may attach branches to is not
modelled. `RunEndStart`,
`RunEndScan`, `MarkStreamEnded` and `RunEndShutdown` are one poll of
`end_when_nothing_more_is_sought`, with the sinks' locks taken one after
another. The end of any arm shuts the controllers down in the step in which the
arm returns. A looping segment reports its end and parks without an `Eos`; one
played in reverse returns. `sent`, `lastEos` and `free` are history.

### Mutation

One edge, on which one element at a time may be spliced in. A link is a number;
whoever holds that number holds the link's sender, and a link nobody holds is
closed. `up` and `own` are the endpoints of the producer and of the element,
field by field `EndpointState`; each section under an endpoint's lock is an
action. The producer passes the gate (`ProducerGate`) before each push. The
service works on one request at a time: `Begin` asks the producer to park,
`PollDetached` waits for its link, `DeadlinePasses` and `CancelPark` give up,
and the operation goes on in `Splice`, in `Claim` to `Bypass`, or in `Retire`
and `Rehome`. The element keeps one frame back, so that lifting it out without a
drain would lose it, and may fail. A property request goes through `BeginSet`,
`DrainTakes` and `DrainAnswers`, or `Withdraw`. Frames carry the number they
were made with (`seq`, renumbered by the endpoints) and, as history, their place
in the stream (`id`).

The splices keep the caps of the edge, the join is there and the consumer does
not fail on its own, so three refusals of the code have no action. `insert` and
`remove` announce caps that change (`mutate.rs` 1506, 1707), which fails if the
consumer has gone; where `Splice` and `Bypass` stand the link in hand still has
its reader, as TLC finds in every state of `mutate`. `arms.send` (1576) fails
once the join has resolved, which it has not while the producer is parked, and
in those states it is. The handback (1701) is closed without an element only if
the arm is dropped with the join: `spliced_arm` hands the element back however
it ended.

### SourceWait

Each source arm is a `block_on` of `select2(src.run, run_end.requested())`.
A poll goes through the release (`TakeRelease`, `LeaveWaker`, `TakeRelease`
again), the pool (`Acquire`) and the request to end the run (`CheckRequested`,
`LeaveEndWaker`, `CheckRequested` again), one step per lock or atomic; `Check`,
`Park` and `Clear` are the loop around it. A waker that was taken is in `flight`
until it is called, and a call raises the flag and leaves the token in one step.
`Swallow` is code inside a poll that parks the thread, the case the comment in
`blocking.rs` is about. A life of a held source is one frame. When the run ends
the source's future is dropped and its wakers stay where they are.

### DynamicFanin

`add_input` is `Reserve` (the `fetch_add`), `SendRequest` and, on a full
channel, `RollBack` (the `compare_exchange`), so calls of two threads interleave
between the atomics. The muxer arm drains requests, selects, negotiates and
merges as its loop does; the caps it derives are the set of pads configured, and
it emits each frame as it gets it, so the `Eos` of an input makes it fail or
lets nothing out. A refused pad may have been configured all the same
(`reject_refixate` after `configure_pipeline`). `output_caps` is taken to know
the caps, which the trait promises "once every input has been configured"
(`fanout.rs`): an element that answers with an error then has its frames sent
with no caps before them, and `ShownAsAnnounced` says nothing about it. `Fold` is the join taking in the arms the
muxer sent, between polls only. When the arm returns, the requests still queued
are dropped with the channel and their callers get `Shutdown` (`Orphaned`).

### Rist

`snd` is the `RistSink` that runs, `rcv` the `StreamState` of `RistSrc` with the
locals of its loop, `net` the datagrams under way and `out` what went
downstream. A tick is `TIMER_CHECK_MS`, the longest either loop sleeps; a stored
time is kept as the ticks since or until it, and `Tick` is possible once both
loops have run. `Announce` and `SendFrame` are the two halves of
`process(DataFrame)` around its sleep, `Drain` a turn of the loop in
`drain_and_close`. `Pass` is one turn of `RistSrc`'s loop: at most one media
datagram, the RTCP there is, then release, the end of the stream, and the NACK.
The receiver's operators take the loop's state and give the next: `Accept`,
`Push` and `Extend` take a packet in, `Due` and `Pop` are `pop` called until it
gives nothing, `Missing`, `Requests` and `Asked` are `missing_seqs` and
`NackScheduler::due`. A packet's contents are the life of its sender and its
number. A sender's life stands for its SSRC and for its address, since a unicast
sender binds a port of its own.

The network delivers in any order within `MaxDelay`, and loses or repeats
`MaxFaults` datagrams. `MaxDelay` counts to the read, so it covers a datagram's
wait in its socket; only a sender asleep before its first packet reads later
(`Unread`). The sender's input is taken to be live: a frame or the end of the
stream comes in every tick, as RTCP is served only when one does. One frame is
one packet. Receiver reports carry nothing the sender acts on and are left out;
`forced` records that a full buffer released a packet early.

## Runs

State counts are of the full graph; every run finishes within four minutes.

| Run | Checks | Shows |
|---|---|---|
| `link` (96 786 states) | `NoLostWakeup`, `EachPacketOnce`, `PerSenderOrder`, `EvictionFreesASlot`, `ImplementsLink` | all three policies, cancellation and closing included |
| `state_seek` (15 451) | `PrerolledMeansAll`, `ShowsTheTarget`, `AwaitResolves` | scrubbing a paused pipeline on one executor thread, each seek awaited |
| `state_end` (62 843) | `AwaitResolves` | two application threads and two sink threads, the stream ending in the first preroll |
| `join` (118 094) | `NoStrandedArm`, `NoStrandedArrival`, `JoinResolves` | both joins |
| `ring` (12 180) | `LentFrameStable`, `RingHoldsPublished`, `RecoverDropsBacklog`, `PublishedTaken` | producer, source, faults and recovery |
| `seek_end` (311 155) | `StreamEndIsReal`, `StaleEosIsOld`, `HeldRunStaysUp`, `TicketResolves`, `RunEnds`, `FaultEndsRun` | two seeks served, refused or superseded around the end of the stream, with shutdowns and a failing sink |
| `seek_follow` (702 813) | `RunEnds` | flushing and looping seeks passed on to a second source |
| `mutate` (135 987) | `LinkInOnePlace`, `NoFrameLost`, `TimedOutUnchanged`, `RequestAnswered`, `AllArmsEnd` | three operations in any order on a running edge, each with a deadline, and an element that may fail |
| `sources` (413 123) | `NoForgottenSource`, `OneLifePerRelease`, `SourcesGoOn`, `RunEndStops` | a plain and a held source that share a pool of one buffer |
| `fanin` (196 886) | `PadsDistinct`, `ShownAsAnnounced`, `EosStandsForAll`, `AddAnswered`, `RunEnds` | two threads adding inputs, with refusals and failures |
| `rist` (1 539 775) | `ReleasedInOrder`, `LossesRecovered`, `OutputOnTime` | a sender that may crash and be restarted, over a network that delays, loses or repeats |

Bounds, and why they are enough to meet the interesting cases:

- `link`: two handles, capacity 2, four pushes in all. A lossless link can have
  both handles parked at once on a full queue, one cancelled and one waiting;
  a leaky one can fill, evict twice and find only control packets to evict.
- `state_*`: two sinks, so that one can be counted for the other; one or two
  drivers; as many calls as the sequence in question needs, up to three seeks,
  one stale frame per link.
- `join`: one initial arm and two sent later, enough for a later arm's slot to
  be reused while the first lives; one foreign thread, whose wake can be pending
  across any number of polls; two task wakers, so that one can be stale.
- `ring`: three slots (one on loan, one waiting, one kept empty), six captures,
  frame limits 0 to 2 or none, a counter that wraps at 2 (one capture lost in
  two wraps it).
- `seek_end`: two seeks, so that one can supersede the other in the slot, or
  come while the `Eos` of the first is in the links; links of one packet, so
  that every arm can be blocked. One sink; with two sinks below one source and
  looping seeks as well (`Branches = {b1, b2}`, `Kinds = {"flush", "loop"}`,
  5 050 493 states) the three invariants hold too, in a run too long to repeat
  with its liveness. `seek_follow` has two sources with a sink each.
  With a tee that allows branches to drop (`BranchDrop = TRUE`) all six
  properties hold, with one branch and two seeks (305 311 states) and with two
  branches and one seek (201 300).
- `mutate`: three operations (insert, remove and one between or after), three
  frames a source (one queued, one held back by the element, one blocked), links
  of one packet, one failure.
- `sources`: two sources race for one buffer; two frames each, so that a source
  waits, goes on and waits again; two releases, so that one can come while the
  one before is not taken.
- `fanin`: two threads with two calls each on two pads, so that a rollback meets
  a reservation on either side; channels of one packet are full at once.
- `rist`: three packets by two senders, so that a hole has packets on both sides
  or a stream is cut short; numbers wrap at 8, from 6 on; two losses or
  repetitions, so that after a packet its request or the answer can be lost too,
  among delays of up to two ticks; a buffer of three packets, which can fill.
  The receiver buffer of 15 ticks and the four requests for a packet are the
  least with which a loss is made good in every case: a hole is seen and waits
  its reorder tick, the first request may go to the address of the dead sender,
  whose late report came last, until the next report three ticks later, request
  and answer take two ticks each, and one of them may be lost.
  One sender with four packets (`MaxLives = 1`, `MaxSent = 4`, `Hold = 8`, `Keep = 9`, `MaxRequests = 3`, `MaxDelay = 1`,
  `ReportEvery = 2`, 312 756 states) satisfies the same properties. That copies
  expire, and the cap of half the number space, are in `Record` and are not met
  at these bounds.

Deadlock is checked for the link, for `seek_end` and for `rist`. The other systems may
really stop: a pipeline paused for good, a join that resolved, a ring whose
interrupt never fires, sources that are never released.

### Where the code and its comments disagree

One run ends in a counterexample to what a comment of the repository says. The
finding in `PROJECT.json` quotes the lines.

| Run | Counterexample |
|---|---|
| `state_play_seek` (`AwaitResolves`) | play, pause, seek: an arm that was waiting in `recv` takes the `Flush` before it sees the new generation and then drains the target frames for ever |

Others were met while modelling. Each is the named property, violated with the
constants given (those not given are as in the component's run):

| Module, property | Constants | Counterexample |
|---|---|---|
| `StateController`, `AwaitResolves` | `Targets = {"Paused"}`, `Threaded = TRUE`, `Patient = TRUE`, `Ending = FALSE`, `MaxSeeks = 1`, `MaxOps = 2`, one driver | `request_repreroll` publishes the generation before it re-arms the count (`state.rs` 296-301); a sink that prerolls between has its notify lost |
| `StateController`, `ShowsTheTarget` | as above, `Threaded = FALSE`, `Ending = TRUE` | an `Eos` in the link when the application seeks is taken before the source takes the seek, is not stale by that test (`graph_runner.rs` 5057), and counts as the preroll of a frame never shown |
| `StateController`, `PrerolledMeansAll` | as above, `Patient = FALSE`, `Ending = FALSE` | a seek while the first preroll is under way: a sink with a frame in process is counted twice, the other not at all (`state.rs` 298) |
| `StateController`, `AwaitResolves` | `Targets = {"Ready", "Paused"}`, `Threaded = FALSE`, `Patient = TRUE`, `MaxSeeks = 0`, `MaxOps = 3` | Ready and up to Paused again re-arms the controller but not the arms (`state.rs` 254, `graph_runner.rs` 5012): the second preroll never completes |
| `StateController`, `AnchoredWhilePlaying` | `Targets = {"Playing"}`, `Threaded = TRUE`, `Patient = FALSE`, `MaxSeeks = 0`, `MaxOps = 1` | `set_state(Playing)` between `arm_play_anchor`'s test and its store (`state.rs` 165-170) leaves the pipeline playing unanchored |
| `StateController`, `PrerolledMeansAll` | `Targets = {"Ready", "Paused"}`, `Threaded = TRUE`, `Patient = TRUE`, `Ending = FALSE`, `MaxSeeks = 0`, `MaxOps = 3`, `LinkCapacity = 0`, one driver | a `set_state(Ready)` while the runner starts reads the target of 1 that the controller was built with, the runner's `expect_prerolls` stores 2, and the call then re-arms the count to 1 (`state.rs` 254-257): one of two sinks completes the preroll |
| `SeekRun`, `StaleEosIsOld` | `Followers = {next}`, `MayRefuse = TRUE`, `MaxSeeks = 1`, no faults or shutdown | an arm below a follower compares its Flushes with the leader's count (`seek_after_end.rs` 76): the `Eos` of a follower that refused the seek is dropped |
| `SeekRun`, `StreamEndIsReal` | `Followers = {next}`, `MaxSeeks = 1` | a follower has flushed and the leader has not counted the seek: the end marked for the old count still stands (`seek.rs` 399-402) |
| `SeekRun`, `SeekBeforeReleaseAnswered` | `Followers = {}`, `MaxSeeks = 1`, no refusals, shutdown or faults | a seek made just before `let_run_end` races the shutdown, and the source returns with its ticket open |
| `SeekRun`, `HeldRunStaysUp` | `Kinds = {"reverse"}` | a reverse playback returns after its `Eos` (`mp4src.rs` 350) and ends a run the application holds open |
| `Mutation`, `SequenceRises` | `Ops = {"insert", "remove", "replace"}`, `Timed = FALSE`, `MaxFrames = 2`, `MaxFaults = 0` | a remove goes on from the element's last number, which is none when no frame crossed it (`mutate.rs` 1713): the numbering may fall back |
| `Mutation`, `RequestAnswered` | as above, `MaxFrames = 1`, `MaxFaults = 1` | a remove that finds its element ended resumes the producer with nothing staged, which leaves it marked as parked; a park asked for before it reaches its gate takes no link and wakes nobody (`channel.rs` 646-657) |
| `Mutation`, `RequestAnswered` | `Ops = {"insert", "set"}`, `Timed = FALSE` | a property set on an element whose arm has ended is never answered: the mailbox outlives the arm |
| `SourceWait`, `ReleaseTaken` | `HeldSources = {s1, s2}`, `MaxFrames = 1` | two sources wait on one handle: the later waiter takes the waker slot from the earlier (`unblock.rs` 119), and after its own release the next one wakes nobody, although `design/live.md` (993-996) has both sources of a fallback source take the handle |
| `Rist`, `NeverSwitchedBack` | `MaxFaults = 0` | a receiver whose first packet is the new sender's takes a late one of the crashed sender for a restart, and from then on drops the new sender's packets as those of the stream before (`ristsrc.rs` 247) |
| `Rist`, `ReleasedInOrder` | `MaxLives = 3`, `MaxFaults = 0`, `Hold = 2`, `Keep = 2` | one SSRC before the present one is remembered: after two restarts within a delay a late packet of the second sender, never seen before, switches the stream from the third back to it |
| `Rist`, `LossesRecovered` | `Hold = 14` | a late report of the crashed sender makes its address the one the NACKs go to (`ristsrc.rs` 488) until the next report; the request or the answer after that is lost, and the buffer runs out |
| `DynamicFanin`, `AddsLeaveTheRun` | `Faults = FALSE` | two inputs attached before the join takes in the first fill the arm channel; the failed `try_send` (`fanin.rs` 2818) ends the run |

In `DynamicFanin` a call past the last pad also counts `next_pad` up, and a
rollback that meets it gives nothing back: that pad is lost, not shared.

The passing runs mark out where the same properties do hold: `state_seek` on one
executor thread, awaiting each preroll, before the pipeline has played or ended;
`state_end` over the first preroll, with every actor on a thread of its own;
`seek_end` where leader and arms belong together; `mutate` where every operation
has a deadline; `sources` where a handle holds one source;
`rist` where the receiver saw the stream that was restarted, once, and its
buffer is long enough for a diverted request to be made again.

## Fairness

- `Channel`: weak fairness of each handle's next lock section and of
  `PollRecv`. The executor re-polls an arm that is runnable, and a receiver arm
  loops on `recv`. Nothing forces a push, a clone, a cancellation or a drop. A
  receiver may also stop for good only by being dropped.
- `StateController`: strong fairness of the runner's startup, of a call that has
  begun, of each sink arm and of the source taking a seek. On one thread an
  actor is enabled only between the segments of the others, on and off, and the
  executor's queue comes round to it all the same; weak fairness would let it be
  starved. Nothing forces the application to call or the stream to end.
- `ArmSet`: a scheduled task is polled, a poll goes on, an arm's poll returns
  (arms are async loops that do not spin), a thread that holds a waker calls it.
- `SpscRing`: the source's steps only. The interrupt owes nothing.
- `SeekRun`: weak fairness of each source, arm and sink thread, of the future
  that ends the run, and of the rest of a seek already begun. The application
  need not seek, let the run end or shut it down, and nothing need fail.
- `Mutation`: weak fairness of each arm and of the service, and of a deadline,
  which passes in the end. Nothing need be asked for.
- `SourceWait`: weak fairness of each arm, of a wake whose waker was taken, of a
  call that has begun, and of frames being dropped downstream (sinks consume).
  Releases and the end of the run may never come.
- `DynamicFanin`: weak fairness of the muxer arm, the sink, the sources and the
  join, and of a call that has begun. Nobody need call or drop its handle.

## Proofs

Each component has its proofs, those of `SourceWait` and `ArmSet` in one module,
since an arm that sleeps is the one that the join polls. They show, for every value of
the constants, that the specification satisfies an inductive invariant, and draw
the properties from it. An invariant is a conjunction of named parts, each with a
lemma per group of actions that preserves it; lemmas on what one step does to
each field (`FlushTaken`, `ReplacedFacts`, `AppendIds`) come first. TLC checked
every inductive invariant on small instances before it was proved.

- **Channel** (any set of handles, any capacity of at least 1, any policies).
  `IInv` adds to the checked properties that the receiver count is 0 or 1 as the
  receiver is gone or not, that a leaky link has one live handle, and that the
  queue is within capacity. `NoLostWakeup` needs the counts (a sender parked on
  a link whose receiver has gone), `EvictionFreesASlot` needs the one handle and
  the capacity (only the evicting handle could refill the slot), `EndIsFinal`
  needs `SendersCounted`. `Ledger` keeps the books of the whole stream: what
  was delivered followed by what is queued is one sequence in which each handle's
  packets rise; every packet made is on it, in the push under way, or among those
  dropped and shed, and on one side only. With it every step of the channel is a
  step of `AbstractLink` or a stutter (`ImplementsLinkSafety`); that only a
  `DropOldest` push evicts (`OnlyOldestEvicts`) ties each loss to its policy. Theorems:
  `TypeCorrect`, `WakeupsKept`, `RetryAlwaysFits`, `EndOnlyWhenDrained`,
  `HandlesCounted`, `OrderKept`, `PacketsAccounted`, `ImplementsLinkSafety`.
- **StateController** (any sinks, seeks, calls and stale frames).
  `PrerollInv` relates three things set by different atomics: the count of
  prerolls owed, the sinks that owe one (`CountInv`), and the generation each
  arm has seen (`OwesInv`, `ArmInv`). It holds for one application task that
  awaits each preroll on the arms' own thread (`Awaited`): then no arm runs
  between the bump of the generation and the re-arming of the count, and when a
  seek begins every sink has settled, so each decrement is by a sink that owes
  one. Without any of the three `PrerolledMeansAll` is false. `ScrubInv` adds how
  far a seek's Flushes have come: a sink that has seen the present generation
  shows nothing until the Flush and then the target; one that took the Flush
  before the generation drains for ever and never counts, which is the
  counterexample of `state_play_seek` seen from the safe side. It needs a stream
  that does not end (`Unending`); the table above has what happens otherwise.
  That a call on its way down re-arms the count to the target as it stands
  (`TargetLoaded`) also rests on the one thread: see the last `StateController`
  row of the table. `AnchorInv` needs one thread only. Theorems: `TypeCorrect`, `PrerollInductive`,
  `PrerollComplete`, `ScrubInductive`, `TargetShown`, `PlayAnchored`.
- **SeekRun** (any followers, branches, seeks and faults, tees that allow
  branches to drop or not). `UpInv` traces all
  that can end a source back to the application or to a failure. `NumberInv`
  numbers the packets along every link, from the Flushes the arm that reads it
  has counted to those the arm that writes it has; `SentInv` ties the leader's
  Flushes to the flushing seeks counted; `EndInv` says what the future that ends
  the run knows of each sink while its count is the latest. `BoundInv` counts
  each seek made in the one place it is in, which bounds the counters `TypeOK`
  bounds. `HeldUp` assumes that no source plays in reverse (`NoReverse`);
  `EndMarkedIsReal` and `DroppedEosIsOld` that the leader has no follower
  (`LeaderAlone`): without them the table above has counterexamples. Theorems:
  `TypeCorrect`, `HoldInductive`, `HeldUp`, `NumbersInductive`, `EndInductive`,
  `EndMarkedIsReal`, `DroppedEosIsOld`.
- **Mutation** (any number of operations, frames and faults, any link capacity).
  `ProtocolInv` says at every step where the request stands: what is in the
  endpoint (`ParkInv`), in the mailbox (`MailInv`), whose the link in hand is
  (`PlacesInv`), and that a request given up has touched nothing (`TargetInv`).
  `FlowInv` then follows the frames: those the consumer has, those on the link
  before it, those the element holds back and those on the link that feeds it
  form one rising chain, across every cut and splice, and a frame is in the chain
  or died with its source. Theorems: `TypeCorrect`, `ProtocolInductive`,
  `TimeoutsHarmless`, `LinksHeldOnce`, `FlowInductive`, `FramesKept`.
- **SourceWait** (any sources, buffers, frames and releases).
  `NoForgottenSource` speaks of sleeping arms only; `PoolInv`, `ReleaseInv` and
  `EndInv` follow each of the three events back to the step of the poll at which
  the arm has left its waker: from there on the waker is registered, or a wake
  has been sent and not been used up, and once the event is there somebody is on
  the way. These assume `OneHeld`, that a handle holds at most one source;
  without it the statement is false, as the counterexample to `ReleaseTaken`
  shows. `LivesInv` adds up the lives begun and the release not yet taken.
  Theorems: `WaitTypeCorrect`, `WakesInductive`, `SourcesWoken`, `ReleasesCounted`.
- **DynamicFanin** (any threads, pads, calls, frames and capacity).
  `HandleInv` says that every pad sent or reserved lies below `next_pad`, so
  that a rollback which succeeds gives back a pad nobody else has. `Flowing`
  follows caps and frames along the merged link: the caps in it grow
  (`CapsGrow`), each frame stands behind caps that cover its pad
  (`FramesBehindCaps`), and the last ones sent are `current_output`
  (`OutputAnnounced`). `EosInv` places every frame pushed: on the tagged
  channel, in the arm's hand, on the merged link or shown; the arm closes only
  with the channel dry and no source left, and nothing follows the merged Eos. Theorems: `HandleInductive`, `PadsKeptApart`, `FlowInductive`,
  `FramesAnnounced`, `EosInductive`, `EosComplete`.
- **ArmSet** (any number of initial arms from 1 up, of sends, of threads and of
  task wakers). `NoStrandedArm` is not inductive: it speaks of the moments
  between polls. `WakerInv` says whose waker is registered and that a raised
  `parentWoken` outside registration means a wake is on its way; `PassInv` that
  a bit the running pass has gone by was set with that flag raised; `ControlInv`
  that the join is parked in its control channel or scheduled; `DoneInv` what
  resolved means. Theorems: `TypeCorrect`, `WokenArmsReached`,
  `ArrivalsNoticed`, `ArmsCounted`, `ResolvesWhenFinished`, `ResultsKept`.
- **SpscRing** (any ring of at least two slots, any number of captures, any
  limit). The cursors are compared through `Distance`, how far a slot lies ahead
  of `head`; `RoomInv` keeps the producer's free slot outside the ring while the
  source moves `head` under it, `LoanInv` ties the hold flag to a non-empty
  ring, and `RingHoldsPublished` says slot by slot which published frame is
  where. Theorems: `TypeCorrect`, `LoanSound`, `NothingLost`, `InCaptureOrder`,
  `BacklogDropped`.
- **Rist** (any period, delays, deadlines, retries and buffer depth, any losses
  and repeats). `TypeInv` says what a receiver between two passes looks like:
  the buffer lies between the next number to release and the highest one seen,
  no packet has been held longer than one in front of it (`Monotone`, which is
  why a packet that fills a hole takes over the time of the one behind it), and
  after a pass none is due. `HeldNoLonger` follows with no condition at all.
  The order needs the sequence numbers unrolled: `OrderInv` says that some shift
  per sender takes packet numbers to the receiver's extended ones (`Origin`,
  congruent to the sender's offset modulo `Period`), that what is in the buffer
  lies where this puts it, and that what went out lies behind `next`. It is kept
  where `Near` holds, packets under way being within half the period of the
  newest one received: farther away a number cannot be told from another, so the
  condition belongs to the protocol. `ForwardInOrder` has the order for any
  number of senders if the receiver never turns back to an older one.
  `RestartInOrder` drops that for one restart, where `SecondInv` compares
  times: while a packet of the dead sender is under way, no packet of the new
  one has been held longer than that one travelled, so with `MaxDelay < Hold`
  nothing of the new stream has gone out that a switch back could precede, unless
  a full buffer forced it (`Unforced`). With a second restart it fails, as the
  counterexample to `ReleasedInOrder` above shows. `ShortStreamInOrder` has no
  condition on the behaviour; the run `rist` is one of its instances.
  For gaps, `GapInv` accounts for every packet: sent and still under way, in
  the buffer, or gone downstream; and what is missing in front of a buffered
  packet has been under way at least as long as that one was held
  (`Gapless`). A packet that is due has been held for `Hold`, longer than
  anything travels, so nothing in front of it is missing. This gives
  `DelaysHidden` (one restart), `ShortStreamDelaysHidden` (no condition on the
  behaviour) and `ForwardDelaysHidden` (any number of restarts, never turning
  back): as long as the network loses and repeats nothing, no stream has a gap,
  a crashed sender's included, unless a full buffer forced it. Theorems:
  `TypeCorrect`, `HeldNoLonger`, `ForwardInOrder`, `RestartInOrder`,
  `ShortStreamInOrder`, `DelaysHidden`, `ShortStreamDelaysHidden`,
  `ForwardDelaysHidden`.

The proofs rest on the `...Assumption` of each module, which only says what
values the constants take (and, in `StateController`, that the actors of the
model are different from each other), and on the hypotheses named above, each
written in its theorem. Several of the facts proved (`EndIsFinal`,
`SendersCounted`, `LiveCounted`, `JoinsAll`, `InitialResultsOnce`,
`AnchoredWhilePlaying`, the types) are not repeated in the runs.

Model-checked only: every liveness property, and of the refinement of
`AbstractLink` the fairness (the prover has no rule for fairness or `ENABLED`);
of `Rist` that a packet really lost is asked for and comes in time
(`LossesRecovered` with faults). That is a sum of waits along a chain of steps of
both sides, report, hole, request, answer, in which each wait depends on the
timers of the other; the shortest buffer that suffices is known for the instance
checked and not in general. Outside its hypotheses a theorem says nothing:
`ShowsTheTarget` with every actor on a thread of its own, one task awaiting and
no end of stream was only model-checked, two sinks, two seeks and six calls, and
holds there.

## Not modelled

`PROJECT.json` lists every part with its reason. Most of the repository's lines
are element plugins: codecs, demuxers, network and display elements whose
behaviour lies in media formats, operating-system services and foreign
libraries, and most of which have no protocol among themselves beyond the links,
controllers and pools modelled here. The exceptions are the network transports.
RIST is modelled; SRT (`srt.rs`) recovers losses in a similar way behind a
handshake of its own, and the RTSP, RTMP and WebRTC sessions are protocols with
a peer: each is an extension independent of the rest. The machine-learning
elements, bindings and tools are foreign interfaces; frames, metadata,
properties, logging and the bus carry no protocol state the core depends on;
launch parsing, autoplugging, caps intersection and the solver are pure and
sequential.

Within the parts that are modelled: startup negotiation and caps re-solve in the
arms, the demuxer's byte source, replacing an element or a sink, branches added
and removed, the static fan-in and aggregation by rounds, the heap-free pools;
of RIST, bonded links, multicast, the header extension with null-packet deletion,
RTT echoes, reception statistics, and the jitter buffer without constant delay.

## Plan

1. `Mutation`: replacing an element and a sink, two elements on one edge, the
   branches of a router.
2. Fan-out: the dynamic router, which mirrors `DynamicFanin` on the output side;
   static fan-in rounds.
3. The heap-free pools and the supervisor, composed with `SpscRing`'s `Recover`.
4. Segment and clock arithmetic as operators against reference definitions; the
   bit words of `WokenArms`; the PTP slave; RIST over bonded links;
   SRT's handshake and retransmission.
5. Proofs: a bound on `Hold` that makes good a given number of losses, and
   `LossesRecovered` under it; the settings of
   `TargetShown` (several threads) and `EndMarkedIsReal` (a follower that takes
   every seek) widened as far as the counterexamples leave room.
