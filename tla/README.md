# RTDDS-hub in TLA+

RTDDS-hub publishes the joint states of a robot (Spot, UR5) as ROS 2 messages
over Fast-DDS.  In *sim* mode a real-time thread follows a trajectory and hands
its messages to a publisher thread through a lock-free ring; in *real* mode a
publisher thread reads motor frames from Xenomai XDDP pipes.  Three older
stand-alone programs (a real-time generator, a publisher and a subscriber) are
kept beside it.  This directory models the parts where threads, callbacks,
partial failures and integer widths meet, the trajectories and the generated
serialisation, checks them with TLC and proves their safety with TLAPS.

Paths below are relative to the repository.  "External" marks code that is not
in the repository (boost, Fast-DDS, protobuf, epoll, XDDP): it is modelled from
how the hub uses it.

## 1. Inventory

| Part | State | Operations | Interacts through | What makes it correct |
|---|---|---|---|---|
| Process (`src/rtdds_hub_main.cpp`, `src/shared_buffer.cpp`) | `g_running`, thread handles, `NrtArgs` | parse arguments, spawn, join, signal handler | `g_running`, `pthread_join` | no thread outlives `main`, nothing leaks, shutdown ends the process, the IMU is optional |
| RT loop (`src/rt_trajectory_client.cpp`) | `t0`, `seq`, `msg` | one message per period, push | ring, `g_running` | messages numbered and stamped in order; push never blocks |
| Ring (`include/rt/SharedBuffer.hpp`, external boost) | slots, two indices | push, pop | RT loop, sim loop | no slot used by both sides, FIFO, drops only when full |
| Sim publish loop (`src/joint_state_dds_sim.cpp`) | `msg` | init, pop, publish, sleep | ring, publisher, `g_running` | every sample whole, in order, at most once |
| Real joint loop (`src/joint_state_dds_real.cpp`, `include/rt/xddp_reader.hpp`) | pipe descriptors, epoll set, shared read buffer, persistent `msg` | open, register, wait, drain, parse, merge, publish | pipes, publisher, `g_running` | joints never mix or go back, publish only new data, serve all pipes |
| IMU loop (`src/imu_dds_real.cpp`, `include/dds/ImuPublisher.hpp`) | as above, one pipe, nothing merged | as above | pipe, publisher, `g_running` | every sample a new frame with its own time; never stops the hub |
| PDO frames (`include/protobuf/pdo_utils.hpp`) | none | `parse_frame`, `parse_joint_frame`, `parse_imu_frame`, `extract_timestamp_ns` | called by the real loops | exact length check in wrapping arithmetic, right payload for the type |
| DDS publisher (`include/dds/DdsPublisher.hpp`, `JointStatePublisher.hpp`, `ImuPublisher.hpp`) | four entity pointers, `matched_`, the DDS message | init, cleanup, publish, match callback | Fast-DDS threads | no dangling pointer, no leaked entity, exact match count |
| Trajectories (`include/traj/*`; for the legacy client `include/TrajectoryGenerator.hpp`, `include/TrajectoryTypes.hpp`) | coefficients, duration | constructors, `compute` | RT loop, legacy client | boundary conditions, joint limits, no turning back, no overshoot, velocity is the derivative |
| DDS subscriber base (`include/dds/DdsSubscriber.hpp`) | four entity pointers, `matched_` | init, cleanup, match callback, data forwarding | Fast-DDS threads; nothing derives from it | no leak, exact count, callbacks end before the listener does |
| Legacy generator (`src/rt/*`) | sockets, `seq` | client writes to IDDP, server relays to XDDP, main waits for a signal and cancels | sockets, `pthread_cancel`/`join` | no gap, no repeat, every signal ends it |
| Legacy publisher (`src/dds/JointStatePublisher.cpp`, `include/XddpReader.hpp`) | `fd_`, message buffer, `matched_`, entities | connect, read, reconnect, publish, match callback | XDDP device, Fast-DDS, SIGINT | only whole messages, one descriptor, reconnects, ends |
| Legacy subscriber (`src/dds/JointStateSubscriber.cpp`) | `matched_`, `message_count_`, entities | init, sleep, cleanup, match and data callbacks | Fast-DDS, SIGINT | every 100th sample printed once, count never negative, ends clean |
| Generated types (`generated/idl`) | none | size, serialise, deserialise | Fast-DDS writer and reader | exact size, round trip, no member made of two samples |

Hard behaviours: three kinds of threads share one atomic flag and a lock-free
ring; Fast-DDS runs callbacks on its own threads; each set-up step can fail
after others succeeded; a drained pipe may hold several frames of which only
the last is parsed; hung-up pipes keep waking the loop; lengths and times are
fixed-width integers.  `PROJECT.json` lists the hazards line by line.

## 2. Modules

| Module | Models |
|---|---|
| `Stamp` | timespec arithmetic, nanosecond counts, the int32/uint32 stamp on the wire (pure) |
| `SpscQueue` | the ring: slots, indices, push and pop in several steps (external) |
| `SimPipeline` | RT loop, sim publish loop, listener and signal, on top of `SpscQueue` and `Stamp` |
| `SampleChannel` | abstract specification: a lossy FIFO channel |
| `HubLifecycle` | `main`, thread creation and joins, `g_running`, what each thread owns |
| `LoopThread` | abstract specification: what a loop promises to the process |
| `DdsEntities` | the skeleton of the four classes that own DDS entities: creation, `cleanup`, match reports |
| `DdsBases` | the two base classes `DdsPublisher` and `DdsSubscriber` on top of it: publish gate, listeners |
| `XddpReader` | the reconnecting reader of the stand-alone publisher, and the XDDP device it reads |
| `LegacyPublisher`, `LegacySubscriber` | the two stand-alone programs, from `main` to exit, on top of `XddpReader` and of `DdsEntities` |
| `LegacyRt` | the real-time generator: `main`, client, server |
| `Trajectory`, `TrajectoryMC` | cubic, quintic and `TrajectoryGenerator`, and a grid of joints, goals and durations |
| `Cdr`, `CdrMC` | size, serialisation and deserialisation of `JointState`, and a set of samples |
| `PdoUtils` | frame parsers (pure), and what they accept of every buffer content |
| `RealLoop` | the real-mode joint loop on top of `PdoUtils`, the pipes and the drivers |
| `ImuLoop` | the real-mode IMU loop and `ImuPublisher::publish` on top of `PdoUtils` and `Stamp` |
| `SimPipelineProofs`, `HubLifecycleProofs`, `RealLoopProofs`, `ImuLoopProofs`, `LegacyRtProofs`, `LegacySubscriberProofs` | theorems and proofs about the module of that name (`ImuLoopProofs` also about `PdoUtils`) |
| `DdsProofs` | theorems and proofs about `DdsEntities`, `DdsBases`, `XddpReader` and `LegacyPublisher` |
| `JointStateProofs` | theorems and proofs about `Trajectory` and `Cdr` |

### How state and actions correspond to the code

*SimPipeline.* `rt_pc` and `dds_pc` are the positions in `run_rt_loop` and
`run_sim_dds_loop`.  A message is `[header, joints]`; all joint values are
functions of the clamped trajectory time, so `joints` is that time and a torn
message is one whose `joints` do not belong to its header.  `push` is three
steps (full test with copy of the header, copy of the joints, store of the
index) and `pop` likewise, so that every overlap of the two copies is a
reachable interleaving.  Loading the other side's index is part of the first
step: the load happens once, and a value that has become stale since can only
report fewer free or fewer filled slots.  The ring and the publish gate are the
only shared data; `g_running` is read and written atomically.  `publish` reads
the match count first and writes later.  `samples` is a history of what the
DDS writer was given.  Time is in nanoseconds with `NS_PER_SEC` and
`INT32_RANGE` as parameters; the `double` of `timespec_diff_s` is kept as an
exact count.

*HubLifecycle.* One action per step of `main`; `thr[t]` is the position of the
joint-state, RT and IMU thread, reduced to what the rest of the process can
notice.  The loop bodies of `RealLoop` and `SimPipeline` are one step here.
`nrt_args` and `epfd` record what has been allocated and opened.  The three
possible kinds of `imu_pipe_name` (null, empty, a name) are inputs.

*LoopThread* ties the modules together.  `HubLifecycle` keeps each loop down to
a few control states; the loops are modelled in detail in `SimPipeline`,
`RealLoop` and `ImuLoop`.  Both sides are shown to implement `LoopThread`, with
the same two parameters: whether a set-up that fails stops the hub, and whether
the loop may return on an error.

*DdsEntities.* `handle[e]` is whether the pointer is non-null, `live[e]`
whether the entity exists in Fast-DDS.  A delete call is refused while
dependent entities exist, and the code ignores the refusal.  Deleting the
endpoint is two steps: the listener is detached, then the call waits for
running callbacks.  A match report carries the difference since the last
report, so one callback can stand for several changes; callbacks can overlap.
`DdsBases` and the two legacy programs add their order of deletion, their
listener in atomic accesses, and what their owner does.  An object of `DdsBases`
is a publisher or a subscriber (`role`): the two classes differ in what their
owner calls, not in how they create, count and delete.

*LegacySubscriber.* The clamp `if (matched_ < 0) matched_ = 0` is two steps;
taking a sample, the increment of `message_count_` and the decision to print
are three (`Take`, `Count`, `PrintSample`).  The reader's
cache holds one sample, valid or not, that a newer one replaces.  A Fast-DDS
thread runs one callback at a time, of either kind.

*XddpReader, LegacyPublisher.* A device that disappears and comes back is a new device; the
old descriptor is worthless.  The message buffer is the pair of messages its
first and last bytes came from, so that a short read leaves a visible mix.  A
`read()` and an `open()` may fail on a device that is there, too (`ReadError`,
`ReconnectFails`).  `written` is the history of what the writer was given, so
that writing the same message twice in a row would show.  A
blocked `read()` is restarted after SIGINT, as `std::signal` installs it.

*LegacyRt.* Signals are blocked in all threads and taken by `sigwait`; blocking
calls are cancellation points; every error but a failed `sendto` exits.
`relayed` is the history of what was sent to XDDP.

*Trajectory.* One joint, since joints do not interact.  The hub and the legacy
client have a `TrajectoryGenerator` each (`generator`): the formulas are the same,
and so are the joint limits of `spot`, but only the hub's `compute()` also clamps
the time from below (`tc`, `tc_legacy`).  Coefficients, positions
and velocities are numerators over a common denominator (T^3, 2 T^5), so the
arithmetic is exact.  `TrajectoryMC` states the joint tables of both robots and
TLC checks that they satisfy the assumption of the proofs.

*Cdr.* A primitive of w bytes is w cells, so that a wrong offset or a cut is
visible.  The generated `deserialize` gives Fast-CDR's `deserialize_type` a
function for the n-th member; Fast-CDR calls it while bytes are left and stops
without an exception at the end of the buffer (`ReadMember`, external).  So a
payload that ends inside a member raises an exception, and one that ends between
two members is accepted with the members read so far.  The reader's object is used
again for every sample, and also after a rejected one, as the subscriber does
inside its loop.

*RealLoop.* The pipes are queues of frames; `raw`/`last` is the read buffer all
joints share.  One `read()` is one step, so frames arrive during a drain; it
ends a drain on an empty pipe and on an error, which may leave frames behind.  The
order in which epoll reports pipes is arbitrary.  Frames are valid, without a
stamp, short (with the stale prefix a wrapping sum would accept), of the wrong
length, not decodable or of the wrong type.  `out` is the message last handed
to `pub.publish()`.

*ImuLoop.* The same pipe model with one source.  The loop does not merge, so a
frame's values are one number; `written` is what the DDS writer was last given,
with the int32/uint32 stamp it carries, and `nr` tells two writes apart.

Definitions whose name ends in `_bug` (or `_ignored`, `_early`, `_single`) are
mutants: plausible mistakes in the definition that follows,
which some property must notice.  They are used by nothing else.

## 3. Runs

| Run | Shows |
|---|---|
| `sim_pipeline` | slots are never shared (`SlotExclusive`), samples are never torn (`SamplesIntact`), repeated or reordered (`SamplesOrdered`); the pipeline implements `SampleChannel` (`ImplementsChannel`), and each of its loops `LoopThread` (`ImplementsThreads`) |
| `hub_lifecycle` | `NoThreadOutlivesMain`, `NothingLeftOpen`, `SuccessMeansServed`, `ShutdownCompletes`; the threads are `LoopThread`s, the IMU thread one that never stops the hub (`ImplementsThreads`) |
| `dds_bases` | `PointersValid`, `NothingSurvives` (a failed `init` or the destructor leaves no entity and no running callback), `SubscriberNoticed`, and `MatchedExact`: the count is exact, and what Derived was last told is right unless callbacks overlapped |
| `real_loop` | `OwnPipe`, `PublishedIsNew`, `NewestShown`, `ImplementsThread` |
| `imu_loop` | `SamplesFresh`, `StampOfItsFrame`, `LatestWritten`, `ImplementsThread`; `ParsesExactly`: what the parsers accept of every prefix of a small word and every PDO |
| `legacy_subscriber` | `PrintsEveryNth`, `SigintEnds`, and `PublishersCounted`: never negative at rest, exact unless reports were merged or overlapped |
| `legacy_publisher` | `OneDescriptor`, `PublishedWhole`, `Reconnects`, `StopsUnlessSilent` |
| `legacy_rt` | `NoGap` (nothing lost between client and server; each relay is the message just received, later than all before), `ExitStatusHonest`, `SignalEnds` |
| `trajectory` | `WithinLimits`, `NoTurning` (towards the target and never past it), `MeetsBoundary`, `VelocityIsDerivative` |
| `cdr` | `SizeExact`, `RoundTrip`, and `CutBetweenMembers`: a cut payload is accepted exactly when it ends between two members, and then only the members before the cut change |
| `loop_blocks`, `recorded_together` | two statements of the repository that the code does not satisfy (section 6) |

*Bounds.* `sim_pipeline` has a ring of capacity 2 (three slots) and five
messages: the ring fills, drops, wraps more than once and drains; the clock
advances by 0 or 1 ns per reading with two nanoseconds to a second, a
trajectory of 3 ns and an int32 range of 4, so that carries, the clamp and the
overflow of the seconds all happen.
`real_loop` has two pipes, a third joint without one, and three frames, valid or
short: a pipe with two frames drained at once, two batches and a hang-up in
between.  The other kinds of frames go through the same parser in `imu_loop`, and
the proofs cover every mix (`Shapes`).
`imu_loop` has four frames of every kind and seconds that
overflow at the last; its word has 4 bits, so that prefixes that wrap are plenty.
`hub_lifecycle` needs no bound.  `dds_bases` and
`legacy_subscriber` have two peers and two threads, enough for merged reports
of +2 and -2 and for every overlap of two callbacks; the legacy counters can
drift without end, so no report is made beyond `MaxCount`.
`legacy_subscriber` also has three samples and prints every second one: each
thread can take several in a row, and each can be overtaken between taking,
counting and deciding.  `legacy_publisher` sees one callback at a time, two devices and three
messages, so a short read, a reconnect and a whole message follow each other in
any order.  `legacy_rt` has a pool of two and five messages: the pool fills
before the server runs and drains again.  `trajectory` takes every joint with
angles from -2 to 2, goals outside the limits, durations 1, 2, 3 and 5 and
times up to 7; the six-point difference that defines the derivative is exact
for polynomials of this degree, and a polynomial identity of degree five in
each of few variables is settled by a grid of this size or by the theorems.
`cdr` lets two string lengths shift the doubles through all alignments, empties
each sequence independently, tries payload sizes one byte around the computed
one (`Slack`) and cuts at every byte.  All bounds are named constants
(`MaxSeq`, `MaxElapse`, `MaxSubscribers`, `MaxFrames`, `NameCounts`, `MaxPeers`,
`MaxCount`, `MaxSamples`, `MaxDevices`, `MaxSent`, `MaxAngle`, `MaxRate`,
`MaxTime`, `FrameLengths`, `Slack`).  `PrintEvery` (100 in the code) and
`Capacity` are parameters of the system with small values.

*Fairness.* Weak fairness of each thread's next step: threads are created with
ordinary scheduling policies, the RT thread sleeps every period and no loop
blocks without a timeout.  Callbacks that Fast-DDS owes are fair; signals,
subscribers, drivers and failures are not.  The legacy programs' threads are
fair too, but a `read()` on a silent device owes nothing: `StopsUnlessSilent`
says so instead of assuming traffic.  Calls that may fail are not assumed to
succeed, with two exceptions that are strong fairness: an `open()` tried again and
again on a device that is there succeeds at some time (`ReconnectOpen`), and so
does a `read()` on a pipe that holds frames (`ReadFrame` in `RealLoop` and
`ImuLoop`).  Without them an error that never ends would refute `Reconnects`,
`NewestShown` and `LatestWritten`, which are about what the loops do.  In `RealLoop` and
`ImuLoop` the number of frames
is bounded, i.e. drivers do not refill a pipe forever while it is drained; the
code does not look at `g_running` inside the drain loop.

*Deadlock* is checked in every run; a finished process stutters explicitly
(`Terminated`, `Done`).

## 4. What is proved

Every safety invariant and every action property that a passing run checks is
also a theorem for every value of the constants; so are the safety parts of the
refinements.  `PROJECT.json` pairs theorems and properties.  The theorems rest
on the named assumptions in the modules, which TLC evaluates in the runs: `RingAssumption` (at least one slot),
`StampAssumption` (a positive second, an even int32 range), `RtAssumption` (a
pool of at least one message), `SubscriberAssumption` (a positive print
interval), `RealAssumption` (no more pipes than joints),
`TrajectoryAssumption` (homes within limits, positive durations, integer
rates), `SampleAssumption` (samples are values of the type `JointState`), `ImuLoopAssumption` (the buffer holds the largest frame of the model, 6
bytes: with a smaller one `ParsesExactly` is false, which the proof brought to
light; the code's buffer has room to spare), and numeric types for the bounds.
No proof uses the value of a bound, and sets of threads and joints are
arbitrary.

*SimPipelineProofs.*  `TypeCorrect`, `NoSlotRace`, `NoTornSample`,
`PublishedInOrder`, `PublishedForward` are `Spec => []P` for the invariants of
`sim_pipeline`, for the types and ring indices, and for `MotionForward`: the
published trajectory time never goes back or beyond the duration.  None of them is inductive: that a sample is whole depends on
the slot it was copied from, which depends on the message that was copied into
it.  `Inv` therefore says that samples, the message the publisher holds, the
committed slots in ring order and the message in the making form one strictly
ordered sequence of whole messages (`SamplesOk`, `DdsOk`, `RingOk`, `RtOk`);
that half-copied messages agree with their slot; that the slot being filled is
free and the slot being read is committed (`Protocol`); and that nothing exists
before the trajectory's time zero is taken (`NothingYet`; the joints of a
message depend on `t0`).  `CommitOccupies` and `ReleaseFrees` reduce the index
arithmetic to set facts; `CommittedKept` states that whatever the RT thread
does outside committed slots cannot be noticed by the other side.  The time
lemmas (`TimespecExact`, `StampExact`, `StampMonotone`) carry the division and
the int32 cast: a subscriber decodes the exact time as long as the seconds fit.

*HubLifecycleProofs.*  `ThreadsJoined`, `ResourcesReturned`,
`ExitStatusHonest`, `TypeCorrect` and the action property `ImuOptional`.  The
strengthening ties `main`'s position to the threads that can exist and those
already joined (`MainKnows`) and each thread's position to what it owns
(`ThreadOwns`).

`ThreadsImplement` shows, for each thread, that the process implements
`LoopThread!SafetySpec`: one lemma says what a step of `main` can do to a
thread (`MainPhases`), one what a thread does to itself and to the flag
(`ThreadPhases`), and `RtPlain` (the RT thread has no set-up and no epoll
descriptor) excludes an early return of the RT loop.

*Refinements.*  `ChannelSafety` is `Spec => Channel!SafetySpec`: the ring is a
queue.  `pendingBar` is what the publisher holds followed by the committed slots
in ring order; `QueueCommit` and `QueueRelease` say that storing an index
appends to it or moves its head into the publisher's hands, `QueueKept` that
nothing else changes it.  A message is lost only when `Full`, i.e. when
`RING_CAPACITY` messages wait; one message more can be in the publisher's
hands, which is why `SampleChannel` lets a message enter at `Bound`.
`ThreadsSafety` and the two theorems `ThreadSafety` show the same loops, and
those of real mode, to be `LoopThread`s: what `HubLifecycle` takes for granted
is what the loops provide, on the safety side for every constant.

*RealLoopProofs.*  `ShowsOwnPipe`, `NothingStale`.  The read buffer is shared by
all joints and survives a batch, so neither is inductive.  `PipeOk` orders, per
joint, what the message shows before what its pipe holds; `RawOk` puts a frame
read by the current drain between the two, also when an error ends the drain with
frames left; `BatchOk` (each joint of a batch is
handled once) keeps what was merged in this batch from being merged over; and
`NewOk` remembers the first joint renewed, whose time is the message's.

*ImuLoopProofs.*  `FramesExact`: for every word size and every frame, the
wrapping comparison in `parse_frame` is the exact one, because a sum that wraps
is below 4 and the first test excludes such sizes (`WrappedSum`); and the two
parsers are disjoint.  `BufferParsedExactly`, `NoSampleTwice` and `StampsTrue`
need the order written sample <= message <= buffer < pipe, strict at the control
states where a new frame is known to have been read (`PipeOk`, `MsgOk`), and
that the stamp written is the encoding of a time (`WrittenOk`).

*DdsProofs.*  `PointersStayValid`, `EverythingDeleted`: `OwnerOk` gives for each
control state the entities that exist (`Created`), makes pointers agree with
entities except between the return of a create call and the assignment, and
keeps the order of dependence, so that no delete call is refused.
`MatchesCounted`: `matched_` plus the changes in callbacks that have not added
them yet is what Fast-DDS has reported.  A sum over a set of threads would need
induction, so `CountOk` says instead that the pending callbacks can be listed
such that the partial sums lead from `matched_` to `reported`; a report extends
the list, an addition takes its callback out of the middle and shifts the sums.
`DescriptorHeldOnce` and `OnlyWholePublished` use the same lemmas on entities
for the stand-alone publisher, with `ReaderOk` (the descriptor) and `BufferOk`
(device, buffer and everything written hold messages in this order, and a buffer
that may be published is whole and later than everything written).

*LegacyRtProofs.*  `StatusHonest`, `RelayExact`: the pool holds exactly the
numbers from `received + 1` to `seq` (`PoolOk`), and between `recv` and
`sendto` nothing as late as `received` has been relayed (`RelayedOk`); `MainKnows`
as above.

*LegacySubscriberProofs.*  `CountedOnce`: a negative count is always one that
some callback is about to clamp (`ClampOk`).  `PrintedOnce`: the numbers held by
threads between increment and decision are distinct, and every due number is
either printed or held.  That the number of printed samples is then the quotient
is a bijection between the positions of `printed` and the multiples
(`SameLength`), not an induction.

*JointStateProofs, about Trajectory.*  For every joint whose home lies within its limits, every
goal, duration and time.  With the default boundary conditions both polynomials
are weighted means of home and target: `home * V(s) + target * W(s)`, where
`V + W` is the common denominator (`CubicMean`, `QuinticMean`) and both weights
are natural numbers for 0 <= s <= T (`CubicWeights`, `QuinticWeights`; for the
quintic the last factor is rewritten in s and T - s).  A weighted mean of two
values within the limits is within the limits (`LimitsKept`).  W never falls:
its difference between two times is a sum of products of natural numbers in s,
the step and the time left (`CubicMonotone`, `QuinticMonotone`), so no two calls
of `compute()` turn back, and the weights leave the position on the near side of
the target (`NeverTurns`, for both ways of holding the time).  `BoundaryMet` covers every boundary
velocity and acceleration, `StopsAtTarget` the ends of the generator's motion,
and `VelocityExact` the derivative: identities of polynomials in all their
variables.

*JointStateProofs, about Cdr.*  `SizeIsExact`, `SampleRoundTrips` and
`CutAtMembers`, for every sample, with strings and sequences of any length, in
both CDR versions, and for every object it is read into.  The loops over a
sequence are folds, and what a fold computes takes an induction.  The library's
induction theorems have an operator as parameter, which the provers cannot
instantiate; that a well-founded relation has minimal elements (`WFMin`) is
first-order, however, and gives induction for membership in a set
(`SetInduction`).  With it the recursion behind a fold is shown to have a solution
(`IterExists`), and a fold becomes the sequence of its partial results (`Rounds`,
one lemma per loop).  The argument is then:

- *Writing.*  Each write continues what is there (`Continues`), so what was
  written up to a member is a prefix of the payload.  Sizes agree member by member
  (`SerialisedFacts`).  For doubles the two sides compute differently: the size
  pads once, serialisation aligns each element; after the first one no padding is
  needed (`Packed`, `DoublesLength`).  The byte count that XCDRv2 fills in before a
  sequence of strings afterwards does not move what follows (`PutStringsFacts`).
- *Reading.*  `Reads(r, b, n)`: the reader of buffer b has read what a complete
  payload holds in its first n bytes, or b is shorter and it has failed.  Every
  read keeps this (`GetStep`, `GetStringStep`, `GetSeqStep`), a sequence by
  induction on the elements read so far (`ReadRounds`).  For the loops over members
  `Progress` weakens this: the reader has also not failed when b ends between two
  members gone through so far, and it is then at the end of b.  It adds that the
  members which end within b are the sample's and all others what the object held
  before (`Merged`).  A member's round keeps it (`MemberRound`, `MemberStep`): either
  the loop has stopped, or the read is one of those above.  After the last member
  this is `CutBetweenMembers`, and for a whole payload nothing is left of what the
  object held (`GetJointStateStep`, `ParsedFacts`).
- *The specification.*  The properties mention only lengths and results.  `CdrInv`
  adds that the payload is what was written for this sample in this CDR version,
  of a size that was computed for it.

Only model-checked: what must eventually happen (`ShutdownCompletes`,
`SubscriberNoticed`, `NewestShown`, `LatestWritten`, `Reconnects`,
`StopsUnlessSilent`, `SignalEnds`, `SigintEnds` and the fairness of the
refinements), since liveness under fairness is outside what the prover handles.

## 5. What is not modelled

- That the length of a string or sequence is written in 32 bits: lengths are not
  bounded in `Cdr`, and no sample of the repository comes near.
- Rounding of doubles in the trajectories: limits and monotonicity hold for
  exact arithmetic, and up to rounding for the program.
- In the generated code: accessors, copies and comparison of the data classes,
  which are plain member access; `compute_key` and `serialize_key`, which Fast-DDS
  calls only for keyed topics; the top-level support classes of `Header` and
  `Time`, which are never registered (their parts inside `JointState` are in
  `Cdr`); Fast-CDR beyond what `Cdr` states of it.
- What the legacy subscriber prints of a sample, QoS values other than the depth
  of its cache, formatting and log output.
- A class derived from `DdsSubscriber`: the repository has none, so
  `on_data_available` ends at the forwarding call.
- A drain that never ends because a driver refills its pipe faster than it is
  read, and null pipe names reaching `std::cerr`: see the notes in
  `PROJECT.json`.
- Memory orders: the flag is relaxed and carries no data; the ring's
  acquire/release pairs are boost's.

## 6. Disagreements between code and documentation

1. `include/dds/entry_points.hpp:4` says each loop blocks until `g_running`
   becomes false.  An `epoll_wait` error other than `EINTR` makes
   `run_real_dds_loop` return with `g_running` still true; with an IMU, `main`
   then waits for the IMU thread, which keeps running (`loop_blocks`).
2. `idl/sensor_msgs/msg/JointState.idl:18` requires all joint states of a message
   to be recorded at the time in its header; the real-mode loop merges frames of
   different times and keeps old values (`recorded_together`).

`include/robots/RobotModel.hpp:51` also offers an empty `imu_pipe_name` to
declare that there is no IMU, where `main` tests the pointer only and starts the
IMU thread.  No robot of the repository uses an empty name; `HubLifecycle`
includes it, and every property of `hub_lifecycle` holds with it.

`include/dds/entry_points.hpp:13` says that the sim loop publishes "fake sine wave
data".  What it publishes is the quintic trajectory of `rt_trajectory_client.cpp`,
which moves to its goal and stays there; `NoTurning` is about that code, and a sine
would not satisfy it.

A payload cut between two members is accepted, see `Cdr` above.  No document of the
repository says otherwise, and Fast-DDS delivers complete payloads; the run states
exactly what such a payload would do to the reader's object.

## 7. Plan

1. Proofs about the composition: that what `HubLifecycle` assumes of each loop
   is exactly what the loop modules prove is stated twice today, once per side.
2. Composition of `LegacyRt` and `LegacyPublisher` over one XDDP device.
