------------------------- MODULE SimPipelineProofs -------------------------
(***************************************************************************)
(* Proofs about SimPipeline, for every ring capacity, trajectory duration, *)
(* second length, int32 range and bound.                                   *)
(***************************************************************************)
EXTENDS SimPipeline, SequenceTheorems, TLAPS

\* How far slot i is from the oldest committed one, and whether it is one
\* of the Size committed slots.
Pos(i) == IF read_index <= i THEN i - read_index
          ELSE i + RING_CAPACITY + 1 - read_index

Occupied(i) == i \in Index /\ Pos(i) < Size

\* Order of two headers, and being made before the current message.
Older(h, g) == h.seq < g.seq /\ h.timestamp_ns <= g.timestamp_ns
Made(h)     == h.seq < madeBar /\ h.timestamp_ns <= clock

\* m carries the joints that compute() returned at the time in its header.
Intact(m) == m.joints = JointsAt(m.header.timestamp_ns)

Pushing == rt_pc \in {"push_joints", "commit"}
Popping == dds_pc \in {"pop_joints", "release"}

(* The inductive invariant, in parts. *)

\* Before the first clock reading nothing has been made.
NothingYet == rt_pc = "start" =>
    Empty /\ samples = <<>> /\ ~Popping /\ ~HoldsMsg /\ ~MakingMsg

\* The slot being filled is free, the slot being read is committed.
Protocol == (Pushing => ~Full) /\ (Popping => ~Empty)

\* The message being made is newer than all others; the part of it already
\* copied is in the slot.
RtOk == /\ MakingMsg => /\ rt_msg.header.seq = seq - 1
                        /\ rt_msg.header.timestamp_ns = clock
                        /\ Intact(rt_msg) /\ seq > 0
        /\ Pushing => ring[write_index].header = rt_msg.header
        /\ rt_pc = "commit" => ring[write_index].joints = rt_msg.joints

\* Committed slots hold intact messages, oldest first.
RingOk == /\ \A i \in Index : Occupied(i) =>
                 Intact(ring[i]) /\ Made(ring[i].header)
          /\ \A i, j \in Index : Occupied(i) /\ Occupied(j) /\ Pos(i) < Pos(j)
                 => Older(ring[i].header, ring[j].header)

\* What has been copied out of a slot is what the slot holds; a message that
\* was taken out is older than those that are still in.
DdsOk == /\ Popping => dds_msg.header = ring[read_index].header
         /\ dds_pc = "release" => dds_msg.joints = ring[read_index].joints
         /\ HoldsMsg => /\ Intact(dds_msg) /\ Made(dds_msg.header)
                        /\ \A i \in Index : Occupied(i) =>
                               Older(dds_msg.header, ring[i].header)

\* Samples are intact, sorted and older than what is still on its way.
SamplesOk ==
    /\ \A k \in DOMAIN samples :
           /\ Intact(samples[k]) /\ Made(samples[k].header)
           /\ samples[k].stamp = ToStamp(samples[k].header.timestamp_ns)
           /\ HoldsMsg => Older(samples[k].header, dds_msg.header)
           /\ \A i \in Index : Occupied(i) =>
                  Older(samples[k].header, ring[i].header)
    /\ \A k, l \in DOMAIN samples : k < l =>
           Older(samples[k].header, samples[l].header)

Inv == TypeOK /\ NothingYet /\ Protocol /\ RtOk /\ RingOk /\ DdsOk /\ SamplesOk
-----------------------------------------------------------------------------
(* Time *)

\* A product with the length of a second distributes and keeps the order.
LEMMA Products ==
    ASSUME NEW a \in Int, NEW b \in Int, NEW n \in Nat
    PROVE  /\ (a - b) * n = a * n - b * n
           /\ a >= b + 1 => a * n >= b * n + n
<1>1. (a - b) * n = a * n - b * n
    OBVIOUS
<1>2. ASSUME a >= b + 1 PROVE a * n >= b * n + n
  <2>1. (a - (b + 1)) * n >= 0
    BY <1>2
  <2>2. (a - (b + 1)) * n = a * n - (b * n + n)
    OBVIOUS
  <2>3. a * n \in Int /\ b * n \in Int
    OBVIOUS
  <2> QED
    BY <2>1, <2>2, <2>3
<1> QED
    BY <1>1, <1>2

\* Splitting a clock reading into seconds and nanoseconds loses nothing, so
\* the difference of two readings is exact.
LEMMA TimespecExact ==
    ASSUME NEW x \in Nat, NEW y \in Nat
    PROVE  /\ timespec_to_ns(Timespec(x)) = x
           /\ timespec_diff(Timespec(x), Timespec(y)) = x - y
<1>1. /\ x = (x \div NS_PER_SEC) * NS_PER_SEC + (x % NS_PER_SEC)
      /\ y = (y \div NS_PER_SEC) * NS_PER_SEC + (y % NS_PER_SEC)
      /\ x \div NS_PER_SEC \in Nat /\ y \div NS_PER_SEC \in Nat
      /\ x % NS_PER_SEC \in Nat /\ y % NS_PER_SEC \in Nat
    BY StampAssumption
<1>2. timespec_to_ns(Timespec(x)) = x
    BY <1>1, StampAssumption DEF timespec_to_ns, Timespec
<1>3. timespec_diff(Timespec(x), Timespec(y)) = x - y
  <2>1. (x \div NS_PER_SEC - y \div NS_PER_SEC) * NS_PER_SEC
        = (x \div NS_PER_SEC) * NS_PER_SEC - (y \div NS_PER_SEC) * NS_PER_SEC
    BY <1>1, Products, StampAssumption
  <2>2. /\ (x \div NS_PER_SEC) * NS_PER_SEC \in Int
        /\ (y \div NS_PER_SEC) * NS_PER_SEC \in Int
    BY <1>1, StampAssumption
  <2> QED
    BY <1>1, <2>1, <2>2 DEF timespec_diff, Timespec
<1> QED
    BY <1>2, <1>3

\* compute() is evaluated inside the trajectory, and later for later times.
LEMMA JointsMonotone ==
    ASSUME t0 \in Nat, NEW x \in Nat, NEW y \in Nat, x <= y
    PROVE  /\ JointsAt(x) \in Nat /\ JointsAt(x) <= Duration
           /\ JointsAt(x) <= JointsAt(y)
    BY TimespecExact, PipelineAssumption DEF JointsAt, clamp

\* What publish() puts on the wire has the types of Time.idl, and as long as
\* the seconds fit into an int32_t a subscriber reads the same time back.
LEMMA StampExact ==
    ASSUME NEW x \in Nat
    PROVE  /\ ToStamp(x) \in [sec : Int, nanosec : Nat]
           /\ FitsStamp(x) => FromStamp(ToStamp(x)) = x
<1> DEFINE s == x \div NS_PER_SEC
<1>1. /\ x = s * NS_PER_SEC + (x % NS_PER_SEC)
      /\ s \in Nat /\ x % NS_PER_SEC \in Nat
    BY StampAssumption
<1>2. int32(s) \in Int
    BY <1>1, StampAssumption DEF int32
<1>3. ASSUME FitsStamp(x) PROVE int32(s) = s
  <2>1. s < INT32_RANGE /\ 2 * s < INT32_RANGE
    BY <1>1, <1>3, StampAssumption DEF FitsStamp
  <2>2. s % INT32_RANGE = s
    BY <1>1, <2>1, StampAssumption
  <2> QED
    BY <2>1, <2>2 DEF int32
<1>4. ToStamp(x) = [sec |-> int32(s), nanosec |-> x % NS_PER_SEC]
    BY DEF ToStamp
<1> HIDE DEF s
<1>5. ToStamp(x) \in [sec : Int, nanosec : Nat]
    BY <1>1, <1>2, <1>4
<1>6. FitsStamp(x) => FromStamp(ToStamp(x)) = x
    BY <1>1, <1>3, <1>4 DEF FromStamp
<1> QED
    BY <1>5, <1>6

\* A later time is decoded as a later stamp, up to the overflow.
LEMMA StampMonotone ==
    ASSUME NEW x \in Nat, NEW y \in Nat, x <= y, FitsStamp(y)
    PROVE  FromStamp(ToStamp(x)) <= FromStamp(ToStamp(y))
<1> DEFINE a == x \div NS_PER_SEC
           b == y \div NS_PER_SEC
<1>1. /\ x = a * NS_PER_SEC + (x % NS_PER_SEC)
      /\ y = b * NS_PER_SEC + (y % NS_PER_SEC)
      /\ a \in Nat /\ b \in Nat
      /\ x % NS_PER_SEC \in 0 .. NS_PER_SEC - 1
      /\ y % NS_PER_SEC \in 0 .. NS_PER_SEC - 1
      /\ a * NS_PER_SEC \in Nat /\ b * NS_PER_SEC \in Nat
    BY StampAssumption
<1>2. 2 * b < INT32_RANGE /\ (2 * a < INT32_RANGE => FitsStamp(x))
    BY DEF FitsStamp
<1>3. a >= b + 1 => a * NS_PER_SEC >= b * NS_PER_SEC + NS_PER_SEC
    BY <1>1, Products, StampAssumption
<1> HIDE DEF a, b
<1>4. a <= b
    BY <1>1, <1>3, StampAssumption
<1>5. FitsStamp(x)
    BY <1>1, <1>2, <1>4, StampAssumption
<1> QED
    BY <1>5, StampExact
-----------------------------------------------------------------------------
(* The ring *)

\* The slot at write_index is not committed; the one at read_index is the
\* oldest committed one, unless the ring is empty.
LEMMA RingEnds ==
    ASSUME TypeOK
    PROVE  /\ ~Occupied(write_index)
           /\ ~Empty => Occupied(read_index)
           /\ \A i \in Index : Pos(read_index) = 0 /\ Pos(i) >= 0
           /\ \A i \in Index : Occupied(i) => Pos(i) < Pos(write_index)
           /\ \A i \in Index : i # read_index => Pos(i) > 0
           /\ Empty => \A i \in Index : ~Occupied(i)
    BY RingAssumption DEF TypeOK, Index, Occupied, Pos, Size, Empty

\* Storing write_index commits one more slot, behind all the others.
LEMMA CommitOccupies ==
    ASSUME TypeOK, ~Full, PushCommit
    PROVE  /\ \A i \in Index : Occupied(i)' <=> Occupied(i) \/ i = write_index
           /\ \A i \in Index : Pos(i)' = Pos(i)
           /\ ~Empty'
    BY RingAssumption DEF TypeOK, Index, Occupied, Pos, Size, Empty, Full,
       next_index, PushCommit

\* Storing read_index releases the oldest slot and keeps the order.
LEMMA ReleaseFrees ==
    ASSUME TypeOK, ~Empty, PopRelease
    PROVE  /\ \A i \in Index : Occupied(i)' <=> Occupied(i) /\ i # read_index
           /\ \A i \in Index : i # read_index => Pos(i)' = Pos(i) - 1
           /\ ~Full'
    BY RingAssumption DEF TypeOK, Index, Occupied, Pos, Size, Empty, Full,
       next_index, PopRelease
-----------------------------------------------------------------------------
(* Type correctness *)

\* A message has the parts it should have.
LEMMA SlotTypes ==
    ASSUME TypeOK
    PROVE  /\ \A i \in Index : /\ ring[i] \in Message
                               /\ ring[i].header.seq \in Nat
                               /\ ring[i].header.timestamp_ns \in Nat
           /\ read_index \in Index /\ write_index \in Index
    BY DEF TypeOK, Message, Header

\* So has a published sample.
LEMMA SampleTypes ==
    ASSUME TypeOK, NEW k \in DOMAIN samples
    PROVE  /\ samples[k] \in Sample /\ samples[k].header \in Header
           /\ samples[k].header.seq \in Nat
           /\ samples[k].header.timestamp_ns \in Nat
<1>1. samples[k] \in Sample
  <2>1. ASSUME NEW S, NEW s \in Seq(S), NEW i \in DOMAIN s PROVE s[i] \in S
    OBVIOUS
  <2> QED
    BY <2>1, Zenon DEF TypeOK
<1> QED
    BY <1>1 DEF Sample, Header

\* Copying half a message into a slot, or out of it, leaves a message.
LEMMA CopyTypes ==
    ASSUME NEW r \in [Index -> Message], NEW i \in Index, NEW m \in Message,
           NEW d \in Message
    PROVE  /\ [r EXCEPT ![i].header = m.header] \in [Index -> Message]
           /\ [r EXCEPT ![i].joints = m.joints] \in [Index -> Message]
           /\ [d EXCEPT !.header = r[i].header] \in Message
           /\ [d EXCEPT !.joints = r[i].joints] \in Message
<1> USE DEF Message, Header
<1>1. r[i] \in Message
    OBVIOUS
<1>2. [r[i] EXCEPT !.header = m.header] \in Message
    BY <1>1
<1>3. [r[i] EXCEPT !.joints = m.joints] \in Message
    BY <1>1
<1>4. [d EXCEPT !.header = r[i].header] \in Message
    BY <1>1
<1>5. [d EXCEPT !.joints = r[i].joints] \in Message
    BY <1>1
<1> HIDE DEF Message, Header
<1> QED
    BY <1>2, <1>3, <1>4, <1>5

LEMMA TypeRt == TypeOK /\ RtStep => TypeOK'
<1> SUFFICES ASSUME TypeOK, RtStep PROVE TypeOK'
    OBVIOUS
<1> USE DEF TypeOK, RtGoto, ringVars, ddsVars
<1>1. CASE RtStart
    BY <1>1, PipelineAssumption DEF RtStart
<1>2. CASE RtContinue \/ RtPushFull \/ RtSleep \/ RtExit
    BY <1>2 DEF RtContinue, RtPushFull, RtSleep, RtExit
<1>3. CASE RtFill
  <2>1. clock' \in Nat /\ t0' = t0 /\ seq' \in Nat
    BY <1>3, PipelineAssumption DEF RtFill
  <2>2. JointsAt(clock') \in Nat /\ timespec_to_ns(Timespec(clock')) \in Nat
    BY <2>1, JointsMonotone, TimespecExact
  <2>3. rt_msg' \in Message
    BY <1>3, <2>2 DEF RtFill, Message, Header
  <2> QED
    BY <1>3, <2>1, <2>3 DEF RtFill
<1>4. CASE RtPushHeader \/ RtPushJoints
  <2>1. /\ [ring EXCEPT ![write_index].header = rt_msg.header] \in [Index -> Message]
        /\ [ring EXCEPT ![write_index].joints = rt_msg.joints] \in [Index -> Message]
    BY CopyTypes, Zenon
  <2>2. ring' \in [Index -> Message]
    BY <1>4, <2>1, Zenon DEF RtPushHeader, RtPushJoints, PushHeader, PushJoints
  <2> QED
    BY <1>4, <2>2 DEF RtPushHeader, RtPushJoints, PushHeader, PushJoints
<1>5. CASE RtCommit
    BY <1>5, RingAssumption DEF RtCommit, PushCommit, next_index, Index
<1> QED
    BY <1>1, <1>2, <1>3, <1>4, <1>5 DEF RtStep

LEMMA TypeDds == TypeOK /\ DdsStep => TypeOK'
<1> SUFFICES ASSUME TypeOK, DdsStep PROVE TypeOK'
    OBVIOUS
<1> USE DEF TypeOK, DdsGoto, ringVars, rtVars
<1>1. CASE DdsInit \/ DdsContinue \/ DdsPopEmpty \/ DdsPublishSkip
           \/ DdsPublishFill \/ DdsSleep
    BY <1>1 DEF DdsInit, DdsContinue, DdsPopEmpty, DdsPublishSkip,
       DdsPublishFill, DdsSleep
<1>2. CASE DdsInitFails \/ DdsExit
  <2>1. g_running' \in BOOLEAN
    BY <1>2, Zenon DEF DdsInitFails, DdsExit
  <2>2. matched' \in Nat
    BY <1>2 DEF DdsInitFails, DdsExit
  <2> QED
    BY <1>2, <2>1, <2>2 DEF DdsInitFails, DdsExit
<1>3. CASE DdsPopHeader \/ DdsPopJoints
  <2>1. /\ [dds_msg EXCEPT !.header = ring[read_index].header] \in Message
        /\ [dds_msg EXCEPT !.joints = ring[read_index].joints] \in Message
    BY CopyTypes, Zenon
  <2>2. dds_msg' \in Message
    BY <1>3, <2>1, Zenon DEF DdsPopHeader, DdsPopJoints
  <2> QED
    BY <1>3, <2>2 DEF DdsPopHeader, DdsPopJoints
<1>4. CASE DdsRelease
    BY <1>4, RingAssumption DEF DdsRelease, PopRelease, next_index, Index
<1>5. CASE DdsWrite
  <2>1. /\ dds_msg.header \in Header
        /\ dds_msg.joints \in Nat
        /\ ToStamp(dds_msg.header.timestamp_ns) \in [sec : Int, nanosec : Nat]
    BY StampExact DEF Message, Header
  <2>2. [header |-> dds_msg.header,
         stamp  |-> ToStamp(dds_msg.header.timestamp_ns),
         joints |-> dds_msg.joints] \in Sample
    BY <2>1 DEF Sample
  <2> QED
    BY <1>5, <2>2 DEF DdsWrite
<1> QED
    BY <1>1, <1>2, <1>3, <1>4, <1>5 DEF DdsStep

\* Every step of the loops, the listener and the signal handler keeps the
\* types and the ring indices in range.
LEMMA TypeStep == TypeOK /\ [Next]_vars => TypeOK'
<1> SUFFICES ASSUME TypeOK, [Next]_vars PROVE TypeOK'
    OBVIOUS
<1>1. CASE OnMatched
    BY <1>1, PipelineAssumption DEF OnMatched, TypeOK, ringVars, rtVars, ddsVars
<1>2. CASE OnShutdown
    BY <1>2 DEF OnShutdown, TypeOK, ringVars, rtVars, ddsVars
<1>3. CASE UNCHANGED vars
    BY <1>3 DEF vars, TypeOK, ringVars, rtVars, ddsVars
<1> QED
    BY <1>1, <1>2, <1>3, TypeRt, TypeDds DEF Next, Terminated

\* Every variable keeps its shape and the indices stay inside the ring.
THEOREM TypeCorrect == Spec => []TypeOK
<1>1. Init => TypeOK
  <2>1. Zero \in Message
    BY DEF Zero, Message, Header
  <2> QED
    BY <2>1, RingAssumption DEF Init, TypeOK, Index
<1> QED
    BY <1>1, TypeStep, PTL DEF Spec
-----------------------------------------------------------------------------
(* The inductive invariant *)

LEMMA RingUnchanged ==
    ASSUME UNCHANGED <<write_index, read_index>>
    PROVE  /\ \A i : (Occupied(i)' <=> Occupied(i)) /\ Pos(i)' = Pos(i)
           /\ (Full' <=> Full) /\ (Empty' <=> Empty)
    BY DEF Occupied, Pos, Size, Full, Empty

LEMMA JointsUnchanged ==
    ASSUME t0' = t0
    PROVE  \A x : JointsAt(x)' = JointsAt(x)
    BY DEF JointsAt

\* A step of the RT thread that leaves the committed slots alone cannot be
\* noticed by the DDS thread.
LEMMA CommittedKept ==
    ASSUME Inv, TypeOK', UNCHANGED <<write_index, read_index, t0, ddsVars>>,
           \A i \in Index : Occupied(i) => ring'[i] = ring[i],
           clock' >= clock, madeBar' >= madeBar
    PROVE  RingOk' /\ DdsOk' /\ SamplesOk'
<1>1. /\ \A i : (Occupied(i)' <=> Occupied(i)) /\ Pos(i)' = Pos(i)
      /\ \A x : JointsAt(x)' = JointsAt(x)
    BY RingUnchanged, JointsUnchanged
<1>2. clock \in Nat /\ clock' \in Nat /\ madeBar \in Int /\ madeBar' \in Int
    BY DEF Inv, TypeOK, madeBar
<1>3. \A h \in Header : Made(h) => Made(h)'
    BY <1>2 DEF Made, Header
<1>4. RingOk'
  <2>1. ASSUME NEW i \in Index, Occupied(i)'
        PROVE  Intact(ring[i])' /\ Made(ring[i].header)'
    BY <1>1, <1>3, <2>1 DEF Inv, RingOk, Intact, TypeOK, Message, Made
  <2>2. ASSUME NEW i \in Index, NEW j \in Index, Occupied(i)', Occupied(j)',
               Pos(i)' < Pos(j)'
        PROVE  Older(ring[i].header, ring[j].header)'
    BY <1>1, <2>2 DEF Inv, RingOk, Older
  <2> QED
    BY <2>1, <2>2 DEF RingOk
<1>5. DdsOk'
  <2>1. Popping => Occupied(read_index)
    BY RingEnds DEF Inv, Protocol
  <2>2. Popping => ring'[read_index] = ring[read_index]
    BY <2>1 DEF Occupied
  <2>3. HoldsMsg' => Intact(dds_msg)' /\ Made(dds_msg.header)'
    BY <1>1, <1>3 DEF Inv, DdsOk, Intact, HoldsMsg, ddsVars, TypeOK, Message
  <2>4. ASSUME HoldsMsg', NEW i \in Index, Occupied(i)'
        PROVE  Older(dds_msg.header, ring[i].header)'
    BY <1>1, <2>4 DEF Inv, DdsOk, Older, HoldsMsg, ddsVars
  <2> QED
    BY <2>2, <2>3, <2>4 DEF Inv, DdsOk, ddsVars, HoldsMsg, Popping
<1>6. SamplesOk'
  <2>1. samples' = samples /\ dds_msg' = dds_msg /\ (HoldsMsg' <=> HoldsMsg)
    BY DEF ddsVars, HoldsMsg
  <2>2. ASSUME NEW k \in DOMAIN samples
        PROVE  /\ samples[k].header \in Header
               /\ Intact(samples[k])' /\ Made(samples[k].header)'
    <3>1. samples[k].header \in Header
      BY SampleTypes DEF Inv
    <3>2. Intact(samples[k])'
      BY <1>1, <2>1 DEF Inv, SamplesOk, Intact
    <3>3. Made(samples[k].header)'
      BY <1>3, <2>1, <3>1 DEF Inv, SamplesOk, Made
    <3> QED
      BY <3>1, <3>2, <3>3
  <2>3. ASSUME NEW k \in DOMAIN samples, NEW i \in Index, Occupied(i)'
        PROVE  Older(samples[k].header, ring[i].header)'
    BY <1>1, <2>1, <2>3 DEF Inv, SamplesOk, Older
  <2> QED
    BY <2>1, <2>2, <2>3 DEF Inv, SamplesOk, Older
<1> QED
    BY <1>4, <1>5, <1>6

\* run_rt_loop: the message in the making is put behind all the others.
LEMMA RtKeeps ==
    ASSUME Inv, TypeOK', RtStep
    PROVE  Inv'
<1> USE DEF RtGoto
<1>0. TypeOK /\ clock \in Nat /\ seq \in Nat /\ t0 \in Nat
    BY DEF Inv, TypeOK
<1>1. CASE RtStart
  <2>1. /\ Empty /\ samples = <<>> /\ ~Popping /\ ~HoldsMsg /\ ~MakingMsg
        /\ UNCHANGED <<ringVars, ddsVars>> /\ rt_pc' = "check"
    BY <1>1 DEF RtStart, Inv, NothingYet
  <2>2. \A i \in Index : ~Occupied(i)'
    BY <1>0, <2>1, RingEnds, RingUnchanged DEF ringVars
  <2>3. samples' = <<>> /\ ~Popping' /\ ~HoldsMsg' /\ ~MakingMsg' /\ ~Pushing'
        /\ dds_pc' # "release"
    BY <2>1 DEF ddsVars, Popping, HoldsMsg, MakingMsg, Pushing
  <2> QED
    BY <2>1, <2>2, <2>3 DEF Inv, NothingYet, Protocol, RtOk, RingOk, DdsOk,
       SamplesOk
<1>2. CASE RtContinue \/ RtPushFull \/ RtSleep \/ RtExit
  <2>1. /\ UNCHANGED <<ringVars, ddsVars, clock, t0, seq, rt_msg>>
        /\ rt_pc' \in {"fill", "sleep", "check", "exited"}
    BY <1>2 DEF RtContinue, RtPushFull, RtSleep, RtExit
  <2>2. ~MakingMsg' /\ ~Pushing' /\ rt_pc' # "start" /\ rt_pc' # "commit"
    BY <2>1 DEF MakingMsg, Pushing
  <2>3. madeBar' >= madeBar
    BY <1>0, <2>1, <2>2 DEF madeBar
  <2>4. RingOk' /\ DdsOk' /\ SamplesOk'
    BY <1>0, <2>1, <2>3, CommittedKept DEF ringVars
  <2>5. NothingYet' /\ Protocol' /\ RtOk'
    BY <2>1, <2>2, RingUnchanged DEF Inv, NothingYet, Protocol, RtOk, ringVars,
       ddsVars, Popping
  <2> QED
    BY <2>4, <2>5 DEF Inv
<1>3. CASE RtFill
  <2>1. /\ UNCHANGED <<ringVars, ddsVars, t0>> /\ clock' >= clock
        /\ clock' \in Nat
        /\ rt_pc = "fill" /\ rt_pc' = "push" /\ seq' = seq + 1
    BY <1>0, <1>3, PipelineAssumption DEF RtFill
  <2>2. MakingMsg' /\ ~MakingMsg /\ ~Pushing'
    BY <2>1 DEF MakingMsg, Pushing
  <2>3. madeBar' >= madeBar
    BY <1>0, <2>1, <2>2 DEF madeBar
  <2>4. RingOk' /\ DdsOk' /\ SamplesOk'
    BY <1>0, <2>1, <2>3, CommittedKept DEF ringVars
  <2>5. /\ rt_msg'.header.seq = seq
        /\ rt_msg'.header.timestamp_ns = clock'
        /\ rt_msg'.joints = JointsAt(clock')
    BY <1>3, <2>1, TimespecExact DEF RtFill
  <2>6. Intact(rt_msg)'
    BY <2>1, <2>5, JointsUnchanged DEF Intact
  <2>7. RtOk'
    BY <1>0, <2>1, <2>2, <2>5, <2>6 DEF RtOk
  <2>8. NothingYet' /\ Protocol'
    BY <2>1, <2>2, RingUnchanged DEF Inv, NothingYet, Protocol, ringVars,
       ddsVars, Popping
  <2> QED
    BY <2>4, <2>7, <2>8 DEF Inv
<1>4. CASE RtPushHeader \/ RtPushJoints
  <2>1. /\ UNCHANGED <<write_index, read_index, ddsVars, clock, t0, seq, rt_msg>>
        /\ rt_pc \in {"push", "push_joints"}
        /\ rt_pc' \in {"push_joints", "commit"}
    BY <1>4 DEF RtPushHeader, RtPushJoints, PushHeader, PushJoints
  <2>2. MakingMsg /\ MakingMsg' /\ Pushing' /\ madeBar' = madeBar
    BY <2>1 DEF MakingMsg, Pushing, madeBar
  <2>3. ~Full
    BY <1>4 DEF RtPushHeader, RtPushJoints, PushHeader, Inv, Protocol, Pushing
  <2>4. ~Occupied(write_index) /\ ring \in [Index -> Message]
        /\ write_index \in Index
    BY <1>0, RingEnds DEF TypeOK
  <2>5. \A i \in Index : i # write_index => ring'[i] = ring[i]
    BY <1>4, <2>4 DEF RtPushHeader, RtPushJoints, PushHeader, PushJoints
  <2>6. RingOk' /\ DdsOk' /\ SamplesOk'
    <3>1. \A i \in Index : Occupied(i) => ring'[i] = ring[i]
      BY <2>4, <2>5
    <3>2. clock' >= clock /\ madeBar' >= madeBar
      BY <1>0, <2>1, <2>2 DEF madeBar
    <3> QED
      BY <1>0, <2>1, <3>1, <3>2, CommittedKept
  <2>7. /\ ring'[write_index].header = rt_msg.header
        /\ rt_pc' = "commit" => ring'[write_index].joints = rt_msg.joints
    <3>1. CASE RtPushHeader
      BY <2>4, <3>1 DEF RtPushHeader, PushHeader, Message
    <3>2. CASE RtPushJoints
      <4>1. ring[write_index].header = rt_msg.header
        BY <3>2 DEF RtPushJoints, Inv, RtOk, Pushing
      <4> QED
        BY <2>4, <3>2, <4>1 DEF RtPushJoints, PushJoints, Message
    <3> QED
      BY <1>4, <3>1, <3>2
  <2>8. Intact(rt_msg)'
    BY <2>1, <2>2, JointsUnchanged DEF Inv, RtOk, Intact
  <2>9. RtOk'
    BY <2>1, <2>2, <2>7, <2>8 DEF Inv, RtOk
  <2>10. NothingYet' /\ Protocol'
    BY <2>1, <2>3, RingUnchanged DEF Inv, NothingYet, Protocol, ddsVars, Popping
  <2> QED
    BY <2>6, <2>9, <2>10 DEF Inv
<1>5. CASE RtCommit
  <2>1. /\ PushCommit /\ UNCHANGED <<ring, read_index, ddsVars, clock, t0, seq,
                                   rt_msg>>
        /\ rt_pc = "commit" /\ rt_pc' = "sleep"
    BY <1>5 DEF RtCommit, PushCommit
  <2>2. MakingMsg /\ ~MakingMsg' /\ Pushing /\ ~Pushing' /\ ~Full
    BY <2>1 DEF MakingMsg, Pushing, Inv, Protocol
  <2>3. /\ \A i \in Index : Occupied(i)' <=> Occupied(i) \/ i = write_index
        /\ \A i \in Index : Pos(i)' = Pos(i)
        /\ ~Empty'
    BY <1>0, <2>1, <2>2, CommitOccupies
  <2>4. \A x : JointsAt(x)' = JointsAt(x)
    BY <2>1, JointsUnchanged
  <2>5. madeBar = seq - 1 /\ madeBar' = seq /\ seq \in Nat /\ clock \in Nat
    BY <1>0, <2>1, <2>2 DEF madeBar
  <2>6. /\ ring[write_index].header = rt_msg.header
        /\ ring[write_index].joints = rt_msg.joints
        /\ rt_msg.header.seq = seq - 1 /\ rt_msg.header.timestamp_ns = clock
        /\ Intact(rt_msg)
    BY <2>1, <2>2 DEF Inv, RtOk
  <2>7. \A h \in Header : Made(h) =>
            Made(h)' /\ Older(h, ring[write_index].header)
    BY <2>1, <2>5, <2>6 DEF Made, Older, Header
  <2>8. \A i \in Index : ring[i] \in Message /\ ring[i].header \in Header
    BY <1>0 DEF TypeOK, Message
  <2>9. RingOk'
    <3>1. ASSUME NEW i \in Index, Occupied(i)'
          PROVE  Intact(ring[i])' /\ Made(ring[i].header)'
      <4>1. CASE i = write_index
        <5>1. Intact(ring[i])'
          BY <2>1, <2>4, <2>6, <4>1 DEF Intact
        <5>2. Made(ring[i].header)'
          BY <2>1, <2>5, <2>6, <4>1 DEF Made
        <5> QED
          BY <5>1, <5>2
      <4>2. CASE i # write_index
        <5>1. Intact(ring[i]) /\ Made(ring[i].header)
          BY <2>3, <3>1, <4>2 DEF Inv, RingOk
        <5>2. Intact(ring[i])'
          BY <2>1, <2>4, <5>1 DEF Intact
        <5>3. Made(ring[i].header)'
          BY <2>1, <2>5, <2>8, <5>1 DEF Made, Header
        <5> QED
          BY <5>2, <5>3
      <4> QED
        BY <4>1, <4>2
    <3>2. ASSUME NEW i \in Index, NEW j \in Index, Occupied(i)', Occupied(j)',
                 Pos(i)' < Pos(j)'
          PROVE  Older(ring[i].header, ring[j].header)'
      <4>1. i # write_index
        <5>1. Pos(i) \in Int /\ Pos(j) \in Int
          BY <1>0, RingAssumption DEF TypeOK, Pos, Index
        <5>2. Pos(i) < Pos(j) /\ (Occupied(j) \/ j = write_index)
          BY <2>3, <3>2
        <5>3. Occupied(j) => Pos(j) < Pos(write_index)
          BY <1>0, RingEnds
        <5> QED
          BY <5>1, <5>2, <5>3
      <4>2. Made(ring[i].header)
        BY <2>3, <3>2, <4>1 DEF Inv, RingOk
      <4>3. Older(ring[i].header, ring[j].header)
        BY <2>3, <2>7, <2>8, <3>2, <4>1, <4>2 DEF Inv, RingOk
      <4> QED
        BY <2>1, <4>3 DEF Older
    <3> QED
      BY <3>1, <3>2 DEF RingOk
  <2>10. DdsOk'
    <3>1. HoldsMsg' => Intact(dds_msg)'
      BY <2>1, <2>4 DEF Inv, DdsOk, Intact, HoldsMsg, ddsVars
    <3>2. HoldsMsg' => Made(dds_msg.header)'
      <4>1. dds_msg.header \in Header /\ dds_msg' = dds_msg
        BY <1>0, <2>1 DEF TypeOK, Message, ddsVars
      <4>2. HoldsMsg' => Made(dds_msg.header)
        BY <2>1 DEF Inv, DdsOk, HoldsMsg, ddsVars
      <4> QED
        BY <2>1, <2>5, <4>1, <4>2 DEF Made, Header
    <3>3. ASSUME HoldsMsg', NEW i \in Index, Occupied(i)'
          PROVE  Older(dds_msg.header, ring[i].header)'
      <4>1. HoldsMsg /\ dds_msg' = dds_msg /\ dds_msg.header \in Header
        BY <1>0, <2>1, <3>3 DEF HoldsMsg, ddsVars, TypeOK, Message
      <4>2. Older(dds_msg.header, ring[i].header)
        BY <2>3, <2>7, <3>3, <4>1 DEF Inv, DdsOk
      <4> QED
        BY <2>1, <4>1, <4>2 DEF Older
    <3> QED
      BY <2>1, <3>1, <3>2, <3>3 DEF Inv, DdsOk, ddsVars, HoldsMsg, Popping
  <2>11. SamplesOk'
    <3>1. samples' = samples /\ dds_msg' = dds_msg /\ (HoldsMsg' <=> HoldsMsg)
      BY <2>1 DEF ddsVars, HoldsMsg
    <3>2. ASSUME NEW k \in DOMAIN samples
          PROVE  Intact(samples[k])' /\ Made(samples[k].header)'
      <4>1. Intact(samples[k])'
        BY <2>4, <3>1 DEF Inv, SamplesOk, Intact
      <4>2. Made(samples[k].header)'
        BY <1>0, <2>1, <2>5, <3>1, SampleTypes DEF Inv, SamplesOk, Made
      <4> QED
        BY <4>1, <4>2
    <3>3. ASSUME NEW k \in DOMAIN samples, NEW i \in Index, Occupied(i)'
          PROVE  Older(samples[k].header, ring[i].header)'
      <4>1. Made(samples[k].header) /\ samples[k].header \in Header
        BY <1>0, SampleTypes DEF Inv, SamplesOk
      <4>2. Older(samples[k].header, ring[i].header)
        BY <2>3, <2>7, <3>3, <4>1 DEF Inv, SamplesOk
      <4> QED
        BY <2>1, <3>1, <4>2 DEF Older
    <3> QED
      BY <3>1, <3>2, <3>3 DEF Inv, SamplesOk, Older
  <2>12. NothingYet' /\ Protocol' /\ RtOk'
    BY <2>1, <2>2, <2>3 DEF NothingYet, Protocol, RtOk
  <2> QED
    BY <2>9, <2>10, <2>11, <2>12 DEF Inv
<1> QED
    BY <1>1, <1>2, <1>3, <1>4, <1>5 DEF RtStep

\* run_sim_dds_loop: what it takes out is the oldest message, whole, and it
\* is published before the next one is taken.
LEMMA DdsKeeps ==
    ASSUME Inv, TypeOK', DdsStep
    PROVE  Inv'
<1> USE DEF DdsGoto
<1>0. TypeOK
    BY DEF Inv
<1>1. UNCHANGED <<rtVars, ring, write_index>>
    BY DEF DdsStep, DdsInit, DdsInitFails, DdsContinue, DdsPopEmpty,
       DdsPopHeader, DdsPopJoints, DdsRelease, PopRelease, DdsPublishSkip,
       DdsPublishFill, DdsWrite, DdsSleep, DdsExit, ringVars
<1>2. /\ \A x : JointsAt(x)' = JointsAt(x)
      /\ \A h : Made(h)' <=> Made(h)
      /\ madeBar' = madeBar /\ (MakingMsg' <=> MakingMsg)
      /\ (Pushing' <=> Pushing) /\ clock' = clock
    BY <1>1, JointsUnchanged DEF rtVars, Made, madeBar, MakingMsg, Pushing
<1>3. ASSUME UNCHANGED read_index
      PROVE  /\ \A i : (Occupied(i)' <=> Occupied(i)) /\ Pos(i)' = Pos(i)
             /\ (Full' <=> Full) /\ (Empty' <=> Empty)
             /\ RingOk' /\ RtOk'
  <2>1. /\ \A i : (Occupied(i)' <=> Occupied(i)) /\ Pos(i)' = Pos(i)
        /\ (Full' <=> Full) /\ (Empty' <=> Empty)
    BY <1>1, <1>3, RingUnchanged
  <2>2. RingOk'
    BY <1>1, <1>2, <2>1 DEF Inv, RingOk, Intact, Older, Made
  <2>3. RtOk'
    BY <1>1, <1>2 DEF Inv, RtOk, Intact, rtVars
  <2> QED
    BY <2>1, <2>2, <2>3
<1>4. ASSUME UNCHANGED <<read_index, dds_msg, samples>>, ~Popping',
             HoldsMsg' => HoldsMsg
      PROVE  Inv'
  <2>1. Protocol' /\ NothingYet'
    BY <1>1, <1>2, <1>3, <1>4 DEF Inv, Protocol, NothingYet, rtVars
  <2>2. DdsOk'
    BY <1>1, <1>2, <1>3, <1>4 DEF Inv, DdsOk, Popping, Intact, Older, Made
  <2>3. SamplesOk'
    BY <1>1, <1>2, <1>3, <1>4 DEF Inv, SamplesOk, Intact, Older, Made
  <2> QED
    BY <1>3, <1>4, <2>1, <2>2, <2>3 DEF Inv
<1>5. CASE DdsInit \/ DdsInitFails \/ DdsContinue \/ DdsPopEmpty
           \/ DdsPublishSkip \/ DdsPublishFill \/ DdsSleep \/ DdsExit
  <2>1. /\ UNCHANGED <<read_index, dds_msg, samples>>
        /\ dds_pc' \in {"check", "exited", "pop", "sleep", "write"}
        /\ dds_pc' = "write" => dds_pc = "publish"
    BY <1>5 DEF DdsInit, DdsInitFails, DdsContinue, DdsPopEmpty,
       DdsPublishSkip, DdsPublishFill, DdsSleep, DdsExit, ringVars
  <2>2. ~Popping' /\ (HoldsMsg' => HoldsMsg)
    BY <2>1 DEF Popping, HoldsMsg
  <2> QED
    BY <1>4, <2>1, <2>2
<1>6. CASE DdsPopHeader \/ DdsPopJoints
  <2>1. /\ UNCHANGED <<read_index, samples>> /\ ~Empty
        /\ dds_pc \in {"pop", "pop_joints"}
        /\ dds_pc' \in {"pop_joints", "release"} /\ Popping'
        /\ ~HoldsMsg'
    BY <1>6 DEF DdsPopHeader, DdsPopJoints, ringVars, Inv, Protocol, Popping,
       HoldsMsg
  <2>2. /\ dds_msg'.header = ring[read_index].header
        /\ dds_pc' = "release" => dds_msg'.joints = ring[read_index].joints
    BY <1>0, <1>6 DEF DdsPopHeader, DdsPopJoints, Inv, DdsOk, Popping, TypeOK,
       Message
  <2>3. NothingYet' /\ Protocol'
    BY <1>1, <1>2, <1>3, <2>1 DEF Inv, NothingYet, Protocol, rtVars
  <2>4. DdsOk'
    BY <1>1, <2>1, <2>2 DEF DdsOk
  <2>5. SamplesOk'
    BY <1>1, <1>2, <1>3, <2>1 DEF Inv, SamplesOk, Intact, Older, Made
  <2> QED
    BY <1>3, <2>1, <2>3, <2>4, <2>5 DEF Inv
<1>7. CASE DdsRelease
  <2>1. /\ PopRelease /\ UNCHANGED <<dds_msg, samples>>
        /\ dds_pc = "release" /\ dds_pc' = "publish"
    BY <1>7 DEF DdsRelease
  <2>2. ~Empty /\ Popping /\ ~Popping' /\ HoldsMsg' /\ rt_pc # "start"
    BY <2>1 DEF Inv, Protocol, NothingYet, Popping, HoldsMsg
  <2>3. /\ \A i \in Index : Occupied(i)' <=> Occupied(i) /\ i # read_index
        /\ \A i \in Index : i # read_index => Pos(i)' = Pos(i) - 1
        /\ ~Full'
    BY <1>0, <2>1, <2>2, ReleaseFrees
  <2>4. /\ Occupied(read_index) /\ read_index \in Index
        /\ Pos(read_index) = 0
        /\ \A i \in Index : i # read_index => Pos(i) > 0
        /\ ring[read_index] \in Message
    BY <1>0, <2>2, RingEnds DEF TypeOK
  <2>5. /\ dds_msg.header = ring[read_index].header
        /\ dds_msg.joints = ring[read_index].joints
    BY <2>1, <2>2 DEF Inv, DdsOk
  <2>6. RingOk'
    <3>1. ASSUME NEW i \in Index, Occupied(i)'
          PROVE  Intact(ring[i])' /\ Made(ring[i].header)'
      BY <1>1, <1>2, <2>3, <3>1 DEF Inv, RingOk, Intact, Made
    <3>2. ASSUME NEW i \in Index, NEW j \in Index, Occupied(i)', Occupied(j)',
                 Pos(i)' < Pos(j)'
          PROVE  Older(ring[i].header, ring[j].header)'
      <4>1. Pos(i) \in Int /\ Pos(j) \in Int
        BY <1>0, RingAssumption DEF TypeOK, Pos, Index
      <4>2. Occupied(i) /\ Occupied(j) /\ Pos(i) < Pos(j)
        BY <2>3, <3>2, <4>1
      <4> QED
        BY <1>1, <4>2 DEF Inv, RingOk, Older
    <3> QED
      BY <3>1, <3>2 DEF RingOk
  <2>7. DdsOk'
    <3>1. Intact(dds_msg)' /\ Made(dds_msg.header)'
      BY <1>2, <2>1, <2>4, <2>5 DEF Inv, RingOk, Intact, Made
    <3>2. ASSUME NEW i \in Index, Occupied(i)'
          PROVE  Older(dds_msg.header, ring[i].header)'
      <4>1. Occupied(i) /\ Pos(read_index) < Pos(i)
        BY <2>3, <2>4, <3>2
      <4>2. Older(ring[read_index].header, ring[i].header)
        BY <2>4, <4>1 DEF Inv, RingOk
      <4> QED
        BY <1>1, <2>1, <2>5, <4>2 DEF Older
    <3> QED
      BY <2>1, <2>2, <3>1, <3>2 DEF DdsOk
  <2>8. SamplesOk'
    <3>1. ASSUME NEW k \in DOMAIN samples
          PROVE  /\ Intact(samples[k])' /\ Made(samples[k].header)'
                 /\ Older(samples[k].header, dds_msg.header)'
      BY <1>2, <2>1, <2>4, <2>5 DEF Inv, SamplesOk, Intact, Made, Older
    <3>2. ASSUME NEW k \in DOMAIN samples, NEW i \in Index, Occupied(i)'
          PROVE  Older(samples[k].header, ring[i].header)'
      BY <1>1, <2>1, <2>3, <3>2 DEF Inv, SamplesOk, Older
    <3> QED
      BY <2>1, <3>1, <3>2 DEF Inv, SamplesOk, Older
  <2>9. RtOk'
    BY <1>1, <1>2 DEF Inv, RtOk, Intact, rtVars
  <2>10. NothingYet' /\ Protocol'
    BY <1>1, <2>2, <2>3 DEF NothingYet, Protocol, rtVars
  <2> QED
    BY <2>6, <2>7, <2>8, <2>9, <2>10 DEF Inv
<1>8. CASE DdsWrite
  <2> DEFINE new == [header |-> dds_msg.header,
                     stamp  |-> ToStamp(dds_msg.header.timestamp_ns),
                     joints |-> dds_msg.joints]
  <2>1. /\ UNCHANGED <<read_index, dds_msg>>
        /\ samples' = Append(samples, new)
        /\ dds_pc = "write" /\ dds_pc' = "check"
    BY <1>8 DEF DdsWrite, ringVars
  <2>2. HoldsMsg /\ ~HoldsMsg' /\ ~Popping' /\ rt_pc # "start"
    BY <2>1 DEF Inv, NothingYet, Popping, HoldsMsg
  <2>3. /\ Intact(new) /\ Made(new.header) /\ new.header = dds_msg.header
        /\ new.stamp = ToStamp(new.header.timestamp_ns)
    BY <2>2 DEF Inv, DdsOk, Intact
  <2> HIDE DEF new
  <2>4. /\ samples \in Seq(Sample) /\ Len(samples) \in Nat
        /\ DOMAIN samples = 1 .. Len(samples)
        /\ DOMAIN samples' = 1 .. Len(samples) + 1
        /\ \A k \in 1 .. Len(samples) : samples'[k] = samples[k]
        /\ samples'[Len(samples) + 1] = new
    BY <1>0, <2>1 DEF TypeOK
  <2>5. SamplesOk'
    <3>1. ASSUME NEW k \in DOMAIN samples'
          PROVE  /\ Intact(samples[k])' /\ Made(samples[k].header)'
                 /\ samples'[k].stamp = ToStamp(samples'[k].header.timestamp_ns)
      BY <1>2, <2>3, <2>4 DEF Inv, SamplesOk, Intact, Made
    <3>2. ASSUME NEW k \in DOMAIN samples', NEW i \in Index, Occupied(i)'
          PROVE  Older(samples[k].header, ring[i].header)'
      BY <1>1, <1>3, <2>1, <2>2, <2>3, <2>4, <3>2 DEF Inv, SamplesOk, DdsOk,
         Older
    <3>3. ASSUME NEW k \in DOMAIN samples', NEW l \in DOMAIN samples', k < l
          PROVE  Older(samples[k].header, samples[l].header)'
      <4>1. k \in DOMAIN samples
        BY <2>4, <3>3
      <4>2. CASE l \in DOMAIN samples
        BY <2>4, <3>3, <4>1, <4>2 DEF Inv, SamplesOk, Older
      <4>3. CASE l = Len(samples) + 1
        BY <2>2, <2>3, <2>4, <4>1, <4>3 DEF Inv, SamplesOk, Older
      <4> QED
        BY <2>4, <3>3, <4>2, <4>3
    <3> QED
      BY <2>2, <3>1, <3>2, <3>3 DEF SamplesOk, ToStamp, int32
  <2>6. DdsOk' /\ Protocol' /\ NothingYet'
    BY <1>1, <1>2, <1>3, <2>1, <2>2 DEF Inv, DdsOk, Protocol, NothingYet, rtVars
  <2> QED
    BY <1>3, <2>1, <2>5, <2>6 DEF Inv
<1> QED
    BY <1>5, <1>6, <1>7, <1>8 DEF DdsStep

\* The invariant holds in every reachable state of the pipeline.
THEOREM Invariance == Spec => []Inv
<1>1. Init => Inv
  <2> SUFFICES ASSUME Init PROVE Inv
    OBVIOUS
  <2>1. Zero \in Message
    BY DEF Zero, Message, Header
  <2>2. TypeOK
    BY <2>1, RingAssumption DEF Init, TypeOK, Index
  <2>3. Empty /\ ~Pushing /\ ~MakingMsg /\ ~Popping /\ ~HoldsMsg
        /\ samples = <<>> /\ rt_pc = "start" /\ dds_pc = "init"
    BY DEF Init, Empty, Pushing, MakingMsg, Popping, HoldsMsg
  <2>4. \A i \in Index : ~Occupied(i)
    BY <2>2, <2>3, RingEnds
  <2> QED
    BY <2>2, <2>3, <2>4 DEF Inv, NothingYet, Protocol, RtOk, RingOk, DdsOk,
       SamplesOk
<1>2. Inv /\ [Next]_vars => Inv'
  <2> SUFFICES ASSUME Inv, [Next]_vars PROVE Inv'
    OBVIOUS
  <2>1. TypeOK'
    BY TypeStep DEF Inv
  <2>2. CASE UNCHANGED <<ringVars, rtVars, ddsVars>>
    <3>1. clock' >= clock /\ madeBar' >= madeBar
      BY <2>2 DEF rtVars, madeBar, MakingMsg, Inv, TypeOK
    <3>2. RingOk' /\ DdsOk' /\ SamplesOk'
      BY <2>1, <2>2, <3>1, CommittedKept DEF ringVars, rtVars
    <3>3. NothingYet' /\ Protocol'
      BY <2>2, RingUnchanged DEF Inv, NothingYet, Protocol, Pushing, Popping,
         HoldsMsg, MakingMsg, ringVars, rtVars, ddsVars
    <3>4. RtOk'
      BY <2>2, JointsUnchanged DEF Inv, RtOk, Intact, Pushing, MakingMsg,
         ringVars, rtVars
    <3> QED
      BY <2>1, <3>2, <3>3, <3>4 DEF Inv
  <2>3. CASE OnMatched \/ OnShutdown
    BY <2>2, <2>3 DEF OnMatched, OnShutdown
  <2>4. CASE UNCHANGED vars
    BY <2>2, <2>4 DEF vars
  <2> QED
    BY <2>1, <2>3, <2>4, RtKeeps, DdsKeeps DEF Next, Terminated
<1> QED
    BY <1>1, <1>2, PTL DEF Spec

\* push() and pop() never work on the same slot, for every ring capacity.
THEOREM NoSlotRace == Spec => []SlotExclusive
<1>1. Inv => SlotExclusive
    BY DEF Inv, Protocol, Popping, Empty, SlotExclusive
<1> QED
    BY <1>1, Invariance, PTL

\* No published sample is torn: its joints are those of its own time.
THEOREM NoTornSample == Spec => []SamplesIntact
<1>1. Inv => SamplesIntact
    BY DEF Inv, SamplesOk, Intact, SamplesIntact
<1> QED
    BY <1>1, Invariance, PTL

\* Samples are published in the order they were made, at most once, and the
\* stamps a subscriber decodes do not go back before the int32 overflows.
THEOREM PublishedInOrder == Spec => []SamplesOrdered
<1>1. ASSUME Inv PROVE SamplesOrdered
  <2> SUFFICES ASSUME NEW i \in DOMAIN samples, NEW j \in DOMAIN samples, i < j
               PROVE  /\ samples[i].header.seq < samples[j].header.seq
                      /\ FitsStamp(samples[j].header.timestamp_ns) =>
                           FromStamp(samples[i].stamp)
                               <= FromStamp(samples[j].stamp)
    BY DEF SamplesOrdered
  <2>1. /\ Older(samples[i].header, samples[j].header)
        /\ samples[i].stamp = ToStamp(samples[i].header.timestamp_ns)
        /\ samples[j].stamp = ToStamp(samples[j].header.timestamp_ns)
    BY <1>1 DEF Inv, SamplesOk
  <2>2. /\ samples[i].header.timestamp_ns \in Nat
        /\ samples[j].header.timestamp_ns \in Nat
    BY <1>1, SampleTypes DEF Inv
  <2> QED
    BY <2>1, <2>2, StampMonotone DEF Older
<1> QED
    BY <1>1, Invariance, PTL

\* The published motion never goes back and stays inside the trajectory.
THEOREM PublishedForward == Spec => []MotionForward
<1>1. ASSUME Inv PROVE MotionForward
  <2> SUFFICES ASSUME NEW i \in DOMAIN samples, NEW j \in DOMAIN samples, i < j
               PROVE  /\ samples[i].joints <= samples[j].joints
                      /\ samples[j].joints <= Duration
    BY DEF MotionForward
  <2>1. /\ samples[i].header.timestamp_ns <= samples[j].header.timestamp_ns
        /\ samples[i].joints = JointsAt(samples[i].header.timestamp_ns)
        /\ samples[j].joints = JointsAt(samples[j].header.timestamp_ns)
    BY <1>1 DEF Inv, SamplesOk, Older, Intact
  <2>2. /\ samples[i].header.timestamp_ns \in Nat
        /\ samples[j].header.timestamp_ns \in Nat /\ t0 \in Nat
    BY <1>1, SampleTypes DEF Inv, TypeOK
  <2> QED
    BY <2>1, <2>2, JointsMonotone
<1> QED
    BY <1>1, Invariance, PTL

-----------------------------------------------------------------------------
(* Refinement of LoopThread *)

\* Safety of what the process takes the loops for: neither returns before
\* g_running is false, except a publisher that could not start, which makes
\* it false, and nobody sets it again.
THEOREM ThreadsSafety == Spec => RtThread!SafetySpec /\ DdsThread!SafetySpec
<1>1. Init => RtThread!Init /\ DdsThread!Init
    BY DEF Init, RtThread!Init, DdsThread!Init
<1>2. [Next]_vars => /\ [RtThread!Next]_(RtThread!vars)
                     /\ [DdsThread!Next]_(DdsThread!vars)
  <2> SUFFICES ASSUME [Next]_vars
               PROVE  /\ RtThread!Next \/ UNCHANGED RtThread!vars
                      /\ DdsThread!Next \/ UNCHANGED DdsThread!vars
    OBVIOUS
  <2> USE DEF RtGoto, DdsGoto, RtThread!vars, DdsThread!vars, rtVars, ddsVars
  <2>1. CASE RtExit
    BY <2>1 DEF RtExit, RtThread!Next, RtThread!Return
  <2>2. CASE \/ RtStart \/ RtContinue \/ RtFill \/ RtPushFull \/ RtPushHeader
             \/ RtPushJoints \/ RtCommit \/ RtSleep
    BY <2>2 DEF RtStart, RtContinue, RtFill, RtPushFull, RtPushHeader,
       RtPushJoints, RtCommit, RtSleep
  <2>3. CASE DdsInit
    BY <2>3 DEF DdsInit, DdsThread!Next, DdsThread!Ready
  <2>4. CASE DdsInitFails
    BY <2>4 DEF DdsInitFails, DdsThread!Next, DdsThread!GiveUp, RtThread!Next,
       RtThread!Stop
  <2>5. CASE DdsExit
    BY <2>5 DEF DdsExit, DdsThread!Next, DdsThread!Return
  <2>6. CASE \/ DdsContinue \/ DdsPopEmpty \/ DdsPopHeader \/ DdsPopJoints
             \/ DdsRelease \/ DdsPublishSkip \/ DdsPublishFill \/ DdsWrite
             \/ DdsSleep
    BY <2>6 DEF DdsContinue, DdsPopEmpty, DdsPopHeader, DdsPopJoints, DdsRelease,
       DdsPublishSkip, DdsPublishFill, DdsWrite, DdsSleep
  <2>7. CASE OnShutdown
    BY <2>7 DEF OnShutdown, RtThread!Next, RtThread!Stop, DdsThread!Next,
       DdsThread!Stop
  <2>8. CASE OnMatched \/ UNCHANGED vars
    BY <2>8 DEF OnMatched, vars
  <2> QED
    BY <2>1, <2>2, <2>3, <2>4, <2>5, <2>6, <2>7, <2>8
       DEF Next, RtStep, DdsStep, Terminated
<1> QED
    BY <1>1, <1>2, PTL DEF Spec, RtThread!SafetySpec, DdsThread!SafetySpec
-----------------------------------------------------------------------------
(* Refinement of SampleChannel *)

\* What the ring holds, oldest first: the second part of pendingBar.
Queue == [k \in 1 .. Size |-> ring[SlotAt(k - 1)].header.seq]

Held == IF HoldsMsg THEN <<dds_msg.header.seq>> ELSE <<>>

\* The k-th element comes from a committed slot.
LEMMA QueueSlots ==
    ASSUME TypeOK
    PROVE  /\ Size \in 0 .. RING_CAPACITY
           /\ (Full <=> Size = RING_CAPACITY) /\ (Empty <=> Size = 0)
           /\ \A k \in 1 .. Size : SlotAt(k - 1) \in Index /\ Occupied(SlotAt(k - 1))
           /\ SlotAt(0) = read_index
           /\ ~Full => SlotAt(Size) = write_index
    BY RingAssumption DEF TypeOK, Index, Occupied, Pos, Size, SlotAt, Full, Empty,
       next_index

QueueOk == /\ Queue \in Seq(Nat) /\ Len(Queue) = Size
           /\ Held \in Seq(Nat) /\ Len(Held) \in {0, 1}
           /\ pendingBar = Held \o Queue

LEMMA QueueSeq == TypeOK => QueueOk
<1> SUFFICES ASSUME TypeOK PROVE QueueOk
    OBVIOUS
<1>1. Size \in Nat /\ \A k \in 1 .. Size : ring[SlotAt(k - 1)].header.seq \in Nat
    BY QueueSlots, SlotTypes
<1>2. Queue \in Seq(Nat) /\ Len(Queue) = Size
    BY <1>1 DEF Queue
<1>3. dds_msg.header.seq \in Nat
    BY DEF TypeOK, Message, Header
<1>4. Held \in Seq(Nat) /\ Len(Held) \in {0, 1}
    BY <1>3 DEF Held
<1>5. pendingBar = Held \o Queue
    BY DEF pendingBar, Held, Queue
<1> QED
    BY <1>2, <1>4, <1>5 DEF QueueOk

\* Only committed slots and the two indices matter.
LEMMA QueueKept ==
    ASSUME TypeOK, UNCHANGED <<write_index, read_index>>,
           \A i \in Index : Occupied(i) => ring'[i].header = ring[i].header
    PROVE  Queue' = Queue
<1>1. Size' = Size /\ \A k : SlotAt(k)' = SlotAt(k)
    BY DEF Size, SlotAt
<1>2. \A k \in 1 .. Size : ring'[SlotAt(k - 1)].header = ring[SlotAt(k - 1)].header
    BY QueueSlots
<1> QED
    BY <1>1, <1>2 DEF Queue

\* RtCommit appends the message in the slot at write_index.
LEMMA QueueCommit ==
    ASSUME TypeOK, TypeOK', ~Full, PushCommit
    PROVE  /\ Queue' = Append(Queue, ring[write_index].header.seq)
           /\ Len(Queue) < RING_CAPACITY
<1> DEFINE a == Append(Queue, ring[write_index].header.seq)
<1>1. Size' = Size + 1 /\ (\A k : SlotAt(k)' = SlotAt(k)) /\ ring' = ring
    BY RingAssumption DEF TypeOK, Index, Size, SlotAt, Full, next_index, PushCommit
<1>2. /\ Queue \in Seq(Nat) /\ Len(Queue) = Size /\ Size \in 0 .. RING_CAPACITY
      /\ SlotAt(Size) = write_index /\ Size # RING_CAPACITY
      /\ ring[write_index].header.seq \in Nat
    BY QueueSeq, QueueSlots, SlotTypes DEF QueueOk
<1>3. Queue' \in Seq(Nat) /\ Len(Queue') = Size + 1
  <2>1. QueueOk'
    BY QueueSeq, PTL
  <2> QED
    BY <1>1, <2>1 DEF QueueOk
<1>4. /\ a \in Seq(Nat) /\ Len(a) = Size + 1
      /\ \A i \in 1 .. Size : a[i] = Queue[i]
      /\ a[Size + 1] = ring[write_index].header.seq
    BY <1>2, AppendProperties
<1> HIDE DEF a
<1>5. ASSUME NEW i \in 1 .. Size + 1 PROVE Queue'[i] = a[i]
  <2>1. Queue'[i] = ring[SlotAt(i - 1)].header.seq
    BY <1>1, <1>5, <1>2 DEF Queue
  <2>2. CASE i \in 1 .. Size
    BY <1>4, <2>1, <2>2 DEF Queue
  <2>3. CASE i = Size + 1
    BY <1>2, <1>4, <2>1, <2>3
  <2> QED
    BY <1>2, <2>2, <2>3
<1>6. Queue' = a
    BY <1>3, <1>4, <1>5, SeqEqual
<1> QED
    BY <1>2, <1>6, RingAssumption DEF a

\* DdsRelease takes out the message in the slot at read_index.
LEMMA QueueRelease ==
    ASSUME TypeOK, TypeOK', ~Empty, PopRelease
    PROVE  Queue = <<ring[read_index].header.seq>> \o Queue'
<1> DEFINE x == ring[read_index].header.seq
           c == <<x>> \o Queue'
<1>1. /\ Size' = Size - 1 /\ ring' = ring
      /\ \A k \in 1 .. Size - 1 : SlotAt(k - 1)' = SlotAt(k)
    BY RingAssumption DEF TypeOK, Index, Size, SlotAt, Empty, next_index, PopRelease
<1>2. /\ Queue \in Seq(Nat) /\ Len(Queue) = Size /\ Size \in Nat \ {0}
      /\ SlotAt(0) = read_index /\ x \in Nat
    BY QueueSeq, QueueSlots, SlotTypes DEF QueueOk
<1>3. Queue' \in Seq(Nat) /\ Len(Queue') = Size - 1
  <2>1. QueueOk'
    BY QueueSeq, PTL
  <2> QED
    BY <1>1, <2>1 DEF QueueOk
<1>4. <<x>> \in Seq(Nat) /\ Len(<<x>>) = 1 /\ <<x>>[1] = x
    BY <1>2
<1>5. /\ c \in Seq(Nat) /\ Len(c) = Size
      /\ c[1] = x /\ \A i \in 2 .. Size : c[i] = Queue'[i - 1]
    BY <1>2, <1>3, <1>4, ConcatProperties
<1> HIDE DEF c, x
<1>6. ASSUME NEW i \in 1 .. Size PROVE Queue[i] = c[i]
  <2>1. Queue[i] = ring[SlotAt(i - 1)].header.seq
    BY <1>6 DEF Queue
  <2>2. CASE i = 1
    BY <1>2, <1>5, <2>1, <2>2 DEF x
  <2>3. CASE i # 1
    <3>1. i - 1 \in 1 .. Size' /\ i \in 2 .. Size /\ i - 1 \in 1 .. Size - 1
      BY <1>1, <1>2, <1>6, <2>3
    <3>2. Queue'[i - 1] = ring[SlotAt(i - 1 - 1)'].header.seq
      BY <1>1, <3>1 DEF Queue
    <3> QED
      BY <1>1, <1>5, <2>1, <3>1, <3>2
  <2> QED
    BY <2>2, <2>3
<1>7. Queue = c
    BY <1>2, <1>5, <1>6, SeqEqual
<1> QED
    BY <1>7 DEF c, x

\* A sequence with a first element: what is behind it, and appending to it.
LEMMA FirstAndRest ==
    ASSUME NEW x \in Nat, NEW q \in Seq(Nat)
    PROVE  /\ <<x>> \o q # <<>> /\ Head(<<x>> \o q) = x /\ Tail(<<x>> \o q) = q
<1> DEFINE c == <<x>> \o q
<1>1. <<x>> \in Seq(Nat) /\ Len(<<x>>) = 1 /\ <<x>>[1] = x
    OBVIOUS
<1>2. /\ c \in Seq(Nat) /\ Len(c) = 1 + Len(q) /\ Len(q) \in Nat
      /\ \A i \in 1 .. 1 + Len(q) : c[i] = IF i <= 1 THEN x ELSE q[i - 1]
    BY <1>1, ConcatProperties
<1> HIDE DEF c
<1>3. c # <<>> /\ Head(c) = x
    BY <1>2
<1>4. /\ Tail(c) \in Seq(Nat) /\ Len(Tail(c)) = Len(q)
      /\ \A i \in 1 .. Len(q) : Tail(c)[i] = c[i + 1]
    BY <1>2, <1>3, HeadTailProperties
<1>5. ASSUME NEW i \in 1 .. Len(q) PROVE Tail(c)[i] = q[i]
  <2>1. i + 1 \in 1 .. 1 + Len(q) /\ ~(i + 1 <= 1) /\ (i + 1) - 1 = i
    BY <1>2
  <2> QED
    BY <1>2, <1>4, <2>1
<1>6. Tail(c) = q
    BY <1>4, <1>5, SeqEqual
<1> QED
    BY <1>3, <1>6 DEF c

LEMMA AppendToRest ==
    ASSUME NEW h \in Seq(Nat), NEW q \in Seq(Nat), NEW x \in Nat
    PROVE  h \o Append(q, x) = Append(h \o q, x)
<1>1. h \o q \in Seq(Nat) /\ <<x>> \in Seq(Nat)
    BY ConcatProperties
<1>2. Append(q, x) = q \o <<x>> /\ Append(h \o q, x) = (h \o q) \o <<x>>
    BY <1>1, AppendIsConcat
<1> QED
    BY <1>1, <1>2, ConcatAssociative

\* A step that takes no message in or out: the channel does not move.
LEMMA ChannelStutters ==
    ASSUME Inv, Queue' = Queue, Held' = Held, TypeOK',
           UNCHANGED <<samples, g_running>>, madeBar' = madeBar
    PROVE  UNCHANGED Channel!vars
<1>1. pendingBar' = pendingBar
  <2>1. QueueOk /\ QueueOk'
    BY QueueSeq, PTL DEF Inv
  <2> QED
    BY <2>1 DEF QueueOk
<1>2. deliveredBar' = deliveredBar
    BY DEF deliveredBar
<1> QED
    BY <1>1, <1>2 DEF Channel!vars

LEMMA RtChannel ==
    ASSUME Inv, TypeOK', RtStep
    PROVE  Channel!Next \/ UNCHANGED Channel!vars
<1> USE DEF RtGoto
<1>0. /\ TypeOK /\ seq \in Nat
      /\ Held' = Held /\ UNCHANGED <<samples, g_running>>
      /\ deliveredBar' = deliveredBar
  <2>1. UNCHANGED <<ddsVars, g_running>>
    BY DEF RtStep, RtStart, RtContinue, RtFill, RtPushFull, RtPushHeader,
       RtPushJoints, RtCommit, RtSleep, RtExit
  <2> QED
    BY <2>1 DEF Inv, TypeOK, Held, HoldsMsg, ddsVars, deliveredBar
<1>1. CASE \/ RtStart \/ RtContinue \/ RtFill \/ RtPushHeader \/ RtPushJoints
           \/ RtSleep \/ RtExit
  <2>1. madeBar' = madeBar
    BY <1>0, <1>1 DEF RtStart, RtContinue, RtFill, RtPushHeader, RtPushJoints,
       RtSleep, RtExit, madeBar, MakingMsg
  <2>2. UNCHANGED <<write_index, read_index>>
    BY <1>1 DEF RtStart, RtContinue, RtFill, RtPushHeader, RtPushJoints, RtSleep,
       RtExit, PushHeader, PushJoints, ringVars
  <2>3. \A i \in Index : Occupied(i) => ring'[i].header = ring[i].header
    <3>1. ~Occupied(write_index) /\ ring \in [Index -> Message]
      BY <1>0, RingEnds DEF TypeOK
    <3> QED
      BY <1>1, <3>1 DEF RtStart, RtContinue, RtFill, RtPushHeader, RtPushJoints,
         RtSleep, RtExit, PushHeader, PushJoints, ringVars
  <2>4. Queue' = Queue
    BY <1>0, <2>2, <2>3, QueueKept
  <2> QED
    BY <1>0, <2>1, <2>4, ChannelStutters
<1>2. CASE RtPushFull
  <2>1. /\ madeBar' = madeBar + 1
        /\ Full /\ UNCHANGED <<ring, write_index, read_index>>
    BY <1>0, <1>2 DEF RtPushFull, madeBar, MakingMsg, ringVars
  <2>2. Queue' = Queue
    BY <1>0, <2>1, QueueKept
  <2>3. QueueOk /\ QueueOk'
    BY <1>0, QueueSeq, PTL
  <2>4. pendingBar' = pendingBar
    BY <1>0, <2>2, <2>3 DEF QueueOk
  <2>5. Len(pendingBar) >= RING_CAPACITY
    <3>1. Len(pendingBar) = Len(Held) + Len(Queue)
      BY <2>3, ConcatProperties DEF QueueOk
    <3>2. Size = RING_CAPACITY
      BY <1>0, <2>1, QueueSlots
    <3> QED
      BY <2>3, <3>1, <3>2, RingAssumption DEF QueueOk
  <2> QED
    BY <1>0, <2>1, <2>4, <2>5 DEF Channel!Next, Channel!Lose
<1>3. CASE RtCommit
  <2>1. /\ madeBar = seq - 1 /\ madeBar' = madeBar + 1 /\ madeBar \in Nat
        /\ ring[write_index].header.seq = madeBar
        /\ PushCommit /\ ~Full
    <3>1. MakingMsg /\ Pushing /\ ~MakingMsg' /\ seq' = seq /\ PushCommit
      BY <1>3 DEF RtCommit, MakingMsg, Pushing
    <3>2. rt_msg.header.seq = seq - 1 /\ seq > 0 /\ ~Full
          /\ ring[write_index].header = rt_msg.header
      BY <3>1 DEF Inv, RtOk, Protocol
    <3> QED
      BY <1>0, <3>1, <3>2 DEF madeBar
  <2>2. Queue' = Append(Queue, madeBar) /\ Len(Queue) < RING_CAPACITY
    BY <1>0, <2>1, QueueCommit
  <2>3. QueueOk /\ QueueOk'
    BY <1>0, QueueSeq, PTL
  <2>4. pendingBar' = Append(pendingBar, madeBar)
    <3>1. pendingBar' = Held \o Append(Queue, madeBar)
      BY <1>0, <2>2, <2>3 DEF QueueOk
    <3> QED
      BY <2>1, <2>3, <3>1, AppendToRest DEF QueueOk
  <2>5. Len(pendingBar) <= RING_CAPACITY
    <3>1. Len(pendingBar) = Len(Held) + Len(Queue) /\ Len(Queue) \in Nat
      BY <2>3, ConcatProperties DEF QueueOk
    <3>2. Len(Held) = 0 \/ Len(Held) = 1
      BY <2>3, Zenon DEF QueueOk
    <3>3. \A a, b \in Nat : (a = 0 \/ a = 1) /\ b < RING_CAPACITY => a + b <= RING_CAPACITY
      BY RingAssumption
    <3> QED
      BY <2>2, <3>1, <3>2, <3>3, Zenon
  <2> QED
    BY <1>0, <2>1, <2>4, <2>5 DEF Channel!Next, Channel!Enter
<1> QED
    BY <1>1, <1>2, <1>3 DEF RtStep

\* The message that leaves is the one the DDS loop holds.
LEMMA ChannelLeaves ==
    ASSUME Inv, TypeOK', HoldsMsg, ~HoldsMsg', UNCHANGED <<ringVars, dds_msg>>
    PROVE  /\ pendingBar # <<>> /\ pendingBar' = Tail(pendingBar)
           /\ Head(pendingBar) = dds_msg.header.seq
<1>1. QueueOk /\ QueueOk' /\ TypeOK
    BY QueueSeq, PTL DEF Inv
<1>2. Queue' = Queue
    BY <1>1, QueueKept DEF ringVars
<1>3. dds_msg.header.seq \in Nat
    BY <1>1 DEF TypeOK, Message, Header
<1>4. pendingBar = <<dds_msg.header.seq>> \o Queue
    BY <1>1 DEF QueueOk, Held
<1>5. pendingBar' = Queue
  <2>1. Held' = <<>>
    BY DEF Held
  <2> QED
    BY <1>1, <1>2, <2>1, ConcatEmptySeq DEF QueueOk
<1> QED
    BY <1>1, <1>3, <1>4, <1>5, FirstAndRest DEF QueueOk

LEMMA DdsChannel ==
    ASSUME Inv, TypeOK', DdsStep
    PROVE  Channel!Next \/ UNCHANGED Channel!vars
<1> USE DEF DdsGoto
<1>0. /\ TypeOK /\ QueueOk /\ QueueOk' /\ madeBar' = madeBar
  <2>1. UNCHANGED rtVars
    BY DEF DdsStep, DdsInit, DdsInitFails, DdsContinue, DdsPopEmpty, DdsPopHeader,
       DdsPopJoints, DdsRelease, DdsPublishSkip, DdsPublishFill, DdsWrite, DdsSleep,
       DdsExit
  <2>2. madeBar' = madeBar
    BY <2>1 DEF rtVars, madeBar, MakingMsg
  <2> QED
    BY <2>2, QueueSeq, PTL DEF Inv
<1>1. CASE \/ DdsInit \/ DdsInitFails \/ DdsContinue \/ DdsPopEmpty \/ DdsPopHeader
           \/ DdsPopJoints \/ DdsPublishFill \/ DdsSleep \/ DdsExit
  <2>1. UNCHANGED <<ringVars, samples>>
    BY <1>1 DEF DdsInit, DdsInitFails, DdsContinue, DdsPopEmpty, DdsPopHeader,
       DdsPopJoints, DdsPublishFill, DdsSleep, DdsExit
  <2>2. Queue' = Queue
    BY <1>0, <2>1, QueueKept DEF ringVars
  <2>3. Held' = Held
    BY <1>1 DEF DdsInit, DdsInitFails, DdsContinue, DdsPopEmpty, DdsPopHeader,
       DdsPopJoints, DdsPublishFill, DdsSleep, DdsExit, Held, HoldsMsg
  <2>4. CASE g_running' = g_running
    BY <1>0, <2>1, <2>2, <2>3, <2>4, ChannelStutters
  <2>5. CASE DdsInitFails
    <3>1. pendingBar' = pendingBar /\ deliveredBar' = deliveredBar
      BY <1>0, <2>1, <2>2, <2>3 DEF QueueOk, deliveredBar
    <3> QED
      BY <1>0, <2>5, <3>1 DEF DdsInitFails, Channel!Next, Channel!Close
  <2> QED
    BY <1>1, <2>4, <2>5 DEF DdsInit, DdsContinue, DdsPopEmpty, DdsPopHeader,
       DdsPopJoints, DdsPublishFill, DdsSleep, DdsExit
<1>2. CASE DdsRelease
  <2>1. /\ PopRelease /\ ~Empty /\ ~HoldsMsg /\ HoldsMsg'
        /\ UNCHANGED <<dds_msg, samples, g_running>>
        /\ dds_msg.header = ring[read_index].header
    BY <1>2 DEF DdsRelease, Inv, Protocol, Popping, HoldsMsg, DdsOk
  <2>2. Queue = <<dds_msg.header.seq>> \o Queue'
    BY <1>0, <2>1, QueueRelease
  <2>3. Held = <<>> /\ Held' = <<dds_msg.header.seq>>
    BY <2>1 DEF Held
  <2>4. pendingBar' = pendingBar
    BY <1>0, <2>2, <2>3, ConcatEmptySeq DEF QueueOk
  <2> QED
    BY <1>0, <2>1, <2>4 DEF Channel!vars, deliveredBar
<1>3. CASE DdsPublishSkip
  <2>1. /\ HoldsMsg /\ ~HoldsMsg'
        /\ UNCHANGED <<ringVars, dds_msg, samples, g_running>>
    BY <1>3 DEF DdsPublishSkip, HoldsMsg
  <2>2. pendingBar # <<>> /\ pendingBar' = Tail(pendingBar)
    BY <2>1, ChannelLeaves
  <2>3. deliveredBar' = deliveredBar
    BY <2>1 DEF deliveredBar
  <2> QED
    BY <1>0, <2>1, <2>2, <2>3 DEF Channel!Next, Channel!Leave
<1>4. CASE DdsWrite
  <2> DEFINE e == [header |-> dds_msg.header,
                   stamp  |-> ToStamp(dds_msg.header.timestamp_ns),
                   joints |-> dds_msg.joints]
  <2>1. /\ HoldsMsg /\ ~HoldsMsg' /\ samples' = Append(samples, e)
        /\ UNCHANGED <<ringVars, dds_msg, g_running>>
    BY <1>4 DEF DdsWrite, HoldsMsg
  <2>2. /\ pendingBar # <<>> /\ pendingBar' = Tail(pendingBar)
        /\ Head(pendingBar) = dds_msg.header.seq
    BY <2>1, ChannelLeaves
  <2>3. e.header = dds_msg.header
    OBVIOUS
  <2> HIDE DEF e
  <2>4. deliveredBar' = Append(deliveredBar, e.header.seq)
    <3>1. samples \in Seq(Sample)
      BY <1>0 DEF TypeOK
    <3> QED
      BY <2>1, <3>1 DEF deliveredBar
  <2> QED
    BY <1>0, <2>1, <2>2, <2>3, <2>4 DEF Channel!Next, Channel!Leave
<1> QED
    BY <1>1, <1>2, <1>3, <1>4 DEF DdsStep

\* The ring and the two loops implement the lossy FIFO channel, for every
\* capacity: a message is lost only while RING_CAPACITY older ones wait, what
\* entered is neither overwritten nor reordered nor sent twice.
THEOREM ChannelSafety == Spec => Channel!SafetySpec
<1>1. Init => Channel!Init
  <2> SUFFICES ASSUME Init PROVE Channel!Init
    OBVIOUS
  <2>1. Size = 0 /\ ~HoldsMsg /\ samples = <<>> /\ g_running = TRUE /\ madeBar = 0
    BY DEF Init, Size, HoldsMsg, madeBar, MakingMsg
  <2>2. pendingBar = <<>> /\ deliveredBar = <<>>
    BY <2>1 DEF pendingBar, deliveredBar
  <2> QED
    BY <2>1, <2>2 DEF Channel!Init
<1>2. Inv /\ [Next]_vars => [Channel!Next]_(Channel!vars)
  <2> SUFFICES ASSUME Inv, [Next]_vars
               PROVE  Channel!Next \/ UNCHANGED Channel!vars
    OBVIOUS
  <2>1. TypeOK' /\ TypeOK
    BY TypeStep DEF Inv
  <2>2. CASE UNCHANGED <<ringVars, rtVars, ddsVars>>
    <3>1. madeBar' = madeBar /\ pendingBar' = pendingBar
          /\ deliveredBar' = deliveredBar
      BY <2>2 DEF ringVars, rtVars, ddsVars, madeBar, MakingMsg, pendingBar,
         HoldsMsg, Size, SlotAt, deliveredBar
    <3>2. CASE g_running' = g_running
      BY <3>1, <3>2 DEF Channel!vars
    <3>3. CASE g_running' = FALSE
      BY <3>1, <3>3 DEF Channel!Next, Channel!Close
    <3>4. CASE OnMatched \/ OnShutdown \/ UNCHANGED vars
      BY <3>2, <3>3, <3>4 DEF OnMatched, OnShutdown, vars
    <3> QED
      BY <3>4, <2>1, RtChannel, DdsChannel DEF Next, Terminated
  <2>3. CASE RtStep \/ DdsStep
    BY <2>1, <2>3, RtChannel, DdsChannel
  <2> QED
    BY <2>2, <2>3 DEF Next, OnMatched, OnShutdown, Terminated, vars
<1> QED
    BY <1>1, <1>2, Invariance, PTL DEF Spec, Channel!SafetySpec

=============================================================================
