--------------------------- MODULE ImuLoopProofs ---------------------------
(***************************************************************************)
(* Proofs about the frame parsers (PdoUtils) and about ImuLoop, for every  *)
(* word and buffer size, second length, int32 range and bound.             *)
(***************************************************************************)
EXTENDS ImuLoop, SequenceTheorems, TLAPS

(* The frame parsers *)

\* A sum that wraps is smaller than 4; one that does not wrap is exact.  So
\* for a frame of at least four bytes the uint32 test is the exact test.
LEMMA WrappedSum ==
    ASSUME NEW n \in 4 .. BUF, NEW len \in 0 .. WORD - 1
    PROVE  (len + 4) % WORD = n <=> len + 4 = n
<1> USE PdoAssumption
<1>1. CASE len + 4 < WORD
  <2>1. (len + 4) % WORD = len + 4
    BY <1>1
  <2> QED
    BY <2>1
<1>2. CASE len + 4 >= WORD
  <2>1. (len + 4) % WORD = len + 4 - WORD
    BY <1>2
  <2> QED
    BY <1>2, <2>1
<1> QED
    BY <1>1, <1>2

\* parse_frame accepts exactly the well-formed frames, for any payload.
LEMMA ParseExact ==
    ASSUME NEW f \in AnyFrame
    PROVE  ParseFrameExact(f)
<1>1. f.n \in 1 .. BUF /\ f.pb_len \in 0 .. WORD - 1
    BY DEF AnyFrame
<1>2. CASE f.n >= 4
    BY <1>1, <1>2, WrappedSum DEF ParseFrameExact, parse_frame, WellFormed
<1>3. CASE f.n < 4
    BY <1>1, <1>3, PdoAssumption DEF ParseFrameExact, parse_frame, WellFormed
<1> QED
    BY <1>1, <1>2, <1>3

\* No frame is taken for a joint state by one loop and for an IMU reading by
\* the other, and none is used without the payload its type announces.
LEMMA ReadOneKind ==
    ASSUME NEW f
    PROVE  ReadAsOneKind(f)
  BY DEF ReadAsOneKind, parse_joint_frame, parse_imu_frame, Carries,
     JointTypes, PayloadOf

\* The parsers are exact on every frame, for every word and buffer size: the
\* wrapping sum in parse_frame accepts nothing it should not.
THEOREM FramesExact == FrameExact
  BY ParseExact, ReadOneKind DEF FrameExact
-----------------------------------------------------------------------------
(* Time *)

\* What publish() puts on the wire has the types of Time.idl, and as long as
\* the seconds fit into an int32_t a subscriber reads the same time back.
LEMMA StampExact ==
    ASSUME NEW x \in Nat
    PROVE  /\ ToStamp(x) \in [sec : Int, nanosec : Nat]
           /\ FitsStamp(x) => FromStamp(ToStamp(x)) = x
<1> DEFINE s == x \div NS_PER_SEC
<1>1. /\ x = s * NS_PER_SEC + (x % NS_PER_SEC)
      /\ s \in Nat /\ x % NS_PER_SEC \in Nat
    BY StampAssumption
<1>2. int32(s) \in Int
    BY <1>1, StampAssumption DEF int32
<1>3. ASSUME FitsStamp(x) PROVE int32(s) = s
  <2>1. s < INT32_RANGE /\ 2 * s < INT32_RANGE
    BY <1>1, <1>3, StampAssumption DEF FitsStamp
  <2>2. s % INT32_RANGE = s
    BY <1>1, <2>1, StampAssumption
  <2> QED
    BY <2>1, <2>2 DEF int32
<1>4. ToStamp(x) = [sec |-> int32(s), nanosec |-> x % NS_PER_SEC]
    BY DEF ToStamp
<1> HIDE DEF s
<1>5. ToStamp(x) \in [sec : Int, nanosec : Nat]
    BY <1>1, <1>2, <1>4
<1>6. FitsStamp(x) => FromStamp(ToStamp(x)) = x
    BY <1>1, <1>3, <1>4 DEF FromStamp
<1> QED
    BY <1>5, <1>6

\* A time before one whose seconds fit has seconds that fit.
LEMMA FitsBefore ==
    ASSUME NEW x \in Nat, NEW y \in Nat, x <= y, FitsStamp(y)
    PROVE  FitsStamp(x)
<1> DEFINE a == x \div NS_PER_SEC
           b == y \div NS_PER_SEC
<1>1. /\ x = a * NS_PER_SEC + (x % NS_PER_SEC)
      /\ y = b * NS_PER_SEC + (y % NS_PER_SEC)
      /\ a \in Nat /\ b \in Nat
      /\ x % NS_PER_SEC \in 0 .. NS_PER_SEC - 1
      /\ y % NS_PER_SEC \in 0 .. NS_PER_SEC - 1
      /\ a * NS_PER_SEC \in Nat /\ b * NS_PER_SEC \in Nat
    BY StampAssumption
<1>2. 2 * b < INT32_RANGE /\ (2 * a < INT32_RANGE => FitsStamp(x))
    BY DEF FitsStamp
<1> HIDE DEF a, b
<1>3. a >= b + 1 => a * NS_PER_SEC >= b * NS_PER_SEC + NS_PER_SEC
  <2>1. (a - (b + 1)) * NS_PER_SEC = a * NS_PER_SEC - (b * NS_PER_SEC + NS_PER_SEC)
      BY <1>1, StampAssumption
  <2>2. a >= b + 1 => (a - (b + 1)) * NS_PER_SEC >= 0
      BY <1>1, StampAssumption
  <2> QED
      BY <1>1, <2>1, <2>2, StampAssumption
<1>4. a <= b
    BY <1>1, <1>3, StampAssumption
<1> QED
    BY <1>1, <1>2, <1>4, StampAssumption
-----------------------------------------------------------------------------
(* The inductive invariant, in parts. *)

\* Everything that is ever in the pipe or in the buffer.
Frames == {Frame(shape, k) : shape \in Shapes \cup {"short"}, k \in Nat}

TypeOK == /\ g_running \in BOOLEAN
          /\ raw \in Frames /\ last \in {0, 2, 6}
          /\ msg \in [seq : Nat, timestamp_ns : Nat, value : Nat] /\ seq \in Nat
          /\ written \in [nr : Nat, stamp : [sec : Int, nanosec : Nat], value : Nat]
          /\ pipe \in Seq(Frames) /\ now \in Nat

\* The pipe holds frames in the order of sending, all later than the one in
\* the buffer.
PipeOk == /\ raw.pdo.value <= now
          /\ \A i \in 1 .. Len(pipe) :
                 raw.pdo.value < pipe[i].pdo.value /\ pipe[i].pdo.value <= now
          /\ \A i, j \in 1 .. Len(pipe) :
                 i < j => pipe[i].pdo.value < pipe[j].pdo.value

\* A frame that this drain has read is later than the one in the message; a
\* message that is about to be written is later than the sample before.
MsgOk == /\ msg.value <= raw.pdo.value
         /\ pc = "drain" /\ last > 0 => msg.value < raw.pdo.value
         /\ msg.timestamp_ns \in msg.value .. now
         /\ written.value <= msg.value
         /\ pc \in {"publish", "write"} => written.value < msg.value

\* The stamp of a sample encodes a time between its frame and now.
WrittenOk == written.nr > 0 =>
    \E t \in Nat : /\ written.value <= t /\ t <= now
                   /\ written.stamp = ToStamp(t)

Inv == TypeOK /\ PipeOk /\ MsgOk /\ WrittenOk

LEMMA FrameFacts ==
    ASSUME NEW f \in Frames
    PROVE  /\ f.n \in {2, 6} /\ f.pdo.value \in Nat
           /\ f.pdo.stamp = f.pdo.value
  BY DEF Frames, Frame

\* The steps that touch neither the pipe, the buffer nor a sample.
Quiet == \/ OpenPipe \/ EpollSetupFails \/ EpollSetup \/ PubInit \/ PubInitFails
         \/ LoopContinue \/ LoopExit \/ EpollNothing \/ EpollFails \/ DrainNothing
         \/ PublishSkip \/ PublishFill \/ HangUp \/ OnMatched \/ OnShutdown
         \/ UNCHANGED vars

LEMMA QuietInv == Inv /\ Quiet => Inv' /\ UNCHANGED written
<1> SUFFICES ASSUME Inv, Quiet PROVE Inv' /\ UNCHANGED written
    OBVIOUS
<1>1. /\ UNCHANGED <<raw, last, msg, seq, written, pipe, now>>
      /\ g_running' \in BOOLEAN
      /\ pc' = "drain" => pc = "drain"
      /\ pc' \in {"publish", "write"} => pc \in {"publish", "write"}
    BY DEF Quiet, OpenPipe, EpollSetupFails, EpollSetup, PubInit, PubInitFails,
           LoopContinue, LoopExit, EpollNothing, EpollFails, DrainNothing, PublishSkip,
           PublishFill, HangUp, OnMatched, OnShutdown, Goto, vars, buffer, sample, world,
           Inv, TypeOK
<1> QED
    BY <1>1 DEF Inv, TypeOK, PipeOk, MsgOk, WrittenOk

LEMMA WaitInv == Inv /\ EpollWait => Inv' /\ UNCHANGED written
<1> SUFFICES ASSUME Inv, EpollWait PROVE Inv' /\ UNCHANGED written
    OBVIOUS
<1>1. /\ last' = 0 /\ pc' = "drain"
      /\ UNCHANGED <<g_running, raw, msg, seq, written, pipe, now>>
    BY DEF EpollWait, Goto, sample, world
<1>2. TypeOK'
    BY <1>1 DEF Inv, TypeOK
<1> QED
    BY <1>1, <1>2 DEF Inv, PipeOk, MsgOk, WrittenOk

LEMMA ReadInv == Inv /\ ReadFrame => Inv' /\ UNCHANGED written
<1> SUFFICES ASSUME Inv, ReadFrame PROVE Inv' /\ UNCHANGED written
    OBVIOUS
<1> USE DEF Inv
<1>1. /\ pipe \in Seq(Frames) /\ pipe # <<>> /\ raw' = Head(pipe) /\ last' = raw'.n
      /\ pipe' = Tail(pipe) /\ pc' = pc /\ pc = "drain"
      /\ UNCHANGED <<g_running, sample, now>>
    BY DEF ReadFrame, TypeOK
<1>2. /\ Len(pipe) \in Nat \ {0} /\ raw' = pipe[1] /\ raw' \in Frames
      /\ pipe' \in Seq(Frames) /\ Len(pipe') = Len(pipe) - 1
      /\ \A i \in 1 .. Len(pipe') : pipe'[i] = pipe[i + 1]
    BY <1>1, HeadTailProperties
<1>3. TypeOK'
    BY <1>1, <1>2, FrameFacts DEF TypeOK, sample
<1>4. \A i \in 1 .. Len(pipe) : pipe[i] \in Frames /\ pipe[i].pdo.value \in Nat
    BY <1>1, FrameFacts
<1>5. \A i \in 1 .. Len(pipe') : i + 1 \in 1 .. Len(pipe) /\ pipe'[i] = pipe[i + 1]
    BY <1>2
<1>6. 1 \in 1 .. Len(pipe)
    BY <1>2
<1>7. raw.pdo.value < raw'.pdo.value /\ raw'.pdo.value <= now
    BY <1>2, <1>6 DEF PipeOk
<1>8. ASSUME NEW i \in 1 .. Len(pipe')
      PROVE  raw'.pdo.value < pipe'[i].pdo.value /\ pipe'[i].pdo.value <= now
  <2>1. i + 1 \in 1 .. Len(pipe) /\ 1 < i + 1 /\ pipe'[i] = pipe[i + 1]
      BY <1>2, <1>5
  <2> QED
      BY <1>2, <1>6, <2>1 DEF PipeOk
<1>9. ASSUME NEW i \in 1 .. Len(pipe'), NEW j \in 1 .. Len(pipe'), i < j
      PROVE  pipe'[i].pdo.value < pipe'[j].pdo.value
  <2>1. i + 1 < j + 1
      BY <1>9
  <2> QED
      BY <1>5, <2>1 DEF PipeOk
<1>10. PipeOk'
    BY <1>1, <1>7, <1>8, <1>9 DEF PipeOk
<1>11. MsgOk'
  <2>1. msg.value \in Nat /\ raw.pdo.value \in Nat /\ raw'.pdo.value \in Nat
      BY <1>2, FrameFacts DEF TypeOK
  <2> QED
      BY <1>1, <1>7, <2>1 DEF MsgOk, sample
<1>12. WrittenOk'
    BY <1>1 DEF WrittenOk, sample
<1> QED
    BY <1>1, <1>3, <1>10, <1>11, <1>12 DEF sample

LEMMA DrainInv == Inv /\ DrainFrame => Inv' /\ UNCHANGED written
<1> SUFFICES ASSUME Inv, DrainFrame PROVE Inv' /\ UNCHANGED written
    OBVIOUS
<1> DEFINE t == extract_timestamp_ns(raw.pdo, now)
<1>1. /\ pc = "drain" /\ last > 0 /\ pc' = "publish" /\ seq' = seq + 1
      /\ msg' = [seq |-> seq, timestamp_ns |-> t, value |-> raw.pdo.value]
      /\ UNCHANGED <<g_running, raw, last, written, pipe, now>>
    BY DEF DrainFrame, Goto, buffer, world
<1>2. raw.pdo.value \in Nat /\ raw.pdo.value <= now /\ now \in Nat
    BY FrameFacts DEF Inv, TypeOK, PipeOk
<1>3. t \in raw.pdo.value .. now
    BY <1>2, FrameFacts DEF extract_timestamp_ns, Inv, TypeOK
<1> HIDE DEF t
<1>4. TypeOK'
  <2>1. t \in Nat /\ seq \in Nat
      BY <1>2, <1>3 DEF Inv, TypeOK
  <2>2. msg' \in [seq : Nat, timestamp_ns : Nat, value : Nat] /\ seq' \in Nat
      BY <1>1, <1>2, <2>1
  <2> QED
      BY <1>1, <2>2 DEF Inv, TypeOK
<1>5. MsgOk'
  <2>1. written.value \in Nat /\ msg.value \in Nat
      BY DEF Inv, TypeOK
  <2>2. written.value <= msg.value /\ msg.value < raw.pdo.value
      BY <1>1 DEF Inv, MsgOk
  <2> QED
      BY <1>1, <1>2, <1>3, <2>1, <2>2 DEF MsgOk
<1>6. PipeOk' /\ WrittenOk'
    BY <1>1 DEF Inv, PipeOk, WrittenOk
<1> QED
    BY <1>1, <1>4, <1>5, <1>6 DEF Inv

LEMMA WriteInv ==
    Inv /\ PublishWrite => Inv' /\ written'.value > written.value
<1> SUFFICES ASSUME Inv, PublishWrite PROVE Inv' /\ written'.value > written.value
    OBVIOUS
<1>1. /\ pc = "write" /\ pc' = "check"
      /\ written' = [nr |-> msg.seq + 1, stamp |-> ToStamp(msg.timestamp_ns),
                     value |-> msg.value]
      /\ UNCHANGED <<g_running, raw, last, msg, seq, pipe, now>>
    BY DEF PublishWrite, Goto, buffer, world
<1>2. ToStamp(msg.timestamp_ns) \in [sec : Int, nanosec : Nat]
    BY StampExact DEF Inv, TypeOK
<1>3. TypeOK' /\ PipeOk'
    BY <1>1, <1>2 DEF Inv, TypeOK, PipeOk
<1>4. MsgOk' /\ written'.value > written.value
    BY <1>1 DEF Inv, TypeOK, MsgOk
<1>5. WrittenOk'
  <2>1. /\ msg.timestamp_ns \in Nat /\ msg.value <= msg.timestamp_ns
        /\ msg.timestamp_ns <= now
      BY DEF Inv, TypeOK, MsgOk
  <2> QED
      BY <1>1, <2>1 DEF WrittenOk
<1> QED
    BY <1>3, <1>4, <1>5 DEF Inv

LEMMA SendInv == Inv /\ Send => Inv' /\ UNCHANGED written
<1> SUFFICES ASSUME Inv, Send PROVE Inv' /\ UNCHANGED written
    OBVIOUS
<1>1. PICK shape \in Shapes : pipe' = Append(pipe, Frame(shape, now + 1))
    BY DEF Send
<1> DEFINE f == Frame(shape, now + 1)
<1>2. /\ pipe \in Seq(Frames) /\ now \in Nat /\ now' = now + 1
      /\ UNCHANGED <<g_running, pc, raw, last, msg, seq, written>>
    BY DEF Send, Inv, TypeOK, buffer, sample
<1>3. f \in Frames /\ f.pdo.value = now + 1
  <2>1. now + 1 \in Nat
      BY <1>2
  <2>2. f \in Frames
      BY <2>1 DEF Frames
  <2> QED
      BY <2>2 DEF Frame
<1> HIDE DEF f
<1>4. /\ pipe' \in Seq(Frames) /\ Len(pipe') = Len(pipe) + 1
      /\ \A i \in 1 .. Len(pipe) : pipe'[i] = pipe[i]
      /\ pipe'[Len(pipe) + 1] = f /\ Len(pipe) \in Nat
    BY <1>1, <1>2, <1>3 DEF f
<1>5. TypeOK'
    BY <1>2, <1>4 DEF Inv, TypeOK
<1>6. \A i \in 1 .. Len(pipe) : pipe[i].pdo.value \in Nat
    BY <1>2, FrameFacts
<1>7. raw.pdo.value \in Nat /\ raw.pdo.value <= now
    BY FrameFacts DEF Inv, TypeOK, PipeOk
<1>8. PipeOk'
  <2>1. ASSUME NEW i \in 1 .. Len(pipe')
        PROVE  raw.pdo.value < pipe'[i].pdo.value /\ pipe'[i].pdo.value <= now'
    <3>1. CASE i \in 1 .. Len(pipe)
        BY <1>2, <1>4, <1>6, <3>1 DEF Inv, PipeOk
    <3>2. CASE i = Len(pipe) + 1
        BY <1>2, <1>3, <1>4, <1>7, <3>2
    <3> QED
        BY <1>4, <3>1, <3>2
  <2>2. ASSUME NEW i \in 1 .. Len(pipe'), NEW j \in 1 .. Len(pipe'), i < j
        PROVE  pipe'[i].pdo.value < pipe'[j].pdo.value
    <3>1. i \in 1 .. Len(pipe) /\ pipe'[i] = pipe[i] /\ pipe[i].pdo.value <= now
        BY <1>4, <2>2 DEF Inv, PipeOk
    <3>2. CASE j \in 1 .. Len(pipe)
        BY <1>4, <2>2, <3>1, <3>2 DEF Inv, PipeOk
    <3>3. CASE j = Len(pipe) + 1
        BY <1>2, <1>3, <1>4, <1>6, <3>1, <3>3
    <3> QED
        BY <1>4, <3>2, <3>3
  <2> QED
      BY <1>2, <1>7, <2>1, <2>2 DEF PipeOk
<1>9. MsgOk' /\ WrittenOk'
  <2>1. MsgOk'
      BY <1>2 DEF Inv, TypeOK, MsgOk
  <2>2. WrittenOk'
      BY <1>2 DEF Inv, WrittenOk
  <2> QED
      BY <2>1, <2>2
<1> QED
    BY <1>2, <1>5, <1>8, <1>9 DEF Inv

\* Every step keeps the invariant, and only writes samples that are newer.
LEMMA StepInv ==
    Inv /\ [Next]_vars =>
        Inv' /\ (written' # written => written'.value > written.value)
  BY QuietInv, WaitInv, ReadInv, DrainInv, WriteInv, SendInv
     DEF Next, LoopStep, Quiet, Terminated

LEMMA Invariance == Spec => []Inv
<1>1. Init => Inv
  <2> SUFFICES ASSUME Init PROVE Inv
      OBVIOUS
  <2>1. Frame("short", 0) \in Frames
      BY DEF Frames
  <2>2. Frame("short", 0).pdo.value = 0
      BY DEF Frame
  <2>3. TypeOK
      BY <2>1, StampExact DEF Init, TypeOK
  <2> QED
      BY <2>2, <2>3 DEF Init, Inv, PipeOk, MsgOk, WrittenOk
<1> QED
    BY <1>1, StepInv, PTL DEF Spec

\* Whatever frame is in the buffer, stale prefix bytes included, its size is
\* one for which parse_frame is exact.
THEOREM BufferParsedExactly == Spec => []ParsesExactly
<1>1. Inv => ParsesExactly
  <2> SUFFICES ASSUME Inv, last > 0,
                      NEW f \in [n : {last}, pb_len : 0 .. WORD - 1, pdo : AnyPdo]
               PROVE  ParseFrameExact(f) /\ ReadAsOneKind(f)
      BY DEF ParsesExactly
  <2>1. last \in 1 .. BUF
      BY PdoAssumption, ImuLoopAssumption DEF Inv, TypeOK
  <2>2. f \in AnyFrame
      BY <2>1 DEF AnyFrame
  <2> QED
      BY <2>2, ParseExact, ReadOneKind
<1> QED
    BY <1>1, Invariance, PTL

\* No frame is published twice or after a later one, however sends, hang-ups
\* and the drain loop interleave.
THEOREM NoSampleTwice == Spec => SamplesFresh
<1>1. Inv /\ [Next]_vars =>
          (written'.nr # written.nr => written'.value > written.value)
    BY StepInv
<1> QED
    BY <1>1, Invariance, PTL DEF Spec, SamplesFresh

\* The time that a reader decodes lies between the sending of the frame it
\* sees and the present, as long as the seconds fit into an int32_t.
THEOREM StampsTrue == Spec => []StampOfItsFrame
<1>1. Inv => StampOfItsFrame
  <2> SUFFICES ASSUME Inv, written.nr > 0, FitsStamp(now)
               PROVE  FromStamp(written.stamp) \in written.value .. now
      BY DEF StampOfItsFrame
  <2>1. PICK t \in Nat : /\ written.value <= t /\ t <= now
                         /\ written.stamp = ToStamp(t)
      BY DEF Inv, WrittenOk
  <2>2. FitsStamp(t)
      BY <2>1, FitsBefore DEF Inv, TypeOK
  <2>3. FromStamp(written.stamp) = t
      BY <2>1, <2>2, StampExact
  <2>4. written.value \in Nat /\ now \in Nat
      BY DEF Inv, TypeOK
  <2> QED
      BY <2>1, <2>3, <2>4
<1> QED
    BY <1>1, Invariance, PTL

\* Safety of the loop's contract: a set-up that fails leaves g_running alone,
\* nobody sets it again, and the loop is left only when it is false or epoll
\* fails.
THEOREM ThreadSafety == Spec => Thread!SafetySpec
<1>1. Init => Thread!Init
    BY DEF Init, Thread!Init, phaseBar
<1>2. Inv /\ [Next]_vars => [Thread!Next]_(Thread!vars)
  <2> SUFFICES ASSUME Inv, Next \/ UNCHANGED vars
               PROVE  Thread!Next \/ UNCHANGED Thread!vars
      OBVIOUS
  <2> USE DEF Goto, phaseBar, Thread!vars
  <2>1. CASE EpollSetupFails \/ PubInitFails
      BY <2>1 DEF EpollSetupFails, PubInitFails, Thread!Next, Thread!GiveUp, Inv, TypeOK
  <2>2. CASE PubInit
      BY <2>2 DEF PubInit, Thread!Next, Thread!Ready
  <2>3. CASE LoopExit \/ EpollFails
      BY <2>3 DEF LoopExit, EpollFails, Thread!Next, Thread!Return
  <2>4. CASE OnShutdown
      BY <2>4 DEF OnShutdown, Thread!Next, Thread!Stop
  <2>5. CASE OpenPipe \/ EpollSetup
      BY <2>5 DEF OpenPipe, EpollSetup
  <2>6. CASE LoopContinue \/ EpollWait \/ EpollNothing \/ ReadFrame \/ DrainNothing
             \/ DrainFrame \/ PublishSkip \/ PublishFill \/ PublishWrite
      BY <2>6 DEF LoopContinue, EpollWait, EpollNothing, ReadFrame, DrainNothing,
                  DrainFrame, PublishSkip, PublishFill, PublishWrite
  <2>7. CASE Send \/ HangUp \/ OnMatched \/ UNCHANGED vars
      BY <2>7 DEF Send, HangUp, OnMatched, vars
  <2> QED
      BY <2>1, <2>2, <2>3, <2>4, <2>5, <2>6, <2>7 DEF Next, LoopStep, Terminated
<1> QED
    BY <1>1, <1>2, Invariance, PTL DEF Spec, Thread!SafetySpec

=============================================================================
