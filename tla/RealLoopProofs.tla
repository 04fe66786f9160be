--------------------------- MODULE RealLoopProofs ---------------------------
(***************************************************************************)
(* Proofs about RealLoop, for every number of joints and of pipes, every   *)
(* mix of frames and every bound.                                          *)
(***************************************************************************)
EXTENDS RealLoop, SequenceTheorems, TLAPS

\* Everything that is ever in a pipe or in the buffer, and what it shows.
Frames == {Frame(shape, j, k) : shape \in Shapes \cup {"garbled"}, j \in Nat, k \in Nat}
Value  == [from : Nat, id : Nat]
Msg    == [seq : Nat, timestamp_ns : Nat, joints : [Joint -> Value]]

InBatch == pc \in {"next", "drain"}

(* The inductive invariant, in parts. *)

TypeOK == /\ g_running \in BOOLEAN /\ any_new \in BOOLEAN
          /\ is_open \subseteq Joint /\ registered \subseteq Joint
          /\ raw \in Frames /\ last \in {0, 2, 6}
          /\ msg \in Msg /\ out \in Msg /\ seq \in Nat
          /\ pipe \in [Joint -> Seq(Frames)] /\ now \in Nat

\* What is left of a batch are joints of the epoll set, each handled once.
BatchOk == /\ InBatch => events \subseteq registered
           /\ pc = "drain" => joint \in registered /\ joint \notin events

\* The frames waiting in the pipe of j come from j, in the order of sending,
\* all later than what the message shows of j.
PipeOk(j) ==
    /\ \A i \in 1 .. Len(pipe[j]) :
           /\ pipe[j][i].pdo.value.from = j
           /\ pipe[j][i].pdo.value.id <= now
           /\ msg.joints[j].id < pipe[j][i].pdo.value.id
    /\ \A i, k \in 1 .. Len(pipe[j]) :
           i < k => pipe[j][i].pdo.value.id < pipe[j][k].pdo.value.id

\* A frame that this drain has read lies between the message and the pipe.
RawOk ==
    pc = "drain" /\ last > 0 =>
        /\ raw.pdo.value.from = joint /\ raw.pdo.value.id <= now
        /\ msg.joints[joint].id < raw.pdo.value.id
        /\ \A i \in 1 .. Len(pipe[joint]) : raw.pdo.value.id < pipe[joint][i].pdo.value.id

\* The message shows each joint what its own pipe delivered, and no joint
\* steps back.
MsgOk ==
    /\ pc \in {"open", "epoll"} => \A j \in Joint : msg.joints[j] = Zero
    /\ \A j \in Joint :
           /\ msg.joints[j] # Zero => msg.joints[j].from = j /\ j \in registered
           /\ out.joints[j].id <= msg.joints[j].id /\ msg.joints[j].id <= now

\* Some joint merged in this batch, and handled by now, is newer than in the
\* message before; the first of them gave the message its time.
Renewed(w) == /\ w \notin events /\ (pc = "drain" => w # joint)
              /\ out.joints[w].id < msg.joints[w].id
              /\ msg.timestamp_ns \in msg.joints[w].id .. now

NewOk == InBatch /\ any_new => \E w \in Joint : Renewed(w)

Inv == /\ TypeOK /\ BatchOk /\ (\A j \in Joint : PipeOk(j))
       /\ RawOk /\ MsgOk /\ NewOk

LEMMA FrameFacts ==
    ASSUME NEW f \in Frames
    PROVE  /\ f.n \in {2, 6} /\ f.pdo.value \in Value
           /\ f.pdo.stamp = f.pdo.value.id
  BY DEF Frames, Frame, Value

LEMMA MsgTypes ==
    ASSUME TypeOK, NEW j \in Joint
    PROVE  /\ msg.joints[j] \in Value /\ msg.joints[j].id \in Nat
           /\ out.joints[j] \in Value /\ out.joints[j].id \in Nat
           /\ msg.timestamp_ns \in Nat /\ out.timestamp_ns \in Nat
  BY DEF TypeOK, Msg, Value

\* Steps that leave pipes, buffer, message and batch alone.
Quiet == \/ EpollCreateFails \/ PubInit \/ PubInitFails \/ LoopContinue \/ LoopExit
         \/ EpollNothing \/ EpollFails \/ PublishNothing \/ DrainNothing
         \/ (\E j \in Joint : HangUp(j)) \/ OnShutdown \/ UNCHANGED vars

LEMMA QuietInv == Inv /\ Quiet => Inv' /\ UNCHANGED out
<1> SUFFICES ASSUME Inv, Quiet PROVE Inv' /\ UNCHANGED out
    OBVIOUS
<1>1. /\ UNCHANGED <<is_open, registered, events, joint, raw, last, msg, any_new, seq,
                     out, pipe, now>>
      /\ g_running' \in BOOLEAN
      /\ InBatch' => InBatch
      /\ pc' = "drain" => pc = "drain"
      /\ pc' \in {"open", "epoll"} => pc \in {"open", "epoll"}
    BY DEF Quiet, EpollCreateFails, PubInit, PubInitFails, LoopContinue, LoopExit,
           EpollNothing, EpollFails, PublishNothing, DrainNothing, HangUp, OnShutdown,
           Goto, vars, setup, batch, merged, world, InBatch, Inv, TypeOK
<1>2. TypeOK' /\ BatchOk' /\ RawOk' /\ MsgOk'
    BY <1>1 DEF Inv, TypeOK, BatchOk, RawOk, MsgOk
<1>3. \A j \in Joint : PipeOk(j)'
    BY <1>1 DEF Inv, PipeOk
<1>4. NewOk'
    BY <1>1 DEF Inv, NewOk, Renewed
<1> QED
    BY <1>1, <1>2, <1>3, <1>4 DEF Inv

\* Opening and registering pipes happens before anything is shown.
LEMMA SetupInv == Inv /\ (OpenPipes \/ Register) => Inv' /\ UNCHANGED out
<1> SUFFICES ASSUME Inv, OpenPipes \/ Register PROVE Inv' /\ UNCHANGED out
    OBVIOUS
<1>1. /\ UNCHANGED <<g_running, events, joint, raw, last, msg, any_new, seq, out,
                     pipe, now>>
      /\ is_open' \subseteq Joint /\ registered' \subseteq Joint
      /\ pc \in {"open", "epoll"} /\ pc' \in {"epoll", "init"}
    BY DEF OpenPipes, Register, Goto, batch, merged, world, Inv, TypeOK
<1>2. TypeOK' /\ BatchOk' /\ RawOk' /\ MsgOk' /\ NewOk'
    BY <1>1 DEF Inv, TypeOK, BatchOk, RawOk, MsgOk, NewOk, InBatch
<1>3. \A j \in Joint : PipeOk(j)'
    BY <1>1 DEF Inv, PipeOk
<1> QED
    BY <1>1, <1>2, <1>3 DEF Inv

LEMMA WaitInv == Inv /\ EpollWait => Inv' /\ UNCHANGED out
<1> SUFFICES ASSUME Inv, EpollWait PROVE Inv' /\ UNCHANGED out
    OBVIOUS
<1>1. /\ UNCHANGED <<g_running, is_open, registered, joint, raw, last, msg, seq, out,
                     pipe, now>>
      /\ pc' = "next" /\ events' \subseteq registered /\ any_new' = FALSE
    BY DEF EpollWait, Goto, Ready, setup, world
<1>2. TypeOK' /\ BatchOk' /\ RawOk' /\ MsgOk' /\ NewOk'
    BY <1>1 DEF Inv, TypeOK, BatchOk, RawOk, MsgOk, NewOk, InBatch
<1>3. \A j \in Joint : PipeOk(j)'
    BY <1>1 DEF Inv, PipeOk
<1> QED
    BY <1>1, <1>2, <1>3 DEF Inv

LEMMA TakeInv == Inv /\ (\E j \in Joint : TakeEvent(j)) => Inv' /\ UNCHANGED out
<1> SUFFICES ASSUME Inv, NEW j \in Joint, TakeEvent(j) PROVE Inv' /\ UNCHANGED out
    OBVIOUS
<1>1. /\ UNCHANGED <<g_running, is_open, registered, raw, msg, any_new, seq, out,
                     pipe, now>>
      /\ pc = "next" /\ pc' = "drain" /\ j \in events /\ events' = events \ {j}
      /\ joint' = j /\ last' = 0
    BY DEF TakeEvent, Goto, setup, merged, world
<1>2. TypeOK' /\ BatchOk' /\ RawOk' /\ MsgOk'
    BY <1>1 DEF Inv, TypeOK, BatchOk, RawOk, MsgOk, InBatch
<1>3. \A i \in Joint : PipeOk(i)'
    BY <1>1 DEF Inv, PipeOk
<1>4. NewOk'
    BY <1>1 DEF Inv, NewOk, Renewed, InBatch
<1> QED
    BY <1>1, <1>2, <1>3, <1>4 DEF Inv

LEMMA ReadInv == Inv /\ ReadFrame => Inv' /\ UNCHANGED out
<1> SUFFICES ASSUME Inv, ReadFrame PROVE Inv' /\ UNCHANGED out
    OBVIOUS
<1> DEFINE q == pipe[joint]
<1>1. /\ UNCHANGED <<g_running, pc, is_open, registered, events, joint, msg, any_new,
                     seq, out, now>>
      /\ pc = "drain" /\ q # <<>> /\ raw' = Head(q) /\ last' = raw'.n
      /\ pipe' = [pipe EXCEPT ![joint] = Tail(q)]
    BY DEF ReadFrame, setup, merged
<1>2. joint \in Joint /\ q \in Seq(Frames) /\ pipe \in [Joint -> Seq(Frames)]
    BY <1>1 DEF Inv, TypeOK, BatchOk
<1>3. /\ pipe'[joint] = Tail(q) /\ \A j \in Joint : j # joint => pipe'[j] = pipe[j]
    BY <1>1, <1>2
<1> DEFINE r == Tail(q)
<1> HIDE DEF q
<1>4. /\ Len(q) \in Nat \ {0} /\ 1 \in 1 .. Len(q) /\ raw' = q[1] /\ raw' \in Frames
      /\ r \in Seq(Frames) /\ Len(r) = Len(q) - 1
      /\ \A i \in 1 .. Len(r) : r[i] = q[i + 1]
    BY <1>1, <1>2, HeadTailProperties
<1> HIDE DEF r
<1>5. TypeOK'
  <2>1. pipe' \in [Joint -> Seq(Frames)]
      BY <1>1, <1>2, <1>4 DEF r
  <2> QED
      BY <1>1, <1>4, <2>1, FrameFacts DEF Inv, TypeOK
<1>6. BatchOk' /\ MsgOk' /\ NewOk'
    BY <1>1 DEF Inv, BatchOk, MsgOk, NewOk, Renewed, InBatch
<1>7. PipeOk(joint) /\ \A i \in 1 .. Len(r) : i + 1 \in 1 .. Len(q) /\ r[i] = q[i + 1]
    BY <1>2, <1>4 DEF Inv
<1>8. RawOk'
  <2>1. /\ raw'.pdo.value.from = joint /\ raw'.pdo.value.id <= now
        /\ msg.joints[joint].id < raw'.pdo.value.id
      BY <1>4, <1>7 DEF PipeOk, q
  <2>2. ASSUME NEW i \in 1 .. Len(r) PROVE raw'.pdo.value.id < r[i].pdo.value.id
    <3>1. i + 1 \in 1 .. Len(q) /\ 1 < i + 1 /\ r[i] = q[i + 1]
        BY <1>7
    <3> QED
        BY <1>4, <1>7, <3>1 DEF PipeOk, q
  <2>3. pipe'[joint'] = r /\ joint' = joint /\ now' = now /\ msg' = msg
      BY <1>1, <1>3 DEF r
  <2> QED
      BY <2>1, <2>2, <2>3 DEF RawOk
<1>9. PipeOk(joint)'
  <2>1. ASSUME NEW i \in 1 .. Len(r)
        PROVE  /\ r[i].pdo.value.from = joint /\ r[i].pdo.value.id <= now
               /\ msg.joints[joint].id < r[i].pdo.value.id
      BY <1>7 DEF PipeOk, q
  <2>2. ASSUME NEW i \in 1 .. Len(r), NEW k \in 1 .. Len(r), i < k
        PROVE  r[i].pdo.value.id < r[k].pdo.value.id
    <3>1. i + 1 < k + 1
        BY <2>2
    <3> QED
        BY <1>7, <3>1 DEF PipeOk, q
  <2>3. pipe'[joint'] = r /\ joint' = joint /\ now' = now /\ msg' = msg
      BY <1>1, <1>3 DEF r
  <2> QED
      BY <2>1, <2>2, <2>3 DEF PipeOk
<1>10. ASSUME NEW j \in Joint PROVE PipeOk(j)'
  <2>1. CASE j # joint
      BY <1>1, <1>3, <2>1 DEF Inv, PipeOk
  <2>2. CASE j = joint
      BY <1>1, <1>9, <2>2 DEF PipeOk
  <2> QED
      BY <2>1, <2>2
<1> QED
    BY <1>1, <1>5, <1>6, <1>8, <1>10 DEF Inv

LEMMA MergeInv == Inv /\ MergeFrame => Inv' /\ UNCHANGED out
<1> SUFFICES ASSUME Inv, MergeFrame PROVE Inv' /\ UNCHANGED out
    OBVIOUS
<1> DEFINE v == raw.pdo.value
           t == IF any_new THEN msg.timestamp_ns ELSE extract_timestamp_ns(raw.pdo, now)
<1>1. /\ UNCHANGED <<g_running, is_open, registered, events, joint, raw, last, seq, out,
                     pipe, now>>
      /\ pc = "drain" /\ last > 0 /\ pc' = "next"
      /\ any_new' = TRUE
    BY DEF MergeFrame, Goto, setup, batch, world
<1>2. /\ joint \in Joint /\ joint \in registered /\ joint \notin events
      /\ v.from = joint /\ v.id <= now /\ msg.joints[joint].id < v.id
      /\ \A i \in 1 .. Len(pipe[joint]) : v.id < pipe[joint][i].pdo.value.id
    BY <1>1 DEF Inv, TypeOK, BatchOk, RawOk
<1>3. v \in Value /\ v.id \in Nat /\ raw.pdo.stamp = v.id /\ now \in Nat
    BY FrameFacts DEF Inv, TypeOK, Value
<1>4. t \in Nat /\ (~any_new => t \in v.id .. now)
    BY <1>2, <1>3 DEF extract_timestamp_ns, Inv, TypeOK, Msg
<1>5. /\ msg \in Msg
      /\ msg' = [msg EXCEPT !.joints[joint] = v, !.timestamp_ns = t]
    BY DEF MergeFrame, Inv, TypeOK
<1> HIDE DEF v, t
<1>6. /\ msg' \in Msg /\ msg'.timestamp_ns = t /\ msg'.joints[joint] = v
      /\ \A j \in Joint : j # joint => msg'.joints[j] = msg.joints[j]
    BY <1>2, <1>3, <1>4, <1>5 DEF Msg
<1>7. TypeOK' /\ BatchOk' /\ RawOk'
    BY <1>1, <1>6 DEF Inv, TypeOK, BatchOk, RawOk, InBatch
<1>8. ASSUME NEW j \in Joint PROVE PipeOk(j)'
  <2>1. CASE j = joint
      BY <1>1, <1>2, <1>6, <2>1 DEF Inv, PipeOk
  <2>2. CASE j # joint
      BY <1>1, <1>6, <2>2 DEF Inv, PipeOk
  <2> QED
      BY <2>1, <2>2
<1>9. MsgOk'
  <2>1. ASSUME NEW j \in Joint
        PROVE  /\ msg'.joints[j] # Zero => msg'.joints[j].from = j /\ j \in registered
               /\ out.joints[j].id <= msg'.joints[j].id /\ msg'.joints[j].id <= now
    <3>1. /\ out.joints[j].id <= msg.joints[j].id /\ out.joints[j].id \in Nat
          /\ msg.joints[j].id <= now /\ msg.joints[j].id \in Nat
        BY MsgTypes DEF Inv, MsgOk
    <3>2. CASE j = joint
        BY <1>2, <1>3, <1>6, <3>1, <3>2
    <3>3. CASE j # joint
        BY <1>6, <3>1, <3>3 DEF Inv, MsgOk
    <3> QED
        BY <3>2, <3>3
  <2> QED
      BY <1>1, <2>1 DEF MsgOk
<1>10. NewOk'
  <2>1. CASE ~any_new
    <3>1. out.joints[joint].id < v.id
        BY <1>2, <1>3, MsgTypes DEF Inv, MsgOk
    <3>2. Renewed(joint)'
        BY <1>1, <1>2, <1>4, <1>6, <2>1, <3>1 DEF Renewed
    <3> QED
        BY <1>1, <1>2, <3>2 DEF NewOk
  <2>2. CASE any_new
    <3>1. PICK w \in Joint : Renewed(w)
        BY <1>1, <2>2 DEF Inv, NewOk, InBatch
    <3>2. w # joint /\ t = msg.timestamp_ns
        BY <1>1, <2>2, <3>1 DEF Renewed, t
    <3>3. Renewed(w)'
        BY <1>1, <1>6, <3>1, <3>2 DEF Renewed
    <3> QED
        BY <3>3 DEF NewOk
  <2> QED
      BY <2>1, <2>2
<1> QED
    BY <1>1, <1>7, <1>8, <1>9, <1>10 DEF Inv

\* What PublishedIsNew demands of a step.
Newer == /\ \A j \in Joint : out'.joints[j].id >= out.joints[j].id
         /\ \E j \in Joint : /\ out'.joints[j].id > out.joints[j].id
                             /\ out'.timestamp_ns \in out'.joints[j].id .. now

LEMMA PublishInv == Inv /\ Publish => Inv' /\ Newer
<1> SUFFICES ASSUME Inv, Publish PROVE Inv' /\ Newer
    OBVIOUS
<1>1. /\ UNCHANGED <<g_running, is_open, registered, events, joint, raw, last, any_new,
                     pipe, now>>
      /\ pc = "next" /\ pc' = "check" /\ any_new
      /\ msg' = [msg EXCEPT !.seq = seq] /\ out' = msg' /\ seq' = seq + 1
      /\ msg \in Msg /\ seq \in Nat
    BY DEF Publish, Goto, setup, batch, world, Inv, TypeOK
<1>2. /\ msg' \in Msg /\ msg'.joints = msg.joints
      /\ msg'.timestamp_ns = msg.timestamp_ns
    BY <1>1 DEF Msg
<1>3. TypeOK' /\ BatchOk' /\ RawOk' /\ NewOk'
    BY <1>1, <1>2 DEF Inv, TypeOK, BatchOk, RawOk, NewOk, InBatch
<1>4. \A j \in Joint : PipeOk(j)'
    BY <1>1, <1>2 DEF Inv, PipeOk
<1>5. MsgOk'
    BY <1>1, <1>2, <1>3, MsgTypes DEF Inv, MsgOk
<1>6. PICK w \in Joint : Renewed(w)
    BY <1>1 DEF Inv, NewOk, InBatch
<1>7. ASSUME NEW j \in Joint PROVE out'.joints[j].id >= out.joints[j].id
    BY <1>1, <1>2, MsgTypes DEF Inv, MsgOk
<1>8. /\ out'.joints[w].id > out.joints[w].id
      /\ out'.timestamp_ns \in out'.joints[w].id .. now
    BY <1>1, <1>2, <1>6, MsgTypes DEF Inv, Renewed
<1> QED
    BY <1>3, <1>4, <1>5, <1>7, <1>8 DEF Inv, Newer

LEMMA SendInv == Inv /\ (\E j \in Joint : Send(j)) => Inv' /\ UNCHANGED out
<1> SUFFICES ASSUME Inv, NEW j \in Joint, Send(j) PROVE Inv' /\ UNCHANGED out
    OBVIOUS
<1>1. PICK shape \in Shapes :
          pipe' = [pipe EXCEPT ![j] = Append(@, Frame(shape, j, now + 1))]
    BY DEF Send
<1> DEFINE f == Frame(shape, j, now + 1)
           q == pipe[j]
           r == Append(q, f)
<1>2. /\ UNCHANGED <<g_running, pc, is_open, registered, events, joint, raw, last, msg,
                     any_new, seq, out>>
      /\ now' = now + 1 /\ now \in Nat /\ now + 1 \in Nat
      /\ pipe \in [Joint -> Seq(Frames)] /\ q \in Seq(Frames)
    BY DEF Send, setup, batch, merged, Inv, TypeOK
<1>3. j \in Nat /\ shape \in Shapes \cup {"garbled"}
    BY RealAssumption DEF Joint
<1>4. f \in Frames
    BY <1>2, <1>3 DEF Frames
<1>5. f.pdo.value = [from |-> j, id |-> now + 1]
    BY DEF Frame
<1> HIDE DEF f
<1>6. pipe' = [pipe EXCEPT ![j] = r]
    BY <1>1 DEF f
<1>7. /\ r \in Seq(Frames) /\ Len(r) = Len(q) + 1 /\ Len(q) \in Nat
      /\ r[Len(q) + 1] = f /\ \A i \in 1 .. Len(q) : r[i] = q[i]
    BY <1>2, <1>4
<1> HIDE DEF q, r
<1>8. pipe'[j] = r /\ (\A i \in Joint : i # j => pipe'[i] = pipe[i])
      /\ pipe' \in [Joint -> Seq(Frames)]
    BY <1>2, <1>6, <1>7
<1>9. TypeOK' /\ BatchOk' /\ MsgOk'
  <2>1. \A i \in Joint : msg.joints[i].id <= now + 1
      BY <1>2, MsgTypes DEF Inv, MsgOk
  <2> QED
      BY <1>2, <1>8, <2>1 DEF Inv, TypeOK, BatchOk, MsgOk, InBatch
<1>10. ASSUME NEW d \in Joint, NEW i \in 1 .. Len(pipe[d])
       PROVE  pipe[d][i].pdo.value.id \in Nat /\ pipe[d][i].pdo.value.id <= now
  <2>1. pipe[d][i] \in Frames
      BY <1>2
  <2> QED
      BY <2>1, FrameFacts DEF Inv, PipeOk, Value
<1>11. NewOk'
  <2> SUFFICES ASSUME InBatch, any_new PROVE \E w \in Joint : Renewed(w)'
      BY <1>2 DEF NewOk, InBatch
  <2>1. PICK w \in Joint : Renewed(w)
      BY DEF Inv, NewOk
  <2>2. Renewed(w)'
      BY <1>2, <2>1, MsgTypes DEF Inv, Renewed
  <2> QED
      BY <2>2
<1>12. RawOk'
  <2> SUFFICES ASSUME pc = "drain", last > 0
               PROVE  /\ raw.pdo.value.from = joint /\ raw.pdo.value.id <= now + 1
                      /\ msg.joints[joint].id < raw.pdo.value.id
                      /\ \A i \in 1 .. Len(pipe'[joint]) :
                             raw.pdo.value.id < pipe'[joint][i].pdo.value.id
      BY <1>2 DEF RawOk
  <2>1. raw.pdo.value.id \in Nat
      BY FrameFacts DEF Inv, TypeOK, Value
  <2>2. /\ raw.pdo.value.from = joint /\ raw.pdo.value.id <= now /\ joint \in Joint
        /\ msg.joints[joint].id < raw.pdo.value.id
        /\ \A i \in 1 .. Len(pipe[joint]) : raw.pdo.value.id < pipe[joint][i].pdo.value.id
      BY DEF Inv, RawOk, BatchOk, TypeOK
  <2>3. ASSUME NEW i \in 1 .. Len(pipe'[joint])
        PROVE  raw.pdo.value.id < pipe'[joint][i].pdo.value.id
    <3>1. CASE joint # j
        BY <1>8, <2>2, <3>1
    <3>2. CASE joint = j /\ i \in 1 .. Len(q)
        BY <1>7, <1>8, <2>2, <3>2 DEF q
    <3>3. CASE joint = j /\ i = Len(q) + 1
        BY <1>2, <1>5, <1>7, <1>8, <2>1, <2>2, <3>3
    <3> QED
        BY <1>7, <1>8, <3>1, <3>2, <3>3
  <2> QED
      BY <1>2, <2>1, <2>2, <2>3
<1>13. PipeOk(j)'
  <2>1. /\ PipeOk(j) /\ msg.joints[j].id <= now /\ msg.joints[j].id \in Nat
        /\ \A i \in 1 .. Len(q) : q[i].pdo.value.id \in Nat /\ q[i].pdo.value.id <= now
      BY <1>10, MsgTypes DEF Inv, MsgOk, q
  <2>2. ASSUME NEW i \in 1 .. Len(r)
        PROVE  /\ r[i].pdo.value.from = j /\ r[i].pdo.value.id <= now + 1
               /\ msg.joints[j].id < r[i].pdo.value.id
    <3>1. CASE i \in 1 .. Len(q)
        BY <1>2, <1>7, <2>1, <3>1 DEF PipeOk, q
    <3>2. CASE i = Len(q) + 1
        BY <1>2, <1>5, <1>7, <2>1, <3>2
    <3> QED
        BY <1>7, <3>1, <3>2
  <2>3. ASSUME NEW i \in 1 .. Len(r), NEW k \in 1 .. Len(r), i < k
        PROVE  r[i].pdo.value.id < r[k].pdo.value.id
    <3>1. i \in 1 .. Len(q) /\ r[i] = q[i]
        BY <1>7, <2>3
    <3>2. CASE k \in 1 .. Len(q)
        BY <1>7, <2>1, <2>3, <3>1, <3>2 DEF PipeOk, q
    <3>3. CASE k = Len(q) + 1
        BY <1>2, <1>5, <1>7, <2>1, <3>1, <3>3
    <3> QED
        BY <1>7, <3>2, <3>3
  <2> QED
      BY <1>2, <1>8, <2>2, <2>3 DEF PipeOk
<1>14. ASSUME NEW d \in Joint PROVE PipeOk(d)'
  <2>1. CASE d # j
    <3>1. /\ pipe'[d] = pipe[d] /\ msg' = msg
          /\ \A i \in 1 .. Len(pipe[d]) : pipe[d][i].pdo.value.id <= now'
        BY <1>2, <1>8, <1>10, <2>1
    <3> QED
        BY <3>1 DEF Inv, PipeOk
  <2>2. CASE d = j
      BY <1>13, <2>2
  <2> QED
      BY <2>1, <2>2
<1> QED
    BY <1>2, <1>9, <1>12, <1>11, <1>14 DEF Inv

LEMMA StepInv == Inv /\ [Next]_vars => Inv' /\ (out' # out => Newer)
  BY QuietInv, SetupInv, WaitInv, TakeInv, ReadInv, MergeInv, PublishInv, SendInv
     DEF Next, LoopStep, Quiet, Terminated

LEMMA Invariance == Spec => []Inv
<1>1. Init => Inv
  <2> SUFFICES ASSUME Init PROVE Inv
      OBVIOUS
  <2>1. NoFrame \in Frames
      BY DEF NoFrame, Frames
  <2>2. EmptyMsg \in Msg /\ \A j \in Joint : EmptyMsg.joints[j] = Zero
      BY DEF EmptyMsg, Msg, Zero, Value
  <2>3. /\ pipe = [j \in Joint |-> <<>>] /\ now = 0 /\ msg = EmptyMsg /\ out = EmptyMsg
        /\ raw = NoFrame /\ last = 0 /\ g_running = TRUE /\ any_new = FALSE /\ seq = 0
        /\ is_open = {} /\ registered = {} /\ events = {} /\ pc = "open"
      BY DEF Init
  <2>4. TypeOK
    <3>1. g_running \in BOOLEAN /\ any_new \in BOOLEAN
        BY <2>3
    <3> QED
        BY <2>1, <2>2, <2>3, <3>1 DEF TypeOK
  <2>5. \A j \in Joint : PipeOk(j)
      BY <2>3 DEF PipeOk
  <2>6. MsgOk
      BY <2>2, <2>3 DEF MsgOk, Zero
  <2> QED
      BY <2>3, <2>4, <2>5, <2>6 DEF Inv, BatchOk, RawOk, NewOk, InBatch
<1> QED
    BY <1>1, StepInv, PTL DEF Spec

\* For any number of joints, no joint ever shows what another joint's pipe
\* left in the shared buffer, and none without a registered pipe moves.
THEOREM ShowsOwnPipe == Spec => []OwnPipe
<1>1. Inv => OwnPipe
    BY DEF Inv, MsgOk, OwnPipe
<1> QED
    BY <1>1, Invariance, PTL

\* No published message takes a joint back in time, each renews a joint, and
\* its time lies between the sending of such a joint's frame and now.
THEOREM NothingStale == Spec => PublishedIsNew
<1>1. Inv /\ [Next]_vars => (out' # out => Newer)
    BY StepInv
<1> QED
    BY <1>1, Invariance, PTL DEF Spec, PublishedIsNew, Newer

\* Safety of the loop's contract: a set-up that fails stops the hub, nobody
\* sets g_running again, and the loop is left only when it is false or epoll
\* fails.
THEOREM ThreadSafety == Spec => Thread!SafetySpec
<1>1. Init => Thread!Init
    BY DEF Init, Thread!Init, phaseBar
<1>2. Inv /\ [Next]_vars => [Thread!Next]_(Thread!vars)
  <2> SUFFICES ASSUME Inv, Next \/ UNCHANGED vars
               PROVE  Thread!Next \/ UNCHANGED Thread!vars
      OBVIOUS
  <2> USE DEF Goto, phaseBar, Thread!vars
  <2>1. CASE EpollCreateFails \/ PubInitFails
      BY <2>1 DEF EpollCreateFails, PubInitFails, Thread!Next, Thread!GiveUp
  <2>2. CASE PubInit
      BY <2>2 DEF PubInit, Thread!Next, Thread!Ready
  <2>3. CASE LoopExit \/ EpollFails
      BY <2>3 DEF LoopExit, EpollFails, Thread!Next, Thread!Return
  <2>4. CASE OnShutdown
      BY <2>4 DEF OnShutdown, Thread!Next, Thread!Stop
  <2>5. CASE OpenPipes \/ Register
      BY <2>5 DEF OpenPipes, Register
  <2>6. CASE LoopContinue \/ EpollWait \/ EpollNothing \/ (\E j \in Joint : TakeEvent(j))
             \/ ReadFrame \/ DrainNothing \/ MergeFrame \/ Publish \/ PublishNothing
      BY <2>6 DEF LoopContinue, EpollWait, EpollNothing, TakeEvent, ReadFrame, Goto,
                  DrainNothing, MergeFrame, Publish, PublishNothing
  <2>7. CASE (\E j \in Joint : Send(j) \/ HangUp(j)) \/ UNCHANGED vars
      BY <2>7 DEF Send, HangUp, vars
  <2> QED
      BY <2>1, <2>2, <2>3, <2>4, <2>5, <2>6, <2>7 DEF Next, LoopStep, Terminated
<1> QED
    BY <1>1, <1>2, Invariance, PTL DEF Spec, Thread!SafetySpec

=============================================================================
