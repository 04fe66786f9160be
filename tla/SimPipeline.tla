---------------------------- MODULE SimPipeline ----------------------------
(***************************************************************************)
(* Sim mode: run_rt_loop (src/rt_trajectory_client.cpp) makes a message    *)
(* per period and pushes it into the ring; run_sim_dds_loop                *)
(* (src/joint_state_dds_sim.cpp) pops messages and publishes them; the     *)
(* Fast-DDS listener thread counts the matched subscribers; a signal       *)
(* clears g_running.                                                       *)
(*                                                                         *)
(* A message is [header, joints].  All joint values of a message are       *)
(* functions of the clamped trajectory time tc, so joints is tc itself     *)
(* and a torn message is one whose joints do not belong to its header.     *)
(***************************************************************************)
EXTENDS SpscQueue, Stamp, Sequences

CONSTANTS Duration,      \* trajectory duration (5.0 s), in nanoseconds
          MaxSeq,        \* bound: messages the RT loop makes
          MaxElapse,     \* bound: time between two clock readings
          MaxSubscribers \* bound: matched DDS readers

ASSUME PipelineAssumption == /\ Duration \in Nat
                             /\ MaxSeq \in Nat
                             /\ MaxElapse \in Nat
                             /\ MaxSubscribers \in Nat

VARIABLES g_running,   \* the std::atomic<bool> all loops poll
          clock,       \* what CLOCK_MONOTONIC shows, as last read
          t0,          \* run_rt_loop: time of the first reading
          seq,         \* run_rt_loop: next sequence number
          rt_msg,      \* run_rt_loop: message being made
          rt_pc,       \* run_rt_loop: control state
          dds_msg,     \* run_sim_dds_loop: message last popped
          dds_pc,      \* run_sim_dds_loop: control state
          matched,     \* PubListener::matched_
          samples      \* history: what writer_->write() was given

ringVars == <<ring, write_index, read_index>>
rtVars   == <<clock, t0, seq, rt_msg, rt_pc>>
ddsVars  == <<dds_msg, dds_pc, samples>>
vars     == <<ringVars, rtVars, ddsVars, g_running, matched>>

Zero == [header |-> [seq |-> 0, timestamp_ns |-> 0], joints |-> 0]

\* TrajectoryGenerator::clamp, and the time compute() evaluates at.
clamp(v, lo, hi) == IF v < lo THEN lo ELSE IF v > hi THEN hi ELSE v
JointsAt(ns) == clamp(timespec_diff(Timespec(ns), Timespec(t0)), 0, Duration)

Init == /\ ring = [i \in Index |-> Zero]
        /\ write_index = 0 /\ read_index = 0
        /\ g_running = TRUE
        /\ clock = 0 /\ t0 = 0 /\ seq = 0
        /\ rt_msg = Zero /\ rt_pc = "start"
        /\ dds_msg = Zero /\ dds_pc = "init"
        /\ matched = 0 /\ samples = <<>>

RtGoto(from, to)  == rt_pc = from /\ rt_pc' = to
DdsGoto(from, to) == dds_pc = from /\ dds_pc' = to
-----------------------------------------------------------------------------
(* run_rt_loop *)

RtStart == /\ RtGoto("start", "check")
           /\ \E d \in 0 .. MaxElapse : clock' = clock + d
           /\ t0' = clock'
           /\ UNCHANGED <<ringVars, ddsVars, seq, rt_msg, g_running, matched>>

RtContinue == /\ g_running /\ seq < MaxSeq
              /\ RtGoto("check", "fill")
              /\ UNCHANGED <<ringVars, ddsVars, clock, t0, seq, rt_msg,
                             g_running, matched>>

\* Mutant: the clock is read again between the stamp and compute().
RtFill_bug == /\ RtGoto("fill", "push")
              /\ \E d \in 0 .. MaxElapse : clock' = clock + d
              /\ rt_msg' = [header |-> [seq |-> seq, timestamp_ns |-> clock],
                            joints |-> JointsAt(clock')]
              /\ seq' = seq + 1
              /\ UNCHANGED <<ringVars, ddsVars, t0, g_running, matched>>

RtFill == /\ RtGoto("fill", "push")
          /\ \E d \in 0 .. MaxElapse : clock' = clock + d
          /\ rt_msg' = [header |-> [seq |-> seq,
                                    timestamp_ns |->
                                        timespec_to_ns(Timespec(clock'))],
                        joints |-> JointsAt(clock')]
          /\ seq' = seq + 1
          /\ UNCHANGED <<ringVars, ddsVars, t0, g_running, matched>>

\* Ring.push(msg) returns false and the result is ignored: the new message
\* is lost, the older ones stay.
RtPushFull == /\ Full
              /\ RtGoto("push", "sleep")
              /\ UNCHANGED <<ringVars, ddsVars, clock, t0, seq, rt_msg,
                             g_running, matched>>

RtPushHeader == /\ RtGoto("push", "push_joints")
                /\ PushHeader(rt_msg)
                /\ UNCHANGED <<ddsVars, clock, t0, seq, rt_msg, g_running,
                               matched>>

RtPushJoints == /\ RtGoto("push_joints", "commit")
                /\ PushJoints(rt_msg)
                /\ UNCHANGED <<ddsVars, clock, t0, seq, rt_msg, g_running,
                               matched>>

RtCommit == /\ RtGoto("commit", "sleep")
            /\ PushCommit
            /\ UNCHANGED <<ddsVars, clock, t0, seq, rt_msg, g_running,
                           matched>>

RtSleep == /\ RtGoto("sleep", "check")
           /\ UNCHANGED <<ringVars, ddsVars, clock, t0, seq, rt_msg,
                          g_running, matched>>

RtExit == /\ ~g_running
          /\ RtGoto("check", "exited")
          /\ UNCHANGED <<ringVars, ddsVars, clock, t0, seq, rt_msg,
                         g_running, matched>>

RtStep == \/ RtStart \/ RtContinue \/ RtFill \/ RtPushFull \/ RtPushHeader
          \/ RtPushJoints \/ RtCommit \/ RtSleep \/ RtExit
-----------------------------------------------------------------------------
(* run_sim_dds_loop *)

DdsInit == /\ DdsGoto("init", "check")
           /\ UNCHANGED <<ringVars, rtVars, dds_msg, samples, g_running,
                          matched>>

\* Mutant: the hub is not told that its publisher is missing.
DdsInitFails_bug == /\ DdsGoto("init", "exited")
                    /\ matched' = 0
                    /\ UNCHANGED <<ringVars, rtVars, dds_msg, samples, g_running>>

\* The publisher object goes away with its listener.
DdsInitFails == /\ DdsGoto("init", "exited")
                /\ g_running' = FALSE
                /\ matched' = 0
                /\ UNCHANGED <<ringVars, rtVars, dds_msg, samples>>

DdsContinue == /\ g_running
               /\ DdsGoto("check", "pop")
               /\ UNCHANGED <<ringVars, rtVars, dds_msg, samples, g_running,
                              matched>>

\* Mutant: the result of pop() is ignored, the old message goes out again.
DdsPopEmpty_bug == /\ Empty
                   /\ DdsGoto("pop", "publish")
                   /\ UNCHANGED <<ringVars, rtVars, dds_msg, samples,
                                  g_running, matched>>

DdsPopEmpty == /\ Empty
               /\ DdsGoto("pop", "sleep")
               /\ UNCHANGED <<ringVars, rtVars, dds_msg, samples, g_running,
                              matched>>

DdsPopHeader == /\ ~Empty
                /\ DdsGoto("pop", "pop_joints")
                /\ dds_msg' = [dds_msg EXCEPT !.header = ring[read_index].header]
                /\ UNCHANGED <<ringVars, rtVars, samples, g_running, matched>>

DdsPopJoints == /\ DdsGoto("pop_joints", "release")
                /\ dds_msg' = [dds_msg EXCEPT !.joints = ring[read_index].joints]
                /\ UNCHANGED <<ringVars, rtVars, samples, g_running, matched>>

DdsRelease == /\ DdsGoto("release", "publish")
              /\ PopRelease
              /\ UNCHANGED <<rtVars, dds_msg, samples, g_running, matched>>

\* publish(): has_subscribers() is read first, the write comes later.
DdsPublishSkip == /\ ~(matched > 0)
                  /\ DdsGoto("publish", "check")
                  /\ UNCHANGED <<ringVars, rtVars, dds_msg, samples,
                                 g_running, matched>>

DdsPublishFill == /\ matched > 0
                  /\ DdsGoto("publish", "write")
                  /\ UNCHANGED <<ringVars, rtVars, dds_msg, samples,
                                 g_running, matched>>

\* header is not on the wire: it is kept here to identify the sample.
DdsWrite == /\ DdsGoto("write", "check")
            /\ samples' = Append(samples,
                   [header |-> dds_msg.header,
                    stamp  |-> ToStamp(dds_msg.header.timestamp_ns),
                    joints |-> dds_msg.joints])
            /\ UNCHANGED <<ringVars, rtVars, dds_msg, g_running, matched>>

DdsSleep == /\ DdsGoto("sleep", "check")
            /\ UNCHANGED <<ringVars, rtVars, dds_msg, samples, g_running,
                           matched>>

DdsExit == /\ ~g_running
           /\ DdsGoto("check", "exited")
           /\ matched' = 0
           /\ UNCHANGED <<ringVars, rtVars, dds_msg, samples, g_running>>

DdsStep == \/ DdsInit \/ DdsInitFails \/ DdsContinue \/ DdsPopEmpty
           \/ DdsPopHeader \/ DdsPopJoints \/ DdsRelease \/ DdsPublishSkip
           \/ DdsPublishFill \/ DdsWrite \/ DdsSleep \/ DdsExit
-----------------------------------------------------------------------------
(* The environment: listener callbacks and signals *)

\* on_publication_matched, from the moment the writer may exist.
OnMatched == /\ dds_pc # "exited"
             /\ \E n \in 0 .. MaxSubscribers :
                    n # matched /\ matched' = n
             /\ UNCHANGED <<ringVars, rtVars, ddsVars, g_running>>

OnShutdown == /\ g_running
              /\ g_running' = FALSE
              /\ UNCHANGED <<ringVars, rtVars, ddsVars, matched>>

Stopped == rt_pc = "exited" /\ dds_pc = "exited"

Terminated == Stopped /\ UNCHANGED vars

Next == RtStep \/ DdsStep \/ OnMatched \/ OnShutdown \/ Terminated

\* Both threads are scheduled: the RT thread sleeps every period and so
\* cannot starve the other one.  Signals and subscribers owe nothing.
Fairness == WF_vars(RtStep) /\ WF_vars(DdsStep)

Spec == Init /\ [][Next]_vars /\ Fairness
-----------------------------------------------------------------------------
(* Properties *)

Header  == [seq : Nat, timestamp_ns : Nat]
Message == [header : Header, joints : Nat]
Sample  == [header : Header, stamp : [sec : Int, nanosec : Nat], joints : Nat]

\* Every variable keeps its shape; the control states are those of the two
\* loops and the indices stay inside the ring.
TypeOK ==
    /\ ring \in [Index -> Message]
    /\ write_index \in Index /\ read_index \in Index
    /\ g_running \in BOOLEAN
    /\ clock \in Nat /\ t0 \in Nat /\ seq \in Nat
    /\ rt_msg \in Message
    /\ rt_pc \in {"start", "check", "fill", "push", "push_joints", "commit",
                  "sleep", "exited"}
    /\ dds_msg \in Message
    /\ dds_pc \in {"init", "check", "pop", "pop_joints", "release", "publish",
                   "write", "sleep", "exited"}
    /\ matched \in Nat
    /\ samples \in Seq(Sample)

\* While run_rt_loop is copying into a slot, run_sim_dds_loop is not copying
\* out of it: push() and pop() share a slot without a data race.
SlotExclusive ==
    /\ rt_pc \in {"push_joints", "commit"}
    /\ dds_pc \in {"pop_joints", "release"}
    => write_index # read_index

\* A published sample carries the joint values of one compute() call, the
\* one made at the time in its stamp: no sample mixes two messages.
SamplesIntact ==
    \A k \in DOMAIN samples :
        samples[k].joints = JointsAt(samples[k].header.timestamp_ns)

\* Messages are published in the order run_rt_loop made them, at most once
\* each, and the stamps a subscriber decodes never go back, until the int32
\* that carries the seconds overflows.
SamplesOrdered ==
    \A i, j \in DOMAIN samples :
        i < j => /\ samples[i].header.seq < samples[j].header.seq
                 /\ FitsStamp(samples[j].header.timestamp_ns) =>
                        FromStamp(samples[i].stamp) <= FromStamp(samples[j].stamp)

\* The simulated robot never moves back along its trajectory: the published
\* trajectory time does not decrease and never exceeds the duration.
MotionForward ==
    \A i, j \in DOMAIN samples :
        i < j => /\ samples[i].joints <= samples[j].joints
                 /\ samples[j].joints <= Duration

-----------------------------------------------------------------------------
(* Refinement: the ring and the two loops implement SampleChannel, and each *)
(* loop is a LoopThread.                                                    *)

MakingMsg == rt_pc \in {"push", "push_joints", "commit"}
HoldsMsg  == dds_pc \in {"publish", "write"}

madeBar == IF MakingMsg THEN seq - 1 ELSE seq

pendingBar == (IF HoldsMsg THEN <<dds_msg.header.seq>> ELSE <<>>)
              \o [k \in 1 .. Size |-> ring[SlotAt(k - 1)].header.seq]

deliveredBar == [k \in DOMAIN samples |-> samples[k].header.seq]

Channel == INSTANCE SampleChannel
             WITH Bound <- RING_CAPACITY, made <- madeBar,
                  pending <- pendingBar, delivered <- deliveredBar,
                  open <- g_running

\* Spec implements the lossy FIFO channel, its liveness included.
ImplementsChannel == Channel!Spec

RtThread  == INSTANCE LoopThread
               WITH StopsHub <- FALSE, MayBreak <- FALSE, running <- g_running,
                    phase <- IF rt_pc = "exited" THEN "done" ELSE "loop"

DdsThread == INSTANCE LoopThread
               WITH StopsHub <- TRUE, MayBreak <- FALSE, running <- g_running,
                    phase <- CASE dds_pc = "init" -> "setup"
                               [] dds_pc = "exited" -> "done"
                               [] OTHER -> "loop"

\* Both loops are what the process takes them for: a publisher that cannot
\* start stops the hub, neither returns before g_running is false, and both
\* return then, so that main's joins do.
ImplementsThreads == RtThread!Spec /\ DdsThread!Spec

=============================================================================
