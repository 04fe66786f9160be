------------------------------ MODULE RealLoop ------------------------------
(***************************************************************************)
(* Real mode: run_real_dds_loop (src/joint_state_dds_real.cpp), the        *)
(* XddpReader it opens and the pipes it reads.  Motor drivers write frames *)
(* into one XDDP pipe per joint; the loop waits on all of them with epoll, *)
(* drains each ready pipe, parses the last frame read and merges it into   *)
(* one message, which it hands to pub.publish() once per batch.            *)
(*                                                                         *)
(* Time is counted in frames: the k-th frame sent carries stamp k, and     *)
(* realtime_now_ns() returns the number of frames sent so far.  Position,  *)
(* velocity and effort of a joint are always copied together; they are one *)
(* value, identified by the pipe and the time of the frame.  The pipes and *)
(* epoll are external.                                                     *)
(***************************************************************************)
EXTENDS PdoUtils, Sequences

CONSTANTS DOFS,      \* RobotModel::dofs
          NumPipes,  \* RobotModel::num_pipes, the names that are not null
          Shapes,    \* the kinds of frames that drivers send
          MaxFrames  \* bound: frames sent on all pipes together

ASSUME RealAssumption == /\ DOFS \in Nat /\ NumPipes \in 0 .. DOFS
                         /\ MaxFrames \in Nat
                         /\ Shapes \subseteq {"stamped", "unstamped", "short",
                                              "mislength", "garbled", "imu"}

VARIABLES g_running,  \* the std::atomic<bool> all loops poll
          pc,         \* control state of the loop
          is_open,    \* joints whose pipe could be opened
          registered, \* joints whose pipe is in the epoll set
          events,     \* events of this batch that are still to be handled
          joint,      \* joint of the event being handled
          raw,        \* frame in the read buffer
          last,       \* size of the last frame read for this event, or 0
          msg,        \* the message that frames are merged into
          any_new,    \* a frame of this batch was merged
          seq,        \* next sequence number
          out,        \* the message last handed to pub.publish()
          pipe,       \* frames waiting in each pipe
          hup,        \* pipes whose writer is gone
          now         \* frames sent so far

world    == <<pipe, hup, now>>
setup    == <<is_open, registered>>
batch    == <<events, joint, raw, last>>
merged   == <<msg, any_new, seq, out>>
vars     == <<g_running, pc, setup, batch, merged, world>>

Joint == 0 .. DOFS - 1
Zero  == [from |-> 0, id |-> 0]   \* the 0.0 of MsgT msg{}

\* A frame of each kind, sent on pipe j at time k.  In a short frame the
\* stale prefix is the one that the wrapping sum would let through.
Frame(shape, j, k) ==
    [n      |-> IF shape = "short" THEN 2 ELSE 6,
     pb_len |-> CASE shape = "short"     -> WORD - 2
                  [] shape = "mislength" -> 3
                  [] OTHER               -> 2,
     pdo    |-> [parses    |-> shape # "garbled",
                 type      |-> IF shape = "imu" THEN "RX_IMU_VN"
                               ELSE "RX_CIA402",
                 payloads  |-> {IF shape = "imu" THEN "imuvn_rx"
                                ELSE "cia402_rx"},
                 has_stamp |-> shape # "unstamped",
                 stamp     |-> k,
                 value     |-> [from |-> j, id |-> k]]]

NoFrame == Frame("garbled", 0, 0)

EmptyMsg == [seq |-> 0, timestamp_ns |-> 0, joints |-> [j \in Joint |-> Zero]]

Init == /\ g_running = TRUE /\ pc = "open"
        /\ is_open = {} /\ registered = {}
        /\ events = {} /\ joint = 0 /\ raw = NoFrame /\ last = 0
        /\ msg = EmptyMsg /\ any_new = FALSE /\ seq = 0 /\ out = EmptyMsg
        /\ pipe = [j \in Joint |-> <<>>]
        /\ hup = [j \in Joint |-> FALSE]
        /\ now = 0

Goto(from, to) == pc = from /\ pc' = to
-----------------------------------------------------------------------------
(* Setup *)

\* Whether the pipe can be opened: it may be missing, and a null name becomes
\* a path that does not exist.
open_xddp_device(j) == IF j < NumPipes THEN BOOLEAN ELSE {FALSE}

\* XddpReader::open(optional): all DOFS names are tried, and pipes that are
\* missing now are not retried.
OpenPipes == /\ Goto("open", "epoll")
             /\ is_open' \in SUBSET Joint
             /\ \A j \in Joint : (j \in is_open') \in open_xddp_device(j)
             /\ UNCHANGED <<g_running, registered, batch, merged, world>>

EpollCreateFails == /\ Goto("epoll", "exited")
                    /\ g_running' = FALSE
                    /\ UNCHANGED <<setup, batch, merged, world>>

\* epoll_ctl may fail for a pipe, which is then never read.
Register == /\ Goto("epoll", "init")
            /\ registered' \in SUBSET is_open
            /\ UNCHANGED <<g_running, is_open, batch, merged, world>>

PubInit == /\ Goto("init", "check")
           /\ UNCHANGED <<g_running, setup, batch, merged, world>>

PubInitFails == /\ Goto("init", "exited")
                /\ g_running' = FALSE
                /\ UNCHANGED <<setup, batch, merged, world>>
-----------------------------------------------------------------------------
(* The loop *)

\* Mutant: the loop does not look at g_running.
LoopContinue_bug == /\ Goto("check", "wait")
                    /\ UNCHANGED <<g_running, setup, batch, merged, world>>

LoopContinue == /\ g_running
                /\ Goto("check", "wait")
                /\ UNCHANGED <<g_running, setup, batch, merged, world>>

LoopExit == /\ ~g_running
            /\ Goto("check", "exited")
            /\ UNCHANGED <<g_running, setup, batch, merged, world>>

\* EPOLLHUP is reported whether asked for or not, as long as it lasts.
Ready == {j \in registered : pipe[j] # <<>> \/ hup[j]}

\* Mutant: one event per wait.
EpollWait_single == /\ Ready # {}
                    /\ Goto("wait", "next")
                    /\ \E j \in Ready : events' = {j}
                    /\ any_new' = FALSE
                    /\ UNCHANGED <<g_running, setup, joint, raw, last, msg,
                                   seq, out, world>>

\* The events array has room for every pipe, in any order.
EpollWait == /\ Ready # {}
             /\ Goto("wait", "next")
             /\ events' = Ready
             /\ any_new' = FALSE
             /\ UNCHANGED <<g_running, setup, joint, raw, last, msg, seq, out,
                            world>>

\* The timeout expires, or a signal interrupts the wait (EINTR).
EpollNothing == /\ Ready = {}
                /\ Goto("wait", "check")
                /\ UNCHANGED <<g_running, setup, batch, merged, world>>

EpollFails == /\ Goto("wait", "exited")
              /\ UNCHANGED <<g_running, setup, batch, merged, world>>

\* Mutant: last is not reset, the buffer still holds another joint's frame.
TakeEvent_bug(j) == /\ Goto("next", "drain")
                    /\ j \in events
                    /\ events' = events \ {j}
                    /\ joint' = j
                    /\ UNCHANGED <<g_running, setup, raw, last, merged, world>>

TakeEvent(j) == /\ Goto("next", "drain")
                /\ j \in events
                /\ events' = events \ {j}
                /\ joint' = j /\ last' = 0
                /\ UNCHANGED <<g_running, setup, raw, merged, world>>

\* One read() of the drain loop.  All joints share the buffer.
ReadFrame == /\ pc = "drain" /\ pipe[joint] # <<>>
             /\ raw' = Head(pipe[joint])
             /\ last' = Head(pipe[joint]).n
             /\ pipe' = [pipe EXCEPT ![joint] = Tail(@)]
             /\ UNCHANGED <<g_running, pc, setup, events, joint, merged, hup,
                            now>>

\* read() returns 0 or fails, because the pipe is empty or with frames left
\* in it: the drain loop ends.  There is no frame or not a valid one,
DrainNothing == /\ Goto("drain", "next")
                /\ last <= 0 \/ ~parse_joint_frame(raw)
                /\ UNCHANGED <<g_running, setup, batch, merged, world>>

\* or the last one is merged; the first of a batch gives the message its time.
MergeFrame == /\ Goto("drain", "next")
              /\ last > 0 /\ parse_joint_frame(raw)
              /\ msg' = [msg EXCEPT
                           !.joints[joint] = raw.pdo.value,
                           !.timestamp_ns  =
                               IF any_new THEN @
                               ELSE extract_timestamp_ns(raw.pdo, now)]
              /\ any_new' = TRUE
              /\ UNCHANGED <<g_running, setup, batch, seq, out, world>>

\* Mutant: published whether or not a frame was merged.
Publish_bug == /\ events = {}
               /\ Goto("next", "check")
               /\ msg' = [msg EXCEPT !.seq = seq]
               /\ out' = msg'
               /\ seq' = seq + 1
               /\ UNCHANGED <<g_running, setup, batch, any_new, world>>

Publish == /\ events = {} /\ any_new
           /\ Goto("next", "check")
           /\ msg' = [msg EXCEPT !.seq = seq]
           /\ out' = msg'
           /\ seq' = seq + 1
           /\ UNCHANGED <<g_running, setup, batch, any_new, world>>

PublishNothing == /\ events = {} /\ ~any_new
                  /\ Goto("next", "check")
                  /\ UNCHANGED <<g_running, setup, batch, merged, world>>

LoopStep == \/ OpenPipes \/ EpollCreateFails \/ Register \/ PubInit
            \/ PubInitFails \/ LoopContinue \/ LoopExit \/ EpollWait
            \/ EpollNothing \/ EpollFails \/ (\E j \in Joint : TakeEvent(j))
            \/ ReadFrame \/ DrainNothing \/ MergeFrame \/ Publish
            \/ PublishNothing
-----------------------------------------------------------------------------
(* Drivers and signals *)

\* A driver writes a frame; it reaches the loop if the pipe was opened.
Send(j) == /\ now < MaxFrames /\ j \in is_open /\ ~hup[j]
           /\ \E shape \in Shapes :
                  pipe' = [pipe EXCEPT ![j] =
                               Append(@, Frame(shape, j, now + 1))]
           /\ now' = now + 1
           /\ UNCHANGED <<g_running, pc, setup, batch, merged, hup>>

\* The driver closes its end; frames already sent can still be read.
HangUp(j) == /\ j \in is_open /\ ~hup[j]
             /\ hup' = [hup EXCEPT ![j] = TRUE]
             /\ UNCHANGED <<g_running, pc, setup, batch, merged, pipe, now>>

OnShutdown == /\ g_running
              /\ g_running' = FALSE
              /\ UNCHANGED <<pc, setup, batch, merged, world>>

Terminated == pc = "exited" /\ UNCHANGED vars

Next == \/ LoopStep
        \/ \E j \in Joint : Send(j) \/ HangUp(j)
        \/ OnShutdown
        \/ Terminated

\* The thread is scheduled, and read() does not fail for ever on a pipe that
\* has frames; drivers and signals owe nothing.
Spec == Init /\ [][Next]_vars /\ WF_vars(LoopStep) /\ SF_vars(ReadFrame)
-----------------------------------------------------------------------------
(* Properties *)

\* A joint shows what was read from its own pipe, never what another joint
\* left in the shared buffer; a joint without a pipe reads as zero.
OwnPipe == \A j \in Joint : msg.joints[j] # Zero =>
               msg.joints[j].from = j /\ j \in registered

\* No joint ever steps back: from one published message to the next each
\* joint keeps its value or takes one that was sent later.  A message is only
\* published when at least one joint is newer than in the message before, and
\* its time lies between the sending of such a joint's frame and now.
PublishedIsNew ==
    [][out' # out =>
         /\ \A j \in Joint : out'.joints[j].id >= out.joints[j].id
         /\ \E j \in Joint : /\ out'.joints[j].id > out.joints[j].id
                             /\ out'.timestamp_ns \in out'.joints[j].id .. now]_vars

\* The frame at the end of pipe j is a valid frame of time k.
Newest(j, k) ==
    /\ j \in registered /\ pipe[j] # <<>>
    /\ LET f == pipe[j][Len(pipe[j])]
       IN  f.pdo.value.id = k /\ parse_joint_frame(f)

\* A valid frame on a registered pipe is shown, unless a later frame on the
\* same pipe supersedes it or the loop ends.  A pipe that was hung up does
\* not keep the loop from serving the others.
NewestShown ==
    \A j \in Joint, k \in 1 .. MaxFrames :
        Newest(j, k) ~> \/ out.joints[j].id >= k
                        \/ \E i \in DOMAIN pipe[j] : pipe[j][i].pdo.value.id > k
                        \/ joint = j /\ raw.pdo.value.id > k
                        \/ pc = "exited"

phaseBar == CASE pc \in {"open", "epoll", "init"} -> "setup"
              [] pc = "exited" -> "done"
              [] OTHER -> "loop"

Thread == INSTANCE LoopThread WITH StopsHub <- TRUE, MayBreak <- TRUE,
                                   running <- g_running, phase <- phaseBar

\* run_real_dds_loop is the loop that the process takes it for: a set-up
\* that fails stops the hub, and the loop returns once g_running is false.
ImplementsThread == Thread!Spec

\* JointState.idl: "All the joint states in one message have to be recorded
\* at the same time", the time in its header.
RecordedTogether ==
    \A j \in Joint : out.joints[j] # Zero => out.joints[j].id = out.timestamp_ns

=============================================================================
