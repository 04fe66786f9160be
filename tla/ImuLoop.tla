------------------------------ MODULE ImuLoop ------------------------------
(***************************************************************************)
(* Real mode: run_imu_dds_loop (src/imu_dds_real.cpp), the one pipe it     *)
(* reads and ImuPublisher::publish.  Unlike the joint loop it merges       *)
(* nothing: the last frame of a drain becomes one sample, or none.         *)
(*                                                                         *)
(* Time is counted as in RealLoop: the k-th frame sent carries stamp k and *)
(* realtime_now_ns() returns the number of frames sent.  Orientation, rate *)
(* and acceleration of a frame are one value, the number of the frame.     *)
(* The pipe, epoll and Fast-DDS are external.                              *)
(***************************************************************************)
EXTENDS PdoUtils, Stamp, Sequences

CONSTANTS Shapes,         \* the kinds of frames that the driver sends
          MaxFrames,      \* bound: frames sent
          MaxSubscribers  \* bound: matched readers

ASSUME ImuLoopAssumption ==
    /\ Shapes \subseteq {"stamped", "unstamped", "short", "joint"}
    /\ MaxFrames \in Nat /\ MaxSubscribers \in Nat
    /\ 6 <= BUF   \* the largest frame below fits into the buffer

VARIABLES g_running, \* the std::atomic<bool> all loops poll
          pc,        \* control state of the loop
          is_open,   \* the pipe could be opened
          raw,       \* frame in the read buffer
          last,      \* size of the last frame read in this drain, or 0
          msg,       \* rt_imu_msg
          seq,       \* next sequence number
          written,   \* the sample last handed to writer_->write()
          matched_,  \* readers matched, as the listener counted them
          pipe,      \* frames waiting in the pipe
          hup,       \* the writer of the pipe is gone
          now        \* frames sent so far

buffer == <<raw, last>>
sample == <<msg, seq, written>>
world  == <<matched_, pipe, hup, now>>
vars   == <<g_running, pc, is_open, buffer, sample, world>>

Frame(shape, k) ==
    [n      |-> IF shape = "short" THEN 2 ELSE 6,
     pb_len |-> IF shape = "short" THEN WORD - 2 ELSE 2,
     pdo    |-> [parses    |-> TRUE,
                 type      |-> IF shape = "joint" THEN "RX_CIA402"
                               ELSE "RX_IMU_VN",
                 payloads  |-> {IF shape = "joint" THEN "cia402_rx"
                                ELSE "imuvn_rx"},
                 has_stamp |-> shape # "unstamped",
                 stamp     |-> k,
                 value     |-> k]]

Init == /\ g_running = TRUE /\ pc = "open" /\ is_open = FALSE
        /\ raw = Frame("short", 0) /\ last = 0
        /\ msg = [seq |-> 0, timestamp_ns |-> 0, value |-> 0] /\ seq = 0
        /\ written = [nr |-> 0, stamp |-> ToStamp(0), value |-> 0]
        /\ matched_ = 0 /\ pipe = <<>> /\ hup = FALSE /\ now = 0

Goto(from, to) == pc = from /\ pc' = to
-----------------------------------------------------------------------------
(* Setup.  Unlike the joint loop, no failure here clears g_running. *)

OpenPipe == /\ Goto("open", "epoll")
            /\ is_open' \in BOOLEAN
            /\ UNCHANGED <<g_running, buffer, sample, world>>

\* Mutant: the failure stops the hub, as in the joint loop.
EpollSetupFails_bug == /\ Goto("epoll", "exited")
                       /\ g_running' = FALSE
                       /\ UNCHANGED <<is_open, buffer, sample, world>>

\* epoll_create1, or epoll_ctl for an open pipe, fails.
EpollSetupFails == /\ Goto("epoll", "exited")
                   /\ UNCHANGED <<g_running, is_open, buffer, sample, world>>

\* A pipe that is not open is left out of the epoll set: the loop idles.
EpollSetup == /\ Goto("epoll", "init")
              /\ UNCHANGED <<g_running, is_open, buffer, sample, world>>

PubInit == /\ Goto("init", "check")
           /\ UNCHANGED <<g_running, is_open, buffer, sample, world>>

PubInitFails == /\ Goto("init", "exited")
                /\ UNCHANGED <<g_running, is_open, buffer, sample, world>>
-----------------------------------------------------------------------------
(* The loop *)

LoopContinue == /\ g_running
                /\ Goto("check", "wait")
                /\ UNCHANGED <<g_running, is_open, buffer, sample, world>>

LoopExit == /\ ~g_running
            /\ Goto("check", "exited")
            /\ UNCHANGED <<g_running, is_open, buffer, sample, world>>

\* The epoll set holds the pipe if it is open; EPOLLHUP needs no request.
Ready == is_open /\ (pipe # <<>> \/ hup)

\* Mutant: last survives from the drain before.
EpollWait_bug == /\ Ready
                 /\ Goto("wait", "drain")
                 /\ UNCHANGED <<g_running, is_open, buffer, sample, world>>

EpollWait == /\ Ready
             /\ Goto("wait", "drain")
             /\ last' = 0
             /\ UNCHANGED <<g_running, is_open, raw, sample, world>>

\* The timeout expires, or a signal interrupts the wait (EINTR).
EpollNothing == /\ ~Ready
                /\ Goto("wait", "check")
                /\ UNCHANGED <<g_running, is_open, buffer, sample, world>>

EpollFails == /\ Goto("wait", "exited")
              /\ UNCHANGED <<g_running, is_open, buffer, sample, world>>

\* Mutant: the first frame of a drain is kept instead of the last.
ReadFrame_bug == /\ pc = "drain" /\ pipe # <<>>
                 /\ raw' = IF last = 0 THEN Head(pipe) ELSE raw
                 /\ last' = raw'.n
                 /\ pipe' = Tail(pipe)
                 /\ UNCHANGED <<g_running, pc, is_open, sample, matched_, hup,
                                now>>

\* One read() of the drain loop.
ReadFrame == /\ pc = "drain" /\ pipe # <<>>
             /\ raw' = Head(pipe) /\ last' = Head(pipe).n
             /\ pipe' = Tail(pipe)
             /\ UNCHANGED <<g_running, pc, is_open, sample, matched_, hup, now>>

\* read() returns 0 or fails, because the pipe is empty or with frames left
\* in it: there is no frame or not a valid one,
DrainNothing == /\ last <= 0 \/ ~parse_imu_frame(raw)
                /\ Goto("drain", "check")
                /\ UNCHANGED <<g_running, is_open, buffer, sample, world>>

\* Mutant: the time is only taken from the first frame.
DrainFrame_bug == /\ last > 0 /\ parse_imu_frame(raw)
                  /\ Goto("drain", "publish")
                  /\ msg' = [msg EXCEPT !.seq = seq, !.value = raw.pdo.value,
                               !.timestamp_ns = IF seq > 0 THEN @ ELSE
                                   extract_timestamp_ns(raw.pdo, now)]
                  /\ seq' = seq + 1
                  /\ UNCHANGED <<g_running, is_open, buffer, written, world>>

\* or the last one becomes the sample.
DrainFrame == /\ last > 0 /\ parse_imu_frame(raw)
              /\ Goto("drain", "publish")
              /\ msg' = [seq          |-> seq,
                         timestamp_ns |-> extract_timestamp_ns(raw.pdo, now),
                         value        |-> raw.pdo.value]
              /\ seq' = seq + 1
              /\ UNCHANGED <<g_running, is_open, buffer, written, world>>

PublishSkip == /\ matched_ <= 0
               /\ Goto("publish", "check")
               /\ UNCHANGED <<g_running, is_open, buffer, sample, world>>

\* has_subscribers() let publish() pass; readers may leave before the write.
PublishFill == /\ matched_ > 0
               /\ Goto("publish", "write")
               /\ UNCHANGED <<g_running, is_open, buffer, sample, world>>

\* nr tells writes apart; the sequence number itself is not transmitted.
PublishWrite == /\ Goto("write", "check")
                /\ written' = [nr    |-> msg.seq + 1,
                               stamp |-> ToStamp(msg.timestamp_ns),
                               value |-> msg.value]
                /\ UNCHANGED <<g_running, is_open, buffer, msg, seq, world>>

LoopStep == \/ OpenPipe \/ EpollSetupFails \/ EpollSetup \/ PubInit
            \/ PubInitFails \/ LoopContinue \/ LoopExit \/ EpollWait
            \/ EpollNothing \/ EpollFails \/ ReadFrame \/ DrainNothing
            \/ DrainFrame \/ PublishSkip \/ PublishFill \/ PublishWrite
-----------------------------------------------------------------------------
(* The driver, readers and signals *)

Send == /\ now < MaxFrames /\ is_open /\ ~hup
        /\ \E shape \in Shapes : pipe' = Append(pipe, Frame(shape, now + 1))
        /\ now' = now + 1
        /\ UNCHANGED <<g_running, pc, is_open, buffer, sample, matched_, hup>>

HangUp == /\ is_open /\ ~hup
          /\ hup' = TRUE
          /\ UNCHANGED <<g_running, pc, is_open, buffer, sample, matched_,
                         pipe, now>>

\* Readers are only matched while the writer exists.
OnMatched == /\ pc \notin {"open", "epoll", "exited"}
             /\ \E n \in 0 .. MaxSubscribers : n # matched_ /\ matched_' = n
             /\ UNCHANGED <<g_running, pc, is_open, buffer, sample, pipe, hup,
                            now>>

OnShutdown == /\ g_running
              /\ g_running' = FALSE
              /\ UNCHANGED <<pc, is_open, buffer, sample, world>>

Terminated == pc = "exited" /\ UNCHANGED vars

Next == LoopStep \/ Send \/ HangUp \/ OnMatched \/ OnShutdown \/ Terminated

\* The thread is scheduled, and read() does not fail for ever on a pipe that
\* has frames; driver, readers and signals owe nothing.
Spec == Init /\ [][Next]_vars /\ WF_vars(LoopStep) /\ SF_vars(ReadFrame)
-----------------------------------------------------------------------------
(* Properties *)

\* FrameExact for the size of the frame in the buffer: whatever else read()
\* left there, the prefix bytes of an earlier frame included, parse_frame
\* takes exactly the well-formed frames, and the two parsers share none.
ParsesExactly ==
    last > 0 => \A f \in [n : {last}, pb_len : 0 .. WORD - 1, pdo : AnyPdo] :
                    ParseFrameExact(f) /\ ReadAsOneKind(f)

\* Every sample written carries a frame sent after the one before it: no
\* frame is published twice, not even when a hang-up wakes the loop while an
\* old frame is still in the buffer.
SamplesFresh == [][written'.nr # written.nr => written'.value > written.value]_vars

\* As long as the seconds fit, a reader decodes a time that lies between the
\* sending of the frame whose values it sees and the present.
StampOfItsFrame ==
    written.nr > 0 /\ FitsStamp(now) =>
        FromStamp(written.stamp) \in written.value .. now

\* The frame at the end of the pipe is a valid frame of time k.
Newest(k) == /\ pipe # <<>>
             /\ pipe[Len(pipe)].pdo.value = k
             /\ parse_imu_frame(pipe[Len(pipe)])

\* "keep only the latest frame": a valid frame reaches the readers unless a
\* later one supersedes it, there are no readers, or the loop ends.
LatestWritten ==
    \A k \in 1 .. MaxFrames :
        Newest(k) ~> \/ written.value >= k \/ matched_ = 0 \/ pc = "exited"
                     \/ raw.pdo.value > k
                     \/ \E i \in DOMAIN pipe : pipe[i].pdo.value > k

phaseBar == CASE pc \in {"open", "epoll", "init"} -> "setup"
              [] pc = "exited" -> "done"
              [] OTHER -> "loop"

Thread == INSTANCE LoopThread WITH StopsHub <- FALSE, MayBreak <- TRUE,
                                   running <- g_running, phase <- phaseBar

\* run_imu_dds_loop is the loop that the process takes it for: a set-up that
\* fails leaves the hub alone, and the loop returns once g_running is false,
\* with or without a pipe to read.
ImplementsThread == Thread!Spec

=============================================================================
