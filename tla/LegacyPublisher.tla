-------------------------- MODULE LegacyPublisher --------------------------
(***************************************************************************)
(* The stand-alone program src/dds/JointStatePublisher.cpp: main connects  *)
(* its XddpReader to the XDDP device, creates the DDS publisher, and       *)
(* forwards messages until SIGINT.                                         *)
(***************************************************************************)
EXTENDS XddpReader

CONSTANT MaxCount \* bound: no report once matched_ is further from 0

ASSUME PublisherAssumption == MaxCount \in Nat

VARIABLE matched_ \* PubListener

vars == <<ddsVars, process, reader, xddp, msg, written, matched_>>

Init == /\ EntitiesInit("connect") /\ ReaderInit
        /\ running = TRUE /\ exit_code = 0 /\ matched_ = 0
-----------------------------------------------------------------------------
(* main and JointStatePublisher *)

ConnectStops == /\ ~running
                /\ Goto("connect", "destroyed")
                /\ exit_code' = 1
                /\ UNCHANGED <<running, reader, xddp, msg, written>>

LoopContinue == running /\ Move("ready", "read")

PublishSkip == matched_ <= 0 /\ Move("gate", "ready")

PublishFill == matched_ > 0 /\ Move("gate", "write")

PublishWrite == /\ Goto("write", "ready")
                /\ written' = Append(written, msg)
                /\ UNCHANGED <<process, reader, xddp, msg>>

\* Mutant: the loop does not look at running.
LoopExit_bug == Move("ready", "read")

\* pub is destroyed before the reader.
LoopExit == /\ ~running /\ Destruct({"ready"})
            /\ UNCHANGED <<process, reader, xddp, msg, written>>

InitFailed == /\ Destruct({"failed"}) /\ exit_code' = 1
              /\ UNCHANGED <<running, reader, xddp, msg, written>>

CleanupOrder == <<"endpoint", "group", "topic", "participant">>

Entities == /\ InitStep \/ Cleanup(CleanupOrder, NoCallback)
            /\ UNCHANGED <<process, reader, xddp, msg, written>>

MainReturns == /\ Goto("destroyed", "exited")
               /\ Close
               /\ UNCHANGED <<process, xddp, msg, written>>

MainStep == /\ \/ ConnectOpen \/ ConnectRetry \/ ConnectStops
               \/ Entities \/ InitFailed
               \/ LoopContinue \/ LoopExit \/ MainReturns
               \/ ReadWhole \/ ReadShort \/ ReadFails
               \/ ReconnectClose \/ ReconnectOpen \/ ReconnectFails
               \/ PublishSkip \/ PublishFill \/ PublishWrite
            /\ UNCHANGED matched_

sigint_handler == /\ running /\ pc # "exited" /\ running' = FALSE
                  /\ UNCHANGED <<ddsVars, exit_code, reader, xddp, msg, written, matched_>>
-----------------------------------------------------------------------------
(* Fast-DDS and the real-time side *)

Matched(c) == /\ Report(c) /\ matched_ \in -MaxCount .. MaxCount
              /\ UNCHANGED matched_

on_publication_matched(c) ==
    /\ cb[c] # 0 /\ Return(c)
    /\ matched_' = IF cb[c] \in {-1, 1} THEN matched_ + cb[c] ELSE matched_

FastDds == /\ \/ Discover /\ UNCHANGED matched_
              \/ \E c \in Callback : Matched(c) \/ on_publication_matched(c)
           /\ UNCHANGED <<process, reader, xddp, msg, written>>

RealTime == /\ DeviceUp \/ DeviceDown \/ Send
            /\ UNCHANGED <<ddsVars, process, reader, msg, written, matched_>>

\* Blocked in read() on a device that says nothing, waiting for a device, or
\* over.
Silent == pc = "read" /\ Connected /\ queue = <<>>

Idle == (Silent \/ pc = "exited") /\ UNCHANGED vars

Next == \/ MainStep \/ sigint_handler \/ FastDds \/ RealTime \/ Idle
        \/ (ReadInterrupted \/ ReadError) /\ UNCHANGED matched_

\* main is scheduled, callbacks return, and a device that is there again and
\* again when it is opened is opened at last.  Nothing forces a blocked read to
\* return: neither an error nor the real-time side is fair.
Fairness == /\ WF_vars(MainStep) /\ SF_vars(ReconnectOpen /\ UNCHANGED matched_)
            /\ \A c \in Callback : WF_vars(/\ on_publication_matched(c)
                                           /\ UNCHANGED <<process, reader, xddp, msg, written>>)

Spec == Init /\ [][Next]_vars /\ Fairness
-----------------------------------------------------------------------------
(* Properties *)

\* Once main is in its loop, a device that comes back and stays is opened.
Reconnects == pc = "read" /\ up ~> Connected \/ ~up \/ ~running

\* SIGINT ends the program unless it is blocked on a silent device.
StopsUnlessSilent == ~running ~> pc = "exited" \/ Silent

=============================================================================
