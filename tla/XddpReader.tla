----------------------------- MODULE XddpReader -----------------------------
(***************************************************************************)
(* XddpReader (include/XddpReader.hpp): it opens the XDDP device, reads    *)
(* messages from it, and reopens it when a read fails or falls short.  Its *)
(* user is main, whose control state pc is that of DdsEntities.  The       *)
(* real-time side is external: it makes the device appear and disappear,   *)
(* each time as a new device, and sends messages, some short.  A message   *)
(* buffer is kept as the ids of the messages its first and last bytes came *)
(* from: a short read overwrites only the first.                           *)
(***************************************************************************)
EXTENDS DdsEntities

CONSTANTS MaxDevices, \* bound: times the device appears
          MaxSent     \* bound: messages the real-time side sends

ASSUME ReaderAssumption == {MaxDevices, MaxSent} \subseteq Nat

VARIABLES running, exit_code, \* the flag that SIGINT clears; main's result
          fd, opened,        \* fd_ (0 for -1); descriptors open in the kernel
          device, up, queue, \* number of the device, is it there, its messages
          sent,              \* messages sent so far
          msg, written       \* main's buffer; all that writer_ was given

process == <<running, exit_code>>
reader  == <<fd, opened>>
xddp    == <<device, up, queue, sent>>

Blank == [first |-> 0, last |-> 0]

ReaderInit == /\ fd = 0 /\ opened = 0
              /\ device = 0 /\ up = FALSE /\ queue = <<>> /\ sent = 0
              /\ msg = Blank /\ written = <<>>

Open == fd' = device /\ opened' = opened + 1

Close == /\ opened' = IF fd # 0 THEN opened - 1 ELSE opened
         /\ fd' = 0

\* A step of main that changes nothing but its control state.
Move(from, to) == Goto(from, to) /\ UNCHANGED <<process, reader, xddp, msg, written>>

Connected == up /\ fd = device
-----------------------------------------------------------------------------
(* XddpReader::connect *)

ConnectOpen == /\ running /\ up
               /\ Goto("connect", "participant")
               /\ Open
               /\ UNCHANGED <<process, xddp, msg, written>>

\* ENOENT, EINTR or another error: sleep and try again.
ConnectRetry == running /\ Move("connect", "connect")
-----------------------------------------------------------------------------
(* XddpReader::read and reconnect *)

ReadWhole == /\ Goto("read", "gate")
             /\ Connected /\ queue # <<>> /\ Head(queue).whole
             /\ msg' = [first |-> Head(queue).id, last |-> Head(queue).id]
             /\ queue' = Tail(queue)
             /\ UNCHANGED <<process, reader, device, up, sent, written>>

\* Mutant: every positive result counts as a message.
AfterShort_bug == "gate"

AfterShort == "close"

ReadShort == /\ Goto("read", AfterShort)
             /\ Connected /\ queue # <<>> /\ ~Head(queue).whole
             /\ msg' = [msg EXCEPT !.first = Head(queue).id]
             /\ queue' = Tail(queue)
             /\ UNCHANGED <<process, reader, device, up, sent, written>>

\* Mutant: no reconnect without a descriptor.
ReadFails_bug == ~Connected /\ Move("read", IF fd = 0 THEN "ready" ELSE "close")

\* The descriptor is -1, or its device has gone.
ReadFails == ~Connected /\ Move("read", "close")

\* Any other error, on a device that is there.
ReadError == Connected /\ Move("read", "close")

\* EINTR.  Handlers installed by std::signal restart system calls, so a
\* blocked read need not return when SIGINT arrives.
ReadInterrupted == ~running /\ Move("read", "ready")

\* Mutant: the old descriptor is forgotten instead of closed.
ReconnectClose_bug == /\ Goto("close", "open")
                      /\ fd' = 0
                      /\ UNCHANGED <<process, opened, xddp, msg, written>>

\* reconnect(): closing may discard what the device still holds,
ReconnectClose == /\ Goto("close", "open")
                  /\ Close /\ queue' \in {queue, <<>>}
                  /\ UNCHANGED <<process, device, up, sent, msg, written>>

\* and opening it again may fail, whether or not the device is missing.
ReconnectOpen == /\ up /\ Goto("open", "ready")
                 /\ Open
                 /\ UNCHANGED <<process, xddp, msg, written>>

ReconnectFails == /\ Goto("open", "ready")
                  /\ fd' = 0
                  /\ UNCHANGED <<process, opened, xddp, msg, written>>
-----------------------------------------------------------------------------
(* The real-time side *)

DeviceUp == /\ ~up /\ device < MaxDevices
            /\ up' = TRUE /\ device' = device + 1 /\ queue' = <<>>
            /\ UNCHANGED sent

DeviceDown == up /\ up' = FALSE /\ queue' = <<>> /\ UNCHANGED <<device, sent>>

Send == /\ up /\ sent < MaxSent /\ sent' = sent + 1
        /\ \E w \in BOOLEAN :
               queue' = Append(queue, [id |-> sent + 1, whole |-> w])
        /\ UNCHANGED <<device, up>>
-----------------------------------------------------------------------------
(* Properties *)

\* The reader holds at most one descriptor, fd_ is it, and the DDS entities
\* are used and deleted through good pointers, however often the device came
\* and went; on every way out all of them are given back.
OneDescriptor == /\ opened = (IF fd = 0 THEN 0 ELSE 1)
                 /\ PointersGood({"read", "gate", "write", "close", "open"})
                 /\ pc = "exited" => opened = 0 /\ \A e \in Entity : ~live[e]

\* Only whole messages are published, each later than all before and so none
\* twice, not even in a row: a short read leaves a mixed buffer behind that is
\* never handed to the writer.
PublishedWhole == [][written' # written =>
                       /\ written' = Append(written, msg)
                       /\ msg.first = msg.last
                       /\ \A i \in DOMAIN written : written[i].first < msg.first]_written

=============================================================================
