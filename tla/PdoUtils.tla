------------------------------ MODULE PdoUtils ------------------------------
(***************************************************************************)
(* Length-prefixed protobuf frames as include/protobuf/pdo_utils.hpp reads *)
(* them.  A frame is what one read() left in the buffer:                   *)
(*   n       number of bytes read, at most sizeof(raw)                     *)
(*   pb_len  the uint32 in the first four bytes of the buffer; when n < 4  *)
(*           some of them are left over from an earlier read               *)
(*   pdo     the Ec_slave_pdo the rest decodes to (protobuf is external):  *)
(*           parses, type, the payloads present, has_stamp, stamp, value   *)
(* A stamp is a count of nanoseconds; WORD is 2^32 in the build.           *)
(***************************************************************************)
EXTENDS Naturals

CONSTANTS WORD,  \* number of values of a uint32_t
          BUF    \* sizeof(raw), 512 in both loops

ASSUME PdoAssumption == /\ WORD \in Nat /\ BUF \in Nat
                        /\ 4 < BUF /\ BUF < WORD

JointTypes == {"RX_CIA402", "RX_XT_MOTOR"}
PdoTypes   == JointTypes \cup {"RX_IMU_VN", "other"}
Payloads   == {"cia402_rx", "motor_xt_rx", "imuvn_rx"}

\* The payload field a PDO of each type is expected to carry.
PayloadOf(type) == CASE type = "RX_CIA402"   -> "cia402_rx"
                     [] type = "RX_XT_MOTOR" -> "motor_xt_rx"
                     [] type = "RX_IMU_VN"   -> "imuvn_rx"
                     [] type = "other"       -> "none"

\* Everything a read() can leave in the buffer, as far as the parsers look.
AnyPdo   == [parses : BOOLEAN, type : PdoTypes, payloads : SUBSET Payloads]
AnyFrame == [n : 1 .. BUF, pb_len : 0 .. WORD - 1, pdo : AnyPdo]
-----------------------------------------------------------------------------
\* Mutant: no check that the prefix is complete.
parse_frame_bug(f) == (f.pb_len + 4) % WORD = f.n /\ f.pdo.parses

\* pb_len + 4 is computed in uint32_t and wraps.
parse_frame(f) == /\ f.n >= 4
                  /\ (f.pb_len + 4) % WORD = f.n
                  /\ f.pdo.parses

\* realtime is what realtime_now_ns() returns if it is called.
extract_timestamp_ns(pdo, realtime) ==
    IF pdo.has_stamp THEN pdo.stamp ELSE realtime

Carries(pdo, type) == pdo.type = type /\ PayloadOf(type) \in pdo.payloads

parse_joint_frame(f) == parse_frame(f) /\ \E t \in JointTypes : Carries(f.pdo, t)

parse_imu_frame(f) == parse_frame(f) /\ Carries(f.pdo, "RX_IMU_VN")
-----------------------------------------------------------------------------
\* The frame layout: four bytes of length, then exactly that many bytes.
WellFormed(f) == f.n = 4 + f.pb_len

\* parse_frame accepts a frame exactly when the prefix is complete and counts
\* the bytes that follow it, although the sum it tests may wrap: protobuf is
\* never pointed at bytes that this read() did not deliver.
ParseFrameExact(f) == parse_frame(f) <=> WellFormed(f) /\ f.pdo.parses

\* A frame is taken for a joint state or for an IMU reading, never for both,
\* and only if it carries the payload that its type announces.
ReadAsOneKind(f) ==
    /\ ~(parse_joint_frame(f) /\ parse_imu_frame(f))
    /\ parse_joint_frame(f) \/ parse_imu_frame(f) =>
           PayloadOf(f.pdo.type) \in f.pdo.payloads

\* Both hold of every frame: whatever a read() leaves in the buffer, stale
\* prefix bytes included, the parsers decode only bytes that this read()
\* delivered, and agree on what they are.
FrameExact == \A f \in AnyFrame : ParseFrameExact(f) /\ ReadAsOneKind(f)

=============================================================================
