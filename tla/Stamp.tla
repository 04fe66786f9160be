------------------------------- MODULE Stamp -------------------------------
(***************************************************************************)
(* Time as the hub handles it: CLOCK_* readings (struct timespec), the     *)
(* uint64 nanosecond count carried in rt_header, and the                   *)
(* builtin_interfaces::msg::Time (int32 sec, uint32 nanosec) put on the    *)
(* wire by JointStatePublisher::publish and ImuPublisher::publish.         *)
(* The build has NS_PER_SEC = 10^9 and INT32_RANGE = 2^32; both are        *)
(* parameters so that a small instance reaches the carries and the wrap.   *)
(***************************************************************************)
EXTENDS Integers

CONSTANTS NS_PER_SEC,   \* nanoseconds in a second
          INT32_RANGE   \* number of values of an int32_t

ASSUME StampAssumption == /\ NS_PER_SEC \in Nat \ {0}
                          /\ INT32_RANGE \in Nat \ {0} /\ INT32_RANGE % 2 = 0

\* What clock_gettime stores for a clock that shows ns nanoseconds.
Timespec(ns) == [tv_sec |-> ns \div NS_PER_SEC, tv_nsec |-> ns % NS_PER_SEC]

timespec_to_ns(ts) == ts.tv_sec * NS_PER_SEC + ts.tv_nsec

\* The code returns seconds in a double; the model keeps nanoseconds.
timespec_diff(a, b) ==
    (a.tv_sec - b.tv_sec) * NS_PER_SEC + (a.tv_nsec - b.tv_nsec)

\* static_cast<int32_t>: reduction modulo 2^32 into the signed range.
int32(x) == LET r == x % INT32_RANGE
            IN  IF 2 * r < INT32_RANGE THEN r ELSE r - INT32_RANGE

\* The header stamp that publish() derives from header.timestamp_ns.
ToStamp(ns) == [sec     |-> int32(ns \div NS_PER_SEC),
                nanosec |-> ns % NS_PER_SEC]

\* What a subscriber reads back (Time.idl: nanosec is added to sec).
FromStamp(s) == s.sec * NS_PER_SEC + s.nanosec

\* The seconds of ns fit into an int32_t (before 2038 for CLOCK_REALTIME).
FitsStamp(ns) == 2 * (ns \div NS_PER_SEC) < INT32_RANGE

=============================================================================
