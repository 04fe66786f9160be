----------------------------- MODULE SpscQueue -----------------------------
(***************************************************************************)
(* The lock-free single-producer single-consumer ring that connects the    *)
(* real-time thread to the DDS thread in sim mode: g_spot_ring/g_ur5_ring, *)
(* boost::lockfree::spsc_queue<Msg, capacity<RING_CAPACITY>>.  The boost   *)
(* code is not part of the repository; it is modelled as the hub uses it,  *)
(* push() from one thread and pop() from one other thread.                 *)
(*                                                                         *)
(* The ring has RING_CAPACITY + 1 slots and keeps one of them free.  A     *)
(* message is copied in two parts, header and joints, and neither part is  *)
(* atomic with the index that publishes or releases the slot: a protocol   *)
(* error would let one side copy what the other is overwriting.            *)
(***************************************************************************)
EXTENDS Naturals

CONSTANT RING_CAPACITY       \* 8 in include/rt/SharedBuffer.hpp

ASSUME RingAssumption == RING_CAPACITY \in Nat \ {0}

VARIABLES ring,              \* [Index -> [header, joints]], the slots
          write_index,       \* next slot to fill, stored by the producer
          read_index         \* oldest filled slot, stored by the consumer

Index == 0 .. RING_CAPACITY

next_index(i) == IF i = RING_CAPACITY THEN 0 ELSE i + 1

\* Mutants: no full test; one that keeps two slots free.
Full_ignored == FALSE
Full_early   == next_index(next_index(write_index)) = read_index

Full  == next_index(write_index) = read_index
Empty == write_index = read_index

\* How many committed messages have not been released.
Size == IF read_index <= write_index
        THEN write_index - read_index
        ELSE write_index + RING_CAPACITY + 1 - read_index

\* The slot that is k places after the oldest one.
SlotAt(k) == IF read_index + k <= RING_CAPACITY
             THEN read_index + k
             ELSE read_index + k - RING_CAPACITY - 1

(***************************************************************************)
(* push(): full test and copy of the header; copy of the joints; release   *)
(* store of write_index.  The full test loads the other side's index only  *)
(* once: a stale value can only report fewer free slots.                   *)
(***************************************************************************)
PushHeader(m) ==
    /\ ~Full
    /\ ring' = [ring EXCEPT ![write_index].header = m.header]
    /\ UNCHANGED <<write_index, read_index>>

PushJoints(m) ==
    /\ ring' = [ring EXCEPT ![write_index].joints = m.joints]
    /\ UNCHANGED <<write_index, read_index>>

PushCommit ==
    /\ write_index' = next_index(write_index)
    /\ UNCHANGED <<ring, read_index>>

\* pop(): the copies read ring[read_index]; this is the store that frees it.
PopRelease ==
    /\ read_index' = next_index(read_index)
    /\ UNCHANGED <<ring, write_index>>

=============================================================================
