--------------------------- MODULE SampleChannel ---------------------------
(***************************************************************************)
(* What the sim pipeline promises between run_rt_loop and the DDS writer:  *)
(* a lossy first-in first-out channel.  Messages are numbered in the order *)
(* they are made.  One is lost on entry only while at least Bound older    *)
(* ones wait, one that entered is never overwritten, leaves in order and   *)
(* once, and is then either delivered or discarded (nobody subscribed).    *)
(* While the channel is open, what waits does not wait forever.            *)
(***************************************************************************)
EXTENDS Naturals, Sequences

CONSTANT Bound

VARIABLES made,       \* number of messages made so far
          pending,    \* sequence numbers that entered and have not left
          delivered,  \* sequence numbers handed to the subscribers
          open        \* shutdown has not been requested

vars == <<made, pending, delivered, open>>

Init == made = 0 /\ pending = <<>> /\ delivered = <<>> /\ open = TRUE

Enter == /\ Len(pending) <= Bound
         /\ pending' = Append(pending, made)
         /\ made' = made + 1
         /\ UNCHANGED <<delivered, open>>

Lose == /\ Len(pending) >= Bound
        /\ made' = made + 1
        /\ UNCHANGED <<pending, delivered, open>>

Leave == /\ pending # <<>>
         /\ pending' = Tail(pending)
         /\ delivered' \in {delivered, Append(delivered, Head(pending))}
         /\ UNCHANGED <<made, open>>

Close == open' = FALSE /\ UNCHANGED <<made, pending, delivered>>

Next == Enter \/ Lose \/ Leave \/ Close

SafetySpec == Init /\ [][Next]_vars

Spec == SafetySpec /\ WF_vars(open /\ Leave)

=============================================================================
