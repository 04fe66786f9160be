----------------------------- MODULE LoopThread -----------------------------
(***************************************************************************)
(* What a loop promises to the process that runs it on a thread, and all   *)
(* that HubLifecycle relies on: it comes out of its set-up, ready or not;  *)
(* if it cannot start it stops the hub exactly when the hub is useless     *)
(* without it (StopsHub); once running it leaves the flag alone; it        *)
(* returns when the flag is cleared, and before that only on an error that *)
(* the loop can meet (MayBreak).  Nobody ever sets the flag again.         *)
(***************************************************************************)
CONSTANTS StopsHub, MayBreak   \* Booleans

VARIABLES running,  \* the flag all loops poll
          phase     \* "absent", "setup", "loop" or "done"

vars == <<running, phase>>

Init == running = TRUE /\ phase \in {"absent", "setup", "loop"}

\* A loop whose set-up cannot fail starts in the loop.
Start == phase = "absent" /\ phase' \in {"setup", "loop"} /\ UNCHANGED running

Ready == phase = "setup" /\ phase' = "loop" /\ UNCHANGED running

GiveUp == /\ phase = "setup" /\ phase' = "done"
          /\ running' = (running /\ ~StopsHub)

Return == /\ phase = "loop" /\ phase' = "done"
          /\ ~running \/ MayBreak
          /\ UNCHANGED running

\* A signal, main or another thread clears the flag.
Stop == running' = FALSE /\ UNCHANGED phase

Next == Start \/ Ready \/ GiveUp \/ Return \/ Stop

SafetySpec == Init /\ [][Next]_vars

Spec == /\ SafetySpec
        /\ WF_vars(Ready \/ GiveUp)
        /\ WF_vars(~running /\ Return)

=============================================================================
