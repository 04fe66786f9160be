------------------------------ MODULE LegacyRt ------------------------------
(***************************************************************************)
(* The stand-alone real-time generator (src/rt): main starts the server    *)
(* and the client thread and waits for a signal, which is blocked in every *)
(* thread; the client writes joint states to an IDDP socket, the server    *)
(* relays them to XDDP.  Any error but a failed sendto ends the process    *)
(* through error_handler.  A message is its seq number.                    *)
(*                                                                         *)
(* Xenomai is external: connect waits for the label of the server's        *)
(* socket, a write waits while the socket's pool is full, and every        *)
(* blocking call is a cancellation point.                                  *)
(***************************************************************************)
EXTENDS Naturals, Sequences

CONSTANTS Capacity, \* messages the IDDP pool holds
          MaxSeq    \* bound: messages the client makes

ASSUME RtAssumption == Capacity \in Nat \ {0} /\ MaxSeq \in Nat

VARIABLES main_pc, exit_code,
          thr,      \* control state of each thread
          cancelled, pending, \* threads pthread_cancel was called for; signal
          bound,    \* the server's IDDP socket has its label
          pool,     \* messages in the IDDP socket
          seq,      \* messages the client has made
          received, \* the last message received
          relayed   \* history: the messages sent to XDDP, one by one

Thread == {"server", "client"}

data == <<bound, pool, seq, received, relayed>>
vars == <<main_pc, exit_code, thr, cancelled, pending, data>>

Init == /\ main_pc = "spawn_server" /\ exit_code = 0
        /\ thr = [t \in Thread |-> "none"]
        /\ cancelled = {} /\ pending = FALSE
        /\ bound = FALSE /\ pool = <<>> /\ seq = 0
        /\ received = 0 /\ relayed = <<>>

Running == main_pc # "exited"

error_handler == /\ main_pc' = "exited" /\ exit_code' = 1
                 /\ UNCHANGED <<thr, cancelled, pending, data>>
-----------------------------------------------------------------------------
(* main *)

MainGoto(from, to) == main_pc = from /\ main_pc' = to

Spawn(t, entry, from, to) == /\ MainGoto(from, to)
                             /\ thr' = [thr EXCEPT ![t] = entry]
                             /\ UNCHANGED <<exit_code, cancelled, pending, data>>

SpawnFails == main_pc \in {"spawn_server", "spawn_client"} /\ error_handler

sigwait == /\ pending /\ pending' = FALSE
           /\ MainGoto("sigwait", "cancel")
           /\ UNCHANGED <<exit_code, thr, cancelled, data>>

\* Mutant: the loop stops one thread early.
Cancel_bug == /\ MainGoto("cancel", "join_server")
              /\ cancelled' = {"server"}
              /\ UNCHANGED <<exit_code, thr, pending, data>>

Cancel == /\ MainGoto("cancel", "join_server")
          /\ cancelled' = Thread
          /\ UNCHANGED <<exit_code, thr, pending, data>>

\* Mutant: a thread is not waited for.
Join_bug(t, from, to) == /\ MainGoto(from, to)
                         /\ UNCHANGED <<exit_code, thr, cancelled, pending, data>>

Join(t, from, to) == /\ thr[t] = "done"
                     /\ MainGoto(from, to)
                     /\ UNCHANGED <<exit_code, thr, cancelled, pending, data>>

MainStep == \/ Spawn("server", "bind_iddp", "spawn_server", "spawn_client")
            \/ Spawn("client", "connect", "spawn_client", "sigwait")
            \/ sigwait \/ Cancel
            \/ Join("server", "join_server", "join_client")
            \/ Join("client", "join_client", "exited")
-----------------------------------------------------------------------------
(* The threads *)

Goto(t, from, to) == /\ Running /\ thr[t] = from
                     /\ thr' = [thr EXCEPT ![t] = to]
                     /\ UNCHANGED <<main_pc, exit_code, cancelled, pending>>

\* create_rt_socket, role Server, for IDDP and then for XDDP.
BindIddp == /\ Goto("server", "bind_iddp", "bind_xddp")
            /\ bound' = TRUE
            /\ UNCHANGED <<pool, seq, received, relayed>>

BindXddp == Goto("server", "bind_xddp", "recv") /\ UNCHANGED data

Recv == /\ Goto("server", "recv", "send")
        /\ pool # <<>> /\ pool' = Tail(pool) /\ received' = Head(pool)
        /\ UNCHANGED <<bound, seq, relayed>>

RecvFails == Running /\ thr["server"] = "recv" /\ error_handler

\* Mutant: a message is sent a second time when the first attempt succeeded.
SendTo_bug == /\ Goto("server", "send", "send")
              /\ Len(relayed) < MaxSeq /\ relayed' = Append(relayed, received)
              /\ UNCHANGED <<bound, pool, seq, received>>

SendTo == /\ Goto("server", "send", "recv")
          /\ relayed' = Append(relayed, received)
          /\ UNCHANGED <<bound, pool, seq, received>>

\* perror only: the message is dropped.
SendToFails == Goto("server", "send", "recv") /\ UNCHANGED data

\* create_rt_socket, role Client.
Connect == bound /\ Goto("client", "connect", "write") /\ UNCHANGED data

\* Make the next message and write it; wait while the pool is full.
Write == /\ seq < MaxSeq /\ Len(pool) < Capacity
         /\ Goto("client", "write", "sleep")
         /\ seq' = seq + 1 /\ pool' = Append(pool, seq + 1)
         /\ UNCHANGED <<bound, received, relayed>>

Sleep == Goto("client", "sleep", "write") /\ UNCHANGED data

\* socket, setsockopt, bind, connect and write report their errors this way.
ThreadFails == /\ Running
               /\ \/ thr["server"] \in {"bind_iddp", "bind_xddp"}
                  \/ thr["client"] \in {"connect", "write"}
               /\ error_handler

\* A cancelled thread ends at its next cancellation point.
Cancelled(t) == /\ t \in cancelled
                /\ \E from \in {"recv", "send", "connect", "write", "sleep"} :
                       Goto(t, from, "done")
                /\ UNCHANGED data

ServerStep == BindIddp \/ BindXddp \/ Recv \/ SendTo \/ SendToFails \/ Cancelled("server")

ClientStep == Connect \/ Write \/ Sleep \/ Cancelled("client")

\* SIGINT, SIGTERM or SIGHUP; only sigwait takes it.
Signal == /\ Running /\ ~pending /\ pending' = TRUE
          /\ UNCHANGED <<main_pc, exit_code, thr, cancelled, data>>

Done == main_pc = "exited" /\ UNCHANGED vars

Next == \/ MainStep \/ ServerStep \/ ClientStep \/ Signal \/ Done
        \/ SpawnFails \/ RecvFails \/ ThreadFails

\* The three threads are scheduled, and a cancelled thread acts upon it at
\* one of the cancellation points it keeps reaching.
Fairness == /\ WF_vars(MainStep) /\ WF_vars(ServerStep) /\ WF_vars(ClientStep)
            /\ \A t \in Thread : WF_vars(Cancelled(t))

Spec == Init /\ [][Next]_vars /\ Fairness
-----------------------------------------------------------------------------
(* Properties *)

\* The server receives every message of the client, in order and from the
\* first one on, although the client may start before the server's socket
\* exists and run ahead of it.  Each message it sends to XDDP is the one just
\* received and later than all sent before: a failed send loses a message,
\* but none is ever sent twice, not even in a row, or out of order.
NoGap == [][/\ received' # received => received' = received + 1
            /\ relayed' # relayed =>
                   /\ relayed' = Append(relayed, received)
                   /\ \A i \in DOMAIN relayed : relayed[i] < received]_vars

\* The process ends with status 0 only when both threads have ended, which
\* takes a signal.
ExitStatusHonest == main_pc = "exited" /\ exit_code = 0 =>
                        /\ cancelled = Thread
                        /\ \A t \in Thread : thr[t] = "done"

\* A signal ends the process, also one that arrives before sigwait, while
\* the client waits for the server or for room in the pool.
SignalEnds == pending ~> main_pc = "exited"

=============================================================================
