--------------------------- MODULE LegacyRtProofs ---------------------------
(***************************************************************************)
(* Proofs about LegacyRt, for every pool size and number of messages.      *)
(***************************************************************************)
EXTENDS LegacyRt, SequenceTheorems, TLAPS

\* The control states and counters keep their shape.
TypeOK == /\ main_pc \in {"spawn_server", "spawn_client", "sigwait", "cancel",
                          "join_server", "join_client", "exited"}
          /\ exit_code \in {0, 1}
          /\ thr \in [Thread -> {"none", "bind_iddp", "bind_xddp", "recv", "send",
                                 "connect", "write", "sleep", "done"}]
          /\ pool \in Seq(Nat) /\ seq \in Nat
          /\ received \in Nat /\ relayed \in Seq(Nat)

\* The pool holds exactly the messages made and not yet received, in order.
PoolOk == /\ Len(pool) = seq - received
          /\ \A i \in 1 .. Len(pool) : pool[i] = received + i

\* The server has relayed nothing beyond what it received; while it is about
\* to send, the message in its buffer is later than all it has relayed.
RelayedUpTo(n) == \A i \in 1 .. Len(relayed) : relayed[i] <= n

RelayedOk == /\ RelayedUpTo(received)
             /\ thr["server"] = "send" => received > 0 /\ RelayedUpTo(received - 1)

\* What main knows at each of its positions about the threads: whom it has
\* cancelled and for whom it has waited.
MainKnows ==
    /\ main_pc \in {"join_server", "join_client"} => cancelled = Thread
    /\ main_pc = "join_client" => thr["server"] = "done"
    /\ main_pc = "exited" /\ exit_code = 0 =>
           cancelled = Thread /\ \A t \in Thread : thr[t] = "done"

Inv == TypeOK /\ PoolOk /\ RelayedOk /\ MainKnows

\* The steps that leave the relay alone: those of main, the failures that end
\* the process, and signals.
Outside == MainStep \/ SpawnFails \/ RecvFails \/ ThreadFails \/ Signal

LEMMA OutsideStep == Inv /\ Outside => Inv' /\ UNCHANGED data
<1> SUFFICES ASSUME Inv, Outside PROVE Inv' /\ UNCHANGED data
    OBVIOUS
<1> USE DEF Inv, TypeOK, PoolOk, RelayedOk, RelayedUpTo, MainKnows, Thread, MainGoto, data
<1>1. CASE Spawn("server", "bind_iddp", "spawn_server", "spawn_client")
    BY <1>1 DEF Spawn
<1>2. CASE Spawn("client", "connect", "spawn_client", "sigwait")
    BY <1>2 DEF Spawn
<1>3. CASE sigwait
    BY <1>3 DEF sigwait
<1>4. CASE Cancel
    BY <1>4 DEF Cancel
<1>5. CASE Join("server", "join_server", "join_client")
    BY <1>5 DEF Join
<1>6. CASE Join("client", "join_client", "exited")
    BY <1>6 DEF Join
<1>7. CASE SpawnFails \/ RecvFails \/ ThreadFails
    BY <1>7 DEF SpawnFails, RecvFails, ThreadFails, error_handler
<1>8. CASE Signal
    BY <1>8 DEF Signal
<1> QED
    BY <1>1, <1>2, <1>3, <1>4, <1>5, <1>6, <1>7, <1>8 DEF Outside, MainStep

\* A step of a thread is a step of a running process from a control state
\* that is neither "none" nor "done": main's knowledge stays true.
LEMMA ThreadKnows ==
    ASSUME Inv, NEW t \in Thread, NEW from, NEW to, Goto(t, from, to),
           from # "done"
    PROVE  MainKnows'
  BY DEF Inv, TypeOK, MainKnows, Goto, Running, Thread

LEMMA ServerInv == Inv /\ ServerStep => Inv'
<1> SUFFICES ASSUME Inv, ServerStep PROVE Inv'
    OBVIOUS
<1> USE DEF Inv, TypeOK, PoolOk, Thread, data
<1>1. CASE BindIddp \/ BindXddp
    BY <1>1, ThreadKnows DEF BindIddp, BindXddp, Goto, RelayedOk, RelayedUpTo
<1>2. CASE Recv
  <2>1. MainKnows'
    BY <1>2, ThreadKnows DEF Recv
  <2>2. Len(pool) > 0 /\ Head(pool) = received + 1 /\ pool' = Tail(pool)
    BY <1>2 DEF Recv
  <2>3. /\ pool' \in Seq(Nat) /\ Len(pool') = Len(pool) - 1
        /\ \A i \in 1 .. Len(pool') : pool'[i] = pool[i + 1]
    BY <1>2, <2>2, HeadTailProperties DEF Recv
  <2>4. TypeOK'
    BY <1>2, <2>2, <2>3 DEF Recv, Goto
  <2>5. received' = received + 1 /\ UNCHANGED <<seq, relayed>>
    BY <1>2, <2>2 DEF Recv
  <2>6. ASSUME NEW i \in 1 .. Len(pool') PROVE pool'[i] = received' + i
    <3>1. i + 1 \in 1 .. Len(pool)
      BY <2>3, <2>2
    <3>2. pool'[i] = pool[i + 1] /\ pool[i + 1] = received + (i + 1)
      BY <2>3, <3>1
    <3> QED
      BY <2>5, <3>2
  <2>7. PoolOk'
    BY <2>3, <2>5, <2>6
  <2>8. RelayedOk'
    BY <2>5 DEF RelayedOk, RelayedUpTo
  <2> QED
    BY <2>1, <2>4, <2>7, <2>8
<1>3. CASE SendTo
  <2>1. MainKnows'
    BY <1>3, ThreadKnows DEF SendTo
  <2>2. /\ relayed' \in Seq(Nat) /\ Len(relayed') = Len(relayed) + 1
        /\ \A i \in 1 .. Len(relayed) : relayed'[i] = relayed[i]
        /\ relayed'[Len(relayed) + 1] = received
    BY <1>3 DEF SendTo
  <2>3. TypeOK' /\ PoolOk'
    BY <1>3, <2>2 DEF SendTo, Goto
  <2>4. received' = received /\ thr'["server"] = "recv"
    BY <1>3 DEF SendTo, Goto
  <2>5. ASSUME NEW i \in 1 .. Len(relayed') PROVE relayed'[i] <= received
    <3>1. \A k \in 1 .. Len(relayed) : relayed[k] <= received
      BY DEF RelayedOk, RelayedUpTo
    <3>2. CASE i = Len(relayed) + 1
      BY <2>2, <3>2
    <3>3. CASE i \in 1 .. Len(relayed)
      BY <2>2, <3>1, <3>3
    <3> QED
      BY <2>2, <3>2, <3>3
  <2>6. RelayedOk'
    BY <2>4, <2>5 DEF RelayedOk, RelayedUpTo
  <2> QED
    BY <2>1, <2>3, <2>6
<1>4. CASE SendToFails \/ Cancelled("server")
    BY <1>4, ThreadKnows DEF SendToFails, Cancelled, Goto, RelayedOk, RelayedUpTo
<1> QED
    BY <1>1, <1>2, <1>3, <1>4 DEF ServerStep

LEMMA ClientInv == Inv /\ ClientStep => Inv' /\ UNCHANGED <<received, relayed>>
<1> SUFFICES ASSUME Inv, ClientStep PROVE Inv' /\ UNCHANGED <<received, relayed>>
    OBVIOUS
<1> USE DEF Inv, TypeOK, PoolOk, Thread, data
<1>1. CASE Connect \/ Sleep
    BY <1>1, ThreadKnows DEF Connect, Sleep, Goto, RelayedOk, RelayedUpTo
<1>2. CASE Write
  <2>1. MainKnows'
    BY <1>2, ThreadKnows DEF Write
  <2>2. /\ pool' \in Seq(Nat) /\ Len(pool') = Len(pool) + 1
        /\ \A i \in 1 .. Len(pool) : pool'[i] = pool[i]
        /\ pool'[Len(pool) + 1] = seq + 1
    BY <1>2 DEF Write
  <2>3. TypeOK' /\ UNCHANGED <<received, relayed>>
    BY <1>2, <2>2 DEF Write, Goto
  <2>4. PoolOk'
    <3>1. seq' = seq + 1 /\ received' = received
      BY <1>2 DEF Write
    <3>2. ASSUME NEW i \in 1 .. Len(pool') PROVE pool'[i] = received + i
      <4>1. CASE i = Len(pool) + 1
        BY <2>2, <4>1
      <4>2. CASE i \in 1 .. Len(pool)
        BY <2>2, <4>2
      <4> QED
        BY <2>2, <4>1, <4>2
    <3> QED
      BY <2>2, <3>1, <3>2
  <2>5. RelayedOk'
    BY <1>2 DEF Write, Goto, RelayedOk, RelayedUpTo
  <2> QED
    BY <2>1, <2>3, <2>4, <2>5
<1>3. CASE Cancelled("client")
    BY <1>3, ThreadKnows DEF Cancelled, Goto, RelayedOk, RelayedUpTo
<1> QED
    BY <1>1, <1>2, <1>3 DEF ClientStep

LEMMA Invariance == Spec => []Inv
<1>1. Init => Inv
    BY DEF Init, Inv, TypeOK, PoolOk, RelayedOk, RelayedUpTo, MainKnows, Thread
<1>2. Inv /\ [Next]_vars => Inv'
  <2>1. Inv /\ UNCHANGED vars => Inv'
    BY DEF Inv, TypeOK, PoolOk, RelayedOk, RelayedUpTo, MainKnows, vars, data
  <2> QED
    BY <2>1, OutsideStep, ServerInv, ClientInv DEF Next, Outside, Done
<1> QED
    BY <1>1, <1>2, PTL DEF Spec

\* The generator returns 0 only after a signal made main cancel both threads
\* and wait for both, whatever failed and however the threads interleaved.
THEOREM StatusHonest == Spec => []ExitStatusHonest
<1>1. Inv => ExitStatusHonest
    BY DEF Inv, MainKnows, ExitStatusHonest
<1> QED
    BY <1>1, Invariance, PTL

\* The server receives the client's messages one after the other from the
\* first, and what it sends to XDDP is strictly increasing, so that none is
\* relayed twice or out of order, for every pool size.
THEOREM RelayExact == Spec => NoGap
<1> DEFINE A == /\ received' # received => received' = received + 1
                /\ relayed' # relayed =>
                       /\ relayed' = Append(relayed, received)
                       /\ \A i \in DOMAIN relayed : relayed[i] < received
<1>1. Inv /\ [Next]_vars => A
  <2> SUFFICES ASSUME Inv, [Next]_vars PROVE A
    OBVIOUS
  <2>1. CASE ServerStep
    BY <2>1 DEF ServerStep, BindIddp, BindXddp, Recv, SendTo, SendToFails,
       Cancelled, Goto, Inv, TypeOK, PoolOk, RelayedOk, RelayedUpTo, data
  <2>2. CASE ClientStep
    BY <2>2, ClientInv
  <2>3. CASE Outside
    BY <2>3, OutsideStep DEF data
  <2>4. CASE UNCHANGED vars
    BY <2>4 DEF vars, data
  <2> QED
    BY <2>1, <2>2, <2>3, <2>4 DEF Next, Outside, Done
<1> QED
    BY <1>1, Invariance, PTL DEF Spec, NoGap

=============================================================================
