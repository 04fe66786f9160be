------------------------- MODULE HubLifecycleProofs -------------------------
(***************************************************************************)
(* Proofs about HubLifecycle, for every set ImuNames.                      *)
(***************************************************************************)
EXTENDS HubLifecycle, TLAPS

Over == {"none", "done"}

\* What main's position says about the threads: which of them cannot exist
\* yet, and which of them it has already waited for.
MainKnows ==
    /\ main_pc \in {"parse", "spawn_dds"} => \A t \in Thread : thr[t] = "none"
    /\ main_pc \in {"spawn_rt", "spawn_imu", "join_failed"} =>
           thr["rt"] = "none" /\ thr["imu"] = "none"
    /\ main_pc = "spawn_imu" => args.mode # "sim"
    /\ main_pc = "join_rt" => thr["imu"] = "none"
    /\ main_pc \in {"join_dds", "join_imu"} =>
           /\ thr["rt"] \in Over
           /\ args.mode = "sim" => thr["rt"] = "done"
    /\ main_pc = "join_imu" => thr["dds"] = "done"
    /\ main_pc = "exited" => \A t \in Thread : thr[t] \in Over
    /\ main_pc = "exited" /\ exit_code = 0 =>
           thr["dds"] = "done" /\ (args.mode = "sim" => thr["rt"] = "done")

\* What a thread owns at each of its positions.
ThreadOwns ==
    \A t \in Thread :
        /\ thr[t] # "entry" => nrt_args[t] # "heap"
        /\ thr[t] \in Over \cup {"entry", "epoll"} => ~epfd[t]

Inv == TypeOK /\ MainKnows /\ ThreadOwns

\* The control states, the flag and the resources keep their shape under
\* every step of main, the threads and the signal handler.
LEMMA TypeStep == TypeOK /\ [Next]_vars => TypeOK'
<1> SUFFICES ASSUME TypeOK, [Next]_vars PROVE TypeOK'
    OBVIOUS
<1> USE DEF TypeOK, Thread, MainGoto, MainReturn, ThrGoto
<1>1. CASE MainStep
  <2>1. CASE ParseFails \/ Parse
    BY <2>1 DEF ParseFails, Parse
  <2>2. CASE MainSpawnDds
    BY <2>2 DEF MainSpawnDds, SpawnNrt, AfterDds
  <2>3. CASE MainSpawnDdsFails
    BY <2>3 DEF MainSpawnDdsFails, SpawnNrtFails
  <2>4. CASE MainSpawnRt
    BY <2>4 DEF MainSpawnRt
  <2>5. CASE MainSpawnRtFails
    BY <2>5 DEF MainSpawnRtFails
  <2>6. CASE MainSpawnImu
    BY <2>6 DEF MainSpawnImu, SpawnNrt
  <2>7. CASE MainSpawnImuFails
    BY <2>7 DEF MainSpawnImuFails, SpawnNrtFails
  <2>8. CASE MainJoinRt
    BY <2>8 DEF MainJoinRt
  <2>9. CASE MainJoinDds
    BY <2>9 DEF MainJoinDds
  <2>10. CASE MainJoinImu \/ MainJoinFailed
    BY <2>10 DEF MainJoinImu, MainJoinFailed
  <2> QED
    BY <1>1, <2>1, <2>2, <2>3, <2>4, <2>5, <2>6, <2>7, <2>8, <2>9, <2>10
       DEF MainStep
<1>2. ASSUME NEW t \in Thread, ThreadStep(t) PROVE TypeOK'
  <2>1. CASE NrtEntry(t)
    BY <2>1 DEF NrtEntry
  <2>2. CASE EpollCreate(t)
    BY <2>2 DEF EpollCreate
  <2>3. CASE EpollCreateFails(t)
    BY <2>3 DEF EpollCreateFails, StopHubIfJoint
  <2>4. CASE Register(t)
    BY <2>4 DEF Register
  <2>5. CASE ImuRegisterFails(t)
    BY <2>5 DEF ImuRegisterFails
  <2>6. CASE PubInit(t)
    BY <2>6 DEF PubInit
  <2>7. CASE PubInitFails(t)
    BY <2>7 DEF PubInitFails, StopHubIfJoint
  <2>8. CASE LoopContinue(t)
    BY <2>8 DEF LoopContinue
  <2>9. CASE LoopBody(t)
    BY <2>9 DEF LoopBody
  <2>10. CASE LoopBreak(t)
    BY <2>10 DEF LoopBreak
  <2>11. CASE LoopExit(t)
    BY <2>11 DEF LoopExit
  <2> QED
    BY <1>2, <2>1, <2>2, <2>3, <2>4, <2>5, <2>6,
       <2>7, <2>8, <2>9, <2>10, <2>11 DEF ThreadStep
<1>3. CASE OnShutdown
    BY <1>3 DEF OnShutdown
<1>4. CASE UNCHANGED vars
    BY <1>4 DEF vars
<1> QED
    BY <1>1, <1>2, <1>3, <1>4 DEF Next, Terminated

\* A step of main keeps what its position says about the threads: it creates
\* a thread only at the position that expects it and passes a join only when
\* the thread is over.
LEMMA MainKnowsMain == TypeOK /\ MainKnows /\ MainStep => MainKnows'
<1> SUFFICES ASSUME TypeOK, MainKnows, MainStep PROVE MainKnows'
    OBVIOUS
<1> USE DEF TypeOK, MainKnows, Thread, Over, MainGoto, MainReturn
<1>1. CASE ParseFails \/ Parse
    BY <1>1 DEF ParseFails, Parse
<1>2. CASE MainSpawnDds
    BY <1>2 DEF MainSpawnDds, SpawnNrt, AfterDds, HasImuFn
<1>3. CASE MainSpawnDdsFails
    BY <1>3 DEF MainSpawnDdsFails, SpawnNrtFails
<1>4. CASE MainSpawnRt \/ MainSpawnRtFails
    BY <1>4 DEF MainSpawnRt, MainSpawnRtFails
<1>5. CASE MainSpawnImu \/ MainSpawnImuFails
    BY <1>5 DEF MainSpawnImu, MainSpawnImuFails, SpawnNrt, SpawnNrtFails
<1>6. CASE MainJoinRt \/ MainJoinDds
    BY <1>6 DEF MainJoinRt, MainJoinDds
<1>7. CASE MainJoinImu \/ MainJoinFailed
    BY <1>7 DEF MainJoinImu, MainJoinFailed
<1> QED
    BY <1>1, <1>2, <1>3, <1>4, <1>5, <1>6, <1>7 DEF MainStep

\* A step of a thread moves no thread out of "none" or "done", so it keeps
\* whatever main knows.
LEMMA MainKnowsThread ==
    ASSUME TypeOK, MainKnows, NEW t \in Thread, ThreadStep(t)
    PROVE  MainKnows'
<1>1. /\ thr[t] \notin Over
      /\ \A u \in Thread \ {t} : thr'[u] = thr[u]
      /\ UNCHANGED <<args, main_pc, exit_code>>
    BY DEF ThreadStep, TypeOK, Over, ThrGoto, NrtEntry, EpollCreate,
       EpollCreateFails, Register, ImuRegisterFails, PubInit, PubInitFails,
       LoopContinue, LoopBody, LoopBreak, LoopExit
<1> QED
    BY <1>1 DEF MainKnows, Thread, Over

\* No step, early returns included, ends a thread that still owns its
\* argument or its epoll descriptor.
LEMMA OwnsStep == TypeOK /\ MainKnows /\ ThreadOwns /\ [Next]_vars => ThreadOwns'
<1> SUFFICES ASSUME TypeOK, MainKnows, ThreadOwns, [Next]_vars
             PROVE  ThreadOwns'
    OBVIOUS
<1> USE DEF TypeOK, ThreadOwns, Over
<1>1. CASE MainStep
  <2> USE <1>1 DEF Thread, MainGoto, MainReturn
  <2>1. CASE ParseFails \/ Parse \/ MainJoinRt \/ MainJoinDds \/ MainJoinImu
             \/ MainJoinFailed
    BY <2>1 DEF ParseFails, Parse, MainJoinRt, MainJoinDds, MainJoinImu,
       MainJoinFailed
  <2>2. CASE MainSpawnDds \/ MainSpawnDdsFails
    BY <2>2 DEF MainSpawnDds, MainSpawnDdsFails, SpawnNrt, SpawnNrtFails,
       MainKnows
  <2>3. CASE MainSpawnRt \/ MainSpawnRtFails
    BY <2>3 DEF MainSpawnRt, MainSpawnRtFails, MainKnows
  <2>4. CASE MainSpawnImu \/ MainSpawnImuFails
    BY <2>4 DEF MainSpawnImu, MainSpawnImuFails, SpawnNrt, SpawnNrtFails,
       MainKnows
  <2> QED
    BY <2>1, <2>2, <2>3, <2>4 DEF MainStep
<1>2. ASSUME NEW t \in Thread, ThreadStep(t) PROVE ThreadOwns'
    BY <1>2 DEF ThreadStep, ThrGoto, NrtEntry, EpollCreate, EpollCreateFails,
       Register, ImuRegisterFails, PubInit, PubInitFails, LoopContinue,
       LoopBody, LoopBreak, LoopExit
<1>3. CASE OnShutdown
    BY <1>3 DEF OnShutdown
<1>4. CASE UNCHANGED vars
    BY <1>4 DEF vars
<1> QED
    BY <1>1, <1>2, <1>3, <1>4 DEF Next, Terminated

\* The invariant holds in every reachable state of the process.
THEOREM Invariance == Spec => []Inv
<1>1. Init => Inv
    BY DEF Init, Inv, TypeOK, MainKnows, ThreadOwns, Thread, Over, Arguments
<1>2. Inv /\ [Next]_vars => Inv'
  <2> SUFFICES ASSUME Inv, [Next]_vars PROVE Inv'
    OBVIOUS
  <2>1. TypeOK' /\ ThreadOwns'
    BY TypeStep, OwnsStep DEF Inv
  <2>2. MainKnows'
    <3>1. CASE MainStep
      BY <3>1, MainKnowsMain DEF Inv
    <3>2. ASSUME NEW t \in Thread, ThreadStep(t) PROVE MainKnows'
      BY <3>2, MainKnowsThread DEF Inv
    <3>3. CASE OnShutdown
      BY <3>3 DEF OnShutdown, Inv, MainKnows
    <3>4. CASE UNCHANGED vars
      BY <3>4 DEF vars, Inv, MainKnows
    <3> QED
      BY <3>1, <3>2, <3>3, <3>4 DEF Next, Terminated
  <2> QED
    BY <2>1, <2>2 DEF Inv
<1> QED
    BY <1>1, <1>2, PTL DEF Spec

\* The control states, the flag and the resources keep their shape.
THEOREM TypeCorrect == Spec => []TypeOK
<1>1. Inv => TypeOK
    BY DEF Inv
<1> QED
    BY <1>1, Invariance, PTL

\* main() never returns while a thread it created still runs, whichever of
\* the thread creations and publisher set-ups fail.
THEOREM ThreadsJoined == Spec => []NoThreadOutlivesMain
<1>1. Inv => NoThreadOutlivesMain
    BY DEF Inv, MainKnows, NoThreadOutlivesMain, Over
<1> QED
    BY <1>1, Invariance, PTL

\* A thread that is over, or was never created, leaves neither its NrtArgs
\* on the heap nor its epoll descriptor open.
THEOREM ResourcesReturned == Spec => []NothingLeftOpen
<1>1. Inv => NothingLeftOpen
    BY DEF Inv, ThreadOwns, NothingLeftOpen, Over
<1> QED
    BY <1>1, Invariance, PTL

\* Exit status 0 means that the mandatory threads ran and were joined.
THEOREM ExitStatusHonest == Spec => []SuccessMeansServed
<1>1. Inv => SuccessMeansServed
    BY DEF Inv, MainKnows, SuccessMeansServed
<1> QED
    BY <1>1, Invariance, PTL

\* A failing IMU loop never clears g_running: only main, a signal and the
\* joint loop do.
THEOREM ImuOptional == Spec => ImuNeverStopsHub
<1> DEFINE Keeps == g_running /\ ~g_running' => thr'["imu"] = thr["imu"]
<1>1. TypeOK /\ [Next]_vars => [Keeps]_vars
  <2> SUFFICES ASSUME TypeOK, [Next]_vars PROVE Keeps \/ UNCHANGED vars
    OBVIOUS
  <2>1. CASE MainStep
    BY <2>1 DEF MainStep, ParseFails, Parse, MainSpawnDds, MainSpawnDdsFails,
       MainSpawnRt, MainSpawnRtFails, MainSpawnImu, MainSpawnImuFails,
       MainJoinRt, MainJoinDds, MainJoinImu, MainJoinFailed
  <2>2. ASSUME NEW t \in Thread, ThreadStep(t) PROVE Keeps
    <3>1. CASE EpollCreateFails(t) \/ PubInitFails(t)
      BY <3>1 DEF EpollCreateFails, PubInitFails, StopHubIfJoint, ThrGoto,
         TypeOK, Thread
    <3>2. CASE ~(EpollCreateFails(t) \/ PubInitFails(t))
      BY <2>2, <3>2 DEF ThreadStep, NrtEntry, EpollCreate, Register,
         ImuRegisterFails, PubInit, LoopContinue, LoopBody, LoopBreak, LoopExit
    <3> QED
      BY <3>1, <3>2
  <2>3. CASE OnShutdown
    BY <2>3 DEF OnShutdown
  <2> QED
    BY <2>1, <2>2, <2>3 DEF Next, Terminated
<1> QED
    BY <1>1, TypeCorrect, PTL DEF Spec, ImuNeverStopsHub
-----------------------------------------------------------------------------
(* Refinement: the threads are LoopThreads. *)

\* The RT thread starts in its loop and never has an epoll descriptor.
RtPlain == thr["rt"] \in {"none", "check", "body", "done"} /\ ~epfd["rt"]

LEMMA RtPlainStep == TypeOK /\ RtPlain /\ [Next]_vars => RtPlain'
<1> SUFFICES ASSUME TypeOK, RtPlain, [Next]_vars PROVE RtPlain'
    OBVIOUS
<1> USE DEF TypeOK, RtPlain, Thread, MainGoto, MainReturn, ThrGoto
<1>1. CASE MainStep
  BY <1>1 DEF MainStep, ParseFails, Parse, MainSpawnDds, MainSpawnDdsFails,
     MainSpawnRt, MainSpawnRtFails, MainSpawnImu, MainSpawnImuFails, MainJoinRt,
     MainJoinDds, MainJoinImu, MainJoinFailed, SpawnNrt, SpawnNrtFails
<1>2. ASSUME NEW t \in Thread, ThreadStep(t) PROVE RtPlain'
  BY <1>2 DEF ThreadStep, NrtEntry, EpollCreate, EpollCreateFails, Register,
     ImuRegisterFails, PubInit, PubInitFails, LoopContinue, LoopBody, LoopBreak,
     LoopExit
<1>3. CASE OnShutdown \/ UNCHANGED vars
  BY <1>3 DEF OnShutdown, vars
<1> QED BY <1>1, <1>2, <1>3 DEF Next, Terminated

\* A step of main creates a thread, clears the flag, or is not noticed.
LEMMA MainPhases ==
  ASSUME TypeOK, MainKnows, MainStep, NEW t \in Thread
  PROVE  \/ thr'[t] = thr[t] /\ g_running' \in {g_running, FALSE}
         \/ thr[t] = "none" /\ thr'[t] \in {"entry", "check"} /\ g_running' = g_running
<1> USE DEF TypeOK, MainKnows, Thread, MainGoto, MainReturn
<1>1. CASE MainSpawnDds
  BY <1>1 DEF MainSpawnDds, SpawnNrt
<1>2. CASE MainSpawnRt
  BY <1>2 DEF MainSpawnRt
<1>3. CASE MainSpawnImu
  BY <1>3 DEF MainSpawnImu, SpawnNrt
<1>4. CASE MainSpawnRtFails
  BY <1>4 DEF MainSpawnRtFails
<1>5. CASE MainSpawnDdsFails \/ MainSpawnImuFails
  BY <1>5 DEF MainSpawnDdsFails, MainSpawnImuFails, SpawnNrtFails
<1>6. CASE ParseFails \/ Parse \/ MainJoinRt \/ MainJoinDds \/ MainJoinImu \/ MainJoinFailed
  BY <1>6 DEF ParseFails, Parse, MainJoinRt, MainJoinDds, MainJoinImu, MainJoinFailed
<1> QED BY <1>1, <1>2, <1>3, <1>4, <1>5, <1>6 DEF MainStep

\* A step of a thread goes on with its set-up or its loop, gives up, or
\* returns for one of the two reasons.
LEMMA ThreadPhases ==
  ASSUME TypeOK, NEW t \in Thread, ThreadStep(t)
  PROVE  LET setup == {"entry", "epoll", "register", "init"}
             loop  == {"check", "body"}
         IN  /\ \A u \in Thread \ {t} : thr'[u] = thr[u]
             /\ \/ thr[t] \in setup /\ thr'[t] \in setup \cup {"check"} /\ g_running' = g_running
                \/ /\ thr[t] \in setup /\ thr'[t] = "done"
                   /\ g_running' = (IF t = "dds" THEN FALSE ELSE g_running)
                \/ thr[t] \in loop /\ thr'[t] \in loop /\ g_running' = g_running
                \/ /\ thr[t] \in loop /\ thr'[t] = "done" /\ g_running' = g_running
                   /\ ~g_running \/ epfd[t]
  BY DEF TypeOK, Thread, ThrGoto, ThreadStep, NrtEntry, EpollCreate, EpollCreateFails,
     Register, ImuRegisterFails, PubInit, PubInitFails, LoopContinue, LoopBody,
     LoopBreak, LoopExit, StopHubIfJoint

\* Every step of the process is, for each of its threads, a step that
\* LoopThread allows that thread, or one the thread does not take part in.
LEMMA ThreadsStep ==
  ASSUME TypeOK, MainKnows, RtPlain, [Next]_vars
  PROVE  /\ [DdsThread!Next]_(DdsThread!vars)
         /\ [RtThread!Next]_(RtThread!vars)
         /\ [ImuThread!Next]_(ImuThread!vars)
<1> USE DEF DdsThread!Next, DdsThread!vars, DdsThread!Start, DdsThread!Ready,
            DdsThread!GiveUp, DdsThread!Return, DdsThread!Stop,
            RtThread!Next, RtThread!vars, RtThread!Start, RtThread!Ready,
            RtThread!GiveUp, RtThread!Return, RtThread!Stop,
            ImuThread!Next, ImuThread!vars, ImuThread!Start, ImuThread!Ready,
            ImuThread!GiveUp, ImuThread!Return, ImuThread!Stop, phaseBar
<1>t. "dds" \in Thread /\ "rt" \in Thread /\ "imu" \in Thread
  BY DEF Thread
<1>1. CASE MainStep
  <2>1. \A t \in Thread :
           \/ thr'[t] = thr[t] /\ g_running' \in {g_running, FALSE}
           \/ thr[t] = "none" /\ thr'[t] \in {"entry", "check"} /\ g_running' = g_running
    BY <1>1, MainPhases
  <2>2. [DdsThread!Next]_(DdsThread!vars) BY <1>t, <2>1 DEF TypeOK
  <2>3. [RtThread!Next]_(RtThread!vars) BY <1>t, <2>1 DEF TypeOK
  <2>4. [ImuThread!Next]_(ImuThread!vars) BY <1>t, <2>1 DEF TypeOK
  <2> QED BY <2>2, <2>3, <2>4
<1>2. ASSUME NEW t \in Thread, ThreadStep(t)
      PROVE  /\ [DdsThread!Next]_(DdsThread!vars)
             /\ [RtThread!Next]_(RtThread!vars)
             /\ [ImuThread!Next]_(ImuThread!vars)
  <2>2. [DdsThread!Next]_(DdsThread!vars) BY <1>t, <1>2, ThreadPhases DEF TypeOK
  <2>3. [RtThread!Next]_(RtThread!vars) BY <1>t, <1>2, ThreadPhases DEF TypeOK, RtPlain
  <2>4. [ImuThread!Next]_(ImuThread!vars) BY <1>t, <1>2, ThreadPhases DEF TypeOK
  <2> QED BY <2>2, <2>3, <2>4
<1>3. CASE OnShutdown
  BY <1>3 DEF OnShutdown
<1>4. CASE UNCHANGED vars
  BY <1>4 DEF vars
<1> QED BY <1>1, <1>2, <1>3, <1>4 DEF Next, Terminated

\* The process implements LoopThread for each of its threads, liveness aside:
\* a joint loop that cannot start stops the hub in the same step, the IMU
\* never does, the RT loop never returns before the flag is cleared, and
\* nobody sets the flag again.
THEOREM ThreadsImplement ==
  Spec => DdsThread!SafetySpec /\ RtThread!SafetySpec /\ ImuThread!SafetySpec
<1>1. Init => RtPlain /\ DdsThread!Init /\ RtThread!Init /\ ImuThread!Init
  BY DEF Init, RtPlain, Thread, phaseBar, DdsThread!Init, RtThread!Init,
     ImuThread!Init
<1>2. Inv /\ RtPlain /\ [Next]_vars =>
        /\ RtPlain'
        /\ [DdsThread!Next]_(DdsThread!vars)
        /\ [RtThread!Next]_(RtThread!vars)
        /\ [ImuThread!Next]_(ImuThread!vars)
  BY RtPlainStep, ThreadsStep DEF Inv
<1> QED
  BY <1>1, <1>2, Invariance, PTL DEF Spec, DdsThread!SafetySpec,
     RtThread!SafetySpec, ImuThread!SafetySpec

=============================================================================
