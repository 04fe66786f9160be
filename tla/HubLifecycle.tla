---------------------------- MODULE HubLifecycle ----------------------------
(***************************************************************************)
(* The process: main() of src/rtdds_hub_main.cpp, the threads it creates,  *)
(* the g_running flag they share, and signals.  Each publish loop is kept  *)
(* down to what the others can notice: how it starts, what makes it        *)
(* return, what it does to g_running and what it must give back.           *)
(***************************************************************************)
EXTENDS Integers

CONSTANT ImuNames   \* values RobotModel::imu_pipe_name may have, a subset
                    \* of {"nullptr", "empty", "pipe"}

ASSUME ImuAssumption == ImuNames \subseteq {"nullptr", "empty", "pipe"}

VARIABLES args,      \* the command line, and the robot's imu_pipe_name
          main_pc,   \* main: control state
          exit_code, \* main: what it returns
          g_running, \* the std::atomic<bool> all loops poll
          thr,       \* control state of each thread, "none" if not created
          nrt_args,  \* NrtArgs object of each thread: none, heap, deleted
          epfd       \* whether each thread holds an open epoll descriptor

vars == <<args, main_pc, exit_code, g_running, thr, nrt_args, epfd>>

Thread == {"dds", "rt", "imu"}
Arguments == [argc : 2 .. 4, robot : {"spot", "ur5", "other"},
              mode : {"sim", "real", "other"}, domain : {"int", "junk"},
              imu : ImuNames]

Init == /\ args \in Arguments
        /\ main_pc = "parse" /\ exit_code = 0
        /\ g_running = TRUE
        /\ thr = [t \in Thread |-> "none"]
        /\ nrt_args = [t \in Thread |-> "none"]
        /\ epfd = [t \in Thread |-> FALSE]
-----------------------------------------------------------------------------
(* main() *)

\* argc < 3, then mode, robot and domain_id: the order of the early returns
\* is not observable, each of them returns 1 before anything is started.
ArgsValid == /\ args.argc >= 3
             /\ args.mode \in {"sim", "real"}
             /\ args.robot \in {"spot", "ur5"}
             /\ args.argc >= 4 => args.domain = "int"

\* cfg.imu_fn: the name is only compared with the null pointer.
HasImuFn == args.imu # "nullptr"

MainGoto(from, to) == main_pc = from /\ main_pc' = to

MainReturn(from, code) == MainGoto(from, "exited") /\ exit_code' = code

ParseFails == /\ ~ArgsValid
              /\ MainReturn("parse", 1)
              /\ UNCHANGED <<args, g_running, thr, nrt_args, epfd>>

Parse == /\ ArgsValid
         /\ MainGoto("parse", "spawn_dds")
         /\ UNCHANGED <<args, exit_code, g_running, thr, nrt_args, epfd>>

\* spawn_nrt_thread: the thread owns its NrtArgs once it exists; if it could
\* not be created, the caller deletes them.
SpawnNrt(t) == /\ thr' = [thr EXCEPT ![t] = "entry"]
               /\ nrt_args' = [nrt_args EXCEPT ![t] = "heap"]

SpawnNrtFails(t) == /\ nrt_args' = [nrt_args EXCEPT ![t] = "deleted"]
                    /\ UNCHANGED thr

AfterDds == IF args.mode = "sim" THEN "spawn_rt"
            ELSE IF HasImuFn THEN "spawn_imu" ELSE "join_dds"

MainSpawnDds == /\ MainGoto("spawn_dds", AfterDds)
                /\ SpawnNrt("dds")
                /\ UNCHANGED <<args, exit_code, g_running, epfd>>

\* Mutant: the failure is not reported in the exit status.
MainSpawnDdsFails_bug == /\ MainReturn("spawn_dds", 0)
                         /\ SpawnNrtFails("dds")
                         /\ UNCHANGED <<args, g_running, epfd>>

MainSpawnDdsFails == /\ MainReturn("spawn_dds", 1)
                     /\ SpawnNrtFails("dds")
                     /\ UNCHANGED <<args, g_running, epfd>>

MainSpawnRt == /\ MainGoto("spawn_rt", "join_rt")
               /\ thr' = [thr EXCEPT !["rt"] = "check"]
               /\ UNCHANGED <<args, exit_code, g_running, nrt_args, epfd>>

\* Mutant: the DDS thread is told to stop but not joined.
MainSpawnRtFails_bug == /\ MainReturn("spawn_rt", 1)
                        /\ g_running' = FALSE
                        /\ UNCHANGED <<args, thr, nrt_args, epfd>>

\* The DDS thread already runs: it is told to stop and waited for.
MainSpawnRtFails == /\ MainGoto("spawn_rt", "join_failed")
                    /\ g_running' = FALSE
                    /\ UNCHANGED <<args, exit_code, thr, nrt_args, epfd>>

MainSpawnImu == /\ MainGoto("spawn_imu", "join_dds")
                /\ SpawnNrt("imu")
                /\ UNCHANGED <<args, exit_code, g_running, epfd>>

\* "continuing without IMU"
MainSpawnImuFails == /\ MainGoto("spawn_imu", "join_dds")
                     /\ SpawnNrtFails("imu")
                     /\ UNCHANGED <<args, exit_code, g_running, epfd>>

MainJoinRt == /\ thr["rt"] = "done"
              /\ MainGoto("join_rt", "join_dds")
              /\ UNCHANGED <<args, exit_code, g_running, thr, nrt_args, epfd>>

MainJoinDds == /\ thr["dds"] = "done"
               /\ IF thr["imu"] # "none"      \* has_imu
                  THEN MainGoto("join_dds", "join_imu") /\ UNCHANGED exit_code
                  ELSE MainReturn("join_dds", 0)
               /\ UNCHANGED <<args, g_running, thr, nrt_args, epfd>>

MainJoinImu == /\ thr["imu"] = "done"
               /\ MainReturn("join_imu", 0)
               /\ UNCHANGED <<args, g_running, thr, nrt_args, epfd>>

MainJoinFailed == /\ thr["dds"] = "done"
                  /\ MainReturn("join_failed", 1)
                  /\ UNCHANGED <<args, g_running, thr, nrt_args, epfd>>

MainStep == \/ ParseFails \/ Parse \/ MainSpawnDds \/ MainSpawnDdsFails
            \/ MainSpawnRt \/ MainSpawnRtFails \/ MainSpawnImu
            \/ MainSpawnImuFails \/ MainJoinRt \/ MainJoinDds \/ MainJoinImu
            \/ MainJoinFailed
-----------------------------------------------------------------------------
(* Threads *)

ThrGoto(t, from, to) == thr[t] = from /\ thr' = [thr EXCEPT ![t] = to]

\* nrt_thread_entry copies and deletes its argument, then calls the loop.
\* A real-mode loop opens its pipes and goes on to epoll_create1; the sim
\* loop goes straight to pub.init().
NrtEntry(t) == /\ ThrGoto(t, "entry", IF args.mode = "sim" THEN "init"
                                      ELSE "epoll")
               /\ nrt_args' = [nrt_args EXCEPT ![t] = "deleted"]
               /\ UNCHANGED <<args, main_pc, exit_code, g_running, epfd>>

EpollCreate(t) == /\ ThrGoto(t, "epoll", "register")
                  /\ epfd' = [epfd EXCEPT ![t] = TRUE]
                  /\ UNCHANGED <<args, main_pc, exit_code, g_running, nrt_args>>

\* Mutant: the IMU loop stops the hub as well.
StopHubIfJoint_bug(t) == g_running' = FALSE

\* A joint loop that cannot start stops the hub; the IMU loop just returns.
StopHubIfJoint(t) == g_running' = IF t = "dds" THEN FALSE ELSE g_running

EpollCreateFails(t) == /\ ThrGoto(t, "epoll", "done")
                       /\ StopHubIfJoint(t)
                       /\ UNCHANGED <<args, main_pc, exit_code, nrt_args, epfd>>

\* epoll_ctl ADD for every open pipe; a joint loop tolerates failures.
Register(t) == /\ ThrGoto(t, "register", "init")
               /\ UNCHANGED <<args, main_pc, exit_code, g_running, nrt_args,
                              epfd>>

ImuRegisterFails(t) == /\ t = "imu"
                       /\ ThrGoto(t, "register", "done")
                       /\ epfd' = [epfd EXCEPT ![t] = FALSE]
                       /\ UNCHANGED <<args, main_pc, exit_code, g_running,
                                      nrt_args>>

PubInit(t) == /\ ThrGoto(t, "init", "check")
              /\ UNCHANGED <<args, main_pc, exit_code, g_running, nrt_args,
                             epfd>>

\* Mutant: the early return forgets to close epfd.
PubInitFails_bug(t) == /\ ThrGoto(t, "init", "done")
                       /\ StopHubIfJoint(t)
                       /\ UNCHANGED <<args, main_pc, exit_code, nrt_args, epfd>>

PubInitFails(t) == /\ ThrGoto(t, "init", "done")
                   /\ StopHubIfJoint(t)
                   /\ epfd' = [epfd EXCEPT ![t] = FALSE]
                   /\ UNCHANGED <<args, main_pc, exit_code, nrt_args>>

\* Mutant: the loop does not look at g_running.
LoopContinue_bug(t) == /\ ThrGoto(t, "check", "body")
                       /\ UNCHANGED <<args, main_pc, exit_code, g_running,
                                      nrt_args, epfd>>

\* while (g_running.load(...)): one iteration is "body".
LoopContinue(t) == /\ g_running
                   /\ ThrGoto(t, "check", "body")
                   /\ UNCHANGED <<args, main_pc, exit_code, g_running,
                                  nrt_args, epfd>>

\* Every iteration ends: epoll_wait has a timeout, the sleeps are bounded
\* and pop() does not block.
LoopBody(t) == /\ ThrGoto(t, "body", "check")
               /\ UNCHANGED <<args, main_pc, exit_code, g_running, nrt_args,
                              epfd>>

\* epoll_wait fails with something else than EINTR: break.
LoopBreak(t) == /\ epfd[t]
                /\ ThrGoto(t, "body", "done")
                /\ epfd' = [epfd EXCEPT ![t] = FALSE]
                /\ UNCHANGED <<args, main_pc, exit_code, g_running, nrt_args>>

LoopExit(t) == /\ ~g_running
               /\ ThrGoto(t, "check", "done")
               /\ epfd' = [epfd EXCEPT ![t] = FALSE]
               /\ UNCHANGED <<args, main_pc, exit_code, g_running, nrt_args>>

ThreadStep(t) == \/ NrtEntry(t) \/ EpollCreate(t) \/ EpollCreateFails(t)
                 \/ Register(t) \/ ImuRegisterFails(t)
                 \/ PubInit(t) \/ PubInitFails(t) \/ LoopContinue(t)
                 \/ LoopBody(t) \/ LoopBreak(t) \/ LoopExit(t)
-----------------------------------------------------------------------------
\* SIGINT or SIGTERM, once main has installed on_shutdown.
OnShutdown == /\ main_pc \notin {"parse", "exited"}
              /\ g_running
              /\ g_running' = FALSE
              /\ UNCHANGED <<args, main_pc, exit_code, thr, nrt_args, epfd>>

Terminated == main_pc = "exited" /\ UNCHANGED vars

Next == \/ MainStep
        \/ \E t \in Thread : ThreadStep(t)
        \/ OnShutdown
        \/ Terminated

\* main and every created thread keep being scheduled.
Fairness == WF_vars(MainStep) /\ \A t \in Thread : WF_vars(ThreadStep(t))

Spec == Init /\ [][Next]_vars /\ Fairness
-----------------------------------------------------------------------------
(* Properties *)

\* Control states, the flag and the resources keep their shape.
TypeOK ==
    /\ args \in Arguments
    /\ main_pc \in {"parse", "spawn_dds", "spawn_rt", "spawn_imu", "join_rt",
                    "join_dds", "join_imu", "join_failed", "exited"}
    /\ exit_code \in {0, 1}
    /\ g_running \in BOOLEAN
    /\ thr \in [Thread -> {"none", "entry", "epoll", "register", "init",
                           "check", "body", "done"}]
    /\ nrt_args \in [Thread -> {"none", "heap", "deleted"}]
    /\ epfd \in [Thread -> BOOLEAN]

\* main() never returns while a thread it created still runs: returning
\* would destroy g_running and the rings under that thread.
NoThreadOutlivesMain ==
    main_pc = "exited" => \A t \in Thread : thr[t] \in {"none", "done"}

\* Whichever setup step fails, a thread that is over, or was never created,
\* leaves neither its NrtArgs on the heap nor its epoll descriptor open.
NothingLeftOpen ==
    \A t \in Thread : thr[t] \in {"none", "done"} =>
        nrt_args[t] # "heap" /\ ~epfd[t]

\* Exit status 0 is only returned after the mandatory threads of the mode
\* were created and joined.
SuccessMeansServed ==
    main_pc = "exited" /\ exit_code = 0 =>
        /\ thr["dds"] = "done"
        /\ args.mode = "sim" => thr["rt"] = "done"

\* The IMU is optional: no step of its thread stops the hub.
ImuNeverStopsHub ==
    [][g_running /\ ~g_running' => thr'["imu"] = thr["imu"]]_vars

phaseBar(t) == CASE thr[t] = "none" -> "absent"
                 [] thr[t] \in {"entry", "epoll", "register", "init"} -> "setup"
                 [] thr[t] \in {"check", "body"} -> "loop"
                 [] thr[t] = "done" -> "done"

DdsThread == INSTANCE LoopThread WITH StopsHub <- TRUE, MayBreak <- TRUE,
                 running <- g_running, phase <- phaseBar("dds")
RtThread  == INSTANCE LoopThread WITH StopsHub <- FALSE, MayBreak <- FALSE,
                 running <- g_running, phase <- phaseBar("rt")
ImuThread == INSTANCE LoopThread WITH StopsHub <- FALSE, MayBreak <- TRUE,
                 running <- g_running, phase <- phaseBar("imu")

\* The threads of this module assume of the loops no more than the loops,
\* modelled in detail elsewhere, provide: both implement LoopThread.
ImplementsThreads == DdsThread!Spec /\ RtThread!Spec /\ ImuThread!Spec

\* A cleared g_running, whoever cleared it, ends the process.
ShutdownCompletes == ~g_running ~> main_pc = "exited"

\* entry_points.hpp: a publish loop blocks until g_running becomes false;
\* here, the joint-state loop does not return while the hub is running.
LoopBlocksUntilShutdown == thr["dds"] = "done" => ~g_running

=============================================================================
