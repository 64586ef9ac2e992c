-------------------------------- MODULE Main --------------------------------
(***************************************************************************)
(* main (src/main.cpp) with the threads of all stages, from the first      *)
(* constructor to the last destructor, and the logger they share           *)
(* (src/Logger.cpp, include/Logger.h).                                     *)
(*                                                                         *)
(* Of a stage only what its start and end depend on is kept: its running   *)
(* flag, how full its queues are, and how it waits for room.  The other    *)
(* modules look inside the stages.  main's text is the sequence Program;   *)
(* main is the index of the statement to be executed.                      *)
(***************************************************************************)
EXTENDS Integers, Sequences

CONSTANTS
    Radars,       \* the radar threads, "A" and "B"
    Workers,      \* the pool's threads, six
    OutWorkers,   \* the outputter's database, solve and MQTT workers
    QueueBound,   \* items that fit in a ring queue, 99
    TaskBound     \* MAX_QUEUE_SIZE of the pool's tasks_

SingleThreads == {"camera", "fuse", "calc", "outputLoop", "mqtt", "sdk"}

\* The queues hold something, and a thread belongs to one stage
ASSUME MainAssumption == /\ QueueBound \in Nat \ {0} /\ TaskBound \in Nat \ {0}
                         /\ Radars \cap Workers = {} /\ Radars \cap OutWorkers = {}
                         /\ Workers \cap OutWorkers = {}
                         /\ SingleThreads \cap (Radars \cup Workers \cup OutWorkers) = {}

Files == {"dev_config", "monitor_config", "reg_config"}
Stages == {"acquirer", "fuser", "calc", "output"}
Threads == Radars \cup Workers \cup OutWorkers \cup SingleThreads

Statement(op, obj) == [op |-> op, obj |-> obj]
StopAndJoin(obj) == <<Statement("stop", obj), Statement("join", obj)>>

\* main from line 30 to its wait loop
StartUp == <<Statement("init", "logger"),
             Statement("construct", "calc"), Statement("construct", "output"),
             Statement("start", "acquirer"), Statement("start", "fuser"),
             Statement("start", "calc"), Statement("start", "output"),
             Statement("wait", "running")>>

\* The destructors main's return runs: ~ConcreteDataOutputter stops and joins
\* its workers and stops the MQTT client; of its members the queues go before
\* mqtt_, whose destructor joins the client's thread
Destructors == StopAndJoin("workers")
    \o <<Statement("stop", "client"), Statement("destroy", "err_task_queue"),
         Statement("join", "client"), Statement("destroy", "output"),
         Statement("destroy", "calc"), Statement("destroy", "fuser"),
         Statement("destroy", "acquirer"), Statement("destroy", "queues"), Statement("exit", "main")>>

Program == StartUp \o StopAndJoin("output") \o StopAndJoin("calc") \o StopAndJoin("fuser")
    \o StopAndJoin("acquirer")
    \o <<Statement("flush", "logger"), Statement("shutdown", "logger"), Statement("log", "logger")>>
    \o Destructors

VARIABLES
    files,     \* the configuration files that can be read; fixed
    main,      \* index in Program
    running,   \* the global flag, cleared by the signal handler
    flag,      \* is_running_ of the stages, worker_running_, ~thread_exit_ of the client
    live, pc,  \* the threads that exist, and where each is
    cloud, fused, six, tasks,   \* lengths of rq_cloudA/B, rq_fuse_cloud, rq_six_dof, tasks_
    logger,    \* logger_ is not null
    objects,   \* main's locals, and err_task_queue_, that exist
    crashed    \* a thread has used an object that is gone and the process died

queues == <<cloud, fused, six, tasks>>
vars == <<files, main, running, flag, live, pc, queues, logger, objects, crashed>>

Flags == Stages \cup {"workers", "client"}
Objects == Stages \cup {"queues", "err_task_queue"}

Init == /\ files \in SUBSET Files /\ main = 1 /\ running = TRUE
        /\ flag = [f \in Flags |-> FALSE]
        /\ live = {} /\ pc = [t \in Threads |-> IF t \in Radars THEN "begin" ELSE "run"]
        /\ cloud = [r \in Radars |-> 0] /\ fused = 0 /\ six = 0 /\ tasks = 0
        /\ logger = FALSE /\ objects = Objects /\ crashed = FALSE

-----------------------------------------------------------------------------
(* main *)

At(op, obj) == main <= Len(Program) /\ Program[main] = Statement(op, obj)

LoggerInit == /\ At("init", "logger") /\ main' = main + 1
              /\ logger' = TRUE
              /\ UNCHANGED <<files, running, flag, live, pc, queues, objects, crashed>>

\* The pool and the outputter create threads in their constructors, when they
\* can read their configuration.  mqtt_.init fails only when the client runs
\* already, which a client under construction does not.
Construct(obj) ==
    /\ At("construct", obj) /\ main' = main + 1
    /\ \/ /\ obj = "calc"
          /\ live' = IF files = Files THEN live \cup Workers ELSE live
          /\ UNCHANGED flag
       \/ /\ obj = "output" /\ "monitor_config" \in files
          /\ live' = live \cup OutWorkers \cup {"mqtt"}
          /\ flag' = [flag EXCEPT !["workers"] = TRUE, !["client"] = TRUE]
       \/ /\ obj = "output" /\ "monitor_config" \notin files
          /\ UNCHANGED <<live, flag>>
    /\ UNCHANGED <<files, running, pc, queues, logger, objects, crashed>>

\* What a start() does: the threads it creates, and whether the flag is set.
\* The fuser sets its flag first and may then return without a thread.
Configured == {"dev_config", "monitor_config"} \subseteq files
Created(obj) == CASE obj = "acquirer" -> IF Configured THEN Radars \cup {"camera"} ELSE {}
                  [] obj = "fuser" -> IF Configured THEN {"fuse"} ELSE {}
                  [] obj = "calc" -> {"calc"}
                  [] obj = "output" -> {"outputLoop"}

Start(obj) == /\ At("start", obj) /\ main' = main + 1
              /\ flag' = [flag EXCEPT ![obj] = obj # "acquirer" \/ Configured]
              /\ live' = live \cup Created(obj)
              /\ UNCHANGED <<files, running, pc, queues, logger, objects, crashed>>

Sigint == /\ running /\ running' = FALSE
          /\ UNCHANGED <<files, main, flag, live, pc, queues, logger, objects, crashed>>

Wait == /\ At("wait", "running") /\ ~running /\ main' = main + 1
        /\ UNCHANGED <<files, running, flag, live, pc, queues, logger, objects, crashed>>

Stop(obj) == /\ At("stop", obj) /\ main' = main + 1
             /\ flag' = [flag EXCEPT ![obj] = FALSE]
             /\ UNCHANGED <<files, running, live, pc, queues, logger, objects, crashed>>

\* Mutant: the calculator joins its dispatcher, but not the pool's workers
MJoined(obj) == CASE obj = "acquirer" -> Radars \cup {"camera"}
                  [] obj = "fuser" -> {"fuse"}
                  [] obj = "calc" -> {"calc"}
                  [] obj = "output" -> {"outputLoop"}
                  [] obj = "workers" -> OutWorkers
                  [] obj = "client" -> {"mqtt"}

\* The threads a stop() or a destructor joins; one that was never created is
\* not joinable and not waited for
Joined(obj) == CASE obj = "acquirer" -> Radars \cup {"camera"}
                 [] obj = "fuser" -> {"fuse"}
                 [] obj = "calc" -> Workers \cup {"calc"}
                 [] obj = "output" -> {"outputLoop"}
                 [] obj = "workers" -> OutWorkers
                 [] obj = "client" -> {"mqtt"}

Join(obj) == /\ At("join", obj) /\ Joined(obj) \cap live = {} /\ main' = main + 1
             /\ UNCHANGED <<files, running, flag, live, pc, queues, logger, objects, crashed>>

\* Flush; when the date has changed logger_ is reset and made anew
Flush == /\ At("flush", "logger") /\ logger /\ main' = main + 1
         /\ UNCHANGED <<files, running, flag, live, pc, queues, logger, objects, crashed>>

FlushReset == /\ At("flush", "logger") /\ logger
              /\ logger' = FALSE
              /\ UNCHANGED <<files, main, running, flag, live, pc, queues, objects, crashed>>

FlushRebuild == /\ At("flush", "logger") /\ ~logger
                /\ logger' = TRUE /\ main' = main + 1
                /\ UNCHANGED <<files, running, flag, live, pc, queues, objects, crashed>>

Shutdown == /\ At("shutdown", "logger") /\ main' = main + 1
            /\ logger' = FALSE
            /\ UNCHANGED <<files, running, flag, live, pc, queues, objects, crashed>>

\* LOG_INFO("All threads stopped, exiting") finds logger_ null and returns
LastLog == /\ At("log", "logger") /\ main' = main + 1
           /\ UNCHANGED <<files, running, flag, live, pc, queues, logger, objects, crashed>>

Destroy(obj) == /\ At("destroy", obj) /\ main' = main + 1
                /\ objects' = objects \ {obj}
                /\ UNCHANGED <<files, running, flag, live, pc, queues, logger, crashed>>

MainStep == \/ LoggerInit \/ Wait \/ Flush \/ FlushReset \/ FlushRebuild \/ Shutdown \/ LastLog
            \/ \E o \in Stages : Construct(o) \/ Start(o)
            \/ \E o \in Flags : Stop(o) \/ Join(o)
            \/ \E o \in Objects : Destroy(o)

-----------------------------------------------------------------------------
(* The threads.  A radar thread goes through "begin", "logBegin" and         *)
(* "starting" first; every thread is in "run" between the rounds of its      *)
(* loop, in "push" while it waits for room in its output queue, in "log"     *)
(* between the test of logger_ and its use, in "report" inside               *)
(* push_callback_.  "logTask" is a log inside a pool worker's task;          *)
(* "logExit" and "reportExit" come after the last round.                     *)

FlagOf(t) == CASE t \in Radars \cup {"camera"} -> "acquirer"
               [] t = "fuse" -> "fuser"
               [] t \in Workers \cup {"calc"} -> "calc"
               [] t = "outputLoop" -> "output"
               [] t \in OutWorkers -> "workers"
               [] t = "mqtt" -> "client"

In(t, s) == t \in live /\ pc[t] = s
Goto(t, s) == pc' = [pc EXCEPT ![t] = s]
rest == <<files, main, running, flag>>
gone == <<logger, objects>>

\* Every loop ends when its flag is down; a pool worker empties tasks_ first
Exit(t) == /\ In(t, "run") /\ t # "sdk" /\ ~flag[FlagOf(t)]
           /\ t \in Workers => tasks = 0
           /\ live' = live \ {t}
           /\ UNCHANGED <<rest, pc, queues, gone, crashed>>

\* A radar thread first logs its parameters
BeginLog(r) == /\ In(r, "begin")
               /\ Goto(r, IF logger THEN "logBegin" ELSE "starting")
               /\ UNCHANGED <<rest, live, queues, gone, crashed>>

\* ... and starts the SDK's threads, which are detached and never end
LidarStart(r) == /\ In(r, "starting")
                 /\ live' = live \cup {"sdk"}
                 /\ Goto(r, "run")
                 /\ UNCHANGED <<rest, queues, gone, crashed>>

RadarRound(r) == /\ In(r, "run") /\ flag["acquirer"]
                 /\ Goto(r, "push")
                 /\ UNCHANGED <<rest, live, queues, gone, crashed>>

RadarEnqueue(r) == /\ In(r, "push") /\ cloud[r] < QueueBound
                   /\ cloud' = [cloud EXCEPT ![r] = @ + 1]
                   /\ Goto(r, "run")
                   /\ UNCHANGED <<rest, live, fused, six, tasks, gone, crashed>>

\* Frames are taken into the caches; a pair or a single frame comes out
FuseRound(r, emit) == /\ In("fuse", "run") /\ flag["fuser"] /\ cloud[r] > 0
                      /\ cloud' = [cloud EXCEPT ![r] = @ - 1]
                      /\ Goto("fuse", IF emit THEN "push" ELSE "run")
                      /\ UNCHANGED <<rest, live, fused, six, tasks, gone, crashed>>

FuseEnqueue == /\ In("fuse", "push") /\ fused < QueueBound
               /\ fused' = fused + 1
               /\ Goto("fuse", "run")
               /\ UNCHANGED <<rest, live, cloud, six, tasks, gone, crashed>>

\* Mutant: a full queue is waited for even after stop()
MGiveUp(t) == FALSE /\ UNCHANGED vars

\* The radar threads and the fuser wait for room until they are stopped; a
\* pool worker gives up by itself, after MAX_RETRY_QUEUE attempts
GiveUp(t) == /\ In(t, "push")
             /\ \/ t \in Radars /\ cloud[t] >= QueueBound /\ ~flag["acquirer"]
                \/ t = "fuse" /\ fused >= QueueBound /\ ~flag["fuser"]
                \/ t \in Workers /\ six >= QueueBound
             /\ Goto(t, "run")
             /\ UNCHANGED <<rest, live, queues, gone, crashed>>

\* calcLoop; the oldest task makes room when tasks_ is full
CalcRound == /\ In("calc", "run") /\ flag["calc"] /\ fused > 0
             /\ fused' = fused - 1
             /\ tasks' = IF tasks >= TaskBound THEN tasks ELSE tasks + 1
             /\ UNCHANGED <<rest, live, pc, cloud, six, gone, crashed>>

\* A task calculates, which may log, and then enqueues its result
WorkerPop(w, s) == /\ In(w, "run") /\ tasks > 0
                   /\ s = "push" \/ (s = "logTask" /\ logger)
                   /\ tasks' = tasks - 1
                   /\ Goto(w, s)
                   /\ UNCHANGED <<rest, live, cloud, fused, six, gone, crashed>>

WorkerEnqueue(w) == /\ In(w, "push") /\ six < QueueBound
                    /\ six' = six + 1
                    /\ Goto(w, "run")
                    /\ UNCHANGED <<rest, live, cloud, fused, tasks, gone, crashed>>

OutputRound == /\ In("outputLoop", "run") /\ flag["output"] /\ six > 0
               /\ six' = six - 1
               /\ UNCHANGED <<rest, live, pc, cloud, fused, tasks, gone, crashed>>

\* LogInfo and its like: the test of logger_, in a round, after a worker's last
\* attempt to enqueue, on the way out, or in the fuser's last pass
LogTest(t) ==
    /\ logger
    /\ \/ /\ t \in OutWorkers \cup {"fuse", "outputLoop", "mqtt"} /\ In(t, "run") /\ flag[FlagOf(t)]
          /\ Goto(t, "log")
       \/ /\ t \in Workers /\ In(t, "push") /\ six >= QueueBound
          /\ Goto(t, "log")
       \/ /\ t \in Radars \cup OutWorkers \cup {"fuse"} /\ In(t, "run") /\ ~flag[FlagOf(t)]
          /\ Goto(t, "logExit")
    /\ UNCHANGED <<rest, live, queues, gone, crashed>>

\* ... and the use of it, without a lock; a null pointer ends the process
LogUse(t) == /\ \/ In(t, "log") /\ Goto(t, "run") /\ UNCHANGED live
                \/ In(t, "logBegin") /\ Goto(t, "starting") /\ UNCHANGED live
                \/ In(t, "logTask") /\ Goto(t, "push") /\ UNCHANGED live
                \/ In(t, "logExit") /\ live' = live \ {t} /\ UNCHANGED pc
             /\ crashed' = ~logger
             /\ UNCHANGED <<rest, queues, gone>>

\* reportError calls the outputter's pushRealTimeError through push_callback_.
\* The MQTT client does so for a connection that closes while it is stopped.
Report(t) == /\ In(t, "run") /\ (flag[FlagOf(t)] \/ t = "mqtt")
             /\ Goto(t, IF flag[FlagOf(t)] THEN "report" ELSE "reportExit")
             /\ UNCHANGED <<rest, live, queues, gone, crashed>>

\* ... which enqueues; a queue that is gone may or may not end the process.
\* connCallback then logs.
ReportDone(t) == /\ \/ In(t, "report") /\ Goto(t, "run") /\ UNCHANGED live
                    \/ In(t, "reportExit") /\ logger /\ Goto(t, "logExit") /\ UNCHANGED live
                    \/ In(t, "reportExit") /\ ~logger /\ live' = live \ {t} /\ UNCHANGED pc
                 /\ \/ UNCHANGED crashed
                    \/ "err_task_queue" \notin objects /\ crashed' = TRUE
                 /\ UNCHANGED <<rest, queues, gone>>

Logging == Radars \cup Workers \cup OutWorkers \cup {"fuse", "outputLoop", "mqtt"}
Reporting == OutWorkers \cup {"fuse", "outputLoop", "mqtt"}

\* What a thread must do when it is scheduled
Progress(t) == \/ Exit(t) \/ GiveUp(t) \/ LogUse(t) \/ ReportDone(t)
               \/ t \in Radars /\ (BeginLog(t) \/ LidarStart(t) \/ RadarEnqueue(t))
               \/ t = "fuse" /\ FuseEnqueue
               \/ t \in Workers /\ (WorkerEnqueue(t) \/ \E s \in {"push", "logTask"} : WorkerPop(t, s))

Next == /\ ~crashed
        /\ \/ MainStep \/ Sigint
           \/ \E t \in Threads : Progress(t)
           \/ \E r \in Radars : RadarRound(r) \/ \E e \in BOOLEAN : FuseRound(r, e)
           \/ CalcRound \/ OutputRound
           \/ \E t \in Logging : LogTest(t)
           \/ \E t \in Reporting : Report(t)

Spec == Init /\ [][Next]_vars

\* main and the threads are scheduled.  Nothing is assumed of the MQTT client's
\* thread: it may stay in libhv's loop for ever, even after stop() (MqttClient).
FairSpec == /\ Spec /\ WF_vars(~crashed /\ MainStep)
            /\ \A t \in Threads \ {"mqtt"} : WF_vars(~crashed /\ Progress(t))

-----------------------------------------------------------------------------
(* Properties *)

\* The ring queues and tasks_ keep their limits.
TypeOK == /\ main \in 1 .. Len(Program) /\ live \subseteq Threads /\ objects \subseteq Objects
          /\ cloud \in [Radars -> 0 .. QueueBound] /\ {fused, six} \subseteq 0 .. QueueBound
          /\ tasks \in 0 .. TaskBound
          /\ \A t \in Threads : pc[t] \in {"begin", "logBegin", "starting", "run", "push", "log", "logTask", "logExit",
                                                "report", "reportExit"}

\* No thread of a stage is left when the stage, the queues between the stages,
\* or the outputter behind push_callback_ is destroyed.  The MQTT client's
\* thread is the exception: err_task_queue_ is destroyed before mqtt_ joins it.
Uses(t) == CASE t \in Radars \cup {"camera"} -> {"acquirer", "queues"}
             [] t = "fuse" -> {"fuser", "queues", "output", "err_task_queue"}
             [] t \in Workers \cup {"calc"} -> {"calc", "queues"}
             [] t = "outputLoop" -> {"output", "queues", "err_task_queue"}
             [] t \in OutWorkers -> {"output", "err_task_queue"}
             [] t = "mqtt" -> {"output"}
             [] OTHER -> {}
NothingDestroyedInUse == \A t \in live : Uses(t) \subseteq objects

\* Ctrl+C brings main to the last of its joins, the one of the MQTT client's
\* thread, unless a race for logger_ or err_task_queue_ ends the process first:
\* main stops consumers before producers, and yet no earlier join waits for a
\* thread that waits for room in a queue, whichever stages failed to start.
\* Beyond that join main ends when the client's thread does.
MainReturns == ~running ~> (At("join", "client") \/ At("exit", "main") \/ crashed)
=============================================================================
