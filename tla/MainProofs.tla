---------------------------- MODULE MainProofs ----------------------------
(***************************************************************************)
(* main for any number of radar, pool and outputter threads, any queue     *)
(* bounds and any set of readable configuration files: the order of stops, *)
(* joins and destructors in its text is safe for the threads of all stages.*)
(***************************************************************************)
EXTENDS Main, TLAPS

-----------------------------------------------------------------------------
(* main's text, statement by statement *)

\* The statements of Program, by index.
LEMMA ProgramText ==
    /\ Len(Program) = 30
    /\ Program[1] = Statement("init", "logger")
    /\ Program[2] = Statement("construct", "calc")
    /\ Program[3] = Statement("construct", "output")
    /\ Program[4] = Statement("start", "acquirer")
    /\ Program[5] = Statement("start", "fuser")
    /\ Program[6] = Statement("start", "calc")
    /\ Program[7] = Statement("start", "output")
    /\ Program[8] = Statement("wait", "running")
    /\ Program[9] = Statement("stop", "output")
    /\ Program[10] = Statement("join", "output")
    /\ Program[11] = Statement("stop", "calc")
    /\ Program[12] = Statement("join", "calc")
    /\ Program[13] = Statement("stop", "fuser")
    /\ Program[14] = Statement("join", "fuser")
    /\ Program[15] = Statement("stop", "acquirer")
    /\ Program[16] = Statement("join", "acquirer")
    /\ Program[17] = Statement("flush", "logger")
    /\ Program[18] = Statement("shutdown", "logger")
    /\ Program[19] = Statement("log", "logger")
    /\ Program[20] = Statement("stop", "workers")
    /\ Program[21] = Statement("join", "workers")
    /\ Program[22] = Statement("stop", "client")
    /\ Program[23] = Statement("destroy", "err_task_queue")
    /\ Program[24] = Statement("join", "client")
    /\ Program[25] = Statement("destroy", "output")
    /\ Program[26] = Statement("destroy", "calc")
    /\ Program[27] = Statement("destroy", "fuser")
    /\ Program[28] = Statement("destroy", "acquirer")
    /\ Program[29] = Statement("destroy", "queues")
    /\ Program[30] = Statement("exit", "main")
  BY DEF Program, StartUp, StopAndJoin, Destructors

\* Where main is when it executes a given statement.
LEMMA WhereMainIs ==
    ASSUME main \in Nat \ {0}, NEW o
    PROVE
        /\ At("init", o) => main = 1
        /\ At("construct", o) =>
               \/ o = "calc" /\ main = 2
               \/ o = "output" /\ main = 3
        /\ At("start", o) =>
               \/ o = "acquirer" /\ main = 4
               \/ o = "fuser" /\ main = 5
               \/ o = "calc" /\ main = 6
               \/ o = "output" /\ main = 7
        /\ At("wait", o) => main = 8
        /\ At("stop", o) =>
               \/ o = "output" /\ main = 9
               \/ o = "calc" /\ main = 11
               \/ o = "fuser" /\ main = 13
               \/ o = "acquirer" /\ main = 15
               \/ o = "workers" /\ main = 20
               \/ o = "client" /\ main = 22
        /\ At("join", o) =>
               \/ o = "output" /\ main = 10
               \/ o = "calc" /\ main = 12
               \/ o = "fuser" /\ main = 14
               \/ o = "acquirer" /\ main = 16
               \/ o = "workers" /\ main = 21
               \/ o = "client" /\ main = 24
        /\ At("flush", o) => main = 17
        /\ At("shutdown", o) => main = 18
        /\ At("log", o) => main = 19
        /\ At("destroy", o) =>
               \/ o = "err_task_queue" /\ main = 23
               \/ o = "output" /\ main = 25
               \/ o = "calc" /\ main = 26
               \/ o = "fuser" /\ main = 27
               \/ o = "acquirer" /\ main = 28
               \/ o = "queues" /\ main = 29
<1>1. ASSUME NEW op, At(op, o)
      PROVE  main \in 1 .. 30 /\ Program[main].op = op /\ Program[main].obj = o
  BY <1>1, ProgramText DEF At, Statement
<1>2. ASSUME main \in 1 .. 30
      PROVE  \/ main = 1 \/ main = 2 \/ main = 3 \/ main = 4 \/ main = 5 \/ main = 6
             \/ main = 7 \/ main = 8 \/ main = 9 \/ main = 10 \/ main = 11 \/ main = 12
             \/ main = 13 \/ main = 14 \/ main = 15 \/ main = 16 \/ main = 17 \/ main = 18
             \/ main = 19 \/ main = 20 \/ main = 21 \/ main = 22 \/ main = 23 \/ main = 24
             \/ main = 25 \/ main = 26 \/ main = 27 \/ main = 28 \/ main = 29 \/ main = 30
  BY <1>2
<1> QED BY <1>1, <1>2, ProgramText DEF Statement

-----------------------------------------------------------------------------
(* The order of main's text, as an invariant: a thread is gone once main is *)
(* past the join of its stage, an object is there until main is past its    *)
(* destructor, and logger_ is set from the first statement to the flush.    *)

\* The statements that join the threads of a stage, of the outputter's workers
\* and of the MQTT client
JoinAt(f) == CASE f = "output" -> 10
               [] f = "calc" -> 12
               [] f = "fuser" -> 14
               [] f = "acquirer" -> 16
               [] f = "workers" -> 21
               [] f = "client" -> 24

\* The statements that destroy main's locals and the outputter's queue
DestroyAt(o) == CASE o = "err_task_queue" -> 23
                  [] o = "output" -> 25
                  [] o = "calc" -> 26
                  [] o = "fuser" -> 27
                  [] o = "acquirer" -> 28
                  [] o = "queues" -> 29

\* No thread outlives the join of its stage; the SDK's are never joined.
GoneAfterJoin == \A t \in live \ {"sdk"} : main <= JoinAt(FlagOf(t))

\* main is within its text, and before its second statement alone.
MainWithin == /\ main \in 1 .. 30 /\ live \subseteq Threads /\ objects \subseteq Objects
              /\ main = 1 => live = {}

\* logger_ is null only before Init and from the flush on.
LoggerSet == logger \/ main = 1 \/ main >= 17

\* An object is gone only when main is past its destructor.
ThereUntilDestroyed == \A o \in Objects \ objects : main > DestroyAt(o)

MainInv == MainWithin /\ GoneAfterJoin /\ LoggerSet /\ ThereUntilDestroyed

\* The stage of each thread, and where main waits for it.
LEMMA StageOfThread ==
    /\ \A t \in Radars : JoinAt(FlagOf(t)) = 16 /\ FlagOf(t) = "acquirer"
    /\ \A t \in Workers : JoinAt(FlagOf(t)) = 12 /\ FlagOf(t) = "calc"
    /\ \A t \in OutWorkers : JoinAt(FlagOf(t)) = 21 /\ FlagOf(t) = "workers"
    /\ JoinAt(FlagOf("camera")) = 16 /\ FlagOf("camera") = "acquirer"
    /\ JoinAt(FlagOf("fuse")) = 14 /\ FlagOf("fuse") = "fuser"
    /\ JoinAt(FlagOf("calc")) = 12 /\ FlagOf("calc") = "calc"
    /\ JoinAt(FlagOf("outputLoop")) = 10 /\ FlagOf("outputLoop") = "output"
    /\ JoinAt(FlagOf("mqtt")) = 24 /\ FlagOf("mqtt") = "client"
<1>1. /\ \A t \in Radars : FlagOf(t) = "acquirer"
      /\ \A t \in Workers : FlagOf(t) = "calc"
      /\ \A t \in OutWorkers : FlagOf(t) = "workers"
  BY MainAssumption DEF FlagOf, SingleThreads
<1>2. /\ FlagOf("camera") = "acquirer" /\ FlagOf("fuse") = "fuser" /\ FlagOf("calc") = "calc"
      /\ FlagOf("outputLoop") = "output" /\ FlagOf("mqtt") = "client"
  BY MainAssumption DEF FlagOf, SingleThreads
<1>3. /\ JoinAt("output") = 10 /\ JoinAt("calc") = 12 /\ JoinAt("fuser") = 14
      /\ JoinAt("acquirer") = 16 /\ JoinAt("workers") = 21 /\ JoinAt("client") = 24
  BY DEF JoinAt
<1> QED BY <1>1, <1>2, <1>3

\* Where main destroys each object.
LEMMA DestroyOrder ==
    /\ DestroyAt("err_task_queue") = 23 /\ DestroyAt("output") = 25 /\ DestroyAt("calc") = 26
    /\ DestroyAt("fuser") = 27 /\ DestroyAt("acquirer") = 28 /\ DestroyAt("queues") = 29
  BY DEF DestroyAt

\* The threads main waits for at a join are exactly those of the stage.
LEMMA JoinedIsStage ==
    ASSUME NEW f \in Flags, NEW t \in Threads \ {"sdk"}, FlagOf(t) = f
    PROVE  t \in Joined(f)
  BY StageOfThread DEF Threads, SingleThreads, Joined, Flags, Stages

\* A joined thread's stage has one of the six running flags.
LEMMA FlagIsOne == \A t \in Threads \ {"sdk"} : FlagOf(t) \in Flags /\ JoinAt(FlagOf(t)) \in 10 .. 24
<1> SUFFICES ASSUME NEW t \in Threads \ {"sdk"}
             PROVE  FlagOf(t) \in Flags /\ JoinAt(FlagOf(t)) \in 10 .. 24
  OBVIOUS
<1>1. CASE t \in Radars \cup Workers \cup OutWorkers
  BY <1>1, StageOfThread DEF Flags, Stages
<1>2. CASE t \in SingleThreads
  BY <1>2, StageOfThread DEF SingleThreads, Flags, Stages
<1> QED BY <1>1, <1>2 DEF Threads

\* main is at its first statement and no thread runs.
LEMMA MainInit == Init => MainInv
  BY DEF Init, MainInv, MainWithin, GoneAfterJoin, LoggerSet, ThereUntilDestroyed

\* A thread's step leaves main, logger_ and the objects alone, and creates at
\* most the SDK's threads.
LEMMA ThreadStep ==
    ASSUME \/ \E t \in Threads : Progress(t)
           \/ \E r \in Radars : RadarRound(r) \/ \E e \in BOOLEAN : FuseRound(r, e)
           \/ CalcRound \/ OutputRound
           \/ \E t \in Logging : LogTest(t)
           \/ \E t \in Reporting : Report(t)
    PROVE  /\ main' = main /\ logger' = logger /\ objects' = objects
           /\ live' \subseteq live \cup {"sdk"}
           /\ live = {} => live' = {}
<1>1. ASSUME NEW t \in Threads, Progress(t)
      PROVE  /\ main' = main /\ logger' = logger /\ objects' = objects
             /\ live' \subseteq live \cup {"sdk"}
             /\ live = {} => live' = {}
  <2>1. CASE Exit(t) \/ GiveUp(t)
    BY <2>1 DEF Exit, GiveUp, In, rest, gone
  <2>2. CASE LogUse(t)
    BY <2>2 DEF LogUse, In, rest, gone
  <2>3. CASE ReportDone(t)
    BY <2>3 DEF ReportDone, In, rest, gone
  <2>4. CASE BeginLog(t) \/ LidarStart(t)
    BY <2>4 DEF BeginLog, LidarStart, In, rest, gone
  <2>5. CASE RadarEnqueue(t) \/ FuseEnqueue \/ WorkerEnqueue(t) \/ \E s \in {"push", "logTask"} : WorkerPop(t, s)
    BY <2>5 DEF RadarEnqueue, FuseEnqueue, WorkerEnqueue, WorkerPop, rest, gone
  <2> QED BY <1>1, <2>1, <2>2, <2>3, <2>4, <2>5 DEF Progress
<1>2. CASE ~\E t \in Threads : Progress(t)
  BY <1>2 DEF RadarRound, FuseRound, CalcRound, OutputRound, LogTest, Report, rest, gone
<1> QED BY <1>1, <1>2

\* Steps of the threads and of the signal handler keep the invariant.
LEMMA OthersNext ==
    ASSUME MainInv, main' = main, logger' = logger, objects' = objects,
           live' \subseteq live \cup {"sdk"}, live = {} => live' = {}
    PROVE  MainInv'
<1>1. MainWithin'
  BY DEF MainInv, MainWithin, Threads, SingleThreads
<1>2. GoneAfterJoin'
  BY DEF MainInv, GoneAfterJoin
<1>3. LoggerSet' /\ ThereUntilDestroyed'
  BY DEF MainInv, LoggerSet, ThereUntilDestroyed
<1> QED BY <1>1, <1>2, <1>3 DEF MainInv

\* main executes a statement: threads are created only before the wait loop,
\* joined ones are gone, logger_ is kept until the flush, and an object goes
\* by its own destructor.
LEMMA StatementStep ==
    ASSUME MainInv, main \in 1 .. 29, main' = main + 1,
           live' \subseteq live \/ (main <= 7 /\ live' \subseteq Threads),
           \A t \in live \ {"sdk"} : main # JoinAt(FlagOf(t)),
           logger' \/ main >= 17,
           objects' \subseteq objects,
           \A o \in objects \ objects' : DestroyAt(o) = main
    PROVE  MainInv'
<1>1. \A t \in live \ {"sdk"} : JoinAt(FlagOf(t)) \in 10 .. 24 /\ main <= JoinAt(FlagOf(t))
  BY FlagIsOne DEF MainInv, MainWithin, GoneAfterJoin
<1>2. GoneAfterJoin'
  <2>1. CASE live' \subseteq live
    BY <1>1, <2>1 DEF GoneAfterJoin
  <2>2. CASE main <= 7 /\ live' \subseteq Threads
    <3>1. \A t \in live' \ {"sdk"} : JoinAt(FlagOf(t)) \in 10 .. 24
      BY <2>2, FlagIsOne
    <3> QED BY <2>2, <3>1 DEF GoneAfterJoin
  <2> QED BY <2>1, <2>2
<1>3. ThereUntilDestroyed'
  <2>1. \A o \in Objects : DestroyAt(o) \in Nat
    BY DestroyOrder DEF Objects, Stages
  <2>2. \A o \in Objects \ objects' : main >= DestroyAt(o)
    BY <2>1 DEF MainInv, ThereUntilDestroyed
  <2> QED BY <2>1, <2>2 DEF ThereUntilDestroyed
<1>4. MainWithin'
  BY DEF MainInv, MainWithin
<1>5. LoggerSet'
  BY DEF LoggerSet
<1> QED BY <1>2, <1>3, <1>4, <1>5 DEF MainInv

\* A statement that joins nothing finds no thread to wait for.
LEMMA NoJoinHere ==
    ASSUME MainInv, main \notin {10, 12, 14, 16, 21, 24}
    PROVE  \A t \in live \ {"sdk"} : main # JoinAt(FlagOf(t))
<1> SUFFICES ASSUME NEW t \in live \ {"sdk"} PROVE main # JoinAt(FlagOf(t))
  OBVIOUS
<1>1. FlagOf(t) \in Flags
  BY FlagIsOne DEF MainInv, MainWithin
<1>2. JoinAt(FlagOf(t)) \in {10, 12, 14, 16, 21, 24}
  BY <1>1 DEF JoinAt, Flags, Stages
<1> QED BY <1>2

\* A statement of main keeps the invariant.
LEMMA MainStepNext == ASSUME MainInv, MainStep PROVE MainInv'
<1>0. main \in 1 .. 30 /\ main \in Nat \ {0} /\ live \subseteq Threads
  BY DEF MainInv, MainWithin
<1>1. CASE LoggerInit
  <2>1. main = 1
    BY <1>0, <1>1, WhereMainIs DEF LoggerInit
  <2>2. main' = main + 1 /\ logger' /\ UNCHANGED <<live, objects>>
    BY <1>1 DEF LoggerInit
  <2> QED BY <2>1, <2>2, NoJoinHere, StatementStep
<1>2. CASE Wait
  <2>1. main = 8
    BY <1>0, <1>2, WhereMainIs DEF Wait
  <2>2. main' = main + 1 /\ UNCHANGED <<live, logger, objects>>
    BY <1>2 DEF Wait
  <2>3. logger
    BY <2>1 DEF MainInv, LoggerSet
  <2> QED BY <2>1, <2>2, <2>3, NoJoinHere, StatementStep
<1>3. CASE Flush \/ FlushRebuild \/ Shutdown \/ LastLog
  <2>1. main \in 17 .. 19
    BY <1>0, <1>3, WhereMainIs DEF Flush, FlushRebuild, Shutdown, LastLog
  <2>2. main' = main + 1 /\ UNCHANGED <<live, objects>>
    BY <1>3 DEF Flush, FlushRebuild, Shutdown, LastLog
  <2> QED BY <2>1, <2>2, NoJoinHere, StatementStep
<1>4. CASE FlushReset
  <2>1. main = 17
    BY <1>0, <1>4, WhereMainIs DEF FlushReset
  <2>2. UNCHANGED <<main, live, objects>>
    BY <1>4 DEF FlushReset
  <2> QED BY <2>1, <2>2 DEF MainInv, MainWithin, GoneAfterJoin, LoggerSet, ThereUntilDestroyed
<1>5. ASSUME NEW o \in Stages, Construct(o) PROVE MainInv'
  <2>1. main \in 2 .. 3
    BY <1>0, <1>5, WhereMainIs DEF Construct
  <2>2. main' = main + 1 /\ UNCHANGED <<logger, objects>> /\ live' \subseteq Threads
    BY <1>0, <1>5 DEF Construct, Threads, SingleThreads
  <2>3. logger
    BY <2>1 DEF MainInv, LoggerSet
  <2> QED BY <2>1, <2>2, <2>3, NoJoinHere, StatementStep
<1>6. ASSUME NEW o \in Stages, Start(o) PROVE MainInv'
  <2>1. main \in 4 .. 7
    BY <1>0, <1>6, WhereMainIs DEF Start
  <2>2. Created(o) \subseteq Threads
    BY DEF Created, Stages, Threads, SingleThreads
  <2>3. main' = main + 1 /\ UNCHANGED <<logger, objects>> /\ live' \subseteq Threads
    BY <1>0, <1>6, <2>2 DEF Start
  <2>4. logger
    BY <2>1 DEF MainInv, LoggerSet
  <2> QED BY <2>1, <2>3, <2>4, NoJoinHere, StatementStep
<1>7. ASSUME NEW f \in Flags, Stop(f) PROVE MainInv'
  <2>1. main \in {9, 11, 13, 15, 20, 22}
    BY <1>0, <1>7, WhereMainIs DEF Stop
  <2>2. main' = main + 1 /\ UNCHANGED <<live, logger, objects>>
    BY <1>7 DEF Stop
  <2>3. logger \/ main >= 17
    BY <2>1 DEF MainInv, LoggerSet
  <2>4. \A t \in live \ {"sdk"} : main # JoinAt(FlagOf(t))
    BY <2>1, NoJoinHere
  <2> QED BY <2>1, <2>2, <2>3, <2>4, StatementStep
<1>8. ASSUME NEW f \in Flags, Join(f) PROVE MainInv'
  <2>1. main = JoinAt(f)
    BY <1>0, <1>8, WhereMainIs DEF Join, JoinAt
  <2>2. main \in 10 .. 24
    BY <1>0, <1>8, WhereMainIs DEF Join
  <2>3. main' = main + 1 /\ UNCHANGED <<live, logger, objects>> /\ Joined(f) \cap live = {}
    BY <1>8 DEF Join
  <2>4. logger \/ main >= 17
    BY <2>2 DEF MainInv, LoggerSet
  <2>5. \A t \in live \ {"sdk"} : main # JoinAt(FlagOf(t))
    <3> SUFFICES ASSUME NEW t \in live \ {"sdk"}, main = JoinAt(FlagOf(t)) PROVE FALSE
      OBVIOUS
    <3>1. FlagOf(t) \in Flags
      BY <1>0, FlagIsOne
    <3>2. FlagOf(t) = f
      BY <2>1, <3>1 DEF JoinAt, Flags, Stages
    <3> QED BY <1>0, <2>3, <3>2, JoinedIsStage
  <2> QED BY <2>2, <2>3, <2>4, <2>5, StatementStep
<1>9. ASSUME NEW o \in Objects, Destroy(o) PROVE MainInv'
  <2>1. main = DestroyAt(o) /\ main \in {23, 25, 26, 27, 28, 29}
    BY <1>0, <1>9, WhereMainIs, DestroyOrder DEF Destroy
  <2>2. main' = main + 1 /\ UNCHANGED <<live, logger>> /\ objects' = objects \ {o}
    BY <1>9 DEF Destroy
  <2>3. \A t \in live \ {"sdk"} : main # JoinAt(FlagOf(t))
    BY <2>1, NoJoinHere
  <2> QED BY <2>1, <2>2, <2>3, StatementStep
<1> QED BY <1>1, <1>2, <1>3, <1>4, <1>5, <1>6, <1>7, <1>8, <1>9 DEF MainStep

\* The invariant holds from the start of main on.
LEMMA MainInvariant == Spec => []MainInv
<1>1. MainInv /\ [Next]_vars => MainInv'
  <2> SUFFICES ASSUME MainInv, [Next]_vars PROVE MainInv'
    OBVIOUS
  <2>1. CASE MainStep
    BY <2>1, MainStepNext
  <2>2. CASE Sigint \/ UNCHANGED vars
    BY <2>2, OthersNext DEF Sigint, vars
  <2>3. CASE \/ \E t \in Threads : Progress(t)
             \/ \E r \in Radars : RadarRound(r) \/ \E e \in BOOLEAN : FuseRound(r, e)
             \/ CalcRound \/ OutputRound
             \/ \E t \in Logging : LogTest(t)
             \/ \E t \in Reporting : Report(t)
    BY <2>3, ThreadStep, OthersNext
  <2> QED BY <2>1, <2>2, <2>3 DEF Next
<1> QED BY <1>1, MainInit, PTL DEF Spec

-----------------------------------------------------------------------------
(* The theorems *)

\* The threads that run on after main's four stops.
Stragglers == OutWorkers \cup {"mqtt", "sdk"}

\* When logger_ is null, at a change of date or for good, only they are left.
LoggerOutlivesStages == ~logger => live \subseteq Stragglers

\* Which threads can meet a logger_ that Flush or Shutdown has reset, although
\* main.cpp:59 and :68 say that all threads are stopped by then: the outputter's
\* workers, the MQTT client's and the SDK's, and no thread of the four stages,
\* for any number of each.
THEOREM LoggerSafeForStages == Spec => []LoggerOutlivesStages
<1>1. MainInv => LoggerOutlivesStages
  <2> SUFFICES ASSUME MainInv, ~logger, NEW t \in live PROVE t \in Stragglers
    BY DEF LoggerOutlivesStages
  <2>1. t \in Threads /\ main >= 17 /\ main \in Nat
    BY DEF MainInv, MainWithin, LoggerSet
  <2>2. t # "sdk" => main <= JoinAt(FlagOf(t))
    BY DEF MainInv, GoneAfterJoin
  <2>3. t \notin Radars /\ t \notin Workers
    BY <2>1, <2>2, StageOfThread, MainAssumption DEF SingleThreads
  <2>4. t \notin {"camera", "fuse", "calc", "outputLoop"}
    BY <2>1, <2>2, StageOfThread
  <2> QED BY <2>1, <2>3, <2>4 DEF Threads, SingleThreads, Stragglers
<1> QED BY <1>1, MainInvariant, PTL

\* No destructor that main's return runs takes an object away from a thread of
\* a stage, whichever configuration files could not be read.
THEOREM DestructorsAreSafe == Spec => []NothingDestroyedInUse
<1>1. MainInv => NothingDestroyedInUse
  <2> SUFFICES ASSUME MainInv, NEW t \in live PROVE Uses(t) \subseteq objects
    BY DEF NothingDestroyedInUse
  <2>1. t \in Threads /\ main \in Nat
    BY DEF MainInv, MainWithin
  <2>2. t # "sdk" => main <= JoinAt(FlagOf(t))
    BY DEF MainInv, GoneAfterJoin
  <2>3. \A o \in Objects : main <= DestroyAt(o) => o \in objects
    <3>1. \A o \in Objects : DestroyAt(o) \in Nat
      BY DestroyOrder DEF Objects, Stages
    <3> QED BY <2>1, <3>1 DEF MainInv, ThereUntilDestroyed
  <2>4. CASE t \in Radars \cup {"camera"}
    <3>1. Uses(t) = {"acquirer", "queues"}
      BY <2>4, MainAssumption DEF Uses, SingleThreads
    <3> QED BY <2>1, <2>2, <2>3, <2>4, <3>1, StageOfThread, DestroyOrder, MainAssumption
            DEF Objects, Stages, SingleThreads
  <2>5. CASE t \in Workers \cup {"calc"}
    <3>1. Uses(t) = {"calc", "queues"}
      BY <2>5, MainAssumption DEF Uses, SingleThreads
    <3> QED BY <2>1, <2>2, <2>3, <2>5, <3>1, StageOfThread, DestroyOrder, MainAssumption
            DEF Objects, Stages, SingleThreads
  <2>6. CASE t \in OutWorkers
    <3>1. Uses(t) = {"output", "err_task_queue"}
      BY <2>6, MainAssumption DEF Uses, SingleThreads
    <3> QED BY <2>1, <2>2, <2>3, <2>6, <3>1, StageOfThread, DestroyOrder, MainAssumption
            DEF Objects, Stages, SingleThreads
  <2>7. CASE t = "fuse"
    <3>1. Uses(t) = {"fuser", "queues", "output", "err_task_queue"}
      BY <2>7, MainAssumption DEF Uses, SingleThreads
    <3> QED BY <2>1, <2>2, <2>3, <2>7, <3>1, StageOfThread, DestroyOrder DEF Objects, Stages
  <2>8. CASE t = "outputLoop"
    <3>1. Uses(t) = {"output", "queues", "err_task_queue"}
      BY <2>8, MainAssumption DEF Uses, SingleThreads
    <3> QED BY <2>1, <2>2, <2>3, <2>8, <3>1, StageOfThread, DestroyOrder DEF Objects, Stages
  <2>9. CASE t = "mqtt"
    <3>1. Uses(t) = {"output"}
      BY <2>9, MainAssumption DEF Uses, SingleThreads
    <3> QED BY <2>1, <2>2, <2>3, <2>9, <3>1, StageOfThread, DestroyOrder DEF Objects, Stages
  <2>10. CASE t = "sdk"
    BY <2>10, MainAssumption DEF Uses, SingleThreads
  <2> QED BY <2>1, <2>4, <2>5, <2>6, <2>7, <2>8, <2>9, <2>10 DEF Threads, SingleThreads
<1> QED BY <1>1, MainInvariant, PTL
=============================================================================
