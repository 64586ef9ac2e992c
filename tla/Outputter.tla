----------------------------- MODULE Outputter -----------------------------
(***************************************************************************)
(* ConcreteDataOutputter (src/data_outputter.cpp): outputLoop moves the    *)
(* results of rq_six_dof to the solve worker, the solve worker turns each  *)
(* into a packet for the MQTT worker, and reportError                      *)
(* (src/system_state_manager.cpp) adds warnings to the MQTT worker's       *)
(* second queue.  All four threads sleep on one condition variable, with   *)
(* no predicate and a timeout of 50 ms, and every enqueue wakes one of     *)
(* them, not necessarily the one it is for.                                *)
(*                                                                         *)
(* A result, and the packet made from it, is its timestamp.  The queues    *)
(* are FIFOs of capacity - 1 places.  Warnings are only counted.           *)
(***************************************************************************)
EXTENDS Integers, Sequences, FiniteSets

CONSTANTS
    Results,     \* bound: timestamps of the results that arrive, in any order
    SixBound,    \* places in rq_six_dof, 99
    SolveMax,    \* SOLVE_MAX_QUEUE, 300: capacity and limit of solve_task_queue_
    MqttMax,     \* MQTT_DATA_MAX_QUEUE, 500
    ErrMax,      \* MQTT_ERR_MAX_QUEUE, 100
    MaxHist,     \* MAX_HIST, 10
    MaxWarnings  \* bound: connection losses and other warnings in a run

ASSUME OutputterAssumption ==
    /\ SixBound \in Nat \ {0} /\ SolveMax \in Nat \ {0} /\ MqttMax \in Nat \ {0}
    /\ ErrMax \in Nat \ {0} /\ MaxHist \in Nat \ {0} /\ MaxWarnings \in Nat

Threads == {"output", "solve", "mqtt", "db"}

VARIABLES
    running, workerRunning,  \* is_running_, worker_running_
    sysState, hasError,      \* system_state_ and has_error_ of SystemStateManager
    connected,               \* is_connected_ of the MQTT client
    qSix, solveQ, mqttQ, errLen,  \* the queues; errLen is the length of err_task_queue_
    hist,                    \* pos_history_
    pc, held,                \* per thread: where it is, the item it works on
    hasTask,                 \* has_task of mqttWorkerLoop
    mainPc,                  \* where main's stop() and the destructor are
    sent, warnings,          \* results that arrived, warnings reported
    taken, published, lost   \* history: results in the order outputLoop took them,
                             \* packets published, results that got no further

flags == <<running, workerRunning, sysState, mainPc>>
link == <<connected, hasError, errLen, warnings>>
source == <<qSix, sent>>
vars == <<running, workerRunning, sysState, hasError, connected, qSix, solveQ, mqttQ, errLen,
          hist, pc, held, hasTask, mainPc, sent, warnings, taken, published, lost>>

\* The constructor has started the three workers; start() starts outputLoop.
Init == /\ running = FALSE /\ workerRunning = TRUE
        /\ sysState = "IDLE" /\ hasError = FALSE /\ connected = FALSE
        /\ qSix = <<>> /\ solveQ = <<>> /\ mqttQ = <<>> /\ errLen = 0 /\ hist = <<>>
        /\ pc = [t \in Threads |-> IF t = "output" THEN "none" ELSE "test"]
        /\ held = [t \in Threads |-> 0] /\ hasTask = FALSE /\ mainPc = "start"
        /\ sent = {} /\ warnings = 0 /\ taken = <<>> /\ published = <<>> /\ lost = {}

-----------------------------------------------------------------------------
(* The shared condition variable and the queues *)

Waiting == {t \in Threads : pc[t] = "wait"}

\* Thread t goes to state s and task_cv_.notify_one() wakes one waiting thread
MoveAndNotify(t, s) ==
    IF Waiting = {} THEN pc' = [pc EXCEPT ![t] = s]
    ELSE \E u \in Waiting : pc' = [pc EXCEPT ![t] = s, ![u] = "test"]

\* What enqueueWithDropOld's loop leaves: at most max - 1 items, the newest
DropOld(q, max) == IF Len(q) >= max THEN SubSeq(q, Len(q) - max + 2, Len(q)) ELSE q

\* ... then enqueue, which returns false when capacity - 1 items are queued
Fits(q, max) == Len(DropOld(q, max)) < max - 1
EnqueueWithDropOld(q, x, max) == IF Fits(q, max) THEN Append(DropOld(q, max), x) ELSE DropOld(q, max)

\* reportError(STATUS_WARNING): has_error_, then the push callback queues the
\* warning (dropped, unnoticed, when err_task_queue_ is full)
ReportWarning == /\ hasError' = TRUE
                 /\ errLen' = IF errLen < ErrMax - 1 THEN errLen + 1 ELSE errLen

-----------------------------------------------------------------------------
(* The threads around the outputter *)

\* A pool worker enqueues a result; results overtake each other in the pool
SixEnqueue(r) == /\ r \notin sent /\ Len(qSix) < SixBound
                 /\ qSix' = Append(qSix, r) /\ sent' = sent \cup {r}
                 /\ UNCHANGED <<flags, link, solveQ, mqttQ, hist, pc, held, hasTask, taken, published, lost>>

\* MQTT_TYPE_CONNACK
Connect == /\ ~connected /\ connected' = TRUE
           /\ UNCHANGED <<flags, hasError, errLen, warnings, source, solveQ, mqttQ, hist, pc, held,
                          hasTask, taken, published, lost>>

\* A warning is queued and one waiting thread is woken
Warn == /\ warnings < MaxWarnings
        /\ ReportWarning /\ warnings' = warnings + 1
        /\ IF Waiting = {} THEN UNCHANGED pc
           ELSE \E u \in Waiting : pc' = [pc EXCEPT ![u] = "test"]
        /\ UNCHANGED <<flags, source, solveQ, mqttQ, hist, held, hasTask, taken, published, lost>>

\* MQTT_TYPE_DISCONNECT: connCallback(false) reports a warning
Disconnect == Warn /\ connected' = FALSE

\* The fuser reports frames it cannot match
FuserWarns == Warn /\ UNCHANGED connected

-----------------------------------------------------------------------------
(* What every loop does *)

Runs(t) == IF t = "output" THEN running /\ sysState # "FATAL_ERROR" ELSE workerRunning

Test(t) == /\ pc[t] = "test"
           /\ pc' = [pc EXCEPT ![t] = IF Runs(t) THEN "poll" ELSE "exited"]
           /\ hasTask' = IF t = "mqtt" THEN FALSE ELSE hasTask
           /\ UNCHANGED <<flags, link, source, solveQ, mqttQ, hist, held, taken, published, lost>>

\* Between finding the queue empty and waiting, a notification is missed
Block(t) == /\ pc[t] = "block"
            /\ pc' = [pc EXCEPT ![t] = "wait"]
            /\ UNCHANGED <<flags, link, source, solveQ, mqttQ, hist, held, hasTask, taken, published, lost>>

\* Mutant: wait instead of wait_for
MTimeout(t) == FALSE /\ UNCHANGED vars

\* 50 ms have passed, or the wake-up is spurious
Timeout(t) == /\ pc[t] = "wait"
              /\ pc' = [pc EXCEPT ![t] = "test"]
              /\ UNCHANGED <<flags, link, source, solveQ, mqttQ, hist, held, hasTask, taken, published, lost>>

-----------------------------------------------------------------------------
(* outputLoop; writeToDatabase queues nothing *)

OutputPoll == /\ pc["output"] = "poll"
              /\ IF qSix = <<>>
                 THEN pc' = [pc EXCEPT !["output"] = "block"] /\ UNCHANGED <<qSix, held, taken>>
                 ELSE /\ pc' = [pc EXCEPT !["output"] = "push"]
                      /\ held' = [held EXCEPT !["output"] = Head(qSix)]
                      /\ qSix' = Tail(qSix) /\ taken' = Append(taken, Head(qSix))
              /\ UNCHANGED <<flags, link, sent, solveQ, mqttQ, hist, hasTask, published, lost>>

\* pushRealTimeData
OutputPush == /\ pc["output"] = "push"
              /\ solveQ' = EnqueueWithDropOld(solveQ, held["output"], SolveMax)
              /\ lost' = IF Fits(solveQ, SolveMax) THEN lost ELSE lost \cup {held["output"]}
              /\ MoveAndNotify("output", "test")
              /\ held' = [held EXCEPT !["output"] = 0]
              /\ UNCHANGED <<flags, link, source, mqttQ, hist, hasTask, taken, published>>

-----------------------------------------------------------------------------
(* solveWorkerLoop *)

SolvePoll == /\ pc["solve"] = "poll"
             /\ IF solveQ = <<>>
                THEN pc' = [pc EXCEPT !["solve"] = "block"] /\ UNCHANGED <<solveQ, held>>
                ELSE /\ pc' = [pc EXCEPT !["solve"] = "push"]
                     /\ held' = [held EXCEPT !["solve"] = Head(solveQ)]
                     /\ solveQ' = Tail(solveQ)
             /\ UNCHANGED <<flags, link, source, mqttQ, hist, hasTask, taken, published, lost>>

PushHistory(h, r) == IF Len(h) < MaxHist THEN Append(h, r) ELSE Append(Tail(h), r)

\* calcShipBowSternPos records the position; the accelerations, from the
\* first three records, are data of the packet
SolvePush == /\ pc["solve"] = "push"
             /\ hist' = PushHistory(hist, held["solve"])
             /\ mqttQ' = EnqueueWithDropOld(mqttQ, held["solve"], MqttMax)
             /\ lost' = IF Fits(mqttQ, MqttMax) THEN lost ELSE lost \cup {held["solve"]}
             /\ MoveAndNotify("solve", "test")
             /\ held' = [held EXCEPT !["solve"] = 0]
             /\ UNCHANGED <<flags, link, source, solveQ, hasTask, taken, published>>

-----------------------------------------------------------------------------
(* mqttWorkerLoop: data first, then one warning, and a wait if neither *)

\* Mutant: the packet stays queued until it has been published
MMqttPoll == /\ pc["mqtt"] = "poll"
             /\ IF mqttQ = <<>>
                THEN pc' = [pc EXCEPT !["mqtt"] = "pollErr"] /\ UNCHANGED <<mqttQ, held, hasTask>>
                ELSE /\ pc' = [pc EXCEPT !["mqtt"] = "send"]
                     /\ held' = [held EXCEPT !["mqtt"] = Head(mqttQ)]
                     /\ mqttQ' = IF connected THEN Tail(mqttQ) ELSE mqttQ
                     /\ hasTask' = TRUE
             /\ UNCHANGED <<flags, link, source, solveQ, hist, taken, published, lost>>

MqttPoll == /\ pc["mqtt"] = "poll"
            /\ IF mqttQ = <<>>
               THEN pc' = [pc EXCEPT !["mqtt"] = "pollErr"] /\ UNCHANGED <<mqttQ, held, hasTask>>
               ELSE /\ pc' = [pc EXCEPT !["mqtt"] = "send"]
                    /\ held' = [held EXCEPT !["mqtt"] = Head(mqttQ)]
                    /\ mqttQ' = Tail(mqttQ) /\ hasTask' = TRUE
            /\ UNCHANGED <<flags, link, source, solveQ, hist, taken, published, lost>>

\* isConnected() and publish, which fails when the link goes down meanwhile;
\* the packet has left the queue in either case
MqttSend == /\ pc["mqtt"] = "send"
            /\ \/ connected /\ published' = Append(published, held["mqtt"]) /\ UNCHANGED lost
               \/ lost' = lost \cup {held["mqtt"]} /\ UNCHANGED published
            /\ pc' = [pc EXCEPT !["mqtt"] = "pollErr"]
            /\ held' = [held EXCEPT !["mqtt"] = 0]
            /\ UNCHANGED <<flags, link, source, solveQ, mqttQ, hist, hasTask, taken>>

MqttPollErr == /\ pc["mqtt"] = "pollErr"
               /\ errLen' = IF errLen > 0 THEN errLen - 1 ELSE 0
               /\ pc' = [pc EXCEPT !["mqtt"] = IF errLen > 0 \/ hasTask THEN "test" ELSE "block"]
               /\ UNCHANGED <<flags, connected, hasError, warnings, source, solveQ, mqttQ, hist,
                              held, hasTask, taken, published, lost>>

\* dbWorkerLoop: db_task_queue_ has no producer
DbPoll == /\ pc["db"] = "poll"
          /\ pc' = [pc EXCEPT !["db"] = "block"]
          /\ UNCHANGED <<flags, link, source, solveQ, mqttQ, hist, held, hasTask, taken, published, lost>>

Loop(t) == \/ Test(t) \/ Block(t) \/ Timeout(t)
           \/ t = "output" /\ (OutputPoll \/ OutputPush)
           \/ t = "solve" /\ (SolvePoll \/ SolvePush)
           \/ t = "mqtt" /\ (MqttPoll \/ MqttSend \/ MqttPollErr)
           \/ t = "db" /\ DbPoll

-----------------------------------------------------------------------------
(* main: start(), later stop(), and the destructor on the way out *)

work == <<source, solveQ, mqttQ, hist, held, hasTask, taken, published, lost>>
rest == <<link, work>>

Start == /\ mainPc = "start"
         /\ sysState' = "RUNNING" /\ running' = TRUE
         /\ pc' = [pc EXCEPT !["output"] = "test"] /\ mainPc' = "run"
         /\ UNCHANGED <<workerRunning, rest>>

Stop == /\ mainPc = "run"
        /\ running' = FALSE /\ mainPc' = "joinOutput"
        /\ UNCHANGED <<workerRunning, sysState, pc, rest>>

JoinOutput == /\ mainPc = "joinOutput" /\ pc["output"] = "exited"
              /\ sysState' = "IDLE" /\ mainPc' = "stopped"
              /\ UNCHANGED <<running, workerRunning, pc, rest>>

StopWorkers == /\ mainPc = "stopped"
               /\ workerRunning' = FALSE /\ mainPc' = "notify"
               /\ UNCHANGED <<running, sysState, pc, rest>>

\* notify_all, without task_mtx_
NotifyAll == /\ mainPc = "notify"
             /\ pc' = [t \in Threads |-> IF t \in Waiting THEN "test" ELSE pc[t]]
             /\ mainPc' = "joinWorkers"
             /\ UNCHANGED <<running, workerRunning, sysState, rest>>

JoinWorkers == /\ mainPc = "joinWorkers" /\ \A t \in Threads : pc[t] = "exited"
               /\ mainPc' = "stopMqtt"
               /\ UNCHANGED <<running, workerRunning, sysState, pc, rest>>

\* mqtt_.stop(), whose connCallback(false) reports the lost connection; nobody
\* waits any more.  A client that never was started has nothing to stop.
StopMqtt == /\ mainPc = "stopMqtt"
            /\ mainPc' = "done"
            /\ connected' = FALSE /\ ReportWarning
            /\ UNCHANGED <<running, workerRunning, sysState, pc, warnings, work>>

Stopping == JoinOutput \/ StopWorkers \/ NotifyAll \/ JoinWorkers \/ StopMqtt

Next == \/ \E r \in Results : SixEnqueue(r)
        \/ Connect \/ Disconnect \/ FuserWarns
        \/ \E t \in Threads : Loop(t)
        \/ Start \/ Stop \/ Stopping

Spec == Init /\ [][Next]_vars

\* Threads are scheduled and timeouts expire.  Nothing is assumed of the
\* broker, of the pool, or of when main stops the outputter.
FairSpec == Spec /\ WF_vars(Stopping) /\ \A t \in Threads : WF_vars(Loop(t))

-----------------------------------------------------------------------------
(* Properties *)

States == {"test", "poll", "block", "wait", "push", "send", "pollErr", "exited", "none"}

\* Types, and the limits of the queues and of the position history.
TypeOK == /\ running \in BOOLEAN /\ workerRunning \in BOOLEAN /\ connected \in BOOLEAN
          /\ hasError \in BOOLEAN /\ hasTask \in BOOLEAN
          /\ sysState \in {"IDLE", "RUNNING"}
          /\ mainPc \in {"start", "run", "joinOutput", "stopped", "notify", "joinWorkers",
                      "stopMqtt", "done"}
          /\ pc \in [Threads -> States] /\ held \in [Threads -> Results \cup {0}]
          /\ qSix \in Seq(Results) /\ solveQ \in Seq(Results) /\ mqttQ \in Seq(Results)
          /\ hist \in Seq(Results) /\ taken \in Seq(Results) /\ published \in Seq(Results)
          /\ Len(qSix) <= SixBound /\ Len(solveQ) < SolveMax /\ Len(mqttQ) < MqttMax
          /\ errLen \in 0 .. ErrMax - 1 /\ Len(hist) <= MaxHist
          /\ warnings \in 0 .. MaxWarnings /\ sent \subseteq Results /\ lost \subseteq Results

Index(s, x) == CHOOSE i \in DOMAIN s : s[i] = x

\* The broker receives packets in the order in which outputLoop took the
\* results, each at most once, whatever was lost on the way.
PublishedInOrder == \A i, j \in DOMAIN published :
                       i < j => Index(taken, published[i]) < Index(taken, published[j])

Elems(s) == {s[i] : i \in DOMAIN s}

\* What thread t has taken from one queue and not yet put into the next
Carries(t) == pc[t] = IF t = "mqtt" THEN "send" ELSE "push"
InFlight(t) == IF Carries(t) THEN <<held[t]>> ELSE <<>>

\* All results on their way, the one closest to the broker first
Flow == (((InFlight("mqtt") \o mqttQ) \o InFlight("solve")) \o solveQ) \o InFlight("output")

\* The three threads and two queues together are one pipe that may lose
\* results and never repeats, swaps or forgets one: every step of every thread
\* lets a result enter, deliver the oldest, lose one and record it, or nothing.
Pipe == INSTANCE LossyPipe WITH Items <- Results, pipe <- Flow, delivered <- published
ImplementsPipe == Pipe!PipeSpec

\* Although a notification may wake the wrong thread or come too early, a
\* result that was taken gets through the workers while they run: it is
\* published, or lost to a full queue or a broken connection.
ResultsGetThrough == \A r \in Results :
    (r \in Elems(taken)) ~> (r \in Elems(published) \cup lost \/ ~workerRunning)

\* stop() and the outputter's destructor body return: no thread sleeps through
\* notify_all.  The join of the MQTT client's own thread comes after that, in
\* the destructor of mqtt_.
ShutdownCompletes == (mainPc = "joinOutput") ~> (mainPc = "done")
=============================================================================
