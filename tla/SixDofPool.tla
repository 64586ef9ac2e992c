----------------------------- MODULE SixDofPool -----------------------------
(***************************************************************************)
(* The threads of SixDofCalculator (src/six_dof_calculator.cpp): calcLoop  *)
(* turns fused frames into tasks, the pool workers run them and put the    *)
(* results in rq_six_dof, stop() shuts both down.  What a task computes is *)
(* the subject of SixDof.                                                  *)
(*                                                                         *)
(* Frames are numbered in the order calcLoop dequeues them.  A step that   *)
(* the code makes while it holds task_mtx_ is one action.  enqueue is      *)
(* taken here to be atomic; RingQueue shows what six producers really do.  *)
(***************************************************************************)
EXTENDS Integers, Sequences, FiniteSets

CONSTANTS
    Workers,        \* the pool threads: 6, or none when a config file is missing
    MaxQueueSize,   \* MAX_QUEUE_SIZE, 30
    MaxRetryQueue,  \* MAX_RETRY_QUEUE, 5
    OutBound,       \* results that fit in rq_six_dof, 99
    MaxFrames       \* bound: frames calcLoop dequeues in a run

ASSUME PoolAssumption ==
    /\ MaxQueueSize \in Nat \ {0} /\ MaxRetryQueue \in Nat
    /\ OutBound \in Nat \ {0} /\ MaxFrames \in Nat
    /\ IsFiniteSet(Workers)

VARIABLES
    running,      \* is_running_
    poolRunning,  \* pool_running_
    calcPc,       \* where calcLoop is
    stopPc,       \* where stop() is
    next,         \* frames dequeued so far: frame next is the newest
    tasks,        \* tasks_
    wPc, frame, retry,  \* per worker: where it is, the frame of its task, retry
    outLen,       \* results waiting in rq_six_dof
    produced, reported, dropped  \* history: frames whose result was enqueued,
                                 \* was reported lost, was popped on overflow

taskVars == <<next, tasks, dropped>>
workVars == <<wPc, frame, retry>>
resultVars == <<outLen, produced, reported>>
stopVars == <<running, poolRunning, stopPc>>
vars == <<running, poolRunning, calcPc, stopPc, next, tasks, wPc, frame, retry,
          outLen, produced, reported, dropped>>

Frames == 1 .. MaxFrames
Waiting == {w \in Workers : wPc[w] = "wait"}  \* blocked in cv_.wait
Awake == {w \in Workers : wPc[w] = "lock"}    \* about to evaluate the predicate

\* The constructor starts the workers, before start() creates calcLoop.
Init == /\ running = FALSE /\ poolRunning = TRUE
        /\ calcPc = "none" /\ stopPc = "none"
        /\ next = 0 /\ tasks = <<>>
        /\ wPc = [w \in Workers |-> "lock"]
        /\ frame = [w \in Workers |-> 0] /\ retry = [w \in Workers |-> 0]
        /\ outLen = 0 /\ produced = {} /\ reported = {} /\ dropped = {}

-----------------------------------------------------------------------------
(* start() and calcLoop *)

\* main starts the calculator once, before it can stop it
Start == /\ ~running /\ calcPc = "none" /\ stopPc = "none"
         /\ running' = TRUE /\ calcPc' = "loop"
         /\ UNCHANGED <<poolRunning, stopPc, taskVars, workVars, resultVars>>

\* is_running_ is read, then the frame is dequeued: two steps
CalcTest == /\ calcPc = "loop"
            /\ calcPc' = IF running THEN "dequeue" ELSE "exited"
            /\ UNCHANGED <<stopVars, taskVars, workVars, resultVars>>

CalcEmpty == /\ calcPc = "dequeue"
             /\ calcPc' = "loop"
             /\ UNCHANGED <<stopVars, taskVars, workVars, resultVars>>

CalcDequeue == /\ calcPc = "dequeue" /\ next < MaxFrames
               /\ next' = next + 1 /\ calcPc' = "push"
               /\ UNCHANGED <<stopVars, tasks, dropped, workVars, resultVars>>

\* cv_.notify_one(): wakes some waiting worker, if there is one
NotifyOne == IF Waiting = {} THEN UNCHANGED wPc
             ELSE \E w \in Waiting : wPc' = [wPc EXCEPT ![w] = "lock"]

\* Mutant: the worker is woken only when the queue was empty
MCalcPush == /\ calcPc = "push"
             /\ tasks' = Append(IF Len(tasks) >= MaxQueueSize THEN Tail(tasks) ELSE tasks, next)
             /\ dropped' = IF Len(tasks) >= MaxQueueSize THEN dropped \cup {Head(tasks)} ELSE dropped
             /\ IF tasks = <<>> THEN NotifyOne ELSE UNCHANGED wPc
             /\ calcPc' = "loop"
             /\ UNCHANGED <<stopVars, next, frame, retry, resultVars>>

\* Under task_mtx_: pop the oldest task of a full queue, push, notify_one
CalcPush == /\ calcPc = "push"
            /\ tasks' = Append(IF Len(tasks) >= MaxQueueSize THEN Tail(tasks) ELSE tasks, next)
            /\ dropped' = IF Len(tasks) >= MaxQueueSize THEN dropped \cup {Head(tasks)} ELSE dropped
            /\ NotifyOne
            /\ calcPc' = "loop"
            /\ UNCHANGED <<stopVars, next, frame, retry, resultVars>>

CalcLoop == CalcTest \/ CalcEmpty \/ CalcDequeue \/ CalcPush

-----------------------------------------------------------------------------
(* workerThread *)

\* The predicate of cv_.wait is false: block, releasing task_mtx_
Sleep(w) == /\ wPc[w] = "lock" /\ poolRunning /\ tasks = <<>>
            /\ wPc' = [wPc EXCEPT ![w] = "wait"]
            /\ UNCHANGED <<stopVars, calcPc, taskVars, frame, retry, resultVars>>

SpuriousWake(w) == /\ wPc[w] = "wait"
                   /\ wPc' = [wPc EXCEPT ![w] = "lock"]
                   /\ UNCHANGED <<stopVars, calcPc, taskVars, frame, retry, resultVars>>

\* Mutant: a stopped pool exits without running the tasks that are left
MExit(w) == /\ wPc[w] = "lock" /\ ~poolRunning
            /\ wPc' = [wPc EXCEPT ![w] = "exited"]
            /\ UNCHANGED <<stopVars, calcPc, taskVars, frame, retry, resultVars>>

Exit(w) == /\ wPc[w] = "lock" /\ ~poolRunning /\ tasks = <<>>
           /\ wPc' = [wPc EXCEPT ![w] = "exited"]
           /\ UNCHANGED <<stopVars, calcPc, taskVars, frame, retry, resultVars>>

Pop(w) == /\ wPc[w] = "lock" /\ tasks # <<>>
          /\ frame' = [frame EXCEPT ![w] = Head(tasks)]
          /\ tasks' = Tail(tasks)
          /\ wPc' = [wPc EXCEPT ![w] = "calc"]
          /\ retry' = [retry EXCEPT ![w] = 0]
          /\ UNCHANGED <<stopVars, calcPc, next, dropped, resultVars>>

\* auto res = calculateSixDof(c)
Calculate(w) == /\ wPc[w] = "calc"
                /\ wPc' = [wPc EXCEPT ![w] = "enqueue"]
                /\ UNCHANGED <<stopVars, calcPc, taskVars, frame, retry, resultVars>>

\* Mutant: the test is off by one, so the loss is not logged
MReport(w) == reported' = IF retry[w] > MaxRetryQueue
                          THEN reported \cup {frame[w]} ELSE reported

\* if (retry >= MAX_RETRY_QUEUE) LOG_ERROR(...): the result is reported lost
Report(w) == reported' = IF retry[w] >= MaxRetryQueue
                         THEN reported \cup {frame[w]} ELSE reported

Enqueue(w) == /\ wPc[w] = "enqueue" /\ outLen < OutBound
              /\ outLen' = outLen + 1
              /\ produced' = produced \cup {frame[w]}
              /\ Report(w)
              /\ wPc' = [wPc EXCEPT ![w] = "lock"]
              /\ UNCHANGED <<stopVars, calcPc, taskVars, frame, retry>>

\* enqueue returned false and retry < MAX_RETRY_QUEUE: sleep
Backoff(w) == /\ wPc[w] = "enqueue" /\ outLen >= OutBound /\ retry[w] < MaxRetryQueue
              /\ wPc' = [wPc EXCEPT ![w] = "backoff"]
              /\ UNCHANGED <<stopVars, calcPc, taskVars, frame, retry, resultVars>>

\* Mutant: retry is not counted, so the worker never gives up
MRetryAgain(w) == /\ wPc[w] = "backoff"
                  /\ wPc' = [wPc EXCEPT ![w] = "enqueue"]
                  /\ UNCHANGED <<stopVars, calcPc, taskVars, frame, retry, resultVars>>

RetryAgain(w) == /\ wPc[w] = "backoff"
                 /\ retry' = [retry EXCEPT ![w] = @ + 1]
                 /\ wPc' = [wPc EXCEPT ![w] = "enqueue"]
                 /\ UNCHANGED <<stopVars, calcPc, taskVars, frame, resultVars>>

\* enqueue returned false after the last retry: the result is lost
GiveUp(w) == /\ wPc[w] = "enqueue" /\ outLen >= OutBound /\ retry[w] >= MaxRetryQueue
             /\ Report(w)
             /\ wPc' = [wPc EXCEPT ![w] = "lock"]
             /\ UNCHANGED <<stopVars, calcPc, taskVars, frame, retry, outLen, produced>>

WorkerThread(w) == \/ Sleep(w) \/ Exit(w) \/ Pop(w) \/ Calculate(w)
                   \/ Enqueue(w) \/ Backoff(w) \/ RetryAgain(w) \/ GiveUp(w)

-----------------------------------------------------------------------------
(* stop(), called by main, and the outputter that empties rq_six_dof *)

StopCalc == /\ stopPc = "none" /\ calcPc # "none"
            /\ running' = FALSE /\ stopPc' = "pool"
            /\ UNCHANGED <<poolRunning, calcPc, taskVars, workVars, resultVars>>

StopPool == /\ stopPc = "pool"
            /\ poolRunning' = FALSE /\ stopPc' = "notify"
            /\ UNCHANGED <<running, calcPc, taskVars, workVars, resultVars>>

\* Mutant: only one worker is told
MNotifyAll == /\ stopPc = "notify"
              /\ NotifyOne
              /\ stopPc' = "joinWorkers"
              /\ UNCHANGED <<running, poolRunning, calcPc, taskVars, frame, retry, resultVars>>

NotifyAll == /\ stopPc = "notify"
             /\ wPc' = [w \in Workers |-> IF w \in Waiting THEN "lock" ELSE wPc[w]]
             /\ stopPc' = "joinWorkers"
             /\ UNCHANGED <<running, poolRunning, calcPc, taskVars, frame, retry, resultVars>>

JoinWorkers == /\ stopPc = "joinWorkers" /\ \A w \in Workers : wPc[w] = "exited"
               /\ stopPc' = "joinCalc"
               /\ UNCHANGED <<running, poolRunning, calcPc, taskVars, workVars, resultVars>>

JoinCalc == /\ stopPc = "joinCalc" /\ calcPc = "exited"
            /\ stopPc' = "done"
            /\ UNCHANGED <<running, poolRunning, calcPc, taskVars, workVars, resultVars>>

Stopping == StopPool \/ NotifyAll \/ JoinWorkers \/ JoinCalc

OutDequeue == /\ outLen > 0
              /\ outLen' = outLen - 1
              /\ UNCHANGED <<stopVars, calcPc, taskVars, workVars, produced, reported>>

-----------------------------------------------------------------------------
Next == \/ Start \/ CalcLoop
        \/ \E w \in Workers : WorkerThread(w) \/ SpuriousWake(w)
        \/ StopCalc \/ Stopping \/ OutDequeue

Spec == Init /\ [][Next]_vars

\* The threads are scheduled.  Nothing is assumed of the outputter (main
\* stops it first), of spurious wake-ups, or of when stop() is called.
FairSpec == /\ Spec /\ WF_vars(CalcLoop) /\ WF_vars(Stopping)
            /\ \A w \in Workers : WF_vars(WorkerThread(w))

-----------------------------------------------------------------------------
(* Properties *)

\* Types, and the limits of the task queue, the retries and the result queue.
TypeOK == /\ running \in BOOLEAN /\ poolRunning \in BOOLEAN
          /\ calcPc \in {"none", "loop", "dequeue", "push", "exited"}
          /\ stopPc \in {"none", "pool", "notify", "joinWorkers", "joinCalc", "done"}
          /\ next \in 0 .. MaxFrames
          /\ tasks \in Seq(Frames) /\ Len(tasks) <= MaxQueueSize
          /\ wPc \in [Workers -> {"lock", "wait", "calc", "enqueue", "backoff", "exited"}]
          /\ frame \in [Workers -> 0 .. MaxFrames]
          /\ retry \in [Workers -> 0 .. MaxRetryQueue]
          /\ outLen \in 0 .. OutBound
          /\ produced \subseteq Frames /\ reported \subseteq Frames /\ dropped \subseteq Frames

\* No task waits while a worker sleeps: as long as some worker is blocked in
\* cv_.wait, every queued task has a worker that was woken and will look.
WorkConserving == Waiting # {} => Len(tasks) <= Cardinality(Awake)

Queued == {tasks[i] : i \in DOMAIN tasks}
Busy(f) == \E w \in Workers : frame[w] = f /\ wPc[w] \in {"calc", "enqueue", "backoff"}

\* No frame is calculated twice or lost without a trace: a frame is in one
\* place only, and one that is in none has a result, was dropped by the full
\* task queue, or was reported lost.
FrameInOnePlace ==
    \A f \in 1 .. next :
        /\ Cardinality({w \in Workers : frame[w] = f /\ wPc[w] \in {"calc", "enqueue", "backoff"}}) <= 1
        /\ ~(Busy(f) /\ f \in Queued)
        /\ \/ f \in Queued \cup produced \cup dropped \cup reported
           \/ Busy(f)
           \/ f = next /\ calcPc = "push"

\* Frames waiting for a worker, oldest first, with the one calcLoop has taken
\* and not yet pushed; and the frames the workers are at
Waits == IF calcPc = "push" THEN Append(tasks, next) ELSE tasks
InWork == {frame[w] : w \in {v \in Workers : wPc[v] \in {"calc", "enqueue", "backoff"}}}

\* Whatever the workers, the overflow of the task queue, the retries and stop()
\* do, frames are started or dropped oldest first, and a started frame is
\* finished once, with a result or a report of its loss.
Ledger == INSTANCE FrameLedger WITH taken <- next, waiting <- Waits, working <- InWork
ImplementsLedger == Ledger!LedgerSpec

\* stop() joins the workers before calcLoop, so calcLoop may push after the
\* last worker has left; that strands the one frame it was holding, no more.
\* A pool without workers (its configuration could not be read) is another
\* matter: there nothing takes what calcLoop pushes.
AtMostOneStranded == stopPc = "done" => Len(tasks) <= 1

\* stop() returns, whatever the workers were doing and even though nobody
\* empties rq_six_dof any more.
StopReturns == stopPc = "pool" ~> stopPc = "done"

\* Every frame taken from rq_fuse_cloud is settled: it has a result, was
\* dropped or reported, or stop() stranded it.
EveryFrameSettles ==
    \A f \in Frames : (next = f) ~> \/ f \in produced \cup dropped \cup reported
                                    \/ stopPc = "done"
=============================================================================
