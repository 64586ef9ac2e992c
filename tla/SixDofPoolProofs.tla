------------------------- MODULE SixDofPoolProofs -------------------------
(***************************************************************************)
(* The pool of SixDofCalculator for any number of workers, retries and     *)
(* frames, and any bounds of its queues: every frame is in one place, no   *)
(* task waits while a worker sleeps, and stop() strands at most one frame. *)
(***************************************************************************)
EXTENDS SixDofPool, FiniteSetTheorems, TLAPS

-----------------------------------------------------------------------------
(* Sequences of tasks *)

Items(s) == {s[i] : i \in DOMAIN s}
NoRepeats(s) == \A i, j \in 1 .. Len(s) : i # j => s[i] # s[j]

\* pop_front removes one task and its frame.
LEMMA PopFront ==
    ASSUME NEW s \in Seq(Frames), s # <<>>
    PROVE  /\ Head(s) \in Frames /\ Tail(s) \in Seq(Frames) /\ Len(Tail(s)) = Len(s) - 1
           /\ Items(s) = Items(Tail(s)) \cup {Head(s)}
           /\ NoRepeats(s) => NoRepeats(Tail(s)) /\ Head(s) \notin Items(Tail(s))
<1>1. /\ Head(s) \in Frames /\ Tail(s) \in Seq(Frames) /\ Len(Tail(s)) = Len(s) - 1
      /\ Head(s) = s[1] /\ Len(s) \in Nat \ {0}
      /\ DOMAIN s = 1 .. Len(s) /\ DOMAIN Tail(s) = 1 .. Len(s) - 1
      /\ \A i \in 1 .. Len(s) - 1 : Tail(s)[i] = s[i + 1]
  OBVIOUS
<1>2. Items(s) = Items(Tail(s)) \cup {Head(s)}
  <2>1. ASSUME NEW x \in Items(s) PROVE x \in Items(Tail(s)) \cup {Head(s)}
    <3>1. PICK i \in 1 .. Len(s) : x = s[i]
      BY <1>1, <2>1 DEF Items
    <3>2. CASE i = 1
      BY <1>1, <3>1, <3>2
    <3>3. CASE i # 1
      <4>1. i - 1 \in 1 .. Len(s) - 1 /\ (i - 1) + 1 = i
        BY <1>1, <3>3
      <4>2. x = Tail(s)[i - 1]
        BY <1>1, <3>1, <4>1
      <4> QED BY <1>1, <4>1, <4>2 DEF Items
    <3> QED BY <3>2, <3>3
  <2>2. ASSUME NEW x \in Items(Tail(s)) \cup {Head(s)} PROVE x \in Items(s)
    <3>1. CASE x = Head(s)
      <4>1. 1 \in 1 .. Len(s)
        BY <1>1
      <4> QED BY <1>1, <3>1, <4>1 DEF Items
    <3>2. CASE x \in Items(Tail(s))
      <4>1. PICK i \in 1 .. Len(s) - 1 : x = Tail(s)[i]
        BY <1>1, <3>2 DEF Items
      <4>2. i + 1 \in 1 .. Len(s) /\ x = s[i + 1]
        BY <1>1, <4>1
      <4> QED BY <1>1, <4>2 DEF Items
    <3> QED BY <2>2, <3>1, <3>2
  <2> QED BY <2>1, <2>2
<1>3. ASSUME NoRepeats(s) PROVE NoRepeats(Tail(s)) /\ Head(s) \notin Items(Tail(s))
  <2>1. ASSUME NEW i \in 1 .. Len(s) - 1, NEW j \in 1 .. Len(s) - 1, i # j
        PROVE  Tail(s)[i] # Tail(s)[j]
    <3>1. i + 1 \in 1 .. Len(s) /\ j + 1 \in 1 .. Len(s) /\ i + 1 # j + 1
      BY <1>1, <2>1
    <3> QED BY <1>1, <1>3, <3>1 DEF NoRepeats
  <2>2. ASSUME Head(s) \in Items(Tail(s)) PROVE FALSE
    <3>1. PICK i \in 1 .. Len(s) - 1 : s[1] = Tail(s)[i]
      BY <1>1, <2>2 DEF Items
    <3>2. 1 \in 1 .. Len(s) /\ i + 1 \in 1 .. Len(s) /\ i + 1 # 1
      BY <1>1
    <3> QED BY <1>1, <1>3, <3>1, <3>2 DEF NoRepeats
  <2> QED BY <1>1, <2>1, <2>2 DEF NoRepeats
<1> QED BY <1>1, <1>2, <1>3

\* push_back adds one.
LEMMA PushBack ==
    ASSUME NEW s \in Seq(Frames), NEW f \in Frames
    PROVE  /\ Append(s, f) \in Seq(Frames) /\ Len(Append(s, f)) = Len(s) + 1
           /\ Items(Append(s, f)) = Items(s) \cup {f}
           /\ NoRepeats(s) /\ f \notin Items(s) => NoRepeats(Append(s, f))
<1>1. /\ Append(s, f) \in Seq(Frames) /\ Len(Append(s, f)) = Len(s) + 1 /\ Len(s) \in Nat
      /\ DOMAIN s = 1 .. Len(s) /\ DOMAIN Append(s, f) = 1 .. Len(s) + 1
      /\ Append(s, f)[Len(s) + 1] = f
      /\ \A i \in 1 .. Len(s) : Append(s, f)[i] = s[i]
  OBVIOUS
<1>2. \A i \in 1 .. Len(s) + 1 : i = Len(s) + 1 \/ i \in 1 .. Len(s)
  BY <1>1
<1>3. \A i \in 1 .. Len(s) : i \in 1 .. Len(s) + 1
  BY <1>1
<1>4. Len(s) + 1 \in 1 .. Len(s) + 1
  BY <1>1
<1>5. Items(Append(s, f)) = Items(s) \cup {f}
  BY <1>1, <1>2, <1>3, <1>4, Zenon DEF Items
<1>6. ASSUME NoRepeats(s), f \notin Items(s) PROVE NoRepeats(Append(s, f))
  BY <1>1, <1>2, <1>6 DEF NoRepeats, Items
<1> QED BY <1>1, <1>5, <1>6

-----------------------------------------------------------------------------
(* The invariant *)

Working(w) == wPc[w] \in {"calc", "enqueue", "backoff"}

\* The tasks are of different frames, and of frames calcLoop has handed over.
QueueInv == /\ NoRepeats(tasks)
            /\ \A f \in Items(tasks) : f \in 1 .. next /\ (calcPc = "push" => f # next)
            /\ calcPc = "push" => next >= 1

\* A worker's frame is no one else's, not queued, and was handed over.
WorkerInv ==
    /\ \A w \in Workers : Working(w) =>
          /\ frame[w] \in 1 .. next /\ frame[w] \notin Items(tasks)
          /\ calcPc = "push" => frame[w] # next
    /\ \A v, w \in Workers : Working(v) /\ Working(w) /\ v # w => frame[v] # frame[w]

\* Every frame that was dequeued is somewhere, or was settled.
Accounted == \A f \in 1 .. next :
    \/ f \in Items(tasks) \cup produced \cup dropped \cup reported
    \/ \E w \in Workers : Working(w) /\ frame[w] = f
    \/ f = next /\ calcPc = "push"

FramesInv == QueueInv /\ WorkerInv /\ Accounted

\* A worker sleeps only while it has retries left.
RetryInv == \A w \in Workers : wPc[w] = "backoff" => retry[w] < MaxRetryQueue

\* stop(): is_running_ falls first, then pool_running_, and it joins the
\* workers only when all have left.
StopInv == /\ stopPc # "none" => ~running
           /\ ~poolRunning => stopPc \notin {"none", "pool"}
           /\ stopPc \in {"joinCalc", "done"} => \A w \in Workers : wPc[w] = "exited"

\* A worker leaves an empty queue of a stopped pool: from then on calcLoop can
\* push only the frame it is about to dequeue or holds.
Pending == IF calcPc \in {"dequeue", "push"} THEN 1 ELSE 0
LeftInv == \A w \in Workers : wPc[w] = "exited" => ~poolRunning /\ Len(tasks) + Pending <= 1

PoolInv == TypeOK /\ FramesInv /\ RetryInv /\ StopInv /\ LeftInv /\ WorkConserving

\* FramesInv says that a frame is in one place, without counting.
LEMMA OnePlace == TypeOK /\ FramesInv => FrameInOnePlace
<1> SUFFICES ASSUME TypeOK, FramesInv, NEW f \in 1 .. next
             PROVE  /\ Cardinality({w \in Workers : frame[w] = f
                                      /\ wPc[w] \in {"calc", "enqueue", "backoff"}}) <= 1
                    /\ ~(Busy(f) /\ f \in Queued)
                    /\ \/ f \in Queued \cup produced \cup dropped \cup reported
                       \/ Busy(f)
                       \/ f = next /\ calcPc = "push"
  BY DEF FrameInOnePlace
<1>1. Queued = Items(tasks)
  BY DEF Queued, Items
<1>2. Busy(f) <=> \E w \in Workers : Working(w) /\ frame[w] = f
  BY DEF Busy, Working
<1> DEFINE B == {w \in Workers : frame[w] = f /\ wPc[w] \in {"calc", "enqueue", "backoff"}}
<1>3. Cardinality(B) <= 1
  <2>1. CASE B = {}
    BY <2>1, FS_EmptySet
  <2>2. CASE B # {}
    <3>1. PICK b : b \in B
      BY <2>2
    <3>2. B = {b}
      BY <3>1 DEF FramesInv, WorkerInv, Working
    <3>3. Cardinality({b}) = 1
      BY FS_Singleton
    <3> QED BY <3>2, <3>3
  <2> QED BY <2>1, <2>2
<1>4. ~(Busy(f) /\ f \in Queued)
  BY <1>1, <1>2 DEF FramesInv, WorkerInv
<1> QED BY <1>1, <1>2, <1>3, <1>4 DEF FramesInv, Accounted

\* Steps that move no frame.
LEMMA SameFrames ==
    ASSUME FramesInv, tasks' = tasks, next' = next, frame' = frame, dropped' = dropped,
           produced' = produced, reported' = reported, calcPc' = "push" <=> calcPc = "push",
           \A w \in Workers : Working(w)' <=> Working(w)
    PROVE  FramesInv'
<1>1. QueueInv'
  BY DEF FramesInv, QueueInv
<1>2. WorkerInv'
  BY DEF FramesInv, WorkerInv
<1>3. Accounted'
  BY DEF FramesInv, Accounted
<1> QED BY <1>1, <1>2, <1>3 DEF FramesInv

\* Steps that change neither the queue nor who sleeps or wakes.
LEMMA SameSleepers ==
    ASSUME WorkConserving, tasks' = tasks,
           \A w \in Workers : (wPc'[w] = "wait" <=> wPc[w] = "wait") /\ (wPc'[w] = "lock" <=> wPc[w] = "lock")
    PROVE  WorkConserving'
<1>1. Waiting' = Waiting /\ Awake' = Awake
  BY DEF Waiting, Awake
<1> QED BY <1>1 DEF WorkConserving

\* The woken workers can be counted.
LEMMA AwakeIsFinite == IsFiniteSet(Awake) /\ Cardinality(Awake) \in Nat
  BY PoolAssumption, FS_Subset, FS_CardinalityType DEF Awake

\* notify_one, a spurious wake-up or the end of a task.
LEMMA OneMoreAwake ==
    ASSUME TypeOK, NEW w \in Workers, wPc[w] # "lock",
           wPc' = [wPc EXCEPT ![w] = "lock"]
    PROVE  Cardinality(Awake') = Cardinality(Awake) + 1
<1>1. Awake' = Awake \cup {w} /\ w \notin Awake
  BY DEF Awake, TypeOK
<1>2. Cardinality(Awake \cup {w}) = Cardinality(Awake) + 1
  BY <1>1, AwakeIsFinite, FS_AddElement
<1> QED BY <1>1, <1>2

\* A worker takes a task, waits or leaves.
LEMMA OneLessAwake ==
    ASSUME TypeOK, NEW w \in Workers, NEW s, wPc[w] = "lock", s # "lock",
           wPc' = [wPc EXCEPT ![w] = s]
    PROVE  Cardinality(Awake') = Cardinality(Awake) - 1
<1>1. Awake' = Awake \ {w} /\ w \in Awake
  BY DEF Awake, TypeOK
<1>2. Cardinality(Awake \ {w}) = Cardinality(Awake) - 1
  BY <1>1, AwakeIsFinite, FS_RemoveElement
<1> QED BY <1>1, <1>2

\* All workers have started and no frame has come.
LEMMA PoolInit == Init => PoolInv
<1> SUFFICES ASSUME Init PROVE PoolInv
  OBVIOUS
<1>1. TypeOK
  <2>1. /\ <<>> \in Seq(Frames) /\ Len(<<>>) = 0 /\ 0 \in 0 .. MaxFrames
        /\ 0 \in 0 .. MaxRetryQueue /\ 0 \in 0 .. OutBound /\ 0 <= MaxQueueSize
    BY PoolAssumption
  <2> QED BY <2>1 DEF Init, TypeOK
<1>2. FramesInv
  BY DEF Init, FramesInv, QueueInv, WorkerInv, Accounted, NoRepeats, Items, Working
<1>3. RetryInv /\ StopInv /\ LeftInv
  BY DEF Init, RetryInv, StopInv, LeftInv
<1>4. WorkConserving
  BY DEF Init, WorkConserving, Waiting
<1> QED BY <1>1, <1>2, <1>3, <1>4 DEF PoolInv

-----------------------------------------------------------------------------
(* The steps *)

\* start(), the first two steps of calcLoop, stop() and the outputter: no frame
\* moves and no worker sleeps or wakes.
LEMMA QuietStep ==
    ASSUME PoolInv,
           \/ Start \/ CalcTest \/ CalcEmpty \/ StopCalc \/ StopPool \/ JoinWorkers \/ JoinCalc
           \/ OutDequeue
    PROVE  PoolInv'
<1>1. UNCHANGED <<tasks, next, dropped, wPc, frame, retry, produced, reported>>
  BY DEF Start, CalcTest, CalcEmpty, StopCalc, StopPool, JoinWorkers, JoinCalc, OutDequeue,
     stopVars, taskVars, workVars, resultVars
<1>2. calcPc' = "push" <=> calcPc = "push"
  BY DEF Start, CalcTest, CalcEmpty, StopCalc, StopPool, JoinWorkers, JoinCalc, OutDequeue
<1>3. TypeOK'
  <2>1. outLen' \in 0 .. OutBound
    BY PoolAssumption DEF PoolInv, TypeOK, OutDequeue, Start, CalcTest, CalcEmpty, StopCalc, StopPool,
       JoinWorkers, JoinCalc, resultVars
  <2>2. running' \in BOOLEAN /\ poolRunning' \in BOOLEAN
    BY DEF PoolInv, TypeOK, OutDequeue, Start, CalcTest, CalcEmpty, StopCalc, StopPool,
       JoinWorkers, JoinCalc, stopVars
  <2>3. /\ calcPc' \in {"none", "loop", "dequeue", "push", "exited"}
        /\ stopPc' \in {"none", "pool", "notify", "joinWorkers", "joinCalc", "done"}
    BY DEF PoolInv, TypeOK, OutDequeue, Start, CalcTest, CalcEmpty, StopCalc, StopPool,
       JoinWorkers, JoinCalc, stopVars
  <2> QED BY <1>1, <2>1, <2>2, <2>3 DEF PoolInv, TypeOK
<1>4. FramesInv'
  BY <1>1, <1>2, SameFrames DEF PoolInv, Working
<1>5. RetryInv'
  BY <1>1 DEF PoolInv, RetryInv
<1>6. StopInv'
  BY <1>1 DEF PoolInv, StopInv, Start, CalcTest, CalcEmpty, StopCalc, StopPool, JoinWorkers, JoinCalc,
     OutDequeue, stopVars
<1>7. LeftInv'
  <2> SUFFICES ASSUME NEW w \in Workers, wPc[w] = "exited"
               PROVE  ~poolRunning' /\ Len(tasks') + Pending' <= 1
    BY <1>1 DEF LeftInv
  <2>1. ~poolRunning /\ Len(tasks) + Pending <= 1 /\ stopPc # "none" /\ ~running
    BY DEF PoolInv, LeftInv, StopInv
  <2>2. ~poolRunning'
    BY <2>1 DEF Start, CalcTest, CalcEmpty, StopCalc, StopPool, JoinWorkers, JoinCalc,
       OutDequeue, stopVars
  <2>3. Pending' <= Pending /\ Pending \in {0, 1} /\ Pending' \in {0, 1}
    BY <2>1 DEF Start, CalcTest, CalcEmpty, StopCalc, StopPool, JoinWorkers, JoinCalc,
       OutDequeue, Pending
  <2>4. Len(tasks) \in Nat
    BY DEF PoolInv, TypeOK
  <2> QED BY <1>1, <2>1, <2>2, <2>3, <2>4
<1>8. WorkConserving'
  BY <1>1, SameSleepers DEF PoolInv
<1> QED BY <1>3, <1>4, <1>5, <1>6, <1>7, <1>8 DEF PoolInv

\* calcLoop takes a frame from rq_fuse_cloud.
LEMMA DequeueStep == ASSUME PoolInv, CalcDequeue PROVE PoolInv'
<1>1. /\ UNCHANGED <<tasks, dropped, wPc, frame, retry, produced, reported, outLen, running,
                     poolRunning, stopPc>>
      /\ next' = next + 1 /\ calcPc = "dequeue" /\ calcPc' = "push" /\ next < MaxFrames
  BY DEF CalcDequeue, stopVars, workVars, resultVars
<1>2. next \in Nat /\ next' \in 0 .. MaxFrames /\ next' >= 1
  BY <1>1, PoolAssumption DEF PoolInv, TypeOK
<1>3. TypeOK'
  BY <1>1, <1>2 DEF PoolInv, TypeOK
<1>4. \A f \in 1 .. next : f \in 1 .. next' /\ f # next'
  BY <1>1, <1>2
<1>5. \A f \in 1 .. next' : f \in 1 .. next \/ f = next'
  BY <1>1, <1>2
<1>6. QueueInv'
  BY <1>1, <1>2, <1>4 DEF PoolInv, FramesInv, QueueInv
<1>7. WorkerInv'
  BY <1>1, <1>4 DEF PoolInv, FramesInv, WorkerInv, Working
<1>8. Accounted'
  BY <1>1, <1>5 DEF PoolInv, FramesInv, Accounted, Working
<1>9. RetryInv' /\ StopInv'
  BY <1>1 DEF PoolInv, RetryInv, StopInv
<1>10. LeftInv'
  BY <1>1 DEF PoolInv, LeftInv, Pending
<1>11. WorkConserving'
  BY <1>1, SameSleepers DEF PoolInv
<1> QED BY <1>3, <1>6, <1>7, <1>8, <1>9, <1>10, <1>11 DEF PoolInv, FramesInv

\* notify_one: a worker that is woken was asleep.
LEMMA Notified ==
    ASSUME TypeOK, NotifyOne
    PROVE  /\ wPc' \in [Workers -> {"lock", "wait", "calc", "enqueue", "backoff", "exited"}]
           /\ \A w \in Workers : \/ wPc'[w] = wPc[w]
                                 \/ wPc[w] = "wait" /\ wPc'[w] = "lock"
           /\ Waiting' \subseteq Waiting
           /\ Waiting # {} => Cardinality(Awake') = Cardinality(Awake) + 1
<1>1. CASE Waiting = {}
  <2>1. wPc' = wPc
    BY <1>1 DEF NotifyOne
  <2> QED BY <1>1, <2>1 DEF TypeOK, Waiting
<1>2. CASE Waiting # {}
  <2>1. PICK w \in Waiting : wPc' = [wPc EXCEPT ![w] = "lock"]
    BY <1>2 DEF NotifyOne
  <2>2. w \in Workers /\ wPc[w] = "wait"
    BY DEF Waiting
  <2>3. Cardinality(Awake') = Cardinality(Awake) + 1
    BY <2>1, <2>2, OneMoreAwake
  <2> QED BY <2>1, <2>2, <2>3 DEF TypeOK, Waiting
<1> QED BY <1>1, <1>2

\* calcLoop pushes a task, over the oldest one when tasks_ is full.
LEMMA PushStep == ASSUME PoolInv, CalcPush PROVE PoolInv'
<1> DEFINE full == Len(tasks) >= MaxQueueSize
           kept == IF full THEN Tail(tasks) ELSE tasks
<1>1. /\ UNCHANGED <<next, frame, retry, produced, reported, outLen, running, poolRunning, stopPc>>
      /\ calcPc = "push" /\ calcPc' = "loop" /\ NotifyOne
      /\ tasks' = Append(kept, next)
      /\ dropped' = IF full THEN dropped \cup {Head(tasks)} ELSE dropped
  BY DEF CalcPush, stopVars, resultVars
<1>2. /\ TypeOK /\ tasks \in Seq(Frames) /\ Len(tasks) \in Nat /\ Len(tasks) <= MaxQueueSize
      /\ next \in Frames /\ MaxQueueSize \in Nat \ {0}
  BY <1>1, PoolAssumption DEF PoolInv, TypeOK, FramesInv, QueueInv, Frames
<1>3. full => tasks # <<>>
  BY <1>2
<1>4. /\ kept \in Seq(Frames) /\ Len(kept) < MaxQueueSize /\ Len(kept) <= Len(tasks)
      /\ NoRepeats(kept)
      /\ Items(kept) \subseteq Items(tasks)
      /\ Items(tasks) \subseteq Items(kept) \cup dropped'
      /\ dropped \subseteq dropped' /\ dropped' \subseteq Frames
  <2>1. CASE full
    <3>1. /\ Head(tasks) \in Frames /\ Tail(tasks) \in Seq(Frames) /\ Len(Tail(tasks)) = Len(tasks) - 1
          /\ Items(tasks) = Items(Tail(tasks)) \cup {Head(tasks)}
          /\ NoRepeats(Tail(tasks))
      BY <1>2, <1>3, <2>1, PopFront DEF PoolInv, FramesInv, QueueInv
    <3>2. kept = Tail(tasks) /\ dropped' = dropped \cup {Head(tasks)} /\ dropped \subseteq Frames
      BY <1>1, <1>2, <2>1 DEF TypeOK
    <3> HIDE DEF full, kept
    <3>3. Len(kept) < MaxQueueSize /\ Len(kept) <= Len(tasks)
      BY <1>2, <3>1, <3>2
    <3> QED BY <3>1, <3>2, <3>3
  <2>2. CASE ~full
    BY <1>1, <1>2, <2>2 DEF TypeOK, PoolInv, FramesInv, QueueInv
  <2> QED BY <2>1, <2>2
<1> HIDE DEF full, kept
<1>5. next \notin Items(kept)
  BY <1>1, <1>4 DEF PoolInv, FramesInv, QueueInv
<1>6. /\ tasks' \in Seq(Frames) /\ Len(tasks') = Len(kept) + 1
      /\ Items(tasks') = Items(kept) \cup {next} /\ NoRepeats(tasks')
  BY <1>1, <1>2, <1>4, <1>5, PushBack
<1>7. Len(kept) \in Nat /\ Len(tasks') \in Nat /\ Len(tasks') <= MaxQueueSize
      /\ Len(tasks') <= Len(tasks) + 1
  BY <1>2, <1>4, <1>6
<1>8. /\ wPc' \in [Workers -> {"lock", "wait", "calc", "enqueue", "backoff", "exited"}]
      /\ \A w \in Workers : \/ wPc'[w] = wPc[w]
                            \/ wPc[w] = "wait" /\ wPc'[w] = "lock"
      /\ Waiting' \subseteq Waiting
      /\ Waiting # {} => Cardinality(Awake') = Cardinality(Awake) + 1
  BY <1>1, <1>2, Notified
<1>9. \A w \in Workers : Working(w)' <=> Working(w)
  BY <1>8 DEF Working
<1>10. TypeOK'
  BY <1>1, <1>4, <1>6, <1>7, <1>8 DEF PoolInv, TypeOK
<1>11. QueueInv'
  <2>1. next \in 1 .. next
    BY <1>1, <1>2 DEF PoolInv, FramesInv, QueueInv, Frames
  <2> QED BY <1>1, <1>4, <1>6, <2>1 DEF PoolInv, FramesInv, QueueInv
<1>12. WorkerInv'
  BY <1>1, <1>4, <1>6, <1>9 DEF PoolInv, FramesInv, WorkerInv
<1>13. Accounted'
  BY <1>1, <1>4, <1>6, <1>9 DEF PoolInv, FramesInv, Accounted
<1>14. RetryInv' /\ StopInv'
  BY <1>1, <1>8 DEF PoolInv, RetryInv, StopInv
<1>15. LeftInv'
  <2> SUFFICES ASSUME NEW w \in Workers, wPc'[w] = "exited"
               PROVE  ~poolRunning' /\ Len(tasks') + Pending' <= 1
    BY DEF LeftInv
  <2>1. ~poolRunning /\ Len(tasks) + Pending <= 1
    BY <1>8 DEF PoolInv, LeftInv
  <2>2. Pending = 1 /\ Pending' = 0
    BY <1>1 DEF Pending
  <2> QED BY <1>1, <1>2, <1>7, <2>1, <2>2
<1>16. WorkConserving'
  <2> SUFFICES ASSUME Waiting' # {} PROVE Len(tasks') <= Cardinality(Awake')
    BY DEF WorkConserving
  <2>1. Waiting # {} /\ Cardinality(Awake') = Cardinality(Awake) + 1
    BY <1>8
  <2>2. Len(tasks) <= Cardinality(Awake)
    BY <2>1 DEF PoolInv, WorkConserving
  <2> QED BY <1>2, <1>7, <2>1, <2>2, AwakeIsFinite
<1> QED BY <1>10, <1>11, <1>12, <1>13, <1>14, <1>15, <1>16 DEF PoolInv, FramesInv

\* A worker goes to sleep, is woken spuriously, or leaves; stop() wakes all.
LEMMA SleepStep ==
    ASSUME PoolInv, (\E w \in Workers : Sleep(w) \/ SpuriousWake(w) \/ Exit(w)) \/ NotifyAll
    PROVE  PoolInv'
<1>1. /\ UNCHANGED <<tasks, next, dropped, frame, retry, produced, reported, outLen, calcPc,
                     running, poolRunning>>
      /\ stopPc' = stopPc \/ (stopPc = "notify" /\ stopPc' = "joinWorkers")
  BY DEF Sleep, SpuriousWake, Exit, NotifyAll, stopVars, taskVars, resultVars
<1>2. wPc \in [Workers -> {"lock", "wait", "calc", "enqueue", "backoff", "exited"}]
  BY DEF PoolInv, TypeOK
<1>3. /\ wPc' \in [Workers -> {"lock", "wait", "calc", "enqueue", "backoff", "exited"}]
      /\ \A w \in Workers : \/ wPc'[w] = wPc[w]
                            \/ wPc[w] \in {"lock", "wait"} /\ wPc'[w] \in {"lock", "wait", "exited"}
  <2>1. CASE \E w \in Workers : Sleep(w) \/ SpuriousWake(w) \/ Exit(w)
    BY <1>2, <2>1 DEF Sleep, SpuriousWake, Exit
  <2>2. CASE NotifyAll
    BY <1>2, <2>2 DEF NotifyAll, Waiting
  <2> QED BY <2>1, <2>2
<1>4. \A w \in Workers : wPc'[w] = "exited" => wPc[w] = "exited" \/ (~poolRunning /\ tasks = <<>>)
  <2>1. CASE \E w \in Workers : Sleep(w) \/ SpuriousWake(w) \/ Exit(w)
    BY <1>2, <2>1 DEF Sleep, SpuriousWake, Exit
  <2>2. CASE NotifyAll
    BY <1>2, <2>2 DEF NotifyAll, Waiting
  <2> QED BY <2>1, <2>2
<1>5. TypeOK'
  BY <1>1, <1>3 DEF PoolInv, TypeOK
<1>6. FramesInv'
  <2>1. \A w \in Workers : Working(w)' <=> Working(w)
    BY <1>3 DEF Working
  <2> QED BY <1>1, <2>1, SameFrames DEF PoolInv
<1>7. RetryInv'
  BY <1>1, <1>3 DEF PoolInv, RetryInv
<1>8. StopInv'
  BY <1>1, <1>3 DEF PoolInv, StopInv
<1>9. LeftInv'
  <2> SUFFICES ASSUME NEW w \in Workers, wPc'[w] = "exited"
               PROVE  ~poolRunning' /\ Len(tasks') + Pending' <= 1
    BY DEF LeftInv
  <2>1. Pending' = Pending /\ Pending \in {0, 1}
    BY <1>1 DEF Pending
  <2>2. CASE wPc[w] = "exited"
    BY <1>1, <2>1, <2>2 DEF PoolInv, LeftInv
  <2>3. CASE ~poolRunning /\ tasks = <<>>
    BY <1>1, <2>1, <2>3
  <2> QED BY <1>4, <2>2, <2>3
<1>10. WorkConserving'
  <2>1. CASE tasks = <<>>
    <3>1. Len(tasks') = 0 /\ Cardinality(Awake') \in Nat
      <4>1. Awake' \subseteq Workers
        BY DEF Awake
      <4>2. Cardinality(Awake') \in Nat
        BY <4>1, PoolAssumption, FS_Subset, FS_CardinalityType
      <4> QED BY <1>1, <2>1, <4>2
    <3> QED BY <3>1 DEF WorkConserving
  <2>2. ASSUME NEW w \in Workers, SpuriousWake(w) PROVE WorkConserving'
    <3>1. wPc[w] = "wait" /\ wPc' = [wPc EXCEPT ![w] = "lock"]
      BY <2>2 DEF SpuriousWake
    <3>2. Cardinality(Awake') = Cardinality(Awake) + 1
      BY <3>1, OneMoreAwake DEF PoolInv
    <3>3. Len(tasks) <= Cardinality(Awake)
      BY <3>1 DEF PoolInv, WorkConserving, Waiting
    <3>4. Len(tasks) \in Nat
      BY DEF PoolInv, TypeOK
    <3>5. Len(tasks') <= Cardinality(Awake')
      BY <1>1, <3>2, <3>3, <3>4, AwakeIsFinite
    <3> QED BY <3>5 DEF WorkConserving
  <2>3. CASE NotifyAll
    <3>1. Waiting' = {}
      BY <2>3 DEF NotifyAll, Waiting
    <3> QED BY <3>1 DEF WorkConserving
  <2> QED BY <2>1, <2>2, <2>3 DEF Sleep, Exit
<1> QED BY <1>5, <1>6, <1>7, <1>8, <1>9, <1>10 DEF PoolInv

\* A worker's task goes on without its frame moving.
LEMMA WorkStep ==
    ASSUME PoolInv, NEW w \in Workers, Calculate(w) \/ Backoff(w) \/ RetryAgain(w)
    PROVE  PoolInv'
<1>1. /\ UNCHANGED <<tasks, next, dropped, frame, produced, reported, outLen, calcPc,
                     running, poolRunning, stopPc>>
      /\ retry' = retry \/ (wPc[w] = "backoff" /\ retry' = [retry EXCEPT ![w] = retry[w] + 1])
  BY DEF Calculate, Backoff, RetryAgain, stopVars, taskVars, resultVars
<1>2. /\ wPc \in [Workers -> {"lock", "wait", "calc", "enqueue", "backoff", "exited"}]
      /\ retry \in [Workers -> 0 .. MaxRetryQueue]
  BY DEF PoolInv, TypeOK
<1>3. PICK s \in {"enqueue", "backoff"} :
          /\ wPc[w] \in {"calc", "enqueue", "backoff"} /\ wPc' = [wPc EXCEPT ![w] = s]
          /\ s = "backoff" => retry' = retry /\ retry[w] < MaxRetryQueue
  BY DEF Calculate, Backoff, RetryAgain
<1>4. retry' \in [Workers -> 0 .. MaxRetryQueue]
  <2>1. wPc[w] = "backoff" => retry[w] + 1 \in 0 .. MaxRetryQueue
    BY <1>2, PoolAssumption DEF PoolInv, RetryInv
  <2> QED BY <1>1, <1>2, <2>1
<1>5. TypeOK'
  BY <1>1, <1>2, <1>3, <1>4 DEF PoolInv, TypeOK
<1>6. FramesInv'
  <2>1. \A v \in Workers : Working(v)' <=> Working(v)
    BY <1>2, <1>3 DEF Working
  <2> QED BY <1>1, <2>1, SameFrames DEF PoolInv
<1>7. RetryInv'
  <2> SUFFICES ASSUME NEW v \in Workers, wPc'[v] = "backoff" PROVE retry'[v] < MaxRetryQueue
    BY DEF RetryInv
  <2>1. CASE v = w
    BY <1>2, <1>3, <2>1
  <2>2. CASE v # w
    BY <1>1, <1>2, <1>3, <2>2 DEF PoolInv, RetryInv
  <2> QED BY <2>1, <2>2
<1>8. StopInv'
  BY <1>1, <1>2, <1>3 DEF PoolInv, StopInv
<1>9. LeftInv'
  BY <1>1, <1>2, <1>3 DEF PoolInv, LeftInv, Pending
<1>10. WorkConserving'
  BY <1>1, <1>2, <1>3, SameSleepers DEF PoolInv
<1> QED BY <1>5, <1>6, <1>7, <1>8, <1>9, <1>10 DEF PoolInv

\* A worker takes the oldest task.
LEMMA PopStep == ASSUME PoolInv, NEW w \in Workers, Pop(w) PROVE PoolInv'
<1>1. /\ UNCHANGED <<next, dropped, produced, reported, outLen, calcPc, running, poolRunning, stopPc>>
      /\ wPc[w] = "lock" /\ tasks # <<>> /\ tasks' = Tail(tasks)
      /\ frame' = [frame EXCEPT ![w] = Head(tasks)]
      /\ wPc' = [wPc EXCEPT ![w] = "calc"] /\ retry' = [retry EXCEPT ![w] = 0]
  BY DEF Pop, stopVars, resultVars
<1>2. /\ wPc \in [Workers -> {"lock", "wait", "calc", "enqueue", "backoff", "exited"}]
      /\ frame \in [Workers -> 0 .. MaxFrames] /\ retry \in [Workers -> 0 .. MaxRetryQueue]
      /\ tasks \in Seq(Frames) /\ Len(tasks) \in Nat /\ Len(tasks) <= MaxQueueSize
      /\ MaxQueueSize \in Nat /\ MaxFrames \in Nat /\ MaxRetryQueue \in Nat
  BY PoolAssumption DEF PoolInv, TypeOK
<1>3. /\ Head(tasks) \in Frames /\ tasks' \in Seq(Frames) /\ Len(tasks') = Len(tasks) - 1
      /\ Items(tasks) = Items(tasks') \cup {Head(tasks)}
      /\ NoRepeats(tasks') /\ Head(tasks) \notin Items(tasks')
  BY <1>1, <1>2, PopFront DEF PoolInv, FramesInv, QueueInv
<1>4. Len(tasks') \in Nat /\ Len(tasks') <= MaxQueueSize
  BY <1>2, <1>3
<1>5. TypeOK'
  <2>1. Head(tasks) \in 0 .. MaxFrames /\ 0 \in 0 .. MaxRetryQueue
    BY <1>2, <1>3 DEF Frames
  <2> QED BY <1>1, <1>2, <1>3, <1>4, <2>1 DEF PoolInv, TypeOK
<1>6. /\ \A v \in Workers \ {w} : Working(v)' <=> Working(v)
      /\ \A v \in Workers \ {w} : frame'[v] = frame[v]
      /\ Working(w)' /\ frame'[w] = Head(tasks) /\ ~Working(w)
  BY <1>1, <1>2 DEF Working
<1>7. QueueInv'
  BY <1>1, <1>3 DEF PoolInv, FramesInv, QueueInv
<1>8. /\ Head(tasks) \in 1 .. next
      /\ calcPc = "push" => Head(tasks) # next
      /\ \A v \in Workers : Working(v) => frame[v] # Head(tasks)
  BY <1>3 DEF PoolInv, FramesInv, QueueInv, WorkerInv
<1>9. WorkerInv'
  BY <1>1, <1>3, <1>6, <1>8 DEF PoolInv, FramesInv, WorkerInv
<1>10. Accounted'
  BY <1>1, <1>3, <1>6 DEF PoolInv, FramesInv, Accounted
<1>11. RetryInv' /\ StopInv'
  BY <1>1, <1>2 DEF PoolInv, RetryInv, StopInv
<1>12. LeftInv'
  <2> SUFFICES ASSUME NEW v \in Workers, wPc'[v] = "exited"
               PROVE  ~poolRunning' /\ Len(tasks') + Pending' <= 1
    BY DEF LeftInv
  <2>1. ~poolRunning /\ Len(tasks) + Pending <= 1
    BY <1>1, <1>2 DEF PoolInv, LeftInv
  <2>2. Pending' = Pending /\ Pending \in {0, 1}
    BY <1>1 DEF Pending
  <2> QED BY <1>1, <1>2, <1>3, <2>1, <2>2
<1>13. WorkConserving'
  <2>1. Waiting' = Waiting
    BY <1>1, <1>2 DEF Waiting
  <2>2. Cardinality(Awake') = Cardinality(Awake) - 1
    BY <1>1, OneLessAwake DEF PoolInv
  <2>3. Waiting # {} => Len(tasks) <= Cardinality(Awake)
    BY DEF PoolInv, WorkConserving
  <2>4. Waiting # {} => Len(tasks') <= Cardinality(Awake')
    BY <1>2, <1>3, <2>2, <2>3, AwakeIsFinite
  <2> QED BY <2>1, <2>4 DEF WorkConserving
<1> QED BY <1>5, <1>7, <1>9, <1>10, <1>11, <1>12, <1>13 DEF PoolInv, FramesInv

\* A worker is done with its task: the result is enqueued or reported lost.
LEMMA DoneStep == ASSUME PoolInv, NEW w \in Workers, Enqueue(w) \/ GiveUp(w) PROVE PoolInv'
<1>1. /\ UNCHANGED <<tasks, next, dropped, frame, retry, calcPc, running, poolRunning, stopPc>>
      /\ wPc[w] = "enqueue" /\ wPc' = [wPc EXCEPT ![w] = "lock"] /\ Report(w)
  BY DEF Enqueue, GiveUp, stopVars, taskVars
<1>2. /\ wPc \in [Workers -> {"lock", "wait", "calc", "enqueue", "backoff", "exited"}]
      /\ frame[w] \in Frames
  <2>1. Working(w)
    BY <1>1 DEF Working
  <2>2. frame[w] \in 1 .. next /\ next \in 0 .. MaxFrames
    BY <2>1 DEF PoolInv, TypeOK, FramesInv, WorkerInv
  <2> QED BY <2>2, PoolAssumption DEF PoolInv, TypeOK, Frames
<1>3. produced \subseteq produced' /\ reported \subseteq reported' /\ frame[w] \in produced' \cup reported'
  BY <1>1 DEF Enqueue, GiveUp, Report
<1>4. TypeOK'
  <2>1. outLen' \in 0 .. OutBound
    BY PoolAssumption DEF PoolInv, TypeOK, Enqueue, GiveUp
  <2>2. produced' \subseteq Frames /\ reported' \subseteq Frames
    BY <1>2 DEF PoolInv, TypeOK, Enqueue, GiveUp, Report
  <2>3. wPc' \in [Workers -> {"lock", "wait", "calc", "enqueue", "backoff", "exited"}]
    BY <1>1, <1>2
  <2> QED BY <1>1, <2>1, <2>2, <2>3 DEF PoolInv, TypeOK
<1>5. \A v \in Workers : (Working(v)' <=> Working(v) /\ v # w)
  BY <1>1, <1>2 DEF Working
<1>6. QueueInv'
  BY <1>1 DEF PoolInv, FramesInv, QueueInv
<1>7. WorkerInv'
  BY <1>1, <1>5 DEF PoolInv, FramesInv, WorkerInv
<1>8. Accounted'
  BY <1>1, <1>3, <1>5 DEF PoolInv, FramesInv, Accounted
<1>9. RetryInv' /\ StopInv'
  BY <1>1, <1>2 DEF PoolInv, RetryInv, StopInv
<1>10. LeftInv'
  BY <1>1, <1>2 DEF PoolInv, LeftInv, Pending
<1>11. WorkConserving'
  <2>1. Waiting' = Waiting
    BY <1>1, <1>2 DEF Waiting
  <2>2. Cardinality(Awake') = Cardinality(Awake) + 1
    BY <1>1, OneMoreAwake DEF PoolInv
  <2>3. Waiting # {} => Len(tasks) <= Cardinality(Awake)
    BY DEF PoolInv, WorkConserving
  <2>4. Len(tasks) \in Nat
    BY DEF PoolInv, TypeOK
  <2>5. Waiting # {} => Len(tasks') <= Cardinality(Awake')
    BY <1>1, <2>2, <2>3, <2>4, AwakeIsFinite
  <2> QED BY <2>1, <2>5 DEF WorkConserving
<1> QED BY <1>4, <1>6, <1>7, <1>8, <1>9, <1>10, <1>11 DEF PoolInv, FramesInv

\* The invariant holds from the constructor on.
LEMMA PoolInvariant == Spec => []PoolInv
<1>1. PoolInv /\ [Next]_vars => PoolInv'
  <2> SUFFICES ASSUME PoolInv, [Next]_vars PROVE PoolInv'
    OBVIOUS
  <2>1. CASE Start \/ CalcLoop \/ StopCalc \/ Stopping \/ OutDequeue
    BY <2>1, QuietStep, DequeueStep, PushStep, SleepStep DEF CalcLoop, Stopping
  <2>2. ASSUME NEW w \in Workers, WorkerThread(w) \/ SpuriousWake(w) PROVE PoolInv'
    BY <2>2, SleepStep, WorkStep, PopStep, DoneStep DEF WorkerThread
  <2>3. CASE UNCHANGED vars
    <3>1. FramesInv' /\ WorkConserving'
      BY <2>3, SameFrames, SameSleepers DEF vars, PoolInv, Working
    <3> QED BY <2>3, <3>1 DEF vars, PoolInv, TypeOK, RetryInv, StopInv, LeftInv, Pending
  <2> QED BY <2>1, <2>2, <2>3 DEF Next
<1> QED BY <1>1, PoolInit, PTL DEF Spec

-----------------------------------------------------------------------------
(* The theorems *)

\* Types, and the limits MAX_QUEUE_SIZE, MAX_RETRY_QUEUE and of rq_six_dof.
THEOREM PoolTypeCorrect == Spec => []TypeOK
<1>1. PoolInv => TypeOK
  BY DEF PoolInv
<1> QED BY <1>1, PoolInvariant, PTL

\* One notify_one per push is enough: for any number of workers, no task waits
\* for a sleeping worker, whatever spurious wake-ups there are.
THEOREM NoTaskLeftSleeping == Spec => []WorkConserving
<1>1. PoolInv => WorkConserving
  BY DEF PoolInv
<1> QED BY <1>1, PoolInvariant, PTL

\* Between calcLoop, tasks_ and the workers no frame is duplicated, and none
\* disappears without a result, a drop or a report.
THEOREM EveryFrameInOnePlace == Spec => []FrameInOnePlace
<1>1. PoolInv => FrameInOnePlace
  BY OnePlace DEF PoolInv
<1> QED BY <1>1, PoolInvariant, PTL

\* A pool with workers strands at most the frame calcLoop held when they left.
\* Without the assumption it is false: a pool whose configuration could not be
\* read has no workers, and stop() leaves up to MAX_QUEUE_SIZE tasks behind.
THEOREM StrandsAtMostOne == ASSUME Workers # {} PROVE Spec => []AtMostOneStranded
<1>1. PoolInv => AtMostOneStranded
  <2> SUFFICES ASSUME PoolInv, stopPc = "done" PROVE Len(tasks) <= 1
    BY DEF AtMostOneStranded
  <2>1. PICK w : w \in Workers
    OBVIOUS
  <2>2. Len(tasks) + Pending <= 1
    BY <2>1 DEF PoolInv, StopInv, LeftInv
  <2>3. Len(tasks) \in Nat /\ Pending \in {0, 1}
    BY DEF PoolInv, TypeOK, Pending
  <2> QED BY <2>2, <2>3
<1> QED BY <1>1, PoolInvariant, PTL
-----------------------------------------------------------------------------
(* The pool implements FrameLedger.  Beyond PoolInv this needs that a      *)
(* frame which is settled is nowhere any more: then nothing is finished    *)
(* twice.                                                                  *)

Settled == produced \cup reported \cup dropped

\* A settled frame was taken, and is not queued, not held by calcLoop and not
\* with a worker.
SettledInv ==
    \A f \in Settled :
        /\ f \in 1 .. next /\ f \notin Items(tasks)
        /\ ~(calcPc = "push" /\ f = next)
        /\ \A w \in Workers : Working(w) => frame[w] # f

\* The frame behind a non-empty queue does not change its front.
LEMMA FrontOfAppend ==
    ASSUME NEW s \in Seq(Frames), NEW f \in Frames, s # <<>>
    PROVE  /\ Append(s, f) # <<>> /\ Head(Append(s, f)) = Head(s)
           /\ Tail(Append(s, f)) = Append(Tail(s), f)
  OBVIOUS

\* The frame calcLoop holds is one of the frames.
LEMMA HeldFrame ==
    ASSUME PoolInv, calcPc = "push" PROVE next \in Frames
<1>1. next \in 0 .. MaxFrames /\ next >= 1
  BY DEF PoolInv, TypeOK, FramesInv, QueueInv
<1> QED BY <1>1, PoolAssumption DEF Frames

\* Which frames are in work, in terms of who is working.
LEMMA InWorkIs == InWork = {frame[w] : w \in {v \in Workers : Working(v)}}
  BY DEF InWork, Working

\* As long as the same workers work on the same frames, nothing changes there.
LEMMA SameWork ==
    ASSUME frame' = frame, \A w \in Workers : Working(w)' <=> Working(w)
    PROVE  InWork' = InWork
  BY InWorkIs DEF InWork, Working

\* Steps that move no frame leave the ledger alone.
LEMMA LedgerStutter ==
    ASSUME SettledInv, UNCHANGED <<tasks, next, frame, dropped, produced, reported>>,
           calcPc' = "push" <=> calcPc = "push",
           \A w \in Workers : Working(w)' <=> Working(w)
    PROVE  SettledInv' /\ UNCHANGED Ledger!ledgerVars
<1>1. InWork' = InWork
  BY SameWork
<1>2. Waits' = Waits
  BY DEF Waits
<1>3. SettledInv'
  BY DEF SettledInv, Settled
<1> QED BY <1>1, <1>2, <1>3 DEF Ledger!ledgerVars

\* calcLoop takes a frame.
LEMMA LedgerTake ==
    ASSUME PoolInv, SettledInv, CalcDequeue
    PROVE  SettledInv' /\ Ledger!Take
<1>1. /\ UNCHANGED <<tasks, dropped, wPc, frame, produced, reported>>
      /\ next' = next + 1 /\ calcPc = "dequeue" /\ calcPc' = "push" /\ next \in Nat
  BY PoolAssumption DEF CalcDequeue, workVars, resultVars, PoolInv, TypeOK
<1>2. \A w \in Workers : Working(w)' <=> Working(w)
  BY <1>1 DEF Working
<1>3. InWork' = InWork
  BY <1>1, <1>2, SameWork
<1>4. Waits' = Append(Waits, next + 1)
  BY <1>1 DEF Waits
<1>5. SettledInv'
  <2>1. \A f \in 1 .. next : f \in 1 .. next + 1 /\ f # next + 1
    BY <1>1
  <2> QED BY <1>1, <1>2, <2>1 DEF SettledInv, Settled
<1> QED BY <1>1, <1>3, <1>4, <1>5 DEF Ledger!Take

\* calcLoop pushes the frame it holds, over the oldest one of a full queue.
LEMMA LedgerPush ==
    ASSUME PoolInv, SettledInv, CalcPush
    PROVE  SettledInv' /\ (Ledger!Drop \/ UNCHANGED Ledger!ledgerVars)
<1>1. /\ UNCHANGED <<next, frame, produced, reported>>
      /\ calcPc = "push" /\ calcPc' = "loop" /\ NotifyOne
  BY DEF CalcPush, stopVars, resultVars
<1>2. \A w \in Workers : Working(w)' <=> Working(w)
  BY <1>1, Notified DEF PoolInv, Working
<1>3. InWork' = InWork
  BY <1>1, <1>2, SameWork
<1>4. /\ next \in Frames /\ tasks \in Seq(Frames) /\ Len(tasks) \in Nat
      /\ Waits = Append(tasks, next) /\ Waits' = tasks'
  BY <1>1, HeldFrame DEF Waits, PoolInv, TypeOK
<1>5. /\ NoRepeats(tasks) /\ next \notin Items(tasks)
      /\ \A f \in Items(tasks) : f \in 1 .. next
      /\ \A w \in Workers : Working(w) => frame[w] \notin Items(tasks)
  BY <1>1 DEF PoolInv, FramesInv, QueueInv, WorkerInv
<1>6. CASE Len(tasks) < MaxQueueSize
  <2>1. ~(Len(tasks) >= MaxQueueSize)
    BY <1>4, <1>6, PoolAssumption
  <2>2. tasks' = Append(tasks, next) /\ dropped' = dropped
    BY <2>1 DEF CalcPush
  <2>3. Items(tasks') = Items(tasks) \cup {next}
    BY <1>4, <2>2, PushBack
  <2>4. SettledInv'
    BY <1>1, <1>2, <2>2, <2>3 DEF SettledInv, Settled
  <2> QED BY <1>1, <1>3, <1>4, <2>2, <2>4 DEF Ledger!ledgerVars
<1>7. CASE ~(Len(tasks) < MaxQueueSize)
  <2>1. Len(tasks) >= MaxQueueSize /\ tasks # <<>>
    BY <1>4, <1>7, PoolAssumption
  <2>2. tasks' = Append(Tail(tasks), next) /\ dropped' = dropped \cup {Head(tasks)}
    BY <2>1 DEF CalcPush
  <2>3. /\ Tail(tasks) \in Seq(Frames) /\ Head(tasks) \notin Items(Tail(tasks))
        /\ Items(tasks) = Items(Tail(tasks)) \cup {Head(tasks)}
    BY <1>4, <1>5, <2>1, PopFront
  <2>4. Items(tasks') = Items(Tail(tasks)) \cup {next}
    BY <1>4, <2>2, <2>3, PushBack
  <2>5. SettledInv'
    <3> SUFFICES ASSUME NEW f \in Settled'
                 PROVE  /\ f \in 1 .. next /\ f \notin Items(tasks')
                        /\ \A w \in Workers : Working(w) => frame[w] # f
      BY <1>1, <1>2 DEF SettledInv
    <3>1. CASE f = Head(tasks)
      BY <1>5, <2>3, <2>4, <3>1
    <3>2. CASE f \in Settled
      BY <1>1, <2>3, <2>4, <3>2 DEF SettledInv
    <3>3. f = Head(tasks) \/ f \in Settled
      BY <1>1, <2>2 DEF Settled
    <3> QED BY <3>1, <3>2, <3>3
  <2>6. /\ Waits # <<>> /\ Waits' = Tail(Waits) /\ dropped' = dropped \cup {Head(Waits)}
    BY <1>4, <2>1, <2>2, FrontOfAppend
  <2> QED BY <1>1, <1>3, <2>5, <2>6 DEF Ledger!Drop
<1> QED BY <1>6, <1>7

\* A worker starts the oldest frame that waits.
LEMMA LedgerBegin ==
    ASSUME PoolInv, SettledInv, NEW w \in Workers, Pop(w)
    PROVE  SettledInv' /\ Ledger!Begin
<1>1. /\ UNCHANGED <<next, dropped, produced, reported, calcPc>>
      /\ wPc[w] = "lock" /\ tasks # <<>> /\ tasks' = Tail(tasks)
      /\ frame' = [frame EXCEPT ![w] = Head(tasks)]
      /\ wPc' = [wPc EXCEPT ![w] = "calc"]
  BY DEF Pop, resultVars, stopVars
<1>2. tasks \in Seq(Frames) /\ DOMAIN frame = Workers /\ DOMAIN wPc = Workers
  BY DEF PoolInv, TypeOK
<1>3. /\ ~Working(w) /\ Working(w)' /\ frame'[w] = Head(tasks)
      /\ \A v \in Workers \ {w} : (Working(v)' <=> Working(v)) /\ frame'[v] = frame[v]
  BY <1>1, <1>2 DEF Working
<1>4. InWork' = InWork \cup {Head(tasks)}
  <2>1. InWork' = {frame'[v] : v \in {u \in Workers : Working(u)'}}
    BY DEF InWork, Working
  <2> QED BY <1>3, <2>1, InWorkIs
<1>5. /\ NoRepeats(tasks) /\ Items(tasks) = Items(Tail(tasks)) \cup {Head(tasks)}
  BY <1>1, <1>2, PopFront DEF PoolInv, FramesInv, QueueInv
<1>6. SettledInv'
  <2> SUFFICES ASSUME NEW f \in Settled
               PROVE  /\ f \in 1 .. next /\ f \notin Items(tasks')
                      /\ ~(calcPc = "push" /\ f = next)
                      /\ \A v \in Workers : Working(v)' => frame'[v] # f
    BY <1>1 DEF SettledInv, Settled
  <2> QED BY <1>1, <1>3, <1>5 DEF SettledInv
<1>7. Waits # <<>> /\ Waits' = Tail(Waits) /\ Head(Waits) = Head(tasks)
  <2>1. CASE calcPc = "push"
    BY <1>1, <1>2, <2>1, HeldFrame, FrontOfAppend DEF Waits
  <2>2. CASE calcPc # "push"
    BY <1>1, <2>2 DEF Waits
  <2> QED BY <2>1, <2>2
<1> QED BY <1>1, <1>4, <1>6, <1>7 DEF Ledger!Begin

\* A worker is done with its frame, for good.
LEMMA LedgerFinish ==
    ASSUME PoolInv, SettledInv, NEW w \in Workers, Enqueue(w) \/ GiveUp(w)
    PROVE  SettledInv' /\ (\E f \in InWork : Ledger!Finish(f))
<1> DEFINE f == frame[w]
<1>1. /\ UNCHANGED <<tasks, next, dropped, frame, calcPc>>
      /\ wPc[w] = "enqueue" /\ wPc' = [wPc EXCEPT ![w] = "lock"] /\ DOMAIN wPc = Workers
  BY DEF Enqueue, GiveUp, taskVars, PoolInv, TypeOK
<1>2. Working(w) /\ \A v \in Workers : (Working(v)' <=> Working(v) /\ v # w)
  BY <1>1 DEF Working
<1>3. \/ produced' = produced \cup {f} /\ UNCHANGED reported
      \/ UNCHANGED produced /\ reported' = reported \cup {f}
      \/ produced' = produced \cup {f} /\ reported' = reported \cup {f}
  BY DEF Enqueue, GiveUp, Report
<1>4. /\ f \in 1 .. next /\ f \notin Items(tasks) /\ (calcPc = "push" => f # next)
      /\ \A v \in Workers : Working(v) /\ v # w => frame[v] # f
  BY <1>2 DEF PoolInv, FramesInv, WorkerInv
<1>5. f \notin Settled
  BY <1>2 DEF SettledInv
<1>6. f \in InWork /\ InWork' = InWork \ {f}
  <2>1. InWork' = {frame[v] : v \in {u \in Workers : Working(u)'}}
    BY <1>1 DEF InWork, Working
  <2> QED BY <1>2, <1>4, <2>1, InWorkIs
<1>7. Settled' = Settled \cup {f}
  BY <1>1, <1>3 DEF Settled
<1> HIDE DEF f
<1>8. SettledInv'
  <2> SUFFICES ASSUME NEW g \in Settled'
               PROVE  /\ g \in 1 .. next /\ g \notin Items(tasks)
                      /\ ~(calcPc = "push" /\ g = next)
                      /\ \A v \in Workers : Working(v) /\ v # w => frame[v] # g
    BY <1>1, <1>2 DEF SettledInv
  <2>1. CASE g = f
    BY <1>4, <2>1
  <2>2. CASE g \in Settled
    BY <2>2 DEF SettledInv
  <2> QED BY <1>7, <2>1, <2>2
<1>9. Waits' = Waits
  BY <1>1 DEF Waits
<1>10. Ledger!Finish(f)
  BY <1>1, <1>3, <1>5, <1>6, <1>9 DEF Ledger!Finish, Settled
<1> QED BY <1>6, <1>8, <1>10

\* Every step of the pool is a step of the ledger or leaves it alone.
LEMMA LedgerStep ==
    ASSUME PoolInv, SettledInv, [Next]_vars
    PROVE  SettledInv' /\ [Ledger!LedgerNext]_(Ledger!ledgerVars)
<1>1. CASE CalcDequeue
  BY <1>1, LedgerTake DEF Ledger!LedgerNext
<1>2. CASE CalcPush
  BY <1>2, LedgerPush DEF Ledger!LedgerNext
<1>3. ASSUME NEW w \in Workers, Pop(w)
      PROVE  SettledInv' /\ [Ledger!LedgerNext]_(Ledger!ledgerVars)
  BY <1>3, LedgerBegin DEF Ledger!LedgerNext
<1>4. ASSUME NEW w \in Workers, Enqueue(w) \/ GiveUp(w)
      PROVE  SettledInv' /\ [Ledger!LedgerNext]_(Ledger!ledgerVars)
  BY <1>4, LedgerFinish DEF Ledger!LedgerNext
<1>5. CASE \/ Start \/ CalcTest \/ CalcEmpty \/ StopCalc \/ StopPool \/ JoinWorkers \/ JoinCalc
           \/ OutDequeue \/ UNCHANGED vars
  <2>1. /\ UNCHANGED <<tasks, next, frame, dropped, produced, reported, wPc>>
        /\ calcPc' = "push" <=> calcPc = "push"
    BY <1>5 DEF Start, CalcTest, CalcEmpty, StopCalc, StopPool, JoinWorkers, JoinCalc, OutDequeue,
       vars, stopVars, taskVars, workVars, resultVars
  <2>2. \A w \in Workers : Working(w)' <=> Working(w)
    BY <2>1 DEF Working
  <2> QED BY <2>1, <2>2, LedgerStutter
<1>6. CASE NotifyAll \/ \E w \in Workers : \/ Sleep(w) \/ SpuriousWake(w) \/ Exit(w)
                                         \/ Calculate(w) \/ Backoff(w) \/ RetryAgain(w)
  <2>1. UNCHANGED <<tasks, next, frame, dropped, produced, reported, calcPc>>
    BY <1>6 DEF NotifyAll, Sleep, SpuriousWake, Exit, Calculate, Backoff, RetryAgain,
       stopVars, taskVars, resultVars
  <2>2. \A w \in Workers : Working(w)' <=> Working(w)
    BY <1>6 DEF NotifyAll, Sleep, SpuriousWake, Exit, Calculate, Backoff, RetryAgain,
       PoolInv, TypeOK, Working, Waiting
  <2> QED BY <2>1, <2>2, LedgerStutter
<1> QED BY <1>1, <1>2, <1>3, <1>4, <1>5, <1>6 DEF Next, CalcLoop, Stopping, WorkerThread

\* The pool implements the ledger, for any number of workers and any limits:
\* frames are started or dropped oldest first, and each started frame is
\* finished once (workerThread and calcLoop, six_dof_calculator.cpp:92-170).
THEOREM PoolImplementsLedger == Spec => ImplementsLedger
<1>1. Init => SettledInv /\ Ledger!LedgerInit
  BY DEF Init, SettledInv, Settled, Ledger!LedgerInit, Waits, InWork
<1>2. PoolInv /\ SettledInv /\ [Next]_vars => SettledInv' /\ [Ledger!LedgerNext]_(Ledger!ledgerVars)
  BY LedgerStep
<1> QED BY <1>1, <1>2, PoolInvariant, PTL DEF Spec, ImplementsLedger, Ledger!LedgerSpec
=============================================================================
