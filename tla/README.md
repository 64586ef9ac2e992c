# A verification of the ship-motion monitoring pipeline

The program measures the six-degree-of-freedom motion of a ship at berth. Two
lidars deliver point clouds; a fuser pairs them by timestamp; a pool of workers
registers each fused cloud against a reference frame; an outputter turns the
poses into MQTT packets. Every stage is one or more threads, the stages are
connected by lock-free ring queues, and everything is stopped by one signal.
This directory models those stages, the lidar SDK in front of them and `main`
around them in TLA+, checks them with TLC on small instances and proves their
safety properties, for all parameters, with TLAPS.

## Inventory

```
lidar A --rq_cloudA--\                                            /--solve_task_queue_--> solve worker --mqtt_task_queue_--\
                      fuser --rq_fuse_cloud--> calcLoop --tasks_--> 6 pool workers --rq_six_dof--> outputLoop               MQTT worker --> libhv --> broker
lidar B --rq_cloudB--/                                                      reportError --err_task_queue_------------------/
```

| Component | State | Operations | Interacts with | What is hard, and what must hold |
|---|---|---|---|---|
| `LockFreeRingQueue` (`include/lock_free_queue.h`) | `buffer_`, `head_`, `tail_` | `enqueue`, `dequeue`, `size` | shared by two or more threads, no lock | slots are plain objects; no slot race, exactly-once hand-over, FIFO |
| `LSSDK` (`GetLidarData`, `GetLidarData_LS`) | packet queue, the sweep being assembled, the finished frame, `isFrameOK`, `isSuccessfulFlag` | two receiving threads, `LidarRun`, `sendLidarData`, `getLidarPerFrameDate` | UDP from the device; the acquirer takes frames | lost packets and markers, flag and frame in separate critical sections, unsigned times; frames are whole sweeps, in order, with times that do not run back |
| `PointCloudAcquirer` | `is_running_`, `lidarCfg_.ship_monitor`, a retry counter per lidar | `start`, `stop`, radar and camera loops | takes SDK frames, fills `rq_cloudA`, `rq_cloudB` | a flag shared without a lock, retry on a full queue; no frame judged without a background, stop while retrying |
| `PointCloudFuser` | `cacheA_`, `cacheB_`, `is_running_` | `start`, `stop`, `fuseLoop` | takes from two queues, fills `rq_fuse_cloud`, `reportError` | pairing of two streams; time never goes back, nothing that could be paired is dropped, stop with a full output queue |
| `SixDofCalculator`, the pool | `tasks_`, `pool_running_`, workers | `start`, `stop`, `calcLoop`, `workerThread` | takes fused clouds, six producers on `rq_six_dof` | condition variable, overflow, bounded retry, stop; no lost wake-up, every frame accounted for |
| `SixDofCalculator`, `calculateSixDof` | `fuse_pc_base_`, `last_base_update_tp_`, `base_extremum_calc_` and the extent | `calculateSixDof`, registrations | all workers, under `base_mtx_` | clock read before the lock, empty frames; every frame with points gets a pose and a measured length, the reference does not go back in time |
| `ConcreteDataOutputter` | three live queues, `pos_history_`, flags | `outputLoop`, three worker loops, `enqueueWithDropOld`, start/stop/destructor | takes results, publishes over MQTT, receives `reportError` | one condition variable for four threads, overflow, lost connection; order kept, nothing stuck, shutdown returns |
| `SystemStateManager` | `system_state_`, `has_error_`, `last_error_` | `setState`, `reportError`, callbacks | called by every module | called from several threads |
| `IndustrialMqttClient` | `mqtt_cli_`, `is_running_`, `thread_exit_`, `is_connected_`, `reconnect_attempts_` | `start`, `stop`, `mqttWorkThread`, `publish`, `onMqttEvent`, `reconnect` | libhv, the outputter | handle used inside and outside the lock; freed once, never published on after that, another attempt after a failed or ended connection, stops |
| `LidarBgDiff` | background cloud, `bg_ready_`, `center_history_` | `loadBackground`, `monitorShip`, `judgeShipStatus` | one per radar thread of the acquirer | sliding window across departures; what "stable" means |
| `WharfDockChecker` | pose window, base frame | `addPoseFrame`, `getStableDockBaseFrame` | none at this commit | window and angle arithmetic |
| `Logger` | `logger_`, sinks | `Init`, `Flush`, `Shutdown`, `LogInfo` ... | all threads | `logger_` tested and used without a lock while `main` resets it |
| `main` | `running`, the locals | wiring, start and stop order, destructors | all | consumers stop before producers; nothing is destroyed under a running stage, Ctrl+C gets `main` through its joins |
| `config_loader`, `file_clean` | configuration, old files | loading, deleting | all | not modelled: I/O |

At this commit the acquirer's device loop is compiled out (`#if 0`) and the live
loop replays one cloud with a constant timestamp. `Acquirer` has both: its
variable `deviceLoop`, fixed by `Init`, stands for the preprocessor condition.
`Lidar` models the SDK, whose threads are started and decode packets in either
build, together with the two calls the device loop makes. The fuser and the
stages after it are modelled for any timestamps the queues can carry, which is
what their code is written for; with the constant one every frame pairs and the
fuser's other branches are idle.

## Modules

| Module | Models | State and actions |
|---|---|---|
| `BoundedFifo` | what a queue promises | `Put`, `PutFull`, `Get`, `GetEmpty` on a sequence |
| `FrameLedger` | what the pool promises for the frames it takes | `Take`, `Begin`, `Drop`, `Finish` on frames waiting, in work, and settled |
| `LossyPipe` | what the outputter promises for the results it takes | `Enter`, `Lose`, `Deliver` on one sequence |
| `RingQueue` | the ring queue, one action per shared-memory access | `LoadTail`, `EnqueueFull`/`EnqueueRoom`, `WriteSlot`, `PublishTail`; `LoadHead`, `DequeueEmpty`/`DequeueSome`, `ReadSlot`, `AdvanceHead`; `SizeLoadHead`, `SizeLoadTail`, `SizeReturn` |
| `Fuser`, `MCFuser` | `fuseLoop`, `start`, `stop` and the threads at both ends | one action per branch of the loop; `MCFuser` adds a reference definition of a largest pairing |
| `SixDofPool` | `calcLoop`, `workerThread`, the task's retry loop, `stop` | an action per critical section of `task_mtx_` and per queue access |
| `SixDof` | `calculateSixDof` | `Enter` reads the clock, `Calculate` is the section under `base_mtx_` |
| `Outputter` | the outputter's four threads and its shutdown, `reportError` | per thread: test the flag, poll, block, wait, time out, push or send |
| `MqttClient` | the MQTT client | the work thread's steps, `OwnerStart`, `OwnerStop`, `Join`, `PublishTest`, `PublishInternal`, broker events |
| `Lidar` | the SDK from the socket to `getLidarPerFrameDate`, and its caller | `InStep`, `AfterSetBack`, `DevPacket`, `DataTimeout` at the sockets; `PopDev`, `PopData`, then one action per block (`Overflow`, `ZeroBlock`, `PointBlock`, `SyncBlock`), `SendFlag`, `SendFrame`; `Poll`, `GetFrame`, `ReadFlag` |
| `Acquirer` | `start`, `stop`, the radar and camera threads, the ship monitor | per radar thread: load the background, poll, judge, choose, enqueue or give up |
| `Main` | `main`'s text as the sequence `Program`, the stages' threads, the logger, the destructors | `MainStep` executes a statement; a thread runs, waits for room, logs, reports or exits |
| `RingQueueProofs`, `LidarProofs`, `AcquirerProofs`, `FuserProofs`, `SixDofPoolProofs`, `SixDofProofs`, `OutputterProofs`, `MainProofs` | theorems about the module of that name; `OutputterProofs` also has those about `MqttClient`, as the client is a member of the outputter | |

Abstraction. A point cloud, pose or packet is its timestamp or number, plus what
control depends on (empty, whose coordinates, which method). In `Lidar` a point is
the number of its block in the device's stream and its time; a block with a sync
marker, a zero distance or a distance is a choice. In `Acquirer` a frame is what
the filters and the clustering make of it: nothing, too little, or a centre on a
line. `Main` keeps of each stage its flag, the lengths of its queues and how it
waits, and leaves the inside to the other modules. Sleeps are left
out: a thread may be slow anywhere. In `Fuser`, `SixDofPool` and `Outputter` a
queue is a FIFO of capacity - 1 items; for the queues with one producer and one
consumer that is the theorem `SpscImplementsFifo`. `rq_six_dof` has six
producers and `err_task_queue_` several: for them the assumption fails, as the
run `ring_mpsc` shows, and what `SixDofPool` and `Outputter` show of results is
to be read from the point at which they are in the queue. `is_running_` of the
calculator is a plain `bool` written by `stop()`; the loop that reads it calls
functions the compiler cannot see through, so it is read anew on every round.
`isSuccessfulFlag` of the SDK is not initialized by its class; `Lidar` starts
with either value.

The modules meet at their edges. `Fuser` assumes that a lidar's timestamps do
not decrease; `Lidar` shows it of what the SDK hands out, as long as the device's
clock is not set back (`TimeForward`). `Acquirer` assumes frames that come at any
time, good or bad; `Lidar` says which. `Main` assumes nothing of the
MQTT client's thread, which `MqttClient` shows need not end when stopped, and so
promises to get as far as its join. A
pool worker that gives up, a fuser that leaves its retry loop and an acquirer
that does are steps of `Main` that `SixDofPool`, `Fuser` and `Acquirer` refine in
detail.

## Runs

| Run | Instance | Shows |
|---|---|---|
| `ring_spsc` | capacity 3, 1 producer, 1 consumer, 4 frames | `NoSlotRace`, `ExactlyOnce`, `SizeNeverUnderestimates`, refinement `ImplementsFifo` |
| `ring_mpsc` | 2 producers | violates `NoAcceptedItemLost` |
| `fuser` | 4 frames per lidar, timestamps 0..3, window 2, caches of 3, queues of 1 | `EveryPassOutputs`, `PairingIsMaximum`, `OutputMonotone`, `NoMatchableDrop`, `StopTerminates` |
| `pool` | 2 workers, 4 frames, task queue of 2, result queue of 1, 1 retry | `WorkConserving`, `AtMostOneStranded`, refinement `ImplementsLedger`, `StopReturns`, `EveryFrameSettles` |
| `sixdof` | 2 workers, 4 frames, 60 s interval, clock readings 0, 1, 60, 61, 120 | `PoseHasLength`, `PointsGetPose`, `BaseTimeForward` |
| `sixdof_coords` | 2 frames | violates `BAgainstB` |
| `outputter` | 2 results in any order, queues of one place, 1 warning | refinement `ImplementsPipe`, `ResultsGetThrough`, `ShutdownCompletes` |
| `mqtt` | no limit of reconnect attempts (the default), and a limit of 2 | `ClientsBalanced`, `PublishUsesLiveClient`, `Reconnects` |
| `mqtt_stop` | no limit (the default) | violates `StopEndsThread` |
| `lidar` | 3 data packets of 2 blocks, 1 device packet, both echo modes and models, clouds of 2 points, timestamps modulo 64 | `FramesAreSweeps`, `BadFrameOnlyIfOvertaken`, `FramesInOrder`, `TimeForward`, `SweepsReachAcquirer` |
| `acquirer` | 2 radar threads, 1 camera thread, 3 frames, 1 retry, window of 2, queues of 1, both builds | `MonitorHasBackground`, `AcquirerStops` |
| `main` | 1 radar thread, 1 pool worker, 1 output worker, queues of 1, any set of configuration files | `NothingDestroyedInUse`, `MainReturns` |

`fuser` and `lidar` also check their module's type invariant, which there holds
the limits of the caches and of the growing cloud. The type invariants of the
other modules document their variables and are part of the inductive invariants
below.

Three components are shown to implement an abstract specification. `RingQueue`
implements `BoundedFifo`, with the queue being the slots from `head_` to `tail_`.
`SixDofPool` implements `FrameLedger`: waiting are the tasks and, behind them, the
frame `calcLoop` is about to push; in work is what the workers hold. Frames are
started or dropped in the order in which they were taken, and each that was
started is finished once; a result enqueued at the last attempt also counts as
reported lost, as the code does. `Outputter` implements `LossyPipe`: the results
with the MQTT worker, in its queue, with the solve worker, in its queue and
with `outputLoop`, one behind the other, are the pipe. Of the promises stated
elsewhere, `FrameInOnePlace` (pool) and `PublishedInOrder` (outputter) are
consequences a reader may want in one line; both are theorems.
`ShutdownCompletes` follows the destructor to `mqtt_.stop()`, which returns at once;
the join of the client's thread comes after it, in the client's own destructor,
and is `mqtt_stop`'s subject. A lost result is one the model records: the code
ignores what `enqueue` returns.

Bounds. Capacity 3 with four frames wraps the ring around and fills and empties
it at every offset. Four frames per lidar and a gate of two make passes with
pairs, mismatches, both fallbacks and evictions. Queues of one or two places
overflow in every module. The clock readings of `sixdof` lie on and next to one
and two intervals, so the comparisons are exercised on both sides. Two workers
are enough for one to overtake the other. In `lidar` six blocks give up to six
markers, so that frames are replaced, stacked and overtaken; the limits on
distances and points are small enough for good and bad frames and for overflow
in both echo modes. In `acquirer` two frames fill the window and a third moves
it; centres 0, 1 and 3 lie on both sides of the threshold, so every verdict occurs. `main` has one thread of
each kind: what it checks depends on which kinds are joined when, and a second
thread of a kind has the same flag and the same queue. Deadlock checking is off where the
system really stops (after `stop()`, or when the bounded input is used up).

Fairness. Threads are weakly fair: each is a loop that the operating system
schedules and that never blocks without a timeout or a wake-up. Nothing is
assumed of the lidars, the broker, spurious wake-ups or the moment of `stop()`.
In `outputter` the timeout of `wait_for` is part of the thread's fairness.
In `lidar` the decoder and the acquirer's thread are fair, the device and the
network are not; in `acquirer` every thread and `stop()`'s join are, the fuser is
not, since it may have stopped. In `main` `main` itself and every thread's way out
of a wait are fair, while rounds that take new input are not; of the MQTT
client's thread nothing is assumed. `mqtt_stop` assumes only that the thread is
scheduled and that a client that was stopped returns from `mqtt_client_run`;
`mqtt` adds that `mqtt_client_new` does not fail for ever. Neither assumes that the
broker answers, or that `mqtt_client_run` returns when a connection is lost:
libhv's header does not say so, and `onMqttEvent` does not end it. `Reconnects`
therefore begins where the run has returned or the connect has failed, and ends
with the next attempt, not with its success.

## What the violations mean

Each is a place where the code does not do what a comment or a log message says;
`PROJECT.json` quotes the lines.

* `ring_mpsc`: two pool workers take the same slot of `rq_six_dof`; both are told
  that their result was queued.
* `sixdof_coords`: the first frame, of lidar A, becomes the reference, and the
  second, of lidar B alone, is registered against it; the branch for B then
  treats the result as a motion in B's coordinates (`six_dof_calculator.cpp:493`).
  It needs a B-only frame, that is, timestamps that mismatch.
* `mqtt_stop`: `stop()` in a short window leaves the work thread connected, and the
  destructor's join waiting.

Other disagreements can be read off the code, and the models follow the code. No
passing run checks a property on the side of either; for four of them a theorem
states, for all parameters, what the code does instead:

* The fallback to a single lidar (`point_cloud_fuser.cpp:150`, "only A has data:
  output A directly") lies behind a gate at line 89 that needs frames of both.
  Theorem `FallbackNeedsBoth`.
* The refresh interval is documented in seconds (`config_loader.h:131`,
  `monitor_config.yaml:28`) and applied in minutes (`six_dof_calculator.cpp:407`).
* `enqueueWithDropOld` is said to drop the oldest item (`data_outputter.h:123`); its
  limit is one more than the queue holds, so a full queue refuses the newest.
  Theorem `DropOldIsDead`.
* An enqueue that succeeds on the last attempt is logged as failed
  (`six_dof_calculator.cpp:158` tests only the counter). `FrameLedger` lets a frame be
  both produced and reported lost, so `ImplementsLedger` says nothing here.
* After a failed GICP the coarse transform of the current frame is returned where
  the comment at `six_dof_calculator.cpp:346` and the log at `:348` say that the previous
  result is kept.
* `main.cpp:59` and `:68` speak of all threads stopped; at that point the
  outputter's workers, the MQTT client's thread and the SDK's detached threads
  run, and the message is never logged, because `logger_` is already null. Theorem
  `LoggerSafeForStages` says that no other thread is left; for these the test of
  `logger_` and its use can straddle the reset, which the model reaches (`crashed`).
* A ship is "stable" after N consecutive frames (`lidar_bg_diff.h:99`, the
  repository's README); an empty foreground between two frames does not clear
  the window. Theorem `StableMeansStable` says what holds.
* A lost MQTT connection is meant to lead to `reconnect()`; that needs
  `mqtt_client_run` to return, which the event callback does not cause. Connects
  that fail go round the loop without `reconnect()`, so they do not count as
  attempts.
* `MAX_RETRY_LIDAR` is described as the largest number of retries, 100; the first
  report comes with the 102nd poll in vain, the later ones 101 polls apart.
* `point_cloud_acquirer.cpp:132` passes the device port and the data port in the
  opposite order to `setPortAndIP`'s parameters; both packet kinds go through the
  same queue, so the decoder does not depend on it.
* `getDevPacketState` returns the data packets' message (`GetLidarData.cpp:309`).
* Results are said to be stored in a database; the call that would queue them is
  commented out (`data_outputter.cpp:237`).

## Theorems

Each is proved from its module's `Spec`, without fairness, for every value of
the constants. The form is always the same: an invariant that contains the
property and is inductive holds initially, every action preserves it (one lemma
or step per action), and the property, or the action property, follows. Each of
these invariants was first checked by TLC on an instance like that of the run.
What follows says what the invariant adds, and why it must.

`RingQueueProofs`:

* `TypeCorrect`: any number of producers and consumers.
* `SpscNoSlotRace`, `SpscExactlyOnce`, `SpscSizeNeverUnderestimates`: one producer
  and one consumer (`OneEach`). `SpscInv` adds that the local copy of `tail_`
  (`head_`) equals the shared one while its owner is inside an operation, that the
  slot about to be published already holds the item, that the item read is the
  one at `head_`, and that the head a running `size()` has loaded is not ahead of
  the present one.
* `SpscImplementsFifo`: every step of the ring is a step of `BoundedFifo` or a
  stutter, with the queue being the slots from `head_` to `tail_`. It rests on
  lemmas about `Succ` and `Occupied` (addition modulo the capacity).

`LidarProofs`, for any packet size, limits, clock range and number of packets:

* `LidarTypeCorrect`: among the types, the limits of a sweep and of a stacked frame.
* `FramesAreWholeSweeps`. Blocks are numbered by the device, so the proof first
  needs that queued packets are in the device's order and overlap neither one
  another nor anything decoded (`PacketsInv`, `BlockInv`); then the cloud in the
  making holds exactly what was accepted since the last marker, the saved one
  the sweep before, and every frame on its way, finished, taken or returned, whole
  sweeps (`SyncInv`, `SweepInv`). The k-th marker from the end is defined with a
  cardinality; lemmas say what it is for k = 1 and 2, and that later markers and
  points do not change it.
* `FramesAlwaysInOrder`: `OrderInv` orders the frame last returned, the one just
  taken, the one announced by `isFrameOK` and the sweep last flagged.
* `BadFrameWasOvertaken`: `FlagInv` says that the flag tells no more than the
  quality of the sweep that wrote it last, so that a wrong "true" needs a later one.
* `TimeAlwaysForward`: packets are decoded in the order of their times
  (`ClockInv`), and a point's time lies between its packet's and the one before
  (`TimeInv`); the unsigned subtraction does not wrap then. The range of the
  timestamps plays no part in it.

`AcquirerProofs`, for any queue bound, retry limit, window and threshold:

* `AcquirerTypeCorrect`: among the types, the limits of the queues and windows.
* `NeverMonitorsBlind`: past its initialisation a thread has its background or
  finds the monitor off (`BackgroundOrOff`), since `ship_monitor` is only cleared.
* `StableMeansStable` (no run's property; see the disagreements above): `HistoryInv` relates `center_history_` to the last frames the
  monitor was given: it is no longer than what came since a small cluster, and
  it ends with the centres that came last.

`FuserProofs`, for every window, cache limit, queue bound and number of frames:

* `FuserTypeCorrect`, `PassesOutput`, `FuserOutputMonotone`,
  `FuserNoMatchableDrop`. The invariant `FuserInv` adds that each lidar's stream
  (cache, then queue, then newest timestamp) is sorted, that the frame being
  emitted was made from the cache fronts, and that what was output is not
  newer than what is still to come from either cache.
* `FallbackNeedsBoth` (no run's property). On top of `FuserInv`, `CountInv` says that a lidar has
  delivered at least as many frames as are cached and queued for it, whatever was
  evicted or dropped, and that a pass is under way only when both have delivered
  more than `FRAME_CACHE`.
* `FuserPairingIsMaximum`. A largest pairing of two sequences is a maximum over
  sets of index pairs, so the proof is one of exchange and not of counting.
  `Greedy(a, b, p, q, n)` says, of the moment when the loop has passed `p` frames of
  one cache and `q` of the other and made `n` pairs, that `n` pairs can be made from
  what was passed, and that no pairing of the whole exceeds `n` plus one of the
  rest. A pair at the fronts keeps it (`GreedyPairs`): a pairing of the rest uses
  the fronts in at most two pairs, and where it uses both, `Exchange` re-pairs
  their partners, which lie close enough because both sequences are sorted. A
  dropped front keeps it (`GreedyDropsA`, `GreedyDropsB`), as everything behind the
  other front is at least as far away. `PairInv` says that during a pass the
  caches are suffixes of those it began with and the pairs made are `Greedy`; when
  one cache is empty the rest has no pairing left (`GreedyEnds`).

`SixDofPoolProofs`, for any number of workers, limits and frames:

* `PoolTypeCorrect`: among the types, the retry counter's limit, for which a
  worker must have retries left whenever it sleeps (`RetryInv`).
* `NoTaskLeftSleeping`: `WorkConserving` is inductive with the types; the proof
  counts the woken workers as each push wakes one and each woken one takes one.
* `EveryFrameInOnePlace`: `FramesInv` says it without counting: the tasks are
  different frames, no two workers have the same one, what a worker has is not
  queued, and every frame taken is accounted for.
* `StrandsAtMostOne`, for a pool with a worker: from the moment a worker has left,
  the queue and what `calcLoop` may still push make at most one (`LeftInv`), and
  `stop()` passes the join only when all have left (`StopInv`). A pool whose
  configuration could not be read has no workers, and there it is false.
* `PoolImplementsLedger`. Beyond the invariant of the other theorems it needs
  `SettledInv`, that a settled frame is nowhere in the pool any more: without it a
  frame could be finished twice.

`SixDofProofs`, for any number of workers, interval and clock readings:

* `SixDofTypeCorrect`, `PoseAlwaysHasLength`, `PointsAlwaysGetPose`,
  `BaseTimeNeverBack`. The invariant adds that a reference
  with points has been measured, at the time or before (`ExtentKnown`), and that
  a worker at the lock has the frame it was given (`WaitingHasFrame`).

`OutputterProofs`, for queues and history of any size:

* `OutputterTypeCorrect`: among the types, the limits of queues and history.
* `AlwaysPublishedInOrder`: results on their way are in one of six places, from
  `outputLoop` to published. `PipeInv` says that all of one place was taken before
  all of the next, and that each queue is in order itself; `TakenInv`, that no
  result is taken twice. One lemma (`MoveKeepsOrder`) covers the six actions that
  move a result.
* `OutputterImplementsPipe`. The pipe is a concatenation of five sequences, so the
  proof has lemmas on what moving one result across each of the seams does to it
  (`LineEnter`, `LinePass`, `LineDrop`, `LineSolve`, `LineTake`, `LineLeave`): nothing,
  or one step of the pipe. `FlowInv` adds that a lost result was taken, so that
  what enters is new, and that `start()` finds no `outputLoop`, so that it cannot
  make a result vanish.
* `DropOldIsDead` (no run's property): below its limit `enqueueWithDropOld` drops
  nothing, and the invariant says that a queue is always below it.
* `ClientFreedOnce`, `PublishIsSafe` about `MqttClient`, for any limit on reconnect
  attempts: `mqtt_client_new` overwrites `mqtt_cli_`, so the invariant says where
  the work thread holds no client (`NoClientBeforeNew`), whatever `stop()` does, and
  that `mqtt_cli_` is null or points to a client that is not freed.

`MainProofs`, for any number of threads and limits, and any configuration files:

* `LoggerSafeForStages` (no run's property), `DestructorsAreSafe`. The invariant ties `main`'s place in
  its text to what exists: no thread is left after its stage's join
  (`GoneAfterJoin`), an object is there until its destructor
  (`ThereUntilDestroyed`), and `logger_` is set from `Init` to the flush
  (`LoggerSet`). The theorems follow from the order of those statements.

Assumptions: the named `ASSUME`s of the modules (positive capacities and limits,
`MAX_CACHE_FRAME > FRAME_CACHE`, `CountCap >= MinNonZero`, sets of threads that do
not overlap), and in the statements `OneEach` for `Spsc*` and `Workers # {}` for
`StrandsAtMostOne`. In `Fuser` the guard of `RadarEnqueue`, that one lidar's
timestamps do not decrease, is `TimeAlwaysForward`.

Only model-checked: the liveness properties (`StopTerminates`, `StopReturns`,
`EveryFrameSettles`, `ResultsGetThrough`, `ShutdownCompletes`, `Reconnects`,
`SweepsReachAcquirer`, `AcquirerStops`, `MainReturns`), whose proofs need
`ENABLED` and fairness, which the prover does not handle. Every invariant, action
property and refinement of a passing run is a theorem. That the runs' fair
specifications keep the theorems is immediate, since each implies its `Spec`.

## Not modelled

The numerical work (NDT, GICP, filters, clustering, the SDK's conversion to
coordinates, Euler angles, accelerations), formatting (JSON, CSV, log lines),
file clean-up and configuration parsing, whose outcome is an input. Of the SDK:
the commands that set device parameters and their acknowledgements, the frame
callback and `LidarStop`, none of which this program uses. `WharfDockChecker` is
not called. libhv, spdlog, PCL and yaml-cpp are external; libhv appears in
`MqttClient` as the events its callers can observe. The `FATAL` branch of
`reportError` has no caller.

Small things the modules leave out: `g_voxel_filter` of `lidar_bg_diff.cpp:11`, one
filter that both radar threads use without a lock, whose effect is on the data;
`loadPcdFile` returning `nullptr` for a file that cannot be read
(`point_cloud_acquirer.cpp:118`), which the fuser would then dereference; the return
for an unknown `lidar_id` (`six_dof_calculator.cpp:498`), which no caller sets;
`mqtt_.init` failing (`data_outputter.cpp:60`), which needs a client that already
runs; UDP packets that arrive twice or out of order; the unlocked
`allDataValue.empty()` of `GetLidarData_LS.cpp:28`, which is read as one step.

Hazards that no property covers, besides those `PROJECT.json` lists: results
leave the pool out of order, so the unsigned difference of times in
`getBowSternAcc` (`data_outputter.cpp:177`) can wrap around; the ship's extent is
measured once and never again (`six_dof_calculator.cpp:438`); and the three items
of the next paragraph.

Left out on purpose, where the outcome is undefined or the target's: what a
detached SDK thread does after its object is deleted; the assignment of
`last_error_` by several threads (nothing reads it); the conversion of a negative
double to an unsigned time, which `Lidar` saturates as armv8 does, and which only
happens after the device's clock was set back. With two echoes the SDK adds a
second point at the origin when the second distance is zero; `Lidar` has both
points, not their place.

## Plan

Done, in this order: ring queue and its abstract FIFO; fuser; pool; reference
frame; outputter; MQTT client; proofs of the first two; the SDK; the acquirer
with the ship monitor; `main` with the logger and all threads; the proof that the
fuser's gate needs both lidars; proofs of the safety properties of all other
modules; the abstract specifications of the pool and of the outputter, and the proofs
that `SixDofPool` and `Outputter` implement them; the proof that the fuser's pairing
is a largest one.

Next: `pushHistory` and `getBowSternAcc` with 64-bit subtraction; `Main` composed
from the stages' own modules instead of its reduced ones.
