------------------------------ MODULE Acquirer ------------------------------
(***************************************************************************)
(* PointCloudAcquirer (src/point_cloud_acquirer.cpp) and the ship monitor  *)
(* it consults, LidarBgDiff (src/lidar_bg_diff.cpp).  Two radar threads    *)
(* and two camera threads run until stop().  The radar threads share the   *)
(* plain int lidarCfg_.ship_monitor: a thread whose background cloud       *)
(* cannot be loaded sets it to 0 for both.                                 *)
(*                                                                         *)
(* The part of the radar loop that reads the device is under #if 0.  The   *)
(* variable deviceLoop stands for that condition; where it is TRUE the     *)
(* loop is the text with #if 1, where it is FALSE the program as built.    *)
(*                                                                         *)
(* A frame is what the monitor makes of it: Empty when nothing differs     *)
(* from the background, Small when no cluster, or one with too few         *)
(* points, is left, otherwise the centre of the ship, on a line.  A queue  *)
(* is its length.                                                          *)
(***************************************************************************)
EXTENDS Integers, Sequences

CONSTANTS
    MaxRetry,    \* MAX_RETRY_LIDAR, 100
    QueueBound,  \* places in rq_cloudA and rq_cloudB, 99
    StableCount, \* stable_frame_cnt_
    StableDist,  \* stable_dist_thresh_
    Cameras,     \* the camera threads, two
    Centres,     \* bound: positions of the ship
    MaxFrames    \* bound: frames the two devices deliver

ASSUME AcquirerAssumption ==
    /\ MaxRetry \in Nat /\ QueueBound \in Nat \ {0} /\ StableCount \in Nat \ {0}
    /\ StableDist \in Nat /\ Centres \subseteq Nat /\ MaxFrames \in Nat

Radars == {"A", "B"}
Empty == -1
Small == -2
Frames == {Empty, Small} \cup Centres

VARIABLES
    deviceLoop,      \* whether the #if 0 block is compiled; fixed
    is_running, mainPc,
    ship_monitor,    \* lidarCfg_.ship_monitor # 0
    pc,              \* per thread: where it is
    bg_ready,        \* per radar: bg_ready_ of its LidarBgDiff
    try_get_cloud, center_history, ship_out, qlen,   \* per radar
    status,          \* per radar: the monitor's last verdict
    sysState,        \* system_state_ of SystemStateManager
    recent,          \* history, per radar: the last StableCount frames the monitor was given
    frames           \* history: how many frames the devices delivered

perFrame == <<center_history, status, recent>>
counters == <<try_get_cloud, sysState, frames>>
vars == <<deviceLoop, is_running, mainPc, ship_monitor, pc, bg_ready, ship_out, qlen,
          perFrame, counters>>

Init == /\ deviceLoop \in BOOLEAN /\ is_running = FALSE /\ mainPc = "start"
        /\ ship_monitor = FALSE
        /\ pc = [t \in Radars \cup Cameras |-> "none"]
        /\ bg_ready = [r \in Radars |-> FALSE]
        /\ try_get_cloud = [r \in Radars |-> 0]
        /\ center_history = [r \in Radars |-> <<>>] /\ recent = [r \in Radars |-> <<>>]
        /\ ship_out = [r \in Radars |-> FALSE] /\ qlen = [r \in Radars |-> 0]
        /\ status = [r \in Radars |-> "SHIP_LEAVE"] /\ sysState = "RUNNING"
        /\ frames = 0

Goto(t, s) == pc' = [pc EXCEPT ![t] = s]

-----------------------------------------------------------------------------
(* start() and stop(), called by main *)

\* A configuration file cannot be read: no thread is created
StartFails == /\ mainPc = "start" /\ mainPc' = "run"
              /\ UNCHANGED <<deviceLoop, is_running, ship_monitor, pc, bg_ready, ship_out, qlen,
                             perFrame, counters>>

Start(m) == /\ mainPc = "start" /\ mainPc' = "run"
            /\ ship_monitor' = m /\ is_running' = TRUE
            /\ pc' = [t \in Radars \cup Cameras |-> IF t \in Radars THEN "init" ELSE "loop"]
            /\ UNCHANGED <<deviceLoop, bg_ready, ship_out, qlen, perFrame, counters>>

Stop == /\ mainPc = "run" /\ mainPc' = "join"
        /\ is_running' = FALSE
        /\ UNCHANGED <<deviceLoop, ship_monitor, pc, bg_ready, ship_out, qlen, perFrame, counters>>

Join == /\ mainPc = "join" /\ \A t \in Radars \cup Cameras : pc[t] \in {"none", "exited"}
        /\ mainPc' = "stopped"
        /\ UNCHANGED <<deviceLoop, is_running, ship_monitor, pc, bg_ready, ship_out, qlen,
                       perFrame, counters>>

\* The camera threads only sleep, 30 s at a time
CameraLoop(c) == /\ pc[c] = "loop" /\ ~is_running
                 /\ Goto(c, "exited")
                 /\ UNCHANGED <<deviceLoop, is_running, mainPc, ship_monitor, bg_ready, ship_out,
                                qlen, perFrame, counters>>

-----------------------------------------------------------------------------
(* A radar thread before its loop: initLidarBgProcessor *)

frozen == <<deviceLoop, is_running, mainPc>>

NoMonitor(r) == /\ pc[r] = "init" /\ ~ship_monitor
                /\ Goto(r, "loop")
                /\ UNCHANGED <<frozen, ship_monitor, bg_ready, ship_out, qlen, perFrame, counters>>

LoadBackground(r, ok) ==
    /\ pc[r] = "init" /\ ship_monitor
    /\ bg_ready' = [bg_ready EXCEPT ![r] = ok]
    /\ Goto(r, IF ok THEN "loop" ELSE "disable")
    /\ UNCHANGED <<frozen, ship_monitor, ship_out, qlen, perFrame, counters>>

\* Mutant: the failure is only logged
MDisable(r) == /\ pc[r] = "disable"
               /\ Goto(r, "loop")
               /\ UNCHANGED <<frozen, ship_monitor, bg_ready, ship_out, qlen, perFrame, counters>>

Disable(r) == /\ pc[r] = "disable"
              /\ ship_monitor' = FALSE
              /\ Goto(r, "loop")
              /\ UNCHANGED <<frozen, bg_ready, ship_out, qlen, perFrame, counters>>

-----------------------------------------------------------------------------
(* The loop: read the device *)

Loop(r) == /\ pc[r] = "loop"
           /\ Goto(r, IF ~is_running THEN "exited" ELSE IF deviceLoop THEN "poll" ELSE "replay")
           /\ ship_out' = [ship_out EXCEPT ![r] = FALSE]
           /\ UNCHANGED <<frozen, ship_monitor, bg_ready, qlen, perFrame, counters>>

TimedOut(r) == try_get_cloud[r] > MaxRetry

\* No frame yet; after too many rounds reportError(STATUS_ERROR)
NoFrame(r) == /\ pc[r] = "poll"
              /\ sysState' = IF TimedOut(r) THEN "RUNERROR" ELSE sysState
              /\ try_get_cloud' = [try_get_cloud EXCEPT ![r] =
                                      IF TimedOut(r) THEN 1 ELSE try_get_cloud[r] + 1]
              /\ Goto(r, "loop")
              /\ UNCHANGED <<frozen, ship_monitor, bg_ready, ship_out, qlen, perFrame, frames>>

\* A frame; it may be bad or have no points
FrameReady(r, usable) ==
    /\ pc[r] = "poll" /\ frames < MaxFrames
    /\ frames' = frames + 1
    /\ try_get_cloud' = [try_get_cloud EXCEPT ![r] = 0]
    /\ Goto(r, IF usable THEN "frame" ELSE "loop")
    /\ UNCHANGED <<frozen, ship_monitor, bg_ready, ship_out, qlen, perFrame, sysState>>

-----------------------------------------------------------------------------
(* The ship monitor: monitorShip and judgeShipStatus *)

\* The window of centres after a ship at c was seen
Window(h, c) == LET w == Append(h, c) IN IF Len(w) > StableCount THEN Tail(w) ELSE w

Distance(a, b) == IF a > b THEN a - b ELSE b - a

Verdict(h, c) == LET w == Window(h, c)
                 IN IF Len(w) >= StableCount /\ Distance(c, w[1]) < StableDist
                    THEN "SHIP_STABLE" ELSE "SHIP_MOVING"

\* What becomes of center_history_: it is cleared when the cluster is too
\* small, but not when nothing differs from the background
History(h, f) == CASE f = Empty -> h
                   [] f = Small -> <<>>
                   [] OTHER -> Window(h, f)

LastFew(s, f) == LET w == Append(s, f) IN IF Len(w) > StableCount THEN Tail(w) ELSE w

\* Without a background extractForeground finds nothing.  What the voxel
\* filter makes of a frame is part of the choice of f.
Seen(r, f) == IF bg_ready[r] THEN f ELSE Empty

NotMonitored(r) == /\ pc[r] = "frame" /\ ~ship_monitor
                   /\ Goto(r, "choose")
                   /\ UNCHANGED <<frozen, ship_monitor, bg_ready, ship_out, qlen, perFrame, counters>>

\* Only a frame of a ship that lies still goes on
Monitored(r, f) ==
    LET g == Seen(r, f)
        v == IF g \in {Empty, Small} THEN "SHIP_LEAVE" ELSE Verdict(center_history[r], g)
    IN /\ pc[r] = "frame" /\ ship_monitor
       /\ center_history' = [center_history EXCEPT ![r] = History(center_history[r], g)]
       /\ recent' = [recent EXCEPT ![r] = LastFew(recent[r], g)]
       /\ status' = [status EXCEPT ![r] = v]
       /\ ship_out' = [ship_out EXCEPT ![r] = TRUE]
       /\ Goto(r, IF v = "SHIP_STABLE" THEN "choose" ELSE "loop")
       /\ UNCHANGED <<frozen, ship_monitor, bg_ready, qlen, counters>>

-----------------------------------------------------------------------------
(* Enqueue, and try again while the queue is full and the acquirer runs *)

\* The flag is read again: the ship's points, or the whole cloud
Choose(r) == /\ pc[r] = "choose"
             /\ Goto(r, IF ship_monitor /\ ship_out[r] THEN "cut" ELSE "whole")
             /\ UNCHANGED <<frozen, ship_monitor, bg_ready, ship_out, qlen, perFrame, counters>>

\* What follows the enqueue of the device's frame: the replay loop
After(r) == IF pc[r] = "replay" THEN "loop" ELSE "replay"

Enqueue(r) == /\ pc[r] \in {"cut", "whole", "replay"} /\ qlen[r] < QueueBound
              /\ qlen' = [qlen EXCEPT ![r] = qlen[r] + 1]
              /\ Goto(r, After(r))
              /\ UNCHANGED <<frozen, ship_monitor, bg_ready, ship_out, perFrame, counters>>

\* Mutant: the retry does not look at is_running_
MGiveUp(r) == FALSE /\ UNCHANGED vars

\* A full queue is given up only when the acquirer is being stopped
GiveUp(r) == /\ pc[r] \in {"cut", "whole", "replay"} /\ qlen[r] >= QueueBound /\ ~is_running
             /\ Goto(r, After(r))
             /\ UNCHANGED <<frozen, ship_monitor, bg_ready, ship_out, qlen, perFrame, counters>>

\* The fuser takes a frame, while it runs
Dequeue(r) == /\ qlen[r] > 0
              /\ qlen' = [qlen EXCEPT ![r] = qlen[r] - 1]
              /\ UNCHANGED <<frozen, ship_monitor, pc, bg_ready, ship_out, perFrame, counters>>

RadarLoop(r) == \/ NoMonitor(r) \/ (\E ok \in BOOLEAN : LoadBackground(r, ok)) \/ Disable(r)
                \/ Loop(r) \/ NoFrame(r) \/ (\E u \in BOOLEAN : FrameReady(r, u))
                \/ NotMonitored(r) \/ (\E f \in Frames : Monitored(r, f))
                \/ Choose(r) \/ Enqueue(r) \/ GiveUp(r)

Next == \/ StartFails \/ (\E m \in BOOLEAN : Start(m)) \/ Stop \/ Join
        \/ \E c \in Cameras : CameraLoop(c)
        \/ \E r \in Radars : RadarLoop(r) \/ Dequeue(r)

Spec == Init /\ [][Next]_vars

\* The threads are scheduled; nothing is assumed of the device, the fuser, or
\* of when main calls stop()
FairSpec == /\ Spec /\ WF_vars(Join)
            /\ \A c \in Cameras : WF_vars(CameraLoop(c))
            /\ \A r \in Radars : WF_vars(RadarLoop(r))

-----------------------------------------------------------------------------
(* Properties *)

Points == {"none", "init", "disable", "loop", "poll", "frame", "choose", "cut", "whole",
           "replay", "exited"}

\* Every variable has its type; the queues, the retry counters and the windows
\* of centres keep their limits.
TypeOK ==
    /\ deviceLoop \in BOOLEAN /\ is_running \in BOOLEAN /\ ship_monitor \in BOOLEAN
    /\ mainPc \in {"start", "run", "join", "stopped"} /\ pc \in [Radars \cup Cameras -> Points]
    /\ bg_ready \in [Radars -> BOOLEAN] /\ ship_out \in [Radars -> BOOLEAN]
    /\ qlen \in [Radars -> 0 .. QueueBound] /\ try_get_cloud \in [Radars -> 0 .. MaxRetry + 1]
    /\ status \in [Radars -> {"SHIP_LEAVE", "SHIP_MOVING", "SHIP_STABLE"}]
    /\ sysState \in {"RUNNING", "RUNERROR"} /\ frames \in 0 .. MaxFrames
    /\ center_history \in [Radars -> Seq(Centres)] /\ recent \in [Radars -> Seq(Frames)]
    /\ \A r \in Radars : Len(center_history[r]) <= StableCount /\ Len(recent[r]) <= StableCount

\* Either thread switches the monitor off for both, at any time and without a
\* lock, yet no frame is judged against a background that was not loaded: the
\* verdict would always be "the ship has left" and the lidar silent for ever.
MonitorHasBackground == \A r \in Radars : pc[r] = "frame" /\ ship_monitor => bg_ready[r]

\* stop() returns: no thread stays in the retry loop of a queue that the fuser,
\* stopped before the acquirer, no longer empties (main.cpp:60-63).
AcquirerStops == (mainPc = "join") ~> (mainPc = "stopped")
=============================================================================
