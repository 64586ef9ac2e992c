------------------------------- MODULE SixDof -------------------------------
(***************************************************************************)
(* calculateSixDof (src/six_dof_calculator.cpp): several pool workers      *)
(* register their frames against one shared reference frame, fuse_pc_base_,*)
(* which is replaced when it is missing, empty or too old.  A worker reads *)
(* the clock before it has base_mtx_, so its now_tp may be older than the  *)
(* reference it then finds.                                                *)
(*                                                                         *)
(* A point cloud is what the control flow and the properties see of it:    *)
(* which frame it is, whose coordinates it is in (lidar_id: pairs are in   *)
(* A's), and whether it is empty.  lidar_id is "A" or "B", as no other is   *)
(* ever set.  A transform is the method that computed it.                  *)
(***************************************************************************)
EXTENDS Integers

CONSTANTS
    Workers,    \* threads that may be inside calculateSixDof
    IntervalMin,\* base_update_interval_min, 300 in monitor_config.yaml
    Clock,      \* bound: the readings of steady_clock, in seconds
    MaxFrames   \* bound: frames calculated in a run

ASSUME SixDofAssumption ==
    /\ IntervalMin \in Nat /\ MaxFrames \in Nat
    /\ Clock \subseteq Nat /\ 0 \in Clock

Clouds == [n : 1 .. MaxFrames, lidar_id : {"A", "B"}, empty : BOOLEAN]
NoCloud == [n |-> 0, lidar_id |-> "A", empty |-> TRUE]  \* fuse_pc_base_ before the first frame

NoPose == "none"

VARIABLES
    clock,        \* steady_clock
    base,         \* fuse_pc_base_
    baseTp,       \* last_base_update_tp_
    extremum,     \* base_extremum_calc_
    measured,     \* the frame base_min_x_body_ and base_max_x_body_ came from
    wPc, wFrame, nowTp,  \* per worker: where it is, c, now_tp
    frames,       \* frames handed to the workers so far
    res           \* the result returned last

vars == <<clock, base, baseTp, extremum, measured, wPc, wFrame, nowTp, frames, res>>

NoResult == [c |-> NoCloud, base |-> NoCloud, confidence |-> 0, pose |-> NoPose,
             length |-> NoCloud]

Init == /\ clock = 0 /\ base = NoCloud /\ baseTp = 0
        /\ extremum = FALSE /\ measured = NoCloud
        /\ wPc = [w \in Workers |-> "idle"]
        /\ wFrame = [w \in Workers |-> NoCloud] /\ nowTp = [w \in Workers |-> 0]
        /\ frames = 0 /\ res = NoResult

Tick(t) == /\ t > clock
           /\ clock' = t
           /\ UNCHANGED <<base, baseTp, extremum, measured, wPc, wFrame, nowTp, frames, res>>

-----------------------------------------------------------------------------
\* A task starts: now_tp is read, then the worker waits for base_mtx_
Enter(w, id, isEmpty) ==
    /\ wPc[w] = "idle" /\ frames < MaxFrames
    /\ frames' = frames + 1
    /\ wFrame' = [wFrame EXCEPT ![w] = [n |-> frames + 1, lidar_id |-> id, empty |-> isEmpty]]
    /\ nowTp' = [nowTp EXCEPT ![w] = clock]
    /\ wPc' = [wPc EXCEPT ![w] = "lock"]
    /\ UNCHANGED <<clock, base, baseTp, extremum, measured, res>>

\* std::chrono::minutes(interval_min), in seconds
IntervalDur == 60 * IntervalMin

\* Mutant: an empty reference is kept until it is too old
MNeedUpdateBase(now) == base = NoCloud \/ now - baseTp >= IntervalDur

\* Mutant: the age is taken as a magnitude, as an unsigned difference would
MNeedUpdateBaseAbs(now) == \/ base.empty
                           \/ now - baseTp >= IntervalDur
                           \/ baseTp - now >= IntervalDur

\* The difference is signed: a now_tp older than the reference is negative
NeedUpdateBase(now) == base.empty \/ now - baseTp >= IntervalDur

\* Mutant: the extent counts as measured although the frame was empty
MMeasures(c) == ~extremum

\* The ship's extent is measured once, on the first reference with points
Measures(c) == ~extremum /\ ~c.empty

UpdateBase(c, now) == /\ base' = c /\ baseTp' = now
                      /\ extremum' = (extremum \/ Measures(c))
                      /\ measured' = IF Measures(c) THEN c ELSE measured

\* coarseRegistration: NDT, or the shift between the centroids when NDT fails
CoarseRegistration == {"ndt", "centroid"}

\* fineRegistrationGICP: the refined transform, or init_trans when GICP fails
FineRegistrationGICP(initTrans) == {"gicp", initTrans}

Poses(c, dst) == IF c.empty \/ dst.empty THEN {NoPose}
                 ELSE UNION {FineRegistrationGICP(t) : t \in CoarseRegistration}

\* All that happens under base_mtx_.  Confidence in percent; without points
\* it is the 0 or 100 that was set on the way.
Calculate(w) ==
    LET c == wFrame[w]
        update == NeedUpdateBase(nowTp[w])
    IN  /\ wPc[w] = "lock"
        /\ IF update THEN UpdateBase(c, nowTp[w])
           ELSE UNCHANGED <<base, baseTp, extremum, measured>>
        /\ \E p \in Poses(c, base') :
              res' = [c |-> c, base |-> base', pose |-> p,
                      confidence |-> IF p # NoPose THEN 95 ELSE IF update THEN 100 ELSE 0,
                      length |-> IF p # NoPose THEN measured' ELSE NoCloud]
        /\ wPc' = [wPc EXCEPT ![w] = "idle"]
        /\ UNCHANGED <<clock, wFrame, nowTp, frames>>

Next == \/ \E t \in Clock : Tick(t)
        \/ \E w \in Workers : \/ \E id \in {"A", "B"}, e \in BOOLEAN : Enter(w, id, e)
                              \/ Calculate(w)

Spec == Init /\ [][Next]_vars

-----------------------------------------------------------------------------
(* Properties *)

PoseSet == {NoPose, "ndt", "centroid", "gicp"}

\* Every variable has its type, and base_extremum_calc_ says whether the
\* cached extent was measured on a frame with points.
TypeOK == /\ clock \in Clock /\ baseTp \in Clock /\ nowTp \in [Workers -> Clock]
          /\ base \in Clouds \cup {NoCloud} /\ measured \in Clouds \cup {NoCloud}
          /\ extremum = ~measured.empty
          /\ wPc \in [Workers -> {"idle", "lock"}]
          /\ wFrame \in [Workers -> Clouds \cup {NoCloud}]
          /\ frames \in 0 .. MaxFrames
          /\ res.c \in Clouds \cup {NoCloud} /\ res.base \in Clouds \cup {NoCloud}
          /\ res.pose \in PoseSet /\ res.confidence \in {0, 95, 100}
          /\ res.length \in Clouds \cup {NoCloud}

\* A result with a pose carries a ship length that was really measured, on a
\* frame with points, whatever empty frames became the reference before.
PoseHasLength == res.pose # NoPose => ~res.length.empty

\* A frame with points always gets a pose: an empty reference is replaced at
\* once by the next frame that a worker calculates.
PointsGetPose == ~res.c.empty => res.pose # NoPose

\* The reference does not go back in time, although workers reach base_mtx_
\* in another order than they read the clock; only an empty one may be
\* replaced by a worker with an older clock.
BaseTimeForward == [][baseTp' < baseTp => base.empty]_vars

\* "Lidar B: a similarity transform directly, without the detour through A": a
\* frame of lidar B alone is registered against a reference in B's coordinates.
BAgainstB == res.pose # NoPose /\ res.c.lidar_id = "B" => res.base.lidar_id = "B"
=============================================================================
