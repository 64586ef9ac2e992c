--------------------------- MODULE SixDofProofs ---------------------------
(***************************************************************************)
(* calculateSixDof for any number of workers, any clock readings and any   *)
(* refresh interval.                                                       *)
(***************************************************************************)
EXTENDS SixDof, TLAPS

-----------------------------------------------------------------------------
(* What the properties of a result need of the shared reference: once one  *)
(* with points was installed the extent has been measured, and a worker    *)
(* that waits for base_mtx_ holds a real frame.                            *)

\* A reference with points implies that base_extremum_calc_ was set, with or
\* before it: later empty references do not undo the measurement.
ExtentKnown == ~base.empty => ~measured.empty

\* A worker waiting for base_mtx_ carries the frame it was given.
WaitingHasFrame == \A w \in Workers : wPc[w] = "lock" => wFrame[w] \in Clouds

ResultInv == PoseHasLength /\ PointsGetPose

SixDofInv == TypeOK /\ ExtentKnown /\ WaitingHasFrame /\ ResultInv

\* The frames and the placeholder are records with these fields.
LEMMA CloudFields ==
    /\ \A c \in Clouds : c.n \in 1 .. MaxFrames /\ c.lidar_id \in {"A", "B"} /\ c.empty \in BOOLEAN
    /\ NoCloud.n = 0 /\ NoCloud.empty = TRUE
    /\ NoCloud \notin Clouds
  BY SixDofAssumption DEF Clouds, NoCloud

\* Clock readings are numbers of seconds.
LEMMA ClockInt == \A t \in Clock : t \in Int
  BY SixDofAssumption

\* Poses: none without points on both sides, otherwise one, whichever of NDT
\* and GICP fails.
LEMMA PosesValue ==
    ASSUME NEW c, NEW dst, NEW p \in Poses(c, dst)
    PROVE  p \in PoseSet /\ (p = NoPose <=> c.empty \/ dst.empty)
  BY DEF Poses, PoseSet, NoPose, CoarseRegistration, FineRegistrationGICP

\* There is no reference and no result yet.
LEMMA SixDofInit == Init => SixDofInv
<1> SUFFICES ASSUME Init PROVE SixDofInv
  OBVIOUS
<1>1. /\ res.c = NoCloud /\ res.base = NoCloud /\ res.pose = NoPose
      /\ res.confidence = 0 /\ res.length = NoCloud
  BY DEF Init, NoResult
<1>2. NoCloud.empty
  BY CloudFields
<1>3. TypeOK
  <2>1. clock \in Clock /\ baseTp \in Clock /\ nowTp \in [Workers -> Clock] /\ frames \in 0 .. MaxFrames
    BY SixDofAssumption DEF Init
  <2>2. /\ base \in Clouds \cup {NoCloud} /\ measured \in Clouds \cup {NoCloud}
        /\ extremum = ~measured.empty
        /\ wPc \in [Workers -> {"idle", "lock"}] /\ wFrame \in [Workers -> Clouds \cup {NoCloud}]
    BY <1>2 DEF Init
  <2> QED BY <1>1, <2>1, <2>2 DEF TypeOK, PoseSet
<1>4. ResultInv
  BY <1>1, <1>2 DEF ResultInv, PoseHasLength, PointsGetPose
<1>5. ExtentKnown /\ WaitingHasFrame
  BY <1>2 DEF Init, ExtentKnown, WaitingHasFrame
<1> QED BY <1>3, <1>4, <1>5 DEF SixDofInv

\* Calculate: the reference it leaves behind.
LEMMA CalculateBase ==
    ASSUME SixDofInv, NEW w \in Workers, Calculate(w)
    PROVE  /\ wFrame[w] \in Clouds /\ nowTp[w] \in Clock
           /\ base' \in Clouds \cup {NoCloud} /\ measured' \in Clouds \cup {NoCloud}
           /\ baseTp' \in Clock
           /\ extremum' = ~measured'.empty
           /\ ~base'.empty => ~measured'.empty
           /\ ~wFrame[w].empty => ~base'.empty
           /\ baseTp' < baseTp => base.empty
<1>1. /\ wFrame[w] \in Clouds /\ nowTp[w] \in Clock /\ baseTp \in Clock
      /\ wFrame[w].empty \in BOOLEAN /\ base.empty \in BOOLEAN /\ measured.empty \in BOOLEAN
      /\ base \in Clouds \cup {NoCloud} /\ measured \in Clouds \cup {NoCloud}
      /\ extremum = ~measured.empty
      /\ ~base.empty => ~measured.empty
  BY CloudFields DEF SixDofInv, TypeOK, WaitingHasFrame, ExtentKnown, Calculate
<1>2. IntervalMin \in Nat /\ nowTp[w] \in Int /\ baseTp \in Int
  BY <1>1, ClockInt, SixDofAssumption
<1>3. IntervalDur >= 0 /\ IntervalDur \in Int
  BY <1>2 DEF IntervalDur
<1>4. CASE NeedUpdateBase(nowTp[w])
  <2>1. UpdateBase(wFrame[w], nowTp[w])
    BY <1>4 DEF Calculate
  <2>2. base' = wFrame[w] /\ baseTp' = nowTp[w]
    BY <2>1 DEF UpdateBase
  <2>3. /\ measured' \in Clouds \cup {NoCloud}
        /\ extremum' = ~measured'.empty
        /\ ~base'.empty => ~measured'.empty
    BY <1>1, <2>1, <2>2 DEF UpdateBase, Measures
  <2>4. baseTp' < baseTp => base.empty
    <3>1. base.empty \/ nowTp[w] - baseTp >= IntervalDur
      BY <1>4 DEF NeedUpdateBase
    <3> QED BY <1>2, <1>3, <2>2, <3>1
  <2> QED BY <1>1, <2>2, <2>3, <2>4
<1>5. CASE ~NeedUpdateBase(nowTp[w])
  <2>1. UNCHANGED <<base, baseTp, extremum, measured>>
    BY <1>5 DEF Calculate
  <2>2. ~base.empty
    BY <1>5 DEF NeedUpdateBase
  <2> QED BY <1>1, <1>2, <2>1, <2>2
<1> QED BY <1>4, <1>5

\* Calculate: the result it returns.
LEMMA CalculateResult ==
    ASSUME SixDofInv, NEW w \in Workers, Calculate(w)
    PROVE  /\ res'.c \in Clouds /\ res'.base \in Clouds \cup {NoCloud}
           /\ res'.pose \in PoseSet /\ res'.confidence \in {0, 95, 100}
           /\ res'.length \in Clouds \cup {NoCloud}
           /\ ResultInv'
<1> DEFINE c == wFrame[w]
<1>1. /\ c \in Clouds
      /\ base' \in Clouds \cup {NoCloud} /\ measured' \in Clouds \cup {NoCloud}
      /\ ~base'.empty => ~measured'.empty
      /\ ~c.empty => ~base'.empty
  BY CalculateBase
<1>2. c.empty \in BOOLEAN /\ base'.empty \in BOOLEAN
  BY <1>1, CloudFields
<1>3. PICK p \in Poses(c, base') :
          res' = [c |-> c, base |-> base', pose |-> p,
                  confidence |-> IF p # NoPose THEN 95 ELSE IF NeedUpdateBase(nowTp[w]) THEN 100 ELSE 0,
                  length |-> IF p # NoPose THEN measured' ELSE NoCloud]
  BY DEF Calculate
<1> HIDE DEF c
<1>4. p \in PoseSet /\ (p = NoPose <=> c.empty \/ base'.empty)
  BY <1>3, PosesValue
<1>5. /\ res'.c = c /\ res'.base = base' /\ res'.pose = p
      /\ res'.confidence \in {0, 95, 100}
      /\ res'.length = IF p # NoPose THEN measured' ELSE NoCloud
  BY <1>3
<1>6. ResultInv'
  BY <1>1, <1>2, <1>4, <1>5 DEF ResultInv, PoseHasLength, PointsGetPose
<1> QED BY <1>1, <1>4, <1>5, <1>6

\* No step of a worker breaks the invariant.
LEMMA SixDofNext == SixDofInv /\ [Next]_vars => SixDofInv'
<1> SUFFICES ASSUME SixDofInv, [Next]_vars PROVE SixDofInv'
  OBVIOUS
<1>1. ASSUME NEW t \in Clock, Tick(t) PROVE SixDofInv'
  BY <1>1 DEF Tick, SixDofInv, TypeOK, ExtentKnown, WaitingHasFrame, ResultInv, PoseHasLength,
     PointsGetPose
<1>2. ASSUME NEW w \in Workers, NEW id \in {"A", "B"}, NEW e \in BOOLEAN, Enter(w, id, e)
      PROVE  SixDofInv'
  <2>1. [n |-> frames + 1, lidar_id |-> id, empty |-> e] \in Clouds
    BY <1>2, SixDofAssumption DEF Enter, SixDofInv, TypeOK, Clouds
  <2>2. TypeOK'
    BY <1>2, <2>1, SixDofAssumption DEF Enter, SixDofInv, TypeOK
  <2>3. WaitingHasFrame'
    BY <1>2, <2>1 DEF Enter, SixDofInv, TypeOK, WaitingHasFrame
  <2>4. ExtentKnown' /\ ResultInv'
    BY <1>2 DEF Enter, SixDofInv, ExtentKnown, ResultInv, PoseHasLength,
       PointsGetPose
  <2> QED BY <2>2, <2>3, <2>4 DEF SixDofInv
<1>3. ASSUME NEW w \in Workers, Calculate(w) PROVE SixDofInv'
  <2>1. TypeOK'
    BY <1>3, CalculateBase, CalculateResult DEF SixDofInv, TypeOK, Calculate
  <2>2. ExtentKnown'
    BY <1>3, CalculateBase DEF ExtentKnown
  <2>3. WaitingHasFrame'
    BY <1>3 DEF Calculate, SixDofInv, TypeOK, WaitingHasFrame
  <2> QED BY <1>3, <2>1, <2>2, <2>3, CalculateResult DEF SixDofInv
<1>4. CASE UNCHANGED vars
  BY <1>4 DEF vars, SixDofInv, TypeOK, ExtentKnown, WaitingHasFrame, ResultInv, PoseHasLength,
     PointsGetPose
<1> QED BY <1>1, <1>2, <1>3, <1>4 DEF Next

\* The invariant holds from the constructor on.
LEMMA SixDofInvariant == Spec => []SixDofInv
  BY SixDofInit, SixDofNext, PTL DEF Spec

-----------------------------------------------------------------------------
(* The theorems *)

\* Types, and base_extremum_calc_ is set exactly when the cached extent was
\* measured on a frame with points.
THEOREM SixDofTypeCorrect == Spec => []TypeOK
<1>1. SixDofInv => TypeOK
  BY DEF SixDofInv
<1> QED BY <1>1, SixDofInvariant, PTL

\* calculateSixDof never returns a pose with a length that was not measured.
THEOREM PoseAlwaysHasLength == Spec => []PoseHasLength
<1>1. SixDofInv => PoseHasLength
  BY DEF SixDofInv, ResultInv
<1> QED BY <1>1, SixDofInvariant, PTL

\* An empty reference costs no frame with points its pose.
THEOREM PointsAlwaysGetPose == Spec => []PointsGetPose
<1>1. SixDofInv => PointsGetPose
  BY DEF SixDofInv, ResultInv
<1> QED BY <1>1, SixDofInvariant, PTL

\* Although workers pass base_mtx_ in another order than they read the clock,
\* only an empty reference is replaced by an older frame: a now_tp older than
\* last_base_update_tp_ gives a negative age, below every interval.
THEOREM BaseTimeNeverBack == Spec => BaseTimeForward
<1>1. SixDofInv /\ [Next]_vars => [baseTp' < baseTp => base.empty]_vars
  <2> SUFFICES ASSUME SixDofInv, [Next]_vars PROVE baseTp' < baseTp => base.empty
    OBVIOUS
  <2>0. baseTp \in Int
    BY ClockInt DEF SixDofInv, TypeOK
  <2>1. ASSUME NEW w \in Workers, Calculate(w) PROVE baseTp' < baseTp => base.empty
    BY <2>1, CalculateBase
  <2>2. CASE ~\E w \in Workers : Calculate(w)
    <3>1. baseTp' = baseTp
      BY <2>2 DEF Next, Tick, Enter, vars
    <3> QED BY <2>0, <3>1
  <2> QED BY <2>1, <2>2
<1> QED BY <1>1, SixDofInvariant, PTL DEF Spec, BaseTimeForward
=============================================================================
