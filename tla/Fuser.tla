------------------------------- MODULE Fuser -------------------------------
(***************************************************************************)
(* PointCloudFuser (src/point_cloud_fuser.cpp): the thread that pairs the  *)
(* frames of lidar A and lidar B by timestamp and hands the result to the  *)
(* six-degree-of-freedom calculator.                                       *)
(*                                                                         *)
(* A raw frame is its timestamp; the points are left out.  The ring queues *)
(* are FIFOs of capacity - 1 items (RingQueueProofs shows that they are:   *)
(* each has one producer and one consumer here).  A fused frame keeps its  *)
(* timestamp and where it came from: "AB", or one lidar alone.             *)
(***************************************************************************)
EXTENDS Integers, Sequences

CONSTANTS
    MatchNs,              \* MATCH_NS, 500 in the code
    MaxCacheFrame,        \* MAX_CACHE_FRAME, 30
    FrameCache,           \* FRAME_CACHE, 2
    QInBound, QOutBound,  \* frames that fit in rq_cloudA/B and rq_fuse_cloud, 99
    MaxStamp,             \* bound: timestamps are 0 .. MaxStamp
    FramesA, FramesB      \* bound: frames a lidar delivers in a run

ASSUME FuserAssumption ==
    /\ MatchNs \in Nat \ {0} /\ FrameCache \in Nat /\ MaxStamp \in Nat
    /\ MaxCacheFrame \in Nat /\ MaxCacheFrame > FrameCache
    /\ QInBound \in Nat \ {0} /\ QOutBound \in Nat \ {0}
    /\ FramesA \in Nat /\ FramesB \in Nat

Lidars == {"A", "B"}
Stamps == 0 .. MaxStamp
Frames(l) == IF l = "A" THEN FramesA ELSE FramesB
Other(l) == IF l = "A" THEN "B" ELSE "A"

VARIABLES
    running,    \* is_running_
    pc,         \* where fuseLoop is
    cache,      \* cacheA_, cacheB_: timestamps, oldest first
    matched,    \* the local variable of that name
    pend,       \* the frame fuseLoop is trying to enqueue
    qIn,        \* rq_cloudA, rq_cloudB
    qOut,       \* rq_fuse_cloud
    hasError,   \* has_error_ of SystemStateManager, set by reportError
    sent, last, \* per lidar: frames delivered, timestamp of the newest
    lastOut,    \* history: timestamp of the newest frame put in qOut, -1 before
    pass, pairs \* history: the caches when matching began, pairs found since

inVars == <<qIn, sent, last>>
history == <<lastOut, pass, pairs>>
vars == <<running, pc, cache, matched, pend, qIn, qOut, hasError, sent, last, lastOut, pass, pairs>>

Init == /\ running = FALSE /\ pc = "init"
        /\ cache = [l \in Lidars |-> <<>>] /\ matched = FALSE
        /\ pend = [src |-> "AB", ts |-> 0]
        /\ qIn = [l \in Lidars |-> <<>>] /\ qOut = <<>> /\ hasError = FALSE
        /\ sent = [l \in Lidars |-> 0] /\ last = [l \in Lidars |-> 0]
        /\ lastOut = -1 /\ pass = [l \in Lidars |-> <<>>] /\ pairs = 0

-----------------------------------------------------------------------------
(* The threads around the fuser. *)

\* acquireRadar1Loop / acquireRadar2Loop: retry until the frame is enqueued.
\* A lidar's clock does not run backwards; equal timestamps do occur.
RadarEnqueue(l, ts) == /\ sent[l] < Frames(l) /\ ts >= last[l]
                       /\ Len(qIn[l]) < QInBound
                       /\ qIn' = [qIn EXCEPT ![l] = Append(@, ts)]
                       /\ sent' = [sent EXCEPT ![l] = @ + 1]
                       /\ last' = [last EXCEPT ![l] = ts]
                       /\ UNCHANGED <<running, pc, cache, matched, pend, qOut, hasError, history>>

\* calcLoop takes a fused frame
CalcDequeue == /\ qOut # <<>>
               /\ qOut' = Tail(qOut)
               /\ UNCHANGED <<running, pc, cache, matched, pend, inVars, hasError, history>>

\* start(): is_running_ is set before the configuration is loaded; when a
\* file is missing no thread is created and is_running_ stays true.
Start(loaded) == /\ pc = "init" /\ ~running
                 /\ running' = TRUE
                 /\ pc' = IF loaded THEN "takeA" ELSE "failed"
                 /\ UNCHANGED <<cache, matched, pend, inVars, qOut, hasError, history>>

\* stop(), up to the join: main calls it once calcLoop has ended
Stop == /\ running
        /\ running' = FALSE
        /\ UNCHANGED <<pc, cache, matched, pend, inVars, qOut, hasError, history>>

-----------------------------------------------------------------------------
(* fuseLoop *)

Exit == /\ pc = "takeA" /\ ~running
        /\ pc' = "done"
        /\ UNCHANGED <<running, cache, matched, pend, inVars, qOut, hasError, history>>

\* Mutant: the cache is not limited
MTrim(c) == c

\* One push can exceed the limit by one frame only.
Trim(c) == IF Len(c) > MaxCacheFrame THEN Tail(c) ELSE c

\* dequeue into the cache, evicting the oldest frame beyond the limit
TakeFrom(l) == IF qIn[l] = <<>> THEN UNCHANGED <<cache, qIn>>
               ELSE /\ cache' = [cache EXCEPT ![l] = Trim(Append(@, Head(qIn[l])))]
                    /\ qIn' = [qIn EXCEPT ![l] = Tail(@)]

TakeA == /\ pc = "takeA" /\ running
         /\ TakeFrom("A")
         /\ pc' = "takeB"
         /\ UNCHANGED <<running, matched, pend, qOut, hasError, sent, last, history>>

\* ... and, unless both caches hold more than FRAME_CACHE frames, continue
TakeB == /\ pc = "takeB"
         /\ TakeFrom("B")
         /\ IF \A l \in Lidars : Len(cache'[l]) > FrameCache
            THEN pc' = "match" /\ matched' = FALSE /\ pass' = cache' /\ pairs' = 0
            ELSE pc' = "takeA" /\ UNCHANGED <<matched, pass, pairs>>
         /\ UNCHANGED <<running, pend, qOut, hasError, sent, last, lastOut>>

Diff(a, b) == IF a > b THEN a - b ELSE b - a
Later(a, b) == IF a > b THEN a ELSE b

BothCached == cache["A"] # <<>> /\ cache["B"] # <<>>

\* fuse(): the later of the two timestamps
Fuse == /\ pc = "match" /\ BothCached
        /\ LET a == Head(cache["A"])
               b == Head(cache["B"])
           IN  /\ Diff(a, b) < MatchNs
               /\ pend' = [src |-> "AB", ts |-> Later(a, b)]
        /\ matched' = TRUE /\ pc' = "emit" /\ pairs' = pairs + 1
        /\ UNCHANGED <<running, cache, inVars, qOut, hasError, lastOut, pass>>

\* Mutant: the newer of the two frames is dropped
MOlder == IF Head(cache["A"]) < Head(cache["B"]) THEN "B" ELSE "A"

\* Which lidar's front frame is too old: B's on a tie, but a tie matches
Older == IF Head(cache["A"]) < Head(cache["B"]) THEN "A" ELSE "B"

\* Mutant: both front frames are dropped
MDropOlder == /\ pc = "match" /\ BothCached
              /\ Diff(Head(cache["A"]), Head(cache["B"])) >= MatchNs
              /\ cache' = [l \in Lidars |-> Tail(cache[l])]
              /\ hasError' = TRUE
              /\ UNCHANGED <<running, pc, matched, pend, inVars, qOut, history>>

\* No match: erase the older front frame and report a warning
DropOlder == /\ pc = "match" /\ BothCached
             /\ Diff(Head(cache["A"]), Head(cache["B"])) >= MatchNs
             /\ cache' = [cache EXCEPT ![Older] = Tail(@)]
             /\ hasError' = TRUE
             /\ UNCHANGED <<running, pc, matched, pend, inVars, qOut, history>>

\* Nothing was paired in this pass and only lidar l has frames left
SoloNow(l) == ~matched /\ cache[Other(l)] = <<>> /\ cache[l] # <<>>

\* Mutant: the newest frame is output, the oldest erased
MSolo(l) == /\ pc = "match" /\ ~BothCached /\ SoloNow(l)
            /\ pend' = [src |-> l, ts |-> cache[l][Len(cache[l])]]
            /\ matched' = TRUE /\ pc' = "emit"
            /\ UNCHANGED <<running, cache, inVars, qOut, hasError, history>>

Solo(l) == /\ pc = "match" /\ ~BothCached /\ SoloNow(l)
           /\ pend' = [src |-> l, ts |-> Head(cache[l])]
           /\ matched' = TRUE /\ pc' = "emit"
           /\ UNCHANGED <<running, cache, inVars, qOut, hasError, history>>

EndPass == /\ pc = "match" /\ ~BothCached /\ \A l \in Lidars : ~SoloNow(l)
           /\ pc' = "takeA"
           /\ UNCHANGED <<running, cache, matched, pend, inVars, qOut, hasError, history>>

\* Erase the front frames that made pend; after a pair the inner loop goes on
Release == /\ cache' = [l \in Lidars |-> IF pend.src \in {"AB", l} THEN Tail(cache[l]) ELSE cache[l]]
           /\ pc' = IF pend.src = "AB" THEN "match" ELSE "takeA"

\* while (!queueOut_->enqueue(fused) && is_running_) sleep
Emit == /\ pc = "emit" /\ Len(qOut) < QOutBound
        /\ qOut' = Append(qOut, pend) /\ lastOut' = pend.ts
        /\ Release
        /\ UNCHANGED <<running, matched, pend, inVars, hasError, pass, pairs>>

EmitFull == /\ pc = "emit" /\ Len(qOut) >= QOutBound
            /\ pc' = "retry"
            /\ UNCHANGED <<running, cache, matched, pend, inVars, qOut, hasError, history>>

Retry == /\ pc = "retry" /\ running
         /\ pc' = "emit"
         /\ UNCHANGED <<running, cache, matched, pend, inVars, qOut, hasError, history>>

\* Mutant: the retry loop does not look at is_running_
MGiveUp == FALSE /\ UNCHANGED vars

\* After stop() a frame that does not fit is erased without being output
GiveUp == /\ pc = "retry" /\ ~running
          /\ Release
          /\ UNCHANGED <<running, matched, pend, inVars, qOut, hasError, history>>

FuseLoop == \/ Exit \/ TakeA \/ TakeB \/ Fuse \/ DropOlder
            \/ (\E l \in Lidars : Solo(l)) \/ EndPass \/ Emit \/ EmitFull \/ Retry \/ GiveUp

Next == \/ \E l \in Lidars, ts \in Stamps : RadarEnqueue(l, ts)
        \/ CalcDequeue
        \/ \E loaded \in BOOLEAN : Start(loaded)
        \/ Stop
        \/ FuseLoop

Spec == Init /\ [][Next]_vars

\* The fuser thread is scheduled; nothing is assumed of the threads around it.
FairSpec == Spec /\ WF_vars(FuseLoop)

-----------------------------------------------------------------------------
(* Properties *)

OutFrames == [src : {"AB", "A", "B"}, ts : Stamps]

\* Types, and the limits of the caches and the queues.
TypeOK == /\ running \in BOOLEAN /\ matched \in BOOLEAN /\ hasError \in BOOLEAN
          /\ pc \in {"init", "failed", "takeA", "takeB", "match", "emit", "retry", "done"}
          /\ cache \in [Lidars -> Seq(Stamps)] /\ pass \in [Lidars -> Seq(Stamps)]
          /\ \A l \in Lidars : Len(cache[l]) <= MaxCacheFrame /\ Len(qIn[l]) <= QInBound
          /\ pend \in OutFrames /\ qOut \in Seq(OutFrames) /\ Len(qOut) <= QOutBound
          /\ qIn \in [Lidars -> Seq(Stamps)] /\ last \in [Lidars -> Stamps]
          /\ sent \in [Lidars -> Nat] /\ lastOut \in Stamps \cup {-1} /\ pairs \in Nat

\* The frames handed to the calculator never go back in time, whatever mix of
\* pairs, evictions, mismatches and single-lidar fallbacks produced them.
OutputMonotone == [][lastOut' >= lastOut]_vars

Elems(s) == {s[i] : i \in DOMAIN s}

\* A frame erased as mismatched could not have been paired: no frame of the
\* other lidar that is cached or still queued lies within MATCH_NS of it.
NoMatchableDrop ==
    [][\A l \in Lidars : pc = "match" /\ cache'[l] # cache[l] =>
          \A t \in Elems(cache[Other(l)]) \cup Elems(qIn[Other(l)]) :
              Diff(Head(cache[l]), t) >= MatchNs]_vars

\* Every pass over full caches outputs something: when nothing could be
\* paired, one lidar still has a frame for the single-lidar fallback.
EveryPassOutputs == pc = "match" /\ ~matched => \E l \in Lidars : cache[l] # <<>>

\* stop() returns: once is_running_ is false the thread ends, even when the
\* calculator no longer empties rq_fuse_cloud and however full it is.
StopTerminates == (~running /\ pc # "init") ~> pc \in {"done", "failed"}
=============================================================================
