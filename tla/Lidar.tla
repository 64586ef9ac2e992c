------------------------------- MODULE Lidar -------------------------------
(***************************************************************************)
(* The lidar SDK as the acquirer uses it (LSSDK/Include/GetLidarData.cpp   *)
(* and GetLidarData_LS.cpp, compiled through IncludeFile.h).  Two detached *)
(* threads receive UDP packets and queue them, a third, LidarRun, cuts the *)
(* stream of blocks into frames at the sync markers, and the acquirer's    *)
(* thread polls isFrameOK and calls getLidarPerFrameDate.  They share the  *)
(* queue, one finished frame and a success flag under m_mutex, but not     *)
(* always within one critical section.                                     *)
(*                                                                         *)
(* A block is a sync marker, a point or a zero distance: which, is chosen  *)
(* when it is parsed.  Its identity is its place in what the device sent,  *)
(* so that loss shows as a gap.  Angles, coordinates and message texts are *)
(* left out.                                                               *)
(***************************************************************************)
EXTENDS Integers, Sequences, FiniteSets

CONSTANTS
    Blocks,      \* blocks in a data packet, 149 with one echo and 99 with two
    MinNonZero,  \* 20: fewer distances than this make a frame bad
    CountCap,    \* 30: beyond this m_DistanceIsNotZero is no longer counted
    MaxPoints,   \* 3000000: more points than this are a lost sync marker
    TimeMod,     \* 2^64, the range of a u_int64 timestamp
    BaseTime,    \* the device's clock before the first packet
    MaxData,     \* bound: data packets the device sends
    MaxDev,      \* bound: device packets the device sends
    QueueBound   \* bound: packets in allDataValue

ASSUME LidarAssumption ==
    /\ Blocks \in Nat \ {0} /\ MinNonZero \in Nat \ {0} /\ CountCap \in Nat
    /\ CountCap >= MinNonZero /\ MaxPoints \in Nat /\ TimeMod \in Nat \ {0}
    /\ BaseTime \in Nat /\ MaxData \in Nat /\ MaxDev \in Nat /\ QueueBound \in Nat

Models == {64, 192}   \* byte 231 or 1204: 64 is a model that stacks two sweeps
NoFrame == [pts |-> <<>>, good |-> FALSE, end |-> 0]

VARIABLES
    model, echo,                   \* the device: fixed, chosen by Init
    clock, setBack, nData, nDev,   \* its clock, whether that was set back, packets sent
    allDataValue,                  \* the packet queue
    pc, blk,                       \* LidarRun: where it is, the block it is at
    allTimestamp, lastAllTimestamp,
    m_StackFrame, m_HorizontalPoints, m_messageCount, m_DistanceIsNotZero,
    cloudGet, cloudLast,           \* LidarPerFrameDatePrt_Get, PointCloudLastData
    cloudPer, isFrameOK,           \* LidarPerFrameDatePer
    isSuccessfulFlag,
    apc, temp, got, usedTs,        \* the acquirer: where it is, the frame it holds, its
                                   \* last result of getLidarPerFrameDate, last timestamp
    accepted, syncs, flagged       \* history: points kept, markers seen, the sweep the
                                   \* flag was last written for

device == <<model, echo, clock, setBack, nData, nDev>>
decoder == <<allTimestamp, lastAllTimestamp, m_StackFrame, m_HorizontalPoints, m_messageCount,
             m_DistanceIsNotZero, cloudGet, cloudLast>>
acquirer == <<apc, temp, got, usedTs>>
ghosts == <<accepted, syncs, flagged>>
vars == <<device, allDataValue, pc, blk, decoder, cloudPer, isFrameOK, isSuccessfulFlag,
          acquirer, ghosts>>

\* The object as constructed and started; isSuccessfulFlag is not initialized
Init == /\ model \in Models /\ echo \in {1, 2}
        /\ clock = BaseTime /\ setBack = FALSE /\ nData = 0 /\ nDev = 0
        /\ allDataValue = <<>> /\ pc = "idle" /\ blk = 1
        /\ allTimestamp = 0 /\ lastAllTimestamp = 0
        /\ m_StackFrame = 1 /\ m_HorizontalPoints = FALSE
        /\ m_messageCount = 0 /\ m_DistanceIsNotZero = 0
        /\ cloudGet = <<>> /\ cloudLast = <<>> /\ cloudPer = NoFrame /\ isFrameOK = FALSE
        /\ isSuccessfulFlag \in BOOLEAN
        /\ apc = "poll" /\ temp = NoFrame /\ got = [frame |-> NoFrame, ok |-> FALSE] /\ usedTs = 0
        /\ accepted = {} /\ syncs = {} /\ flagged = [end |-> 0, good |-> FALSE]

-----------------------------------------------------------------------------
(* The device, the network and the two receiving threads *)

Queued(p) == Len(allDataValue) < QueueBound /\ allDataValue' = Append(allDataValue, p)
receiving == <<pc, blk, decoder, cloudPer, isFrameOK, acquirer, ghosts>>

\* The device sends a data packet, at its clock's time; it is received, queued
\* by CollectionDataArrive, or lost (also when it is too short to be queued)
DataPacket(t) ==
    /\ nData < MaxData /\ nData' = nData + 1
    /\ clock' = t
    /\ \/ Queued([kind |-> "data", base |-> nData * Blocks, ts |-> t])
       \/ UNCHANGED allDataValue
    /\ UNCHANGED <<model, echo, nDev, isSuccessfulFlag, receiving>>

InStep == DataPacket(clock + Blocks) /\ UNCHANGED setBack

\* GPS or PTP sets the device's clock back (bound: once)
AfterSetBack == /\ ~setBack /\ clock > BaseTime /\ setBack' = TRUE
                /\ DataPacket(BaseTime)

\* A device packet reaches the same queue by the other thread
DevPacket ==
    /\ nDev < MaxDev /\ nDev' = nDev + 1
    /\ Queued([kind |-> "dev", base |-> 0, ts |-> 0])
    /\ UNCHANGED <<model, echo, clock, setBack, nData, isSuccessfulFlag, receiving>>

\* No data for two seconds, or the port could not be bound: messages 10001 to 10004
DataTimeout ==
    /\ isSuccessfulFlag' = FALSE
    /\ UNCHANGED <<device, allDataValue, receiving>>

-----------------------------------------------------------------------------
(* LidarRun: take a packet *)

\* A device packet sets the number of sweeps that make a frame
PopDev == /\ pc = "idle" /\ allDataValue # <<>> /\ Head(allDataValue).kind = "dev"
          /\ allDataValue' = Tail(allDataValue)
          /\ m_HorizontalPoints' = TRUE
          /\ m_StackFrame' = IF model = 64 THEN 2 ELSE 1
          /\ UNCHANGED <<device, pc, blk, allTimestamp, lastAllTimestamp, m_messageCount,
                         m_DistanceIsNotZero, cloudGet, cloudLast, cloudPer, isFrameOK,
                         isSuccessfulFlag, acquirer, ghosts>>

PopData == /\ pc = "idle" /\ allDataValue # <<>> /\ Head(allDataValue).kind = "data"
           /\ allDataValue' = Tail(allDataValue)
           /\ blk' = Head(allDataValue).base + 1
           /\ allTimestamp' = Head(allDataValue).ts
           /\ m_StackFrame' = IF model = 192 /\ m_HorizontalPoints THEN 1 ELSE m_StackFrame
           /\ pc' = "parse"
           /\ UNCHANGED <<device, lastAllTimestamp, m_HorizontalPoints, m_messageCount,
                          m_DistanceIsNotZero, cloudGet, cloudLast, cloudPer, isFrameOK,
                          isSuccessfulFlag, acquirer, ghosts>>

-----------------------------------------------------------------------------
(* handleSingleEcho and handleDoubleEcho: one block after the other.  blk is *)
(* the number of the block in the device's stream.                          *)

Place == ((blk - 1) % Blocks) + 1

\* Mutant: lastAllTimestamp is not updated
MNextBlock == IF Place = Blocks
              THEN pc' = "idle" /\ blk' = 1 /\ UNCHANGED lastAllTimestamp
              ELSE pc' = "parse" /\ blk' = blk + 1 /\ UNCHANGED lastAllTimestamp

\* The loop goes on, or the packet is done
NextBlock == IF Place = Blocks
             THEN pc' = "idle" /\ blk' = 1 /\ lastAllTimestamp' = allTimestamp
             ELSE pc' = "parse" /\ blk' = blk + 1 /\ UNCHANGED lastAllTimestamp

\* The time since the previous packet, divided evenly; the unsigned difference
\* wraps around when the clock was set back, and the conversion of a negative
\* double to u_int64 saturates on the target (armv8)
PointInterval == ((allTimestamp - lastAllTimestamp) % TimeMod) \div Blocks
PointTime == LET t == allTimestamp - PointInterval * (Blocks - Place)
             IN IF t < 0 THEN 0 ELSE t

\* Mutant: the points are dropped only until the message has been given
MOverflowing == m_messageCount = 0 /\ Len(cloudGet) > MaxPoints

Overflowing == Len(cloudGet) > MaxPoints

\* Too many points without a sync marker: message 10031 once, the block is dropped
Overflow == /\ pc = "parse" /\ Overflowing
            /\ isSuccessfulFlag' = (isSuccessfulFlag /\ m_messageCount = 1)
            /\ m_messageCount' = 1
            /\ NextBlock
            /\ UNCHANGED <<device, allDataValue, allTimestamp, m_StackFrame, m_HorizontalPoints,
                           m_DistanceIsNotZero, cloudGet, cloudLast, cloudPer, isFrameOK,
                           acquirer, ghosts>>

ZeroBlock == /\ pc = "parse" /\ ~Overflowing
             /\ NextBlock
             /\ UNCHANGED <<device, allDataValue, allTimestamp, m_StackFrame, m_HorizontalPoints,
                            m_messageCount, m_DistanceIsNotZero, cloudGet, cloudLast, cloudPer,
                            isFrameOK, isSuccessfulFlag, acquirer, ghosts>>

\* handleDoubleEcho makes two points of a block, with the same time
Echoes(p) == IF echo = 2 THEN <<p, p>> ELSE <<p>>

PointBlock == /\ pc = "parse" /\ ~Overflowing
              /\ cloudGet' = cloudGet \o Echoes([id |-> blk, ts |-> PointTime])
              /\ m_DistanceIsNotZero' = IF m_DistanceIsNotZero > CountCap THEN m_DistanceIsNotZero
                                        ELSE m_DistanceIsNotZero + 1
              /\ accepted' = accepted \cup {blk}
              /\ NextBlock
              /\ UNCHANGED <<device, allDataValue, allTimestamp, m_StackFrame, m_HorizontalPoints,
                             m_messageCount, cloudLast, cloudPer, isFrameOK, isSuccessfulFlag,
                             acquirer, syncs, flagged>>

\* Mutant: the sweep is saved after the previous one was put in front of it
MSyncBlock == /\ pc = "parse"
              /\ IF m_StackFrame > 1
                 THEN cloudGet' = cloudLast \o cloudGet /\ cloudLast' = cloudLast \o cloudGet
                 ELSE UNCHANGED <<cloudGet, cloudLast>>
              /\ syncs' = syncs \cup {blk}
              /\ pc' = "flag"
              /\ UNCHANGED <<device, allDataValue, blk, allTimestamp, lastAllTimestamp,
                             m_StackFrame, m_HorizontalPoints, m_messageCount, m_DistanceIsNotZero,
                             cloudPer, isFrameOK, isSuccessfulFlag, acquirer, accepted, flagged>>

\* A sync marker ends a sweep; a stacking model puts the previous sweep in front
SyncBlock == /\ pc = "parse"
             /\ IF m_StackFrame > 1
                THEN cloudGet' = cloudLast \o cloudGet /\ cloudLast' = cloudGet
                ELSE UNCHANGED <<cloudGet, cloudLast>>
             /\ syncs' = syncs \cup {blk}
             /\ pc' = "flag"
             /\ UNCHANGED <<device, allDataValue, blk, allTimestamp, lastAllTimestamp,
                            m_StackFrame, m_HorizontalPoints, m_messageCount, m_DistanceIsNotZero,
                            cloudPer, isFrameOK, isSuccessfulFlag, acquirer, accepted, flagged>>

-----------------------------------------------------------------------------
(* sendLidarData: two critical sections, the flag and then the frame *)

\* Mutant: the message's code is not one of those that clear the flag
MSendFlag == /\ pc = "flag"
             /\ isSuccessfulFlag' = (isSuccessfulFlag \/ m_DistanceIsNotZero >= MinNonZero)
             /\ flagged' = [end |-> blk, good |-> m_DistanceIsNotZero >= MinNonZero]
             /\ m_DistanceIsNotZero' = 0
             /\ pc' = "publish"
             /\ UNCHANGED <<device, allDataValue, blk, allTimestamp, lastAllTimestamp,
                            m_StackFrame, m_HorizontalPoints, m_messageCount, cloudGet, cloudLast,
                            cloudPer, isFrameOK, acquirer, accepted, syncs>>

SendFlag == /\ pc = "flag"
            /\ isSuccessfulFlag' = (m_DistanceIsNotZero >= MinNonZero)
            /\ flagged' = [end |-> blk, good |-> m_DistanceIsNotZero >= MinNonZero]
            /\ m_DistanceIsNotZero' = 0
            /\ pc' = "publish"
            /\ UNCHANGED <<device, allDataValue, blk, allTimestamp, lastAllTimestamp,
                           m_StackFrame, m_HorizontalPoints, m_messageCount, cloudGet, cloudLast,
                           cloudPer, isFrameOK, acquirer, accepted, syncs>>

\* The finished frame replaces one the acquirer has not taken
SendFrame == /\ pc = "publish"
             /\ cloudPer' = [pts |-> cloudGet, good |-> flagged.good, end |-> blk]
             /\ cloudGet' = <<>> /\ isFrameOK' = TRUE
             /\ m_messageCount' = 0
             /\ NextBlock
             /\ UNCHANGED <<device, allDataValue, allTimestamp, m_StackFrame, m_HorizontalPoints,
                            m_DistanceIsNotZero, cloudLast, isSuccessfulFlag, acquirer, ghosts>>

LidarRun == \/ PopDev \/ PopData
            \/ Overflow \/ ZeroBlock \/ PointBlock \/ SyncBlock
            \/ SendFlag \/ SendFrame

-----------------------------------------------------------------------------
(* The acquirer's thread *)

sdk == <<device, allDataValue, pc, blk, decoder, isSuccessfulFlag, ghosts>>

\* isFrameOK is read without the lock
Poll == /\ apc = "poll" /\ isFrameOK /\ apc' = "get"
        /\ UNCHANGED <<sdk, cloudPer, isFrameOK, temp, got, usedTs>>

\* Mutant: isFrameOK is reset when the call returns, outside the lock
MGetFrame == /\ apc = "get" /\ apc' = "flag"
             /\ temp' = cloudPer /\ cloudPer' = NoFrame
             /\ UNCHANGED <<sdk, isFrameOK, got, usedTs>>

\* getLidarPerFrameDate under the lock: the frame is moved out
GetFrame == /\ apc = "get" /\ apc' = "flag"
            /\ temp' = cloudPer /\ cloudPer' = NoFrame /\ isFrameOK' = FALSE
            /\ UNCHANGED <<sdk, got, usedTs>>

\* ... and the flag read after the unlock.  The caller uses the frame if the
\* flag is set and there are points; its time is that of the last point.
ReadFlag == /\ apc = "flag" /\ apc' = "poll"
            /\ got' = [frame |-> temp, ok |-> isSuccessfulFlag]
            /\ usedTs' = IF isSuccessfulFlag /\ temp.pts # <<>>
                         THEN temp.pts[Len(temp.pts)].ts ELSE usedTs
            /\ temp' = NoFrame
            /\ UNCHANGED <<sdk, cloudPer, isFrameOK>>

Acquire == Poll \/ GetFrame \/ ReadFlag

Next == \/ InStep \/ AfterSetBack
        \/ DevPacket \/ DataTimeout
        \/ LidarRun \/ Acquire

Spec == Init /\ [][Next]_vars

\* Both threads are loops that sleep at most 100 ms; nothing is assumed of the
\* device and the network
FairSpec == Spec /\ WF_vars(LidarRun) /\ WF_vars(Acquire)

-----------------------------------------------------------------------------
(* Properties *)

Ids(pts) == {pts[i].id : i \in DOMAIN pts}
Points == Seq([id : Nat \ {0}, ts : Nat])
Frames == [pts : Points, good : BOOLEAN, end : Nat]
Packets == [kind : {"data", "dev"}, base : Nat, ts : Nat]

\* Types, and the limit on the points of a sweep: a lost sync marker cannot
\* make the cloud grow without bound, two echoes overshoot it by two, and a
\* stacked frame is at most two sweeps.
TypeOK ==
    /\ model \in Models /\ echo \in {1, 2} /\ clock \in Nat /\ setBack \in BOOLEAN
    /\ nData \in Nat /\ nDev \in Nat /\ allDataValue \in Seq(Packets)
    /\ pc \in {"idle", "parse", "flag", "publish"} /\ blk \in Nat \ {0}
    /\ allTimestamp \in Nat /\ lastAllTimestamp \in Nat
    /\ m_StackFrame \in {1, 2} /\ m_HorizontalPoints \in BOOLEAN
    /\ m_messageCount \in {0, 1} /\ m_DistanceIsNotZero \in 0 .. CountCap + 1
    /\ cloudGet \in Points /\ cloudLast \in Points /\ cloudPer \in Frames
    /\ isFrameOK \in BOOLEAN /\ isSuccessfulFlag \in BOOLEAN
    /\ apc \in {"poll", "get", "flag"} /\ temp \in Frames
    /\ got \in [frame : Frames, ok : BOOLEAN] /\ usedTs \in Nat
    /\ accepted \subseteq Nat \ {0} /\ syncs \subseteq Nat \ {0}
    /\ flagged \in [end : Nat, good : BOOLEAN]
    /\ Len(cloudLast) <= MaxPoints + 2
    /\ Len(cloudGet) <= m_StackFrame * (MaxPoints + 2)
    /\ Len(cloudPer.pts) <= 2 * (MaxPoints + 2)

\* The k-th marker seen before the one that closed the frame, 0 if there is none
Opening(end, k) == LET before == {s \in syncs : s < end}
                   IN IF Cardinality(before) < k THEN 0
                      ELSE CHOOSE s \in before : Cardinality({u \in before : u >= s}) = k

\* Whatever was lost, the frame getLidarPerFrameDate returns is made of whole
\* sweeps: exactly the points received between the marker that closed it and
\* the one before, or, on a stacking model, the one before that, in the
\* device's order.
FramesAreSweeps ==
    LET f == got.frame
    IN f # NoFrame =>
         /\ \A i, j \in DOMAIN f.pts : i < j => f.pts[i].id <= f.pts[j].id
         /\ \E k \in 1 .. (IF model = 64 THEN 2 ELSE 1) :
               Ids(f.pts) = {a \in accepted : Opening(f.end, k) < a /\ a < f.end}

\* The flag is read after the frame was taken and written before it is
\* published, so the two may belong to different sweeps.  A frame with too few
\* distances can be returned with "true" only if a later sweep has been
\* completed meanwhile.
BadFrameOnlyIfOvertaken == got.ok /\ ~got.frame.good => flagged.end > got.frame.end

\* getLidarPerFrameDate, called when isFrameOK was read as true, never returns
\* an empty handle, a frame twice or one older than the last.
FramesInOrder == [][got' # got => got'.frame.end > got.frame.end]_vars

\* The timestamps the acquirer attaches to a lidar's frames do not decrease,
\* whatever is lost, unless the device's clock is set back.  The fuser relies
\* on it.
TimeForward == [][setBack \/ usedTs' >= usedTs]_vars

\* The acquirer catches up: when a sweep newer than its last frame was closed,
\* that sweep, or the one that replaced it, reaches it.
Behind == \E s \in syncs : s > got.frame.end
SweepsReachAcquirer == Behind ~> ~Behind
=============================================================================
