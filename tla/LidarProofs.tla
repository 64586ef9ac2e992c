---------------------------- MODULE LidarProofs ----------------------------
(***************************************************************************)
(* The lidar SDK for any packet size, point limit, number of packets and   *)
(* queue length: the limits of the clouds, and what the acquirer may rely  *)
(* on when packets are lost and its thread, the decoder and the receivers  *)
(* interleave.                                                             *)
(***************************************************************************)
EXTENDS Lidar, FiniteSetTheorems, TLAPS

-----------------------------------------------------------------------------
(* The invariant *)

\* The limit between two sync markers
CloudInv == pc \in {"idle", "parse"} => Len(cloudGet) <= MaxPoints + 2

\* Stacking is for one model only, and only it saves a sweep
StackInv == /\ m_StackFrame = 2 => model = 64
            /\ m_StackFrame = 1 => cloudLast = <<>>

\* The place of block b in its packet, and the number of the packet's last block
At(b) == ((b - 1) % Blocks) + 1
PacketEnd(b) == b - At(b) + Blocks

\* Nothing that was decoded has a number above n
Below(n, e, S) == e <= n /\ \A a \in S : a <= n
Past(n) == Below(n, flagged.end, accepted \cup syncs)

\* Data packets are queued in the device's order, and none overlaps another,
\* the one that is being decoded, or one that was
PacketsInv ==
    /\ Past(nData * Blocks)
    /\ pc # "idle" => PacketEnd(blk) <= nData * Blocks
    /\ \A i \in DOMAIN allDataValue : allDataValue[i].kind = "data" =>
          /\ At(allDataValue[i].base + 1) = 1
          /\ allDataValue[i].base + Blocks <= nData * Blocks
          /\ Past(allDataValue[i].base)
          /\ pc # "idle" => PacketEnd(blk) <= allDataValue[i].base
    /\ \A i, j \in DOMAIN allDataValue :
          i < j /\ allDataValue[i].kind = "data" /\ allDataValue[j].kind = "data"
             => allDataValue[i].base + Blocks <= allDataValue[j].base

\* The decoder is ahead of all it has decoded
BlockInv == /\ pc = "parse" => Past(blk - 1)
            /\ pc = "flag" => flagged.end < blk
            /\ pc = "publish" => flagged.end = blk
            /\ pc \in {"flag", "publish"} => Past(blk) /\ blk \in syncs /\ blk \notin accepted

\* No frame is newer than the sweep last flagged, nor as new while that one
\* is still to be published; the three that exist are in order
OrderInv ==
    /\ cloudPer.end <= flagged.end /\ temp.end <= flagged.end /\ got.frame.end <= flagged.end
    /\ pc = "publish" => /\ cloudPer.end < flagged.end /\ temp.end < flagged.end
                         /\ got.frame.end < flagged.end
    /\ isFrameOK => cloudPer.end > got.frame.end
    /\ apc = "get" => isFrameOK
    /\ apc = "flag" => temp.end > got.frame.end
    /\ apc = "flag" /\ isFrameOK => cloudPer.end > temp.end

\* The flag, once written by a sweep, tells no more than that sweep's quality
FlagInv == /\ isSuccessfulFlag /\ flagged.end > 0 => flagged.good
           /\ isFrameOK /\ cloudPer.end = flagged.end => cloudPer.good = flagged.good
           /\ apc = "flag" /\ temp.end = flagged.end => temp.good = flagged.good

\* o is the last of the markers S below e, 0 if there is none
Opens(S, o, e) == /\ (o \in S /\ o < e) \/ o = 0
                  /\ \A s \in S : s < e => s <= o

\* The markers: the last one was flagged, but for one just seen
SyncInv == /\ IsFiniteSet(syncs)
           /\ flagged.end \in syncs \cup {0} /\ flagged.end \notin accepted
           /\ \A s \in syncs : s <= flagged.end \/ (pc = "flag" /\ s = blk)
           /\ \E o \in syncs \cup {0} : Opens(syncs, o, flagged.end)

\* Opening, for any set of markers S, and the points A accepted since
FromLast(before, k) ==
    IF Cardinality(before) < k THEN 0
    ELSE CHOOSE s \in before : Cardinality({u \in before : u >= s}) = k
OpeningOf(S, e, k) == FromLast({s \in S : s < e}, k)
Swept(A, S, e, k) == {a \in A : OpeningOf(S, e, k) < a /\ a < e}

Sorted(pts) == \A i, j \in DOMAIN pts : i < j => pts[i].id <= pts[j].id

\* pts is one sweep or, on a model M that stacks, two, closed by the marker e
SweepOf(pts, e, M, A, S) ==
    /\ Sorted(pts)
    /\ \E k \in 1 .. (IF M = 64 THEN 2 ELSE 1) : Ids(pts) = Swept(A, S, e, k)

\* The marker that closed what cloudLast holds
Closed == IF pc \in {"flag", "publish"} THEN blk ELSE flagged.end

\* Every frame on its way is made of whole sweeps; the cloud in the making
\* holds what was accepted since the last marker, the saved one the sweep
\* before, if any
SweepInv ==
    /\ \A f \in {cloudPer, temp, got.frame} :
          f # NoFrame => SweepOf(f.pts, f.end, model, accepted, syncs)
    /\ pc \in {"flag", "publish"} => SweepOf(cloudGet, blk, model, accepted, syncs)
    /\ pc \in {"idle", "parse"} =>
          /\ Sorted(cloudGet)
          /\ Ids(cloudGet) = {a \in accepted : a > flagged.end}
    /\ cloudLast # <<>> => /\ Sorted(cloudLast)
                           /\ Ids(cloudLast) = Swept(accepted, syncs, Closed, 1)

\* Packets are queued and decoded in the order of their times, unless the
\* device's clock was set back
ClockInv == ~setBack =>
    /\ lastAllTimestamp <= allTimestamp /\ allTimestamp <= clock
    /\ pc = "idle" => lastAllTimestamp = allTimestamp
    /\ \A i \in DOMAIN allDataValue : allDataValue[i].kind = "data" =>
          allTimestamp <= allDataValue[i].ts /\ allDataValue[i].ts <= clock
    /\ \A i, j \in DOMAIN allDataValue :
          i < j /\ allDataValue[i].kind = "data" /\ allDataValue[j].kind = "data"
             => allDataValue[i].ts <= allDataValue[j].ts

\* No point of pts is last with a time above t
LastTs(pts) == pts[Len(pts)].ts
UpTo(pts, t) == pts # <<>> => LastTs(pts) <= t

\* No time that the acquirer has used, or may use of the frames tp and cp, is above t
Until(t, u, tp, cp) == u <= t /\ UpTo(tp, t) /\ UpTo(cp, t)

\* The time no point has passed yet
Now == IF pc = "idle" THEN lastAllTimestamp ELSE PointTime

\* The points of a later frame are not older, unless the clock was set back
TimeInv == ~setBack =>
    /\ Until(Now, usedTs, temp.pts, cloudPer.pts) /\ UpTo(cloudGet, Now) /\ UpTo(cloudLast, Now)
    /\ temp.pts # <<>> => usedTs <= LastTs(temp.pts)
    /\ cloudPer.pts # <<>> => usedTs <= LastTs(cloudPer.pts) /\ UpTo(temp.pts, LastTs(cloudPer.pts))
    /\ cloudGet # <<>> => Until(LastTs(cloudGet), usedTs, temp.pts, cloudPer.pts)
    /\ cloudLast # <<>> /\ pc \in {"idle", "parse"} =>
          Until(LastTs(cloudLast), usedTs, temp.pts, cloudPer.pts)
    /\ cloudLast # <<>> /\ pc \in {"flag", "publish"} =>
          cloudGet # <<>> /\ LastTs(cloudGet) = LastTs(cloudLast)

LidarInv == /\ TypeOK /\ CloudInv /\ StackInv /\ PacketsInv /\ BlockInv
            /\ OrderInv /\ FlagInv /\ BadFrameOnlyIfOvertaken /\ SyncInv /\ SweepInv
            /\ ClockInv /\ TimeInv

-----------------------------------------------------------------------------
(* Arithmetic *)

\* The remainder of a sum of a multiple and a smaller number.
LEMMA Remainder ==
    ASSUME NEW q \in Int, NEW r \in 0 .. Blocks - 1
    PROVE  (q * Blocks + r) % Blocks = r
  BY LidarAssumption

\* Where a block is in its packet, and what the next one's place is.
LEMMA PlaceValue ==
    ASSUME NEW b \in Nat \ {0}
    PROVE  /\ At(b) \in 1 .. Blocks /\ PacketEnd(b) \in Nat /\ b <= PacketEnd(b)
           /\ At(b) = Blocks => PacketEnd(b) = b
           /\ At(b) # Blocks => At(b + 1) = At(b) + 1 /\ PacketEnd(b + 1) = PacketEnd(b)
<1>0. Blocks \in Nat /\ Blocks > 0
  BY LidarAssumption
<1>1. (b - 1) % Blocks \in 0 .. Blocks - 1
  BY <1>0
<1>2. At(b) \in 1 .. Blocks
  BY <1>0, <1>1 DEF At
<1>3. (b - 1) % Blocks # Blocks - 1 => b % Blocks = ((b - 1) % Blocks) + 1
  <2> DEFINE q == (b - 1) \div Blocks
  <2> DEFINE r == (b - 1) % Blocks
  <2>1. q \in Int /\ r \in 0 .. Blocks - 1 /\ b - 1 = q * Blocks + r
    BY <1>0
  <2> HIDE DEF q
  <2> SUFFICES ASSUME r # Blocks - 1 PROVE b % Blocks = r + 1
    OBVIOUS
  <2> HIDE DEF r
  <2>2. b = q * Blocks + (r + 1) /\ r + 1 \in 0 .. Blocks - 1
    BY <1>0, <2>1
  <2> QED BY <2>1, <2>2, Remainder
<1>4. At(b) # Blocks => At(b + 1) = At(b) + 1
  BY <1>0, <1>1, <1>3 DEF At
<1> HIDE DEF At
<1> QED BY <1>0, <1>2, <1>4 DEF PacketEnd

\* A packet's first block is at place 1.
LEMMA PacketStart ==
    ASSUME NEW n \in Nat
    PROVE  At(n * Blocks + 1) = 1 /\ n * Blocks \in Nat /\ (n + 1) * Blocks = n * Blocks + Blocks
<1>0. Blocks \in Nat /\ Blocks > 0
  BY LidarAssumption
<1>1. n * Blocks \in Nat /\ (n + 1) * Blocks = n * Blocks + Blocks
  BY <1>0
<1>2. (n * Blocks) % Blocks = 0
  BY <1>0
<1> QED BY <1>0, <1>1, <1>2 DEF At

\* The time of block b of a packet of time A that follows one of time L
TimeAt(A, L, b) == LET t == A - (((A - L) % TimeMod) \div Blocks) * (Blocks - At(b))
                   IN IF t < 0 THEN 0 ELSE t

\* It is a number, whatever the two times are.
LEMMA TimeAtType ==
    ASSUME NEW A \in Nat, NEW L \in Nat, NEW b \in Nat \ {0}
    PROVE  TimeAt(A, L, b) \in Nat
<1>0. Blocks \in Nat /\ Blocks > 0 /\ TimeMod \in Nat /\ TimeMod > 0
  BY LidarAssumption
<1>1. (A - L) % TimeMod \in Nat
  BY <1>0
<1>2. ((A - L) % TimeMod) \div Blocks \in Nat
  BY <1>0, <1>1
<1>3. Blocks - At(b) \in Int
  BY <1>0, PlaceValue
<1>4. (((A - L) % TimeMod) \div Blocks) * (Blocks - At(b)) \in Int
  BY <1>2, <1>3
<1>5. A - (((A - L) % TimeMod) \div Blocks) * (Blocks - At(b)) \in Int
  BY <1>4
<1> QED BY <1>5 DEF TimeAt

\* The time of the block that is being decoded, before and after a step.
LEMMA PointTimeValue ==
    /\ TypeOK => PointTime \in Nat
    /\ TypeOK' => PointTime' \in Nat
<1>1. TypeOK => allTimestamp \in Nat /\ lastAllTimestamp \in Nat /\ blk \in Nat \ {0}
  BY DEF TypeOK
<1>2. TypeOK' => allTimestamp' \in Nat /\ lastAllTimestamp' \in Nat /\ blk' \in Nat \ {0}
  BY DEF TypeOK
<1>3. PointTime = TimeAt(allTimestamp, lastAllTimestamp, blk)
  BY DEF PointTime, PointInterval, TimeAt, Place, At
<1>4. PointTime' = TimeAt(allTimestamp', lastAllTimestamp', blk')
  BY DEF PointTime, PointInterval, TimeAt, Place, At
<1> QED BY <1>1, <1>2, <1>3, <1>4, TimeAtType

-----------------------------------------------------------------------------
(* Types and limits *)

\* A sequence that is not empty has a last element.
LEMMA LastElement ==
    ASSUME NEW S, NEW s \in Seq(S), s # <<>>
    PROVE  Len(s) \in Nat /\ Len(s) > 0 /\ s[Len(s)] \in S
<1>1. Len(s) \in Nat /\ Len(s) # 0
  OBVIOUS
<1> QED BY <1>1

\* The constructor's state satisfies the invariant.
LEMMA LidarInit == Init => TypeOK /\ CloudInv /\ StackInv
<1> SUFFICES ASSUME Init PROVE TypeOK /\ CloudInv /\ StackInv
  OBVIOUS
<1>0. BaseTime \in Nat /\ MaxPoints \in Nat /\ CountCap \in Nat
  BY LidarAssumption
<1>1. <<>> \in Points /\ Len(<<>>) = 0 /\ <<>> \in Seq(Packets)
  BY DEF Points
<1>2. NoFrame \in Frames /\ NoFrame.pts = <<>> /\ [frame |-> NoFrame, ok |-> FALSE] \in [frame : Frames, ok : BOOLEAN]
  BY <1>1 DEF NoFrame, Frames
<1>3. 0 <= 2 * (MaxPoints + 2) /\ 0 <= m_StackFrame * (MaxPoints + 2) /\ 0 <= MaxPoints + 2
  BY <1>0 DEF Init
<1>4. [end |-> 0, good |-> FALSE] \in [end : Nat, good : BOOLEAN] /\ 0 \in 0 .. CountCap + 1
  BY <1>0
<1>5. TypeOK
  <2>1. /\ Len(cloudLast) <= MaxPoints + 2 /\ Len(cloudGet) <= m_StackFrame * (MaxPoints + 2)
        /\ Len(cloudPer.pts) <= 2 * (MaxPoints + 2)
    BY <1>1, <1>2, <1>3 DEF Init
  <2>2. /\ cloudGet \in Points /\ cloudLast \in Points /\ cloudPer \in Frames /\ temp \in Frames
        /\ got \in [frame : Frames, ok : BOOLEAN] /\ flagged \in [end : Nat, good : BOOLEAN]
    BY <1>1, <1>2, <1>4 DEF Init
  <2>3. /\ allDataValue \in Seq(Packets) /\ clock \in Nat /\ blk \in Nat \ {0}
        /\ m_DistanceIsNotZero \in 0 .. CountCap + 1
    BY <1>0, <1>1, <1>4 DEF Init
  <2> QED BY <2>1, <2>2, <2>3 DEF Init, TypeOK
<1> QED BY <1>1, <1>3, <1>5 DEF Init, CloudInv, StackInv

\* No step breaks the types or the limits.
LEMMA TypeNext ==
    ASSUME TypeOK, CloudInv, StackInv, [Next]_vars
    PROVE  TypeOK' /\ CloudInv' /\ StackInv'
<1>0. /\ Blocks \in Nat /\ Blocks > 0 /\ MaxPoints \in Nat /\ CountCap \in Nat /\ MinNonZero \in Nat
      /\ BaseTime \in Nat
  BY LidarAssumption
<1>1. CASE UNCHANGED vars
  BY <1>1 DEF vars, device, decoder, acquirer, ghosts, TypeOK, CloudInv, StackInv
<1>2. ASSUME NEW t \in Nat, DataPacket(t), setBack' \in BOOLEAN PROVE TypeOK' /\ CloudInv' /\ StackInv'
  <2>1. nData * Blocks \in Nat
    BY PacketStart DEF TypeOK
  <2>2. [kind |-> "data", base |-> nData * Blocks, ts |-> t] \in Packets
    BY <1>2, <2>1 DEF Packets
  <2>3. allDataValue' \in Seq(Packets)
    <3> DEFINE p == [kind |-> "data", base |-> nData * Blocks, ts |-> t]
    <3>1. allDataValue' = allDataValue \/ allDataValue' = Append(allDataValue, p)
      BY <1>2 DEF DataPacket, Queued
    <3> HIDE DEF p
    <3>2. p \in Packets
      BY <2>2 DEF p
    <3> QED BY <3>1, <3>2 DEF TypeOK
  <2> QED BY <1>2, <2>3 DEF DataPacket, receiving, decoder, acquirer, ghosts, TypeOK, CloudInv, StackInv
<1>3. CASE InStep
  <2>1. clock + Blocks \in Nat /\ setBack' \in BOOLEAN /\ DataPacket(clock + Blocks)
    BY <1>0, <1>3 DEF InStep, TypeOK
  <2> QED BY <1>2, <2>1
<1>4. CASE AfterSetBack
  BY <1>0, <1>2, <1>4 DEF AfterSetBack, TypeOK
<1>5. CASE DevPacket
  <2>1. [kind |-> "dev", base |-> 0, ts |-> 0] \in Packets
    BY DEF Packets
  <2>2. allDataValue' \in Seq(Packets)
    BY <1>5, <2>1 DEF DevPacket, Queued, TypeOK
  <2> QED BY <1>5, <2>2 DEF DevPacket, receiving, decoder, acquirer, ghosts, TypeOK, CloudInv, StackInv
<1>6. CASE DataTimeout
  <2>1. UNCHANGED <<device, allDataValue, pc, blk, decoder, cloudPer, isFrameOK, acquirer, ghosts>>
    BY <1>6 DEF DataTimeout, receiving
  <2>2. isSuccessfulFlag' \in BOOLEAN
    BY <1>6 DEF DataTimeout
  <2> QED BY <2>1, <2>2 DEF device, decoder, acquirer, ghosts, TypeOK, CloudInv, StackInv
<1>7. CASE PopDev
  <2>1. allDataValue' \in Seq(Packets)
    BY <1>7 DEF PopDev, TypeOK
  <2>2. m_StackFrame' \in {1, 2}
    BY <1>7 DEF PopDev
  <2>3. m_StackFrame = 2 => m_StackFrame' = 2
    BY <1>7 DEF PopDev, StackInv
  <2>4. Len(cloudGet) <= m_StackFrame' * (MaxPoints + 2)
    BY <1>0, <1>7, <2>2 DEF PopDev, CloudInv, TypeOK, Points
  <2>5. TypeOK'
    BY <1>7, <2>1, <2>2, <2>4 DEF PopDev, device, acquirer, ghosts, TypeOK
  <2> QED BY <1>7, <2>3, <2>5 DEF PopDev, device, TypeOK, CloudInv, StackInv
<1>8. CASE PopData
  <2>1. allDataValue' \in Seq(Packets) /\ Head(allDataValue) \in Packets
    BY <1>8 DEF PopData, TypeOK
  <2>2. blk' \in Nat \ {0} /\ allTimestamp' \in Nat
    BY <1>8, <2>1 DEF PopData, Packets
  <2>3. m_StackFrame' = m_StackFrame
    BY <1>8 DEF PopData, StackInv, TypeOK
  <2> QED BY <1>8, <2>1, <2>2, <2>3 DEF PopData, device, acquirer, ghosts, TypeOK, CloudInv, StackInv
<1>9. ASSUME pc # "idle", NextBlock
      PROVE  pc' \in {"idle", "parse"} /\ blk' \in Nat \ {0} /\ lastAllTimestamp' \in Nat
  BY <1>9 DEF NextBlock, TypeOK
<1>10. CASE Overflow
  BY <1>9, <1>10 DEF Overflow, device, acquirer, ghosts, TypeOK, CloudInv, StackInv
<1>11. CASE ZeroBlock
  BY <1>9, <1>11 DEF ZeroBlock, device, acquirer, ghosts, TypeOK, CloudInv, StackInv
<1>12. CASE PointBlock
  <2>1. Echoes([id |-> blk, ts |-> PointTime]) \in Points /\ Len(Echoes([id |-> blk, ts |-> PointTime])) <= 2
    <3> DEFINE p == [id |-> blk, ts |-> PointTime]
    <3>1. p \in [id : Nat \ {0}, ts : Nat]
      BY PointTimeValue DEF TypeOK
    <3> HIDE DEF p
    <3>2. <<p, p>> \in Points /\ <<p>> \in Points /\ Len(<<p, p>>) = 2 /\ Len(<<p>>) = 1
      BY <3>1 DEF Points
    <3>3. Echoes(p) \in Points /\ Len(Echoes(p)) <= 2
      BY <3>2 DEF Echoes
    <3> QED BY <3>3 DEF p
  <2>2. cloudGet' \in Points /\ Len(cloudGet') <= MaxPoints + 2
    BY <1>0, <1>12, <2>1 DEF PointBlock, Overflowing, TypeOK, Points
  <2>3. Len(cloudGet') <= m_StackFrame * (MaxPoints + 2)
    BY <1>0, <2>2 DEF TypeOK, Points
  <2>4. m_DistanceIsNotZero' \in 0 .. CountCap + 1
    BY <1>0, <1>12 DEF PointBlock, TypeOK
  <2>5. accepted' \subseteq Nat \ {0}
    BY <1>12 DEF PointBlock, TypeOK
  <2>6. pc # "idle" /\ NextBlock
    BY <1>12 DEF PointBlock
  <2> QED BY <1>9, <1>12, <2>2, <2>3, <2>4, <2>5, <2>6
          DEF PointBlock, device, acquirer, TypeOK, CloudInv, StackInv
<1>13. CASE SyncBlock
  <2>1. /\ cloudGet' \in Points /\ Len(cloudGet') <= m_StackFrame * (MaxPoints + 2)
        /\ cloudLast' \in Points /\ Len(cloudLast') <= MaxPoints + 2
    <3>1. /\ cloudGet \in Points /\ cloudLast \in Points /\ m_StackFrame \in {1, 2}
          /\ Len(cloudGet) <= MaxPoints + 2 /\ Len(cloudLast) <= MaxPoints + 2
      BY <1>13 DEF SyncBlock, TypeOK, CloudInv
    <3>2. CASE m_StackFrame = 1
      BY <1>0, <1>13, <3>1, <3>2 DEF SyncBlock
    <3>3. CASE m_StackFrame = 2
      <4>1. cloudGet' = cloudLast \o cloudGet /\ cloudLast' = cloudGet
        BY <1>13, <3>3 DEF SyncBlock
      <4>2. cloudLast \o cloudGet \in Points /\ Len(cloudLast \o cloudGet) = Len(cloudLast) + Len(cloudGet)
        BY <3>1 DEF Points
      <4>3. Len(cloudGet) \in Nat /\ Len(cloudLast) \in Nat
        BY <3>1 DEF Points
      <4> QED BY <1>0, <3>1, <3>3, <4>1, <4>2, <4>3
    <3> QED BY <3>1, <3>2, <3>3
  <2>2. syncs' \subseteq Nat \ {0}
    BY <1>13 DEF SyncBlock, TypeOK
  <2> QED BY <1>13, <2>1, <2>2 DEF SyncBlock, device, acquirer, TypeOK, CloudInv, StackInv
<1>14. CASE SendFlag
  BY <1>0, <1>14 DEF SendFlag, device, acquirer, TypeOK, CloudInv, StackInv
<1>15. CASE SendFrame
  <2>1. cloudPer' \in Frames /\ cloudGet' \in Points /\ Len(cloudGet') = 0 /\ cloudPer'.pts = cloudGet
    BY <1>15 DEF SendFrame, Frames, Points, TypeOK
  <2>2. Len(cloudPer'.pts) <= 2 * (MaxPoints + 2)
    BY <1>0, <2>1 DEF TypeOK, Points
  <2>3. Len(cloudGet') <= m_StackFrame * (MaxPoints + 2)
    BY <1>0, <2>1 DEF TypeOK
  <2>4. pc # "idle" /\ NextBlock
    BY <1>15 DEF SendFrame
  <2> QED BY <1>0, <1>9, <1>15, <2>1, <2>2, <2>3, <2>4
          DEF SendFrame, device, acquirer, ghosts, TypeOK, CloudInv, StackInv
<1>16. CASE Poll
  BY <1>16 DEF Poll, sdk, device, decoder, ghosts, TypeOK, CloudInv, StackInv
<1>17. CASE GetFrame
  <2>1. NoFrame \in Frames /\ Len(NoFrame.pts) = 0
    BY DEF NoFrame, Frames, Points
  <2>2. Len(cloudPer'.pts) <= 2 * (MaxPoints + 2) /\ cloudPer' \in Frames /\ temp' \in Frames
    BY <1>0, <1>17, <2>1 DEF GetFrame, TypeOK
  <2>3. TypeOK'
    BY <1>17, <2>2 DEF GetFrame, sdk, device, decoder, ghosts, TypeOK
  <2> QED BY <1>17, <2>3 DEF GetFrame, sdk, device, decoder, ghosts, CloudInv, StackInv
<1>18. CASE ReadFlag
  <2>1. NoFrame \in Frames
    BY DEF NoFrame, Frames, Points
  <2>2. temp.pts # <<>> => temp.pts[Len(temp.pts)].ts \in Nat
    <3>1. temp.pts \in Seq([id : Nat \ {0}, ts : Nat])
      BY DEF TypeOK, Frames, Points
    <3>2. temp.pts # <<>> => temp.pts[Len(temp.pts)] \in [id : Nat \ {0}, ts : Nat]
      BY <3>1, LastElement
    <3> QED BY <3>2
  <2> QED BY <1>18, <2>1, <2>2 DEF ReadFlag, sdk, device, decoder, ghosts, TypeOK, CloudInv, StackInv
<1> QED BY <1>1, <1>3, <1>4, <1>5, <1>6, <1>7, <1>8, <1>10, <1>11, <1>12, <1>13, <1>14, <1>15,
           <1>16, <1>17, <1>18 DEF Next, LidarRun, Acquire

-----------------------------------------------------------------------------
(* The order of packets and blocks *)

\* What a queue holds after Append and after Tail.
LEMMA QueueSteps ==
    ASSUME NEW S, NEW q \in Seq(S)
    PROVE  /\ \A p \in S : /\ DOMAIN Append(q, p) = 1 .. Len(q) + 1
                           /\ Append(q, p)[Len(q) + 1] = p
                           /\ \A i \in 1 .. Len(q) : Append(q, p)[i] = q[i]
           /\ Len(q) \in Nat /\ DOMAIN q = 1 .. Len(q) /\ \A i \in DOMAIN q : q[i] \in S
           /\ q # <<>> => /\ Len(q) > 0 /\ Head(q) = q[1] /\ DOMAIN Tail(q) = 1 .. Len(q) - 1
                          /\ \A i \in 1 .. Len(q) - 1 : Tail(q)[i] = q[i + 1]
<1>1. q # <<>> => Len(q) # 0
  OBVIOUS
<1> QED BY <1>1

\* The numbers of a packet.
LEMMA PacketFields == \A p \in Packets : p.base \in Nat /\ p.ts \in Nat
  BY DEF Packets

\* Where the loop over the blocks of a packet goes.
LEMMA NextBlockValue ==
    ASSUME TypeOK, NextBlock
    PROVE  \/ pc' = "idle" /\ PacketEnd(blk) = blk
           \/ pc' = "parse" /\ blk' = blk + 1 /\ PacketEnd(blk') = PacketEnd(blk)
<1>1. blk \in Nat \ {0} /\ Place = At(blk)
  BY DEF TypeOK, Place, At
<1> QED BY <1>1, PlaceValue DEF NextBlock

\* Packets and blocks in their initial state.
LEMMA PacketsInit == Init => PacketsInv /\ BlockInv
<1> SUFFICES ASSUME Init PROVE PacketsInv /\ BlockInv
  OBVIOUS
<1>1. 0 * Blocks = 0
  BY LidarAssumption
<1>2. DOMAIN allDataValue = {}
  BY DEF Init
<1> QED BY <1>1, <1>2 DEF Init, PacketsInv, BlockInv, Past, Below

\* A packet is appended, or lost.
LEMMA PacketsArrive ==
    ASSUME TypeOK, PacketsInv, BlockInv, NEW p \in Packets,
           allDataValue' \in {allDataValue, Append(allDataValue, p)},
           UNCHANGED <<pc, blk, flagged, accepted, syncs>>,
           \/ p.kind = "dev" /\ nData' = nData
           \/ p.base = nData * Blocks /\ nData' = nData + 1
    PROVE  PacketsInv' /\ BlockInv'
<1> DEFINE PastN(m) == Below(m, flagged'.end, accepted' \cup syncs')
<1> DEFINE n == nData * Blocks
<1>0. Blocks \in Nat /\ nData \in Nat /\ allDataValue \in Seq(Packets)
  BY LidarAssumption DEF TypeOK
<1>1. n \in Nat /\ (nData + 1) * Blocks = n + Blocks /\ At(n + 1) = 1
  BY <1>0, PacketStart
<1>2. /\ Past(n) /\ flagged.end \in Nat /\ accepted \cup syncs \subseteq Nat
      /\ PacketEnd(blk) \in Nat /\ (pc # "idle" => PacketEnd(blk) <= n)
  BY PlaceValue DEF PacketsInv, TypeOK
<1>3. \/ nData' * Blocks = n /\ p.kind = "dev"
      \/ nData' * Blocks = n + Blocks /\ p.base = n
  BY <1>1
<1> HIDE DEF n
<1>4. BlockInv'
  BY DEF BlockInv, Past, Below
<1>5. PastN(nData' * Blocks) /\ (pc' # "idle" => PacketEnd(blk') <= nData' * Blocks)
  BY <1>0, <1>1, <1>2, <1>3 DEF Past, Below
<1>6. \A i \in DOMAIN allDataValue : allDataValue[i] \in Packets /\ allDataValue[i].base \in Nat
  BY <1>0, QueueSteps, PacketFields
<1>7. \A i \in DOMAIN allDataValue : allDataValue[i].kind = "data" =>
          /\ At(allDataValue[i].base + 1) = 1
          /\ allDataValue[i].base + Blocks <= n
          /\ Past(allDataValue[i].base)
          /\ pc # "idle" => PacketEnd(blk) <= allDataValue[i].base
  BY DEF PacketsInv, n
<1>8. \A i, j \in DOMAIN allDataValue :
          i < j /\ allDataValue[i].kind = "data" /\ allDataValue[j].kind = "data"
             => allDataValue[i].base + Blocks <= allDataValue[j].base
  BY DEF PacketsInv
<1>9. \A m \in Nat : (Past(m) <=> PastN(m)) /\ (PacketEnd(blk) = PacketEnd(blk'))
  BY DEF Past
<1>10. \A i \in DOMAIN allDataValue' : \/ i \in DOMAIN allDataValue /\ allDataValue'[i] = allDataValue[i]
                                       \/ i = Len(allDataValue) + 1 /\ allDataValue'[i] = p
  BY <1>0, QueueSteps
<1>11. Len(allDataValue) \in Nat /\ DOMAIN allDataValue = 1 .. Len(allDataValue)
  BY <1>0, QueueSteps
<1>12. ASSUME NEW i \in DOMAIN allDataValue', allDataValue'[i].kind = "data"
       PROVE  /\ At(allDataValue'[i].base + 1) = 1
              /\ allDataValue'[i].base + Blocks <= nData' * Blocks
              /\ PastN(allDataValue'[i].base)
              /\ pc' # "idle" => PacketEnd(blk') <= allDataValue'[i].base
  <2>1. CASE i \in DOMAIN allDataValue /\ allDataValue'[i] = allDataValue[i]
    <3>1. /\ At(allDataValue[i].base + 1) = 1
          /\ allDataValue[i].base + Blocks <= n
          /\ Past(allDataValue[i].base)
          /\ pc # "idle" => PacketEnd(blk) <= allDataValue[i].base
      BY <1>7, <1>12, <2>1
    <3>2. allDataValue[i].base \in Nat
      BY <1>6, <2>1
    <3>3. PastN(allDataValue[i].base) /\ PacketEnd(blk') = PacketEnd(blk)
      BY <1>9, <3>1, <3>2
    <3>4. allDataValue[i].base + Blocks <= nData' * Blocks
      BY <1>0, <1>1, <1>3, <3>1, <3>2
    <3> HIDE DEF PastN
    <3> QED BY <2>1, <3>1, <3>3, <3>4
  <2>2. CASE allDataValue'[i] = p
    <3>1. p.base = n /\ nData' * Blocks = n + Blocks
      BY <1>3, <1>12, <2>2
    <3>2. PastN(n) /\ PacketEnd(blk') = PacketEnd(blk) /\ (pc' # "idle" => PacketEnd(blk') <= n)
      BY <1>1, <1>2, <1>9
    <3>3. n + Blocks <= nData' * Blocks
      BY <1>0, <1>1, <3>1
    <3> HIDE DEF PastN
    <3> QED BY <1>1, <2>2, <3>1, <3>2, <3>3
  <2> QED BY <1>10, <2>1, <2>2
<1>13. ASSUME NEW i \in DOMAIN allDataValue', NEW j \in DOMAIN allDataValue', i < j,
              allDataValue'[i].kind = "data", allDataValue'[j].kind = "data"
       PROVE  allDataValue'[i].base + Blocks <= allDataValue'[j].base
  <2>1. i \in DOMAIN allDataValue /\ allDataValue'[i] = allDataValue[i]
    BY <1>0, <1>10, <1>11, <1>13
  <2>2. CASE j \in DOMAIN allDataValue /\ allDataValue'[j] = allDataValue[j]
    BY <1>8, <1>13, <2>1, <2>2
  <2>3. CASE allDataValue'[j] = p
    BY <1>3, <1>7, <1>13, <2>1, <2>3
  <2> QED BY <1>10, <2>2, <2>3
<1>14. PacketEnd(blk)' = PacketEnd(blk')
  BY DEF PacketEnd, At
<1> QED BY <1>4, <1>5, <1>12, <1>13, <1>14 DEF PacketsInv, Past, At

\* A packet is taken from the queue.
LEMMA PacketsPop ==
    ASSUME TypeOK, PacketsInv, BlockInv, pc = "idle", allDataValue # <<>>,
           allDataValue' = Tail(allDataValue), UNCHANGED <<nData, flagged, accepted, syncs>>,
           \/ pc' = "idle"
           \/ /\ pc' = "parse" /\ Head(allDataValue).kind = "data"
              /\ blk' = Head(allDataValue).base + 1
    PROVE  PacketsInv' /\ BlockInv'
<1> DEFINE PastN(m) == Below(m, flagged'.end, accepted' \cup syncs')
<1>0. Blocks \in Nat /\ nData \in Nat /\ allDataValue \in Seq(Packets) /\ nData * Blocks \in Nat
  BY LidarAssumption, PacketStart DEF TypeOK
<1>1. /\ Len(allDataValue) \in Nat /\ Len(allDataValue) > 0 /\ Head(allDataValue) = allDataValue[1]
      /\ DOMAIN allDataValue = 1 .. Len(allDataValue)
      /\ DOMAIN allDataValue' = 1 .. Len(allDataValue) - 1
      /\ \A i \in DOMAIN allDataValue' : allDataValue'[i] = allDataValue[i + 1]
  BY <1>0, QueueSteps
<1>2. \A i \in DOMAIN allDataValue : allDataValue[i].base \in Nat
  BY <1>0, QueueSteps, PacketFields
<1>3. \A m \in Nat : (Past(m) <=> PastN(m))
  BY DEF Past
<1>4. \A i \in DOMAIN allDataValue' : i + 1 \in DOMAIN allDataValue /\ 1 \in DOMAIN allDataValue /\ 1 < i + 1
  BY <1>1
<1>5. ASSUME pc' = "parse"
      PROVE  /\ blk' \in Nat \ {0} /\ PastN(blk' - 1) /\ PacketEnd(blk') = allDataValue[1].base + Blocks
             /\ PacketEnd(blk') <= nData * Blocks
  <2>1. allDataValue[1].kind = "data" /\ blk' = allDataValue[1].base + 1 /\ 1 \in DOMAIN allDataValue
    BY <1>1, <1>5
  <2>2. /\ At(blk') = 1 /\ allDataValue[1].base + Blocks <= nData * Blocks
        /\ Past(allDataValue[1].base) /\ allDataValue[1].base \in Nat
    BY <1>2, <2>1 DEF PacketsInv
  <2>3. blk' - 1 = allDataValue[1].base
    BY <2>1, <2>2
  <2>4. PacketEnd(blk') = allDataValue[1].base + Blocks
    BY <1>0, <2>1, <2>2 DEF PacketEnd
  <2>5. PastN(blk' - 1)
    BY <1>3, <2>2, <2>3
  <2> HIDE DEF PastN
  <2> QED BY <2>1, <2>2, <2>4, <2>5
<1>6. BlockInv'
  BY <1>5 DEF BlockInv, Past
<1>7. ASSUME NEW i \in DOMAIN allDataValue', allDataValue'[i].kind = "data"
      PROVE  /\ At(allDataValue'[i].base + 1) = 1
             /\ allDataValue'[i].base + Blocks <= nData' * Blocks
             /\ PastN(allDataValue'[i].base)
             /\ pc' # "idle" => PacketEnd(blk') <= allDataValue'[i].base
  <2>1. allDataValue'[i] = allDataValue[i + 1] /\ i + 1 \in DOMAIN allDataValue
    BY <1>1, <1>4
  <2>2. /\ At(allDataValue[i + 1].base + 1) = 1
        /\ allDataValue[i + 1].base + Blocks <= nData * Blocks
        /\ Past(allDataValue[i + 1].base)
    BY <1>7, <2>1 DEF PacketsInv
  <2>3. pc' # "idle" => PacketEnd(blk') <= allDataValue[i + 1].base
    BY <1>1, <1>4, <1>5, <1>7, <2>1 DEF PacketsInv
  <2> QED BY <1>2, <1>3, <2>1, <2>2, <2>3
<1>8. ASSUME NEW i \in DOMAIN allDataValue', NEW j \in DOMAIN allDataValue', i < j,
             allDataValue'[i].kind = "data", allDataValue'[j].kind = "data"
      PROVE  allDataValue'[i].base + Blocks <= allDataValue'[j].base
  <2>1. i + 1 \in DOMAIN allDataValue /\ j + 1 \in DOMAIN allDataValue /\ i + 1 < j + 1
    BY <1>1, <1>4, <1>8
  <2> QED BY <1>1, <1>8, <2>1 DEF PacketsInv
<1>9. PastN(nData' * Blocks) /\ (pc' # "idle" => PacketEnd(blk') <= nData' * Blocks)
  BY <1>0, <1>3, <1>5 DEF PacketsInv
<1>10. PacketEnd(blk)' = PacketEnd(blk')
  BY DEF PacketEnd, At
<1> QED BY <1>6, <1>7, <1>8, <1>9, <1>10 DEF PacketsInv, Past, At

\* A block is decoded: it may be accepted, or be a marker, and the loop goes on.
LEMMA PacketsDecode ==
    ASSUME TypeOK, TypeOK', PacketsInv, BlockInv, pc # "idle", UNCHANGED <<nData, allDataValue>>,
           \/ /\ pc \in {"parse", "publish"} /\ NextBlock /\ UNCHANGED <<syncs, flagged>>
              /\ accepted' = accepted \/ (pc = "parse" /\ accepted' = accepted \cup {blk})
           \/ /\ pc = "parse" /\ pc' = "flag" /\ syncs' = syncs \cup {blk}
              /\ UNCHANGED <<blk, accepted, flagged>>
           \/ pc = "flag" /\ pc' = "publish" /\ flagged'.end = blk /\ UNCHANGED <<blk, accepted, syncs>>
    PROVE  PacketsInv' /\ BlockInv'
<1> DEFINE PastN(m) == Below(m, flagged'.end, accepted' \cup syncs')
<1>0. Blocks \in Nat /\ nData \in Nat /\ allDataValue \in Seq(Packets) /\ nData * Blocks \in Nat
  BY LidarAssumption, PacketStart DEF TypeOK
<1>1. /\ blk \in Nat \ {0} /\ PacketEnd(blk) \in Nat /\ blk <= PacketEnd(blk)
      /\ blk' \in Nat \ {0} /\ flagged.end \in Nat /\ flagged'.end \in Nat
      /\ accepted \cup syncs \subseteq Nat /\ accepted' \cup syncs' \subseteq Nat
  BY PlaceValue DEF TypeOK
<1>2. \A i \in DOMAIN allDataValue : allDataValue[i].base \in Nat
  BY <1>0, QueueSteps, PacketFields
<1>3. Past(blk)
  <2>1. CASE pc = "parse"
    BY <1>1, <2>1 DEF BlockInv, Past, Below
  <2>2. CASE pc \in {"flag", "publish"}
    BY <2>2 DEF BlockInv
  <2> QED BY <2>1, <2>2 DEF TypeOK
<1>4. \A m \in Nat : Past(m) /\ PacketEnd(blk) <= m => PastN(m)
  BY <1>1 DEF Past, Below
<1>5. pc' # "idle" => PacketEnd(blk') = PacketEnd(blk)
  BY NextBlockValue
<1>6. BlockInv'
  <2>1. CASE NextBlock /\ pc \in {"parse", "publish"} /\ UNCHANGED <<syncs, flagged>>
             /\ (accepted' = accepted \/ (pc = "parse" /\ accepted' = accepted \cup {blk}))
    <3>1. PastN(blk)
      BY <1>1, <1>3, <2>1 DEF Past, Below
    <3>2. pc' = "parse" => blk' = blk + 1 /\ blk = blk' - 1
      BY <1>1, <2>1, NextBlockValue
    <3>3. pc' = "idle" \/ pc' = "parse"
      BY <2>1, NextBlockValue
    <3>4. pc' = "parse" => PastN(blk' - 1)
      BY <3>1, <3>2
    <3> QED BY <3>3, <3>4 DEF BlockInv, Past
  <2>2. CASE pc = "parse" /\ pc' = "flag" /\ syncs' = syncs \cup {blk}
             /\ UNCHANGED <<blk, accepted, flagged>>
    <3>1. Past(blk - 1)
      BY <2>2 DEF BlockInv
    <3> QED BY <1>1, <2>2, <3>1 DEF BlockInv, Past, Below
  <2>3. CASE pc = "flag" /\ pc' = "publish" /\ flagged'.end = blk /\ UNCHANGED <<blk, accepted, syncs>>
    BY <1>1, <2>3 DEF BlockInv, Past, Below
  <2> QED BY <2>1, <2>2, <2>3
<1>7. PastN(nData * Blocks) /\ (pc' # "idle" => PacketEnd(blk') <= nData * Blocks)
  BY <1>0, <1>4, <1>5 DEF PacketsInv
<1>8. ASSUME NEW i \in DOMAIN allDataValue, allDataValue[i].kind = "data"
      PROVE  PastN(allDataValue[i].base) /\ (pc' # "idle" => PacketEnd(blk') <= allDataValue[i].base)
  BY <1>2, <1>4, <1>5, <1>8 DEF PacketsInv
<1>9. PacketEnd(blk)' = PacketEnd(blk')
  BY DEF PacketEnd, At
<1>10. PacketsInv'
  BY <1>7, <1>8, <1>9 DEF PacketsInv, Past, At
<1> QED BY <1>6, <1>10

\* No step breaks the order of packets and blocks.
LEMMA PacketsNext ==
    ASSUME TypeOK, TypeOK', PacketsInv, BlockInv, [Next]_vars
    PROVE  PacketsInv' /\ BlockInv'
<1>1. ASSUME UNCHANGED <<nData, allDataValue, pc, blk, flagged, accepted, syncs>>
      PROVE  PacketsInv' /\ BlockInv'
  BY <1>1 DEF PacketsInv, BlockInv, Past, PacketEnd, At
<1>2. CASE UNCHANGED vars \/ DataTimeout \/ Poll \/ GetFrame \/ ReadFlag
  <2>1. UNCHANGED <<nData, allDataValue, pc, blk, flagged, accepted, syncs>>
    BY <1>2 DEF vars, DataTimeout, Poll, GetFrame, ReadFlag, sdk, receiving, device, ghosts
  <2> QED BY <1>1, <2>1
<1>3. ASSUME NEW t \in Nat, DataPacket(t) PROVE PacketsInv' /\ BlockInv'
  <2> DEFINE p == [kind |-> "data", base |-> nData * Blocks, ts |-> t]
  <2>1. p \in Packets /\ p.base = nData * Blocks
    BY PacketStart DEF Packets, TypeOK
  <2>2. allDataValue' \in {allDataValue, Append(allDataValue, p)}
    BY <1>3 DEF DataPacket, Queued
  <2> HIDE DEF p
  <2>3. nData' = nData + 1 /\ UNCHANGED <<pc, blk, flagged, accepted, syncs>>
    BY <1>3 DEF DataPacket, receiving, ghosts
  <2> QED BY <2>1, <2>2, <2>3, PacketsArrive
<1>4. CASE InStep \/ AfterSetBack
  <2>1. clock + Blocks \in Nat /\ BaseTime \in Nat
    BY LidarAssumption DEF TypeOK
  <2>2. DataPacket(clock + Blocks) \/ DataPacket(BaseTime)
    BY <1>4 DEF InStep, AfterSetBack
  <2> QED BY <1>3, <2>1, <2>2
<1>5. CASE DevPacket
  <2> DEFINE p == [kind |-> "dev", base |-> 0, ts |-> 0]
  <2>1. p \in Packets /\ p.kind = "dev"
    BY DEF Packets
  <2>2. allDataValue' \in {allDataValue, Append(allDataValue, p)}
    BY <1>5 DEF DevPacket, Queued
  <2> HIDE DEF p
  <2>3. nData' = nData /\ UNCHANGED <<pc, blk, flagged, accepted, syncs>>
    BY <1>5 DEF DevPacket, receiving, ghosts
  <2> QED BY <2>1, <2>2, <2>3, PacketsArrive
<1>6. CASE PopDev
  <2>1. /\ pc = "idle" /\ pc' = "idle" /\ allDataValue # <<>> /\ allDataValue' = Tail(allDataValue)
        /\ UNCHANGED <<nData, flagged, accepted, syncs>>
    BY <1>6 DEF PopDev, device, ghosts
  <2> QED BY <2>1, PacketsPop
<1>7. CASE PopData
  <2>1. /\ pc = "idle" /\ pc' = "parse" /\ allDataValue # <<>> /\ allDataValue' = Tail(allDataValue)
        /\ Head(allDataValue).kind = "data" /\ blk' = Head(allDataValue).base + 1
        /\ UNCHANGED <<nData, flagged, accepted, syncs>>
    BY <1>7 DEF PopData, device, ghosts
  <2> QED BY <2>1, PacketsPop
<1>8. CASE Overflow \/ ZeroBlock \/ PointBlock \/ SendFrame
  <2>1. /\ pc \in {"parse", "publish"} /\ pc # "idle" /\ NextBlock /\ UNCHANGED <<syncs, flagged>>
        /\ accepted' = accepted \/ (pc = "parse" /\ accepted' = accepted \cup {blk})
        /\ UNCHANGED <<nData, allDataValue>>
    BY <1>8 DEF Overflow, ZeroBlock, PointBlock, SendFrame, device, ghosts
  <2> QED BY <2>1, PacketsDecode
<1>9. CASE SyncBlock
  <2>1. /\ pc = "parse" /\ pc # "idle" /\ pc' = "flag" /\ syncs' = syncs \cup {blk}
        /\ UNCHANGED <<blk, accepted, flagged, nData, allDataValue>>
    BY <1>9 DEF SyncBlock, device
  <2> QED BY <2>1, PacketsDecode
<1>10. CASE SendFlag
  <2>1. /\ pc = "flag" /\ pc # "idle" /\ pc' = "publish" /\ flagged'.end = blk
        /\ UNCHANGED <<blk, accepted, syncs, nData, allDataValue>>
    BY <1>10 DEF SendFlag, device
  <2> QED BY <2>1, PacketsDecode
<1> QED BY <1>2, <1>4, <1>5, <1>6, <1>7, <1>8, <1>9, <1>10 DEF Next, LidarRun, Acquire

-----------------------------------------------------------------------------
(* The order of frames, and the flag *)

\* The ends of the frames are numbers.
LEMMA EndTypes ==
    ASSUME TypeOK
    PROVE  /\ cloudPer.end \in Nat /\ temp.end \in Nat /\ got.frame.end \in Nat
           /\ flagged.end \in Nat /\ blk \in Nat
           /\ cloudPer.good \in BOOLEAN /\ temp.good \in BOOLEAN /\ got.frame.good \in BOOLEAN
           /\ flagged.good \in BOOLEAN /\ got.ok \in BOOLEAN
  BY DEF TypeOK, Frames

\* Frames and flag in their initial state.
LEMMA OrderInit == Init => OrderInv /\ FlagInv /\ BadFrameOnlyIfOvertaken
  BY DEF Init, OrderInv, FlagInv, BadFrameOnlyIfOvertaken, NoFrame

\* No step puts the frames out of order, or the flag ahead of its sweep.
LEMMA OrderNext ==
    ASSUME TypeOK, BlockInv, OrderInv, FlagInv, BadFrameOnlyIfOvertaken, [Next]_vars
    PROVE  OrderInv' /\ FlagInv' /\ BadFrameOnlyIfOvertaken'
<1> USE EndTypes
<1> DEFINE frames == <<flagged, cloudPer, isFrameOK, apc, temp, got>>
<1>1. ASSUME UNCHANGED frames, isSuccessfulFlag' => isSuccessfulFlag, pc' = "publish" => pc = "publish"
      PROVE  OrderInv' /\ FlagInv' /\ BadFrameOnlyIfOvertaken'
  BY <1>1 DEF OrderInv, FlagInv, BadFrameOnlyIfOvertaken
<1>2. CASE UNCHANGED vars \/ InStep \/ AfterSetBack \/ DevPacket \/ DataTimeout
  <2>1. UNCHANGED frames /\ (isSuccessfulFlag' => isSuccessfulFlag) /\ pc' = pc
    BY <1>2 DEF vars, InStep, AfterSetBack, DataPacket, DevPacket, DataTimeout, receiving, acquirer, ghosts
  <2> QED BY <1>1, <2>1
<1>3. CASE PopDev \/ PopData \/ Overflow \/ ZeroBlock \/ PointBlock \/ SyncBlock
  <2>1. /\ UNCHANGED frames /\ (isSuccessfulFlag' => isSuccessfulFlag)
        /\ pc' \in {"idle", "parse", "flag"}
    <3>1. CASE Overflow
      <4>1. isSuccessfulFlag' => isSuccessfulFlag
        BY <3>1 DEF Overflow
      <4> QED BY <3>1, <4>1 DEF Overflow, NextBlock, acquirer, ghosts
    <3>2. CASE PopDev \/ PopData
      BY <3>2 DEF PopDev, PopData, acquirer, ghosts
    <3>3. CASE ZeroBlock \/ PointBlock \/ SyncBlock
      BY <3>3 DEF ZeroBlock, PointBlock, SyncBlock, NextBlock, acquirer, ghosts
    <3> QED BY <1>3, <3>1, <3>2, <3>3
  <2> QED BY <1>1, <2>1
<1>4. CASE SendFlag
  <2>1. /\ pc = "flag" /\ pc' = "publish" /\ UNCHANGED <<cloudPer, isFrameOK, apc, temp, got>>
        /\ flagged'.end = blk /\ flagged'.good = isSuccessfulFlag'
    BY <1>4 DEF SendFlag, acquirer
  <2>2. flagged.end < blk
    BY <2>1 DEF BlockInv
  <2>3. /\ cloudPer.end < blk /\ temp.end < blk /\ got.frame.end < blk
    BY <2>2 DEF OrderInv
  <2>4. OrderInv'
    BY <2>1, <2>3 DEF OrderInv
  <2> QED BY <2>1, <2>3, <2>4 DEF FlagInv, BadFrameOnlyIfOvertaken
<1>5. CASE SendFrame
  <2>1. /\ pc = "publish" /\ pc' \in {"idle", "parse"}
        /\ UNCHANGED <<flagged, isSuccessfulFlag, apc, temp, got>>
        /\ cloudPer'.end = blk /\ cloudPer'.good = flagged.good /\ isFrameOK' = TRUE
    BY <1>5 DEF SendFrame, NextBlock, acquirer, ghosts
  <2>2. flagged.end = blk
    BY <2>1 DEF BlockInv
  <2>3. OrderInv'
    BY <2>1, <2>2 DEF OrderInv
  <2> QED BY <2>1, <2>2, <2>3 DEF OrderInv, FlagInv, BadFrameOnlyIfOvertaken
<1>6. CASE Poll
  <2>1. /\ UNCHANGED <<pc, isSuccessfulFlag, flagged, cloudPer, isFrameOK, temp, got>>
        /\ isFrameOK /\ apc' = "get"
    BY <1>6 DEF Poll, sdk, ghosts
  <2> QED BY <2>1 DEF OrderInv, FlagInv, BadFrameOnlyIfOvertaken
<1>7. CASE GetFrame
  <2>1. /\ UNCHANGED <<pc, isSuccessfulFlag, flagged, got>>
        /\ apc = "get" /\ apc' = "flag" /\ temp' = cloudPer /\ isFrameOK' = FALSE
        /\ cloudPer'.end = 0
    BY <1>7 DEF GetFrame, sdk, ghosts, NoFrame
  <2>2. isFrameOK
    BY <2>1 DEF OrderInv
  <2>3. OrderInv'
    BY <2>1, <2>2 DEF OrderInv
  <2> QED BY <2>1, <2>2, <2>3 DEF FlagInv, BadFrameOnlyIfOvertaken
<1>8. CASE ReadFlag
  <2>1. /\ UNCHANGED <<pc, isSuccessfulFlag, flagged, cloudPer, isFrameOK>>
        /\ apc = "flag" /\ apc' = "poll"
        /\ got'.frame = temp /\ got'.ok = isSuccessfulFlag /\ temp'.end = 0
    BY <1>8 DEF ReadFlag, sdk, ghosts, NoFrame
  <2>2. OrderInv'
    BY <2>1 DEF OrderInv
  <2>3. FlagInv'
    BY <2>1 DEF FlagInv
  <2>4. BadFrameOnlyIfOvertaken'
    <3> SUFFICES ASSUME isSuccessfulFlag, ~temp.good PROVE flagged.end > temp.end
      BY <2>1 DEF BadFrameOnlyIfOvertaken
    <3>1. temp.end > 0 /\ temp.end <= flagged.end
      BY <2>1 DEF OrderInv
    <3>2. flagged.good
      BY <3>1 DEF FlagInv
    <3>3. temp.end # flagged.end
      BY <2>1, <3>2 DEF FlagInv
    <3> QED BY <3>1, <3>3
  <2> QED BY <2>2, <2>3, <2>4
<1> QED BY <1>2, <1>3, <1>4, <1>5, <1>6, <1>7, <1>8 DEF Next, LidarRun, Acquire

\* A result replaces the last one only by a newer frame.
LEMMA FramesStep ==
    ASSUME TypeOK, OrderInv, [Next]_vars
    PROVE  got' # got => got'.frame.end > got.frame.end
<1>1. CASE ReadFlag
  BY <1>1 DEF ReadFlag, OrderInv
<1>2. CASE UNCHANGED vars \/ InStep \/ AfterSetBack \/ DevPacket \/ DataTimeout
  BY <1>2 DEF vars, InStep, AfterSetBack, DataPacket, DevPacket, DataTimeout, receiving, acquirer
<1>3. CASE PopDev \/ PopData \/ Overflow \/ ZeroBlock \/ PointBlock \/ SyncBlock \/ SendFlag \/ SendFrame
  BY <1>3 DEF PopDev, PopData, Overflow, ZeroBlock, PointBlock, SyncBlock, SendFlag, SendFrame, acquirer
<1>4. CASE Poll \/ GetFrame
  BY <1>4 DEF Poll, GetFrame
<1> QED BY <1>1, <1>2, <1>3, <1>4 DEF Next, LidarRun, Acquire

-----------------------------------------------------------------------------
(* Markers and sweeps *)

\* A set of two, and of three, numbers.
LEMMA SmallSets ==
    /\ \A x : IsFiniteSet({x}) /\ Cardinality({x}) = 1
    /\ \A x, y : x # y => IsFiniteSet({x, y}) /\ Cardinality({x, y}) = 2
    /\ \A x, y, z : x # y /\ x # z /\ y # z => IsFiniteSet({x, y, z}) /\ Cardinality({x, y, z}) = 3
<1>1. \A x : IsFiniteSet({x}) /\ Cardinality({x}) = 1
  BY FS_Singleton
<1>2. ASSUME NEW x, NEW y, x # y PROVE IsFiniteSet({x, y}) /\ Cardinality({x, y}) = 2
  <2>1. {x, y} = {x} \cup {y} /\ y \notin {x}
    BY <1>2
  <2>2. IsFiniteSet({x} \cup {y}) /\ Cardinality({x} \cup {y}) = Cardinality({x}) + 1
    BY <1>1, <2>1, FS_AddElement
  <2> QED BY <1>1, <2>1, <2>2
<1>3. ASSUME NEW x, NEW y, NEW z, x # y, x # z, y # z
      PROVE  IsFiniteSet({x, y, z}) /\ Cardinality({x, y, z}) = 3
  <2>1. {x, y, z} = {x, y} \cup {z} /\ z \notin {x, y}
    BY <1>3
  <2>2. IsFiniteSet({x, y} \cup {z}) /\ Cardinality({x, y} \cup {z}) = Cardinality({x, y}) + 1
    BY <1>2, <1>3, <2>1, FS_AddElement
  <2> QED BY <1>2, <1>3, <2>1, <2>2
<1>4. \A x, y : x # y => IsFiniteSet({x, y}) /\ Cardinality({x, y}) = 2
  BY <1>2
<1>5. \A x, y, z : x # y /\ x # z /\ y # z => IsFiniteSet({x, y, z}) /\ Cardinality({x, y, z}) = 3
  BY <1>3
<1> QED BY <1>1, <1>4, <1>5

\* The first marker before e is the last one below it.
LEMMA OpeningFirst ==
    ASSUME NEW S \in SUBSET (Nat \ {0}), IsFiniteSet(S), NEW e \in Nat, NEW o \in Nat, Opens(S, o, e)
    PROVE  OpeningOf(S, e, 1) = o
<1> DEFINE before == {s \in S : s < e}
<1> DEFINE From(s) == {u \in before : u >= s}
<1>1. IsFiniteSet(before) /\ \A s : IsFiniteSet(From(s))
  BY FS_Subset
<1>2. CASE before = {}
  <2>1. o = 0 /\ Cardinality(before) = 0
    BY <1>2, FS_EmptySet DEF Opens
  <2> QED BY <2>1 DEF OpeningOf, FromLast
<1>3. CASE before # {}
  <2>0. PICK x \in S : x < e
    BY <1>3
  <2>1. o \in before /\ \A s \in before : s <= o /\ s \in Nat
    <3>1. x \in Nat /\ x > 0 /\ x <= o
      BY <2>0 DEF Opens
    <3>2. o # 0
      BY <3>1
    <3> QED BY <3>2 DEF Opens
  <2>2. From(o) = {o}
    <3>1. \A s \in before : s >= o => s = o
      BY <2>1
    <3> QED BY <2>1, <3>1
  <2>3. Cardinality(From(o)) = 1
    BY <2>2, SmallSets
  <2>4. Cardinality(before) >= 1
    <3>1. {o} \subseteq before
      BY <2>1
    <3>2. Cardinality({o}) <= Cardinality(before)
      BY <1>1, <3>1, FS_Subset
    <3>3. Cardinality(before) \in Nat
      BY <1>1, FS_CardinalityType
    <3> QED BY <3>2, <3>3, SmallSets
  <2>5. ASSUME NEW s \in before, Cardinality(From(s)) = 1 PROVE s = o
    <3> SUFFICES ASSUME s # o PROVE FALSE
      OBVIOUS
    <3>1. {s, o} \subseteq From(s)
      BY <2>1
    <3>2. Cardinality({s, o}) <= Cardinality(From(s))
      BY <1>1, <3>1, FS_Subset
    <3>3. Cardinality({s, o}) = 2
      BY SmallSets
    <3> QED BY <2>5, <3>2, <3>3
  <2>6. OpeningOf(S, e, 1) = CHOOSE s \in before : Cardinality(From(s)) = 1
    <3>1. Cardinality(before) \in Nat
      BY <1>1, FS_CardinalityType
    <3>2. ~(Cardinality(before) < 1)
      BY <2>4, <3>1
    <3> QED BY <3>2 DEF OpeningOf, FromLast
  <2> HIDE DEF before, From
  <2> QED BY <2>1, <2>3, <2>5, <2>6
<1> QED BY <1>2, <1>3

\* The second one is the last one below the first.
LEMMA OpeningSecond ==
    ASSUME NEW S \in SUBSET (Nat \ {0}), IsFiniteSet(S), NEW e \in Nat,
           NEW m \in Nat, Opens(S, m, e), NEW o \in Nat, Opens(S, o, m)
    PROVE  OpeningOf(S, e, 2) = o
<1> DEFINE before == {s \in S : s < e}
<1> DEFINE From(s) == {u \in before : u >= s}
<1>1. IsFiniteSet(before) /\ \A s : IsFiniteSet(From(s))
  BY FS_Subset
<1>2. CASE o = 0
  <2>1. before \subseteq {m}
    <3> SUFFICES ASSUME NEW x \in S, x < e PROVE x = m
      OBVIOUS
    <3>1. x \in Nat /\ x > 0 /\ x <= m
      BY DEF Opens
    <3>2. ~(x < m)
      BY <1>2, <3>1 DEF Opens
    <3> QED BY <3>1, <3>2
  <2>2. Cardinality(before) <= 1
    <3>1. IsFiniteSet({m}) /\ Cardinality({m}) = 1
      BY SmallSets
    <3>2. Cardinality(before) <= Cardinality({m})
      BY <2>1, <3>1, FS_Subset
    <3> QED BY <3>1, <3>2
  <2>3. Cardinality(before) \in Nat
    BY <1>1, FS_CardinalityType
  <2>4. Cardinality(before) < 2
    BY <2>2, <2>3
  <2> QED BY <1>2, <2>4 DEF OpeningOf, FromLast
<1>3. CASE o # 0
  <2>1. /\ o \in before /\ m \in before /\ o < m /\ o # m
        /\ \A s \in before : s \in Nat /\ (s <= o \/ s = m) /\ s <= m
    <3>1. o \in S /\ o < m
      BY <1>3 DEF Opens
    <3>2. m # 0
      BY <3>1
    <3>3. m \in S /\ m < e
      BY <3>2 DEF Opens
    <3>4. ASSUME NEW s \in before PROVE s \in Nat /\ (s <= o \/ s = m) /\ s <= m
      <4>1. s \in Nat /\ s <= m
        BY DEF Opens
      <4>2. s < m => s <= o
        BY DEF Opens
      <4> QED BY <4>1, <4>2
    <3> QED BY <3>1, <3>3, <3>4
  <2>2. From(o) = {o, m}
    <3>1. \A s \in before : s >= o => s = o \/ s = m
      BY <2>1
    <3>2. o >= o /\ m >= o
      BY <2>1
    <3> QED BY <2>1, <3>1, <3>2
  <2>3. Cardinality(From(o)) = 2
    <3>1. Cardinality({o, m}) = 2
      BY <2>1, SmallSets, Zenon
    <3> QED BY <2>2, <3>1
  <2>4. ~(Cardinality(before) < 2)
    <3>1. {o, m} \subseteq before
      BY <2>1
    <3>2. Cardinality({o, m}) <= Cardinality(before)
      BY <1>1, <3>1, FS_Subset
    <3>3. Cardinality(before) \in Nat
      BY <1>1, FS_CardinalityType
    <3>4. Cardinality({o, m}) = 2
      BY <2>1, SmallSets, Zenon
    <3> QED BY <3>2, <3>3, <3>4
  <2>5. ASSUME NEW s \in before, Cardinality(From(s)) = 2 PROVE s = o
    <3>1. CASE s = m
      <4>1. From(s) = {m}
        <5>1. \A u \in before : u >= m => u = m
          BY <2>1
        <5>2. m >= m
          OBVIOUS
        <5> QED BY <2>1, <3>1, <5>1, <5>2
      <4> QED BY <2>5, <4>1, SmallSets
    <3>2. CASE s # m /\ s # o
      <4>1. {s, o, m} \subseteq From(s)
        <5>1. s >= s /\ o >= s /\ m >= s
          BY <2>1, <3>2
        <5> QED BY <2>1, <5>1
      <4>2. Cardinality({s, o, m}) <= Cardinality(From(s))
        BY <1>1, <4>1, FS_Subset
      <4>3. Cardinality({s, o, m}) = 3
        BY <2>1, <3>2, SmallSets, Zenon
      <4> QED BY <2>5, <4>2, <4>3
    <3> QED BY <3>1, <3>2
  <2>6. OpeningOf(S, e, 2) = CHOOSE s \in before : Cardinality(From(s)) = 2
    BY <2>4 DEF OpeningOf, FromLast
  <2> HIDE DEF before, From
  <2> QED BY <2>1, <2>3, <2>5, <2>6
<1> QED BY <1>2, <1>3

\* A sweep that was closed does not change with what is decoded later.
LEMMA SweptStable ==
    ASSUME NEW A, NEW S, NEW B, NEW T, NEW e, NEW k,
           {a \in A : a < e} = {a \in B : a < e}, {s \in S : s < e} = {s \in T : s < e}
    PROVE  OpeningOf(S, e, k) = OpeningOf(T, e, k) /\ Swept(A, S, e, k) = Swept(B, T, e, k)
<1>1. OpeningOf(S, e, k) = OpeningOf(T, e, k)
  BY DEF OpeningOf
<1>2. \A x : x \in A /\ x < e <=> x \in B /\ x < e
  OBVIOUS
<1> QED BY <1>1, <1>2 DEF Swept

\* So a frame that is made of sweeps stays one.
LEMMA SweepStable ==
    ASSUME NEW A, NEW S, NEW B, NEW T, NEW e, NEW pts, NEW M,
           {a \in A : a < e} = {a \in B : a < e}, {s \in S : s < e} = {s \in T : s < e},
           SweepOf(pts, e, M, A, S)
    PROVE  SweepOf(pts, e, M, B, T)
<1>1. \A k : Swept(A, S, e, k) = Swept(B, T, e, k)
  BY SweptStable
<1> QED BY <1>1 DEF SweepOf

\* The points of two clouds put together.
LEMMA CloudConcat ==
    ASSUME NEW s \in Points, NEW t \in Points
    PROVE  /\ Ids(s \o t) = Ids(s) \cup Ids(t)
           /\ Sorted(s) /\ Sorted(t) /\ (\A a \in Ids(s), b \in Ids(t) : a <= b) => Sorted(s \o t)
<1> DEFINE P == [id : Nat \ {0}, ts : Nat]
<1> HIDE DEF P
<1>0. s \in Seq(P) /\ t \in Seq(P)
  BY DEF Points, P
<1>1. /\ Len(s) \in Nat /\ Len(t) \in Nat /\ DOMAIN s = 1 .. Len(s) /\ DOMAIN t = 1 .. Len(t)
      /\ DOMAIN (s \o t) = 1 .. Len(s) + Len(t)
      /\ \A i \in 1 .. Len(s) + Len(t) : (s \o t)[i] = IF i <= Len(s) THEN s[i] ELSE t[i - Len(s)]
  BY <1>0
<1> DEFINE u == s \o t
<1> HIDE DEF u
<1>2. /\ DOMAIN u = 1 .. Len(s) + Len(t)
      /\ \A i \in DOMAIN u : \/ i \in DOMAIN s /\ u[i] = s[i]
                             \/ i - Len(s) \in DOMAIN t /\ u[i] = t[i - Len(s)] /\ i > Len(s)
      /\ \A i \in DOMAIN s : i \in DOMAIN u /\ u[i] = s[i]
      /\ \A i \in DOMAIN t : i + Len(s) \in DOMAIN u /\ u[i + Len(s)] = t[i]
  BY <1>1 DEF u
<1>3. Ids(u) = Ids(s) \cup Ids(t)
  BY <1>2 DEF Ids
<1>4. ASSUME Sorted(s), Sorted(t), \A a \in Ids(s), b \in Ids(t) : a <= b PROVE Sorted(u)
  <2> SUFFICES ASSUME NEW i \in DOMAIN u, NEW j \in DOMAIN u, i < j PROVE u[i].id <= u[j].id
    BY DEF Sorted
  <2>1. CASE i \in DOMAIN s /\ u[i] = s[i] /\ j \in DOMAIN s /\ u[j] = s[j]
    BY <1>4, <2>1 DEF Sorted
  <2>2. CASE i \in DOMAIN s /\ u[i] = s[i] /\ j - Len(s) \in DOMAIN t /\ u[j] = t[j - Len(s)]
    BY <1>4, <2>2 DEF Ids
  <2>3. CASE /\ i - Len(s) \in DOMAIN t /\ u[i] = t[i - Len(s)] /\ i > Len(s)
             /\ j - Len(s) \in DOMAIN t /\ u[j] = t[j - Len(s)]
    <3>1. i - Len(s) < j - Len(s)
      BY <1>1, <1>2
    <3> QED BY <1>4, <2>3, <3>1 DEF Sorted
  <2>4. CASE i > Len(s) /\ j \in DOMAIN s
    BY <1>1, <1>2, <2>4
  <2> QED BY <1>2, <2>1, <2>2, <2>3, <2>4
<1> QED BY <1>3, <1>4 DEF u

\* One block gives one or two points with its number.
LEMMA EchoPoints ==
    ASSUME NEW p \in [id : Nat \ {0}, ts : Nat]
    PROVE  /\ Echoes(p) \in Points /\ Ids(Echoes(p)) = {p.id} /\ Sorted(Echoes(p))
           /\ Len(Echoes(p)) \in {1, 2} /\ Echoes(p)[Len(Echoes(p))] = p
<1>0. p.id \in Nat
  OBVIOUS
<1>1. CASE echo = 2
  <2>1. Echoes(p) = <<p, p>>
    BY <1>1 DEF Echoes
  <2>2. <<p, p>> \in Points /\ DOMAIN <<p, p>> = {1, 2} /\ <<p, p>>[1] = p /\ <<p, p>>[2] = p /\ Len(<<p, p>>) = 2
    BY DEF Points
  <2> QED BY <1>0, <2>1, <2>2 DEF Ids, Sorted
<1>2. CASE echo # 2
  <2>1. Echoes(p) = <<p>>
    BY <1>2 DEF Echoes
  <2>2. <<p>> \in Points /\ DOMAIN <<p>> = {1} /\ <<p>>[1] = p /\ Len(<<p>>) = 1
    BY DEF Points
  <2> QED BY <1>0, <2>1, <2>2 DEF Ids, Sorted
<1> QED BY <1>1, <1>2

\* Markers and sweeps in their initial state.
LEMMA SweepInit == Init => SyncInv /\ SweepInv
<1> SUFFICES ASSUME Init PROVE SyncInv /\ SweepInv
  OBVIOUS
<1>1. IsFiniteSet({})
  BY FS_EmptySet
<1>2. DOMAIN <<>> = {}
  OBVIOUS
<1>3. SyncInv
  BY <1>1 DEF Init, SyncInv, Opens
<1>4. Ids(<<>>) = {} /\ Sorted(<<>>)
  BY <1>2 DEF Ids, Sorted
<1> QED BY <1>3, <1>4 DEF Init, SweepInv

\* Nothing decoded is changed: the loop may go on between two markers, and
\* frames may move on.
LEMMA SweepQuiet ==
    ASSUME SyncInv, SweepInv, UNCHANGED <<model, flagged, accepted, syncs, cloudGet, cloudLast>>,
           UNCHANGED <<pc, blk>> \/ (pc \in {"idle", "parse"} /\ pc' \in {"idle", "parse"}),
           {cloudPer', temp', got'.frame} \subseteq {cloudPer, temp, got.frame, NoFrame}
    PROVE  SyncInv' /\ SweepInv'
<1>1. SyncInv'
  BY DEF SyncInv
<1>2. Closed' = Closed
  BY DEF Closed
<1>3. (pc' \in {"idle", "parse"}) => pc \in {"idle", "parse"}
  OBVIOUS
<1>4. (pc' \in {"flag", "publish"}) => pc \in {"flag", "publish"} /\ blk' = blk
  OBVIOUS
<1>5. \A f \in {cloudPer', temp', got'.frame} :
          f # NoFrame => SweepOf(f.pts, f.end, model, accepted, syncs)
  BY DEF SweepInv
<1>6. SweepInv'
  BY <1>2, <1>3, <1>4, <1>5 DEF SweepInv
<1> QED BY <1>1, <1>6

\* Numbers of points and markers, relative to the block being decoded.
LEMMA SweepNumbers ==
    ASSUME TypeOK, BlockInv, OrderInv
    PROVE  /\ blk \in Nat /\ flagged.end \in Nat
           /\ \A a \in accepted : a \in Nat /\ a > 0
           /\ \A s \in syncs : s \in Nat /\ s > 0
           /\ \A f \in {cloudPer, temp, got.frame} : f.end \in Nat /\ f.end <= flagged.end
           /\ pc = "parse" => /\ flagged.end < blk
                              /\ \A a \in accepted \cup syncs : a < blk
           /\ pc \in {"flag", "publish"} => \A a \in accepted \cup syncs : a <= blk
<1>1. blk \in Nat /\ flagged.end \in Nat /\ accepted \cup syncs \subseteq Nat \ {0}
  BY EndTypes DEF TypeOK
<1>2. \A f \in {cloudPer, temp, got.frame} : f.end \in Nat /\ f.end <= flagged.end
  BY EndTypes DEF OrderInv
<1>3. pc = "parse" => flagged.end < blk /\ \A a \in accepted \cup syncs : a < blk
  BY <1>1 DEF BlockInv, Past, Below
<1>4. pc \in {"flag", "publish"} => \A a \in accepted \cup syncs : a <= blk
  BY <1>1 DEF BlockInv, Past, Below
<1> QED BY <1>1, <1>2, <1>3, <1>4

\* A point is accepted.
LEMMA SweepPoint ==
    ASSUME TypeOK, BlockInv, OrderInv, SyncInv, SweepInv, PointBlock
    PROVE  SyncInv' /\ SweepInv'
<1> DEFINE p == [id |-> blk, ts |-> PointTime]
<1>0. /\ pc = "parse" /\ accepted' = accepted \cup {blk} /\ cloudGet' = cloudGet \o Echoes(p)
      /\ pc' \in {"idle", "parse"}
      /\ UNCHANGED <<model, flagged, syncs, cloudLast, cloudPer, temp, got>>
  BY DEF PointBlock, NextBlock, device, acquirer
<1>1. p \in [id : Nat \ {0}, ts : Nat] /\ p.id = blk
  BY PointTimeValue DEF TypeOK
<1> HIDE DEF p
<1>2. /\ blk \in Nat /\ flagged.end \in Nat /\ flagged.end < blk
      /\ \A a \in accepted : a \in Nat /\ a < blk
      /\ \A f \in {cloudPer, temp, got.frame} : f.end \in Nat /\ f.end < blk
  BY <1>0, SweepNumbers
<1>3. \A e \in Nat : e <= blk => {a \in accepted : a < e} = {a \in accepted' : a < e}
  BY <1>0, <1>2
<1>4. SyncInv'
  BY <1>0, <1>2 DEF SyncInv
<1>5. \A f \in {cloudPer, temp, got.frame} :
          f # NoFrame => SweepOf(f.pts, f.end, model, accepted', syncs)
  <2> SUFFICES ASSUME NEW f \in {cloudPer, temp, got.frame}, f # NoFrame
               PROVE  SweepOf(f.pts, f.end, model, accepted', syncs)
    OBVIOUS
  <2>1. SweepOf(f.pts, f.end, model, accepted, syncs)
    BY DEF SweepInv
  <2>2. {a \in accepted : a < f.end} = {a \in accepted' : a < f.end}
    BY <1>2, <1>3
  <2> QED BY <2>1, <2>2, SweepStable
<1>6. Sorted(cloudGet) /\ Ids(cloudGet) = {a \in accepted : a > flagged.end}
  BY <1>0 DEF SweepInv
<1>7. Sorted(cloudGet') /\ Ids(cloudGet') = {a \in accepted' : a > flagged.end}
  <2>1. cloudGet \in Points /\ Echoes(p) \in Points /\ Ids(Echoes(p)) = {blk} /\ Sorted(Echoes(p))
    BY <1>1, EchoPoints DEF TypeOK
  <2>2. \A a \in Ids(cloudGet), b \in Ids(Echoes(p)) : a <= b
    BY <1>2, <1>6, <2>1
  <2>3. Ids(cloudGet') = Ids(cloudGet) \cup {blk} /\ Sorted(cloudGet')
    BY <1>0, <1>6, <2>1, <2>2, CloudConcat
  <2> QED BY <1>0, <1>2, <1>6, <2>3
<1>8. cloudLast # <<>> => Sorted(cloudLast) /\ Ids(cloudLast) = Swept(accepted', syncs, flagged.end, 1)
  <2>1. {a \in accepted : a < flagged.end} = {a \in accepted' : a < flagged.end}
    BY <1>2, <1>3
  <2>2. Swept(accepted, syncs, flagged.end, 1) = Swept(accepted', syncs, flagged.end, 1)
    BY <2>1, SweptStable
  <2> QED BY <1>0, <2>2 DEF SweepInv, Closed
<1>9. SweepInv'
  <2>1. Closed' = flagged.end
    BY <1>0 DEF Closed
  <2> QED BY <1>0, <1>5, <1>7, <1>8, <2>1 DEF SweepInv
<1> QED BY <1>4, <1>9

\* A marker closes the sweep.
LEMMA SweepSync ==
    ASSUME TypeOK, StackInv, BlockInv, OrderInv, SyncInv, SweepInv, SyncBlock
    PROVE  SyncInv' /\ SweepInv'
<1> DEFINE m == flagged.end
<1>0. /\ pc = "parse" /\ pc' = "flag" /\ syncs' = syncs \cup {blk}
      /\ UNCHANGED <<model, blk, flagged, accepted, cloudPer, temp, got>>
  BY DEF SyncBlock, device, acquirer
<1>1. /\ blk \in Nat \ {0} /\ m \in Nat /\ m < blk
      /\ \A a \in accepted : a \in Nat /\ a < blk
      /\ \A s \in syncs : s \in Nat /\ s < blk
      /\ \A f \in {cloudPer, temp, got.frame} : f.end \in Nat /\ f.end < blk
  BY <1>0, SweepNumbers DEF TypeOK
<1>2. \A e \in Nat : e <= blk => {s \in syncs : s < e} = {s \in syncs' : s < e}
  BY <1>0, <1>1
<1>3. syncs' \in SUBSET (Nat \ {0}) /\ IsFiniteSet(syncs') /\ syncs \in SUBSET (Nat \ {0}) /\ IsFiniteSet(syncs)
  BY <1>0, FS_AddElement DEF TypeOK, SyncInv
<1>4. PICK o \in syncs \cup {0} : Opens(syncs, o, m)
  BY DEF SyncInv
<1>5. o \in Nat
  BY <1>1
<1>6. Opens(syncs', o, m) /\ Opens(syncs', m, blk)
  <2>1. Opens(syncs', o, m)
    BY <1>0, <1>1, <1>4, <1>5 DEF Opens
  <2>2. Opens(syncs', m, blk)
    BY <1>0, <1>1 DEF SyncInv, Opens
  <2> QED BY <2>1, <2>2
<1>7. m \notin accepted
  BY DEF SyncInv
<1>8. SyncInv'
  BY <1>0, <1>3, <1>4, <1>6 DEF SyncInv
<1>9. /\ OpeningOf(syncs', blk, 1) = m /\ OpeningOf(syncs', blk, 2) = o /\ OpeningOf(syncs, m, 1) = o
  BY <1>1, <1>3, <1>4, <1>5, <1>6, OpeningFirst, OpeningSecond
<1>10. \A f \in {cloudPer, temp, got.frame} :
          f # NoFrame => SweepOf(f.pts, f.end, model, accepted, syncs')
  <2> SUFFICES ASSUME NEW f \in {cloudPer, temp, got.frame}, f # NoFrame
               PROVE  SweepOf(f.pts, f.end, model, accepted, syncs')
    OBVIOUS
  <2>1. SweepOf(f.pts, f.end, model, accepted, syncs)
    BY DEF SweepInv
  <2>2. {s \in syncs : s < f.end} = {s \in syncs' : s < f.end}
    BY <1>1, <1>2
  <2> QED BY <2>1, <2>2, SweepStable
<1>11. /\ cloudGet \in Points /\ cloudLast \in Points
       /\ Sorted(cloudGet) /\ Ids(cloudGet) = {a \in accepted : a > m}
  BY <1>0 DEF SweepInv, TypeOK
<1> HIDE DEF m
<1>12. Ids(cloudGet) = Swept(accepted, syncs', blk, 1)
  BY <1>1, <1>9, <1>11 DEF Swept
<1>13. SweepOf(cloudGet', blk, model, accepted, syncs')
  <2>1. CASE cloudGet' = cloudGet
    <3>1. 1 \in 1 .. (IF model = 64 THEN 2 ELSE 1)
      OBVIOUS
    <3> QED BY <1>11, <1>12, <2>1, <3>1 DEF SweepOf
  <2>2. CASE m_StackFrame = 2 /\ cloudLast # <<>>
    <3>1. cloudGet' = cloudLast \o cloudGet /\ model = 64
      BY <2>2 DEF SyncBlock, StackInv
    <3>2. Sorted(cloudLast) /\ Ids(cloudLast) = Swept(accepted, syncs, m, 1)
      BY <1>0, <2>2 DEF SweepInv, Closed, m
    <3>3. Ids(cloudLast) = {a \in accepted : o < a /\ a < m}
      BY <1>9, <3>2 DEF Swept
    <3>4. \A a \in Ids(cloudLast), b \in Ids(cloudGet) : a <= b
      BY <1>1, <1>11, <3>3
    <3>5. Sorted(cloudGet') /\ Ids(cloudGet') = Ids(cloudLast) \cup Ids(cloudGet)
      BY <1>11, <3>1, <3>2, <3>4, CloudConcat
    <3>6. o <= m
      BY <1>1, <1>4, <1>5 DEF Opens
    <3>7. \A a \in accepted : (o < a /\ a < m) \/ a > m <=> o < a /\ a < blk
      BY <1>1, <1>5, <1>7, <3>6 DEF m
    <3>8. Ids(cloudGet') = Swept(accepted, syncs', blk, 2)
      BY <1>9, <1>11, <3>3, <3>5, <3>7 DEF Swept
    <3>9. 2 \in 1 .. (IF model = 64 THEN 2 ELSE 1)
      BY <3>1
    <3> QED BY <3>5, <3>8, <3>9 DEF SweepOf
  <2>3. CASE m_StackFrame = 2 /\ cloudLast = <<>>
    <3>1. cloudGet' = <<>> \o cloudGet
      BY <2>3 DEF SyncBlock
    <3>2. cloudGet' = cloudGet
      BY <1>11, <3>1 DEF Points
    <3> QED BY <2>1, <3>2
  <2>4. CASE m_StackFrame = 1
    BY <2>1, <2>4 DEF SyncBlock
  <2> QED BY <2>2, <2>3, <2>4 DEF TypeOK
<1>14. cloudLast' # <<>> => Sorted(cloudLast') /\ Ids(cloudLast') = Swept(accepted, syncs', blk, 1)
  <2>1. CASE m_StackFrame = 1
    BY <2>1 DEF SyncBlock, StackInv
  <2>2. CASE m_StackFrame = 2
    BY <1>11, <1>12, <2>2 DEF SyncBlock
  <2> QED BY <2>1, <2>2 DEF TypeOK
<1>15. Closed' = blk
  BY <1>0 DEF Closed
<1> QED BY <1>0, <1>8, <1>10, <1>13, <1>14, <1>15 DEF SweepInv

\* No step breaks a sweep.
LEMMA SweepNext ==
    ASSUME TypeOK, StackInv, BlockInv, OrderInv, SyncInv, SweepInv, [Next]_vars
    PROVE  SyncInv' /\ SweepInv'
<1> DEFINE decoded == <<model, flagged, accepted, syncs, cloudGet, cloudLast>>
<1>1. CASE UNCHANGED vars \/ InStep \/ AfterSetBack \/ DevPacket \/ DataTimeout
  <2>1. UNCHANGED decoded /\ UNCHANGED <<pc, blk, cloudPer, temp, got>>
    BY <1>1 DEF vars, InStep, AfterSetBack, DataPacket, DevPacket, DataTimeout, receiving, device,
                decoder, acquirer, ghosts
  <2> QED BY <2>1, SweepQuiet
<1>2. CASE PopDev \/ PopData \/ Overflow \/ ZeroBlock
  <2>1. /\ UNCHANGED decoded /\ UNCHANGED <<cloudPer, temp, got>>
        /\ pc \in {"idle", "parse"} /\ pc' \in {"idle", "parse"}
    BY <1>2 DEF PopDev, PopData, Overflow, ZeroBlock, NextBlock, device, acquirer, ghosts
  <2> QED BY <2>1, SweepQuiet
<1>3. CASE PointBlock
  BY <1>3, SweepPoint
<1>4. CASE SyncBlock
  BY <1>4, SweepSync
<1>5. CASE SendFlag
  <2>1. /\ pc = "flag" /\ pc' = "publish" /\ flagged'.end = blk
        /\ UNCHANGED <<model, blk, accepted, syncs, cloudGet, cloudLast, cloudPer, temp, got>>
    BY <1>5 DEF SendFlag, device, acquirer
  <2>2. Closed' = Closed
    BY <2>1 DEF Closed
  <2>3. SweepInv'
    BY <2>1, <2>2 DEF SweepInv
  <2>4. flagged.end < blk /\ blk \in syncs /\ blk \notin accepted
    BY <2>1 DEF BlockInv
  <2>5. Opens(syncs, flagged.end, blk)
    <3>1. flagged.end \in syncs \cup {0} /\ \A s \in syncs : s <= flagged.end \/ s = blk
      BY <2>1 DEF SyncInv
    <3>2. ~(blk < blk)
      BY SweepNumbers
    <3> QED BY <2>4, <3>1, <3>2 DEF Opens
  <2>6. \A s \in syncs : s <= blk
    BY <2>1, SweepNumbers
  <2>7. SyncInv'
    BY <2>1, <2>4, <2>5, <2>6 DEF SyncInv
  <2> QED BY <2>3, <2>7
<1>6. CASE SendFrame
  <2>1. /\ pc = "publish" /\ pc' \in {"idle", "parse"} /\ cloudGet' = <<>>
        /\ UNCHANGED <<model, flagged, accepted, syncs, cloudLast, temp, got>>
        /\ cloudPer'.pts = cloudGet /\ cloudPer'.end = blk
    BY <1>6 DEF SendFrame, NextBlock, device, acquirer, ghosts
  <2>2. flagged.end = blk
    BY <2>1 DEF BlockInv
  <2>3. Closed' = Closed
    BY <2>1, <2>2 DEF Closed
  <2>4. SyncInv'
    BY <2>1 DEF SyncInv
  <2>5. DOMAIN <<>> = {}
    OBVIOUS
  <2>6. \A a \in accepted : ~(a > flagged.end)
    BY <2>1, <2>2, SweepNumbers
  <2>7. Sorted(cloudGet') /\ Ids(cloudGet') = {a \in accepted : a > flagged.end}
    BY <2>1, <2>5, <2>6 DEF Sorted, Ids
  <2>8. SweepOf(cloudPer'.pts, cloudPer'.end, model, accepted, syncs)
    BY <2>1 DEF SweepInv
  <2>9. SweepInv'
    BY <2>1, <2>3, <2>7, <2>8 DEF SweepInv
  <2> QED BY <2>4, <2>9
<1>7. CASE Poll \/ GetFrame \/ ReadFlag
  <2>1. /\ UNCHANGED decoded /\ UNCHANGED <<pc, blk>>
        /\ {cloudPer', temp', got'.frame} \subseteq {cloudPer, temp, got.frame, NoFrame}
    BY <1>7 DEF Poll, GetFrame, ReadFlag, sdk, device, decoder, ghosts
  <2> QED BY <2>1, SweepQuiet
<1> QED BY <1>1, <1>2, <1>3, <1>4, <1>5, <1>6, <1>7 DEF Next, LidarRun, Acquire

-----------------------------------------------------------------------------
(* Times *)

\* Multiples of a number.
LEMMA Products ==
    ASSUME NEW i \in Nat, NEW k \in 0 .. Blocks
    PROVE  /\ i * k \in Nat /\ i * k <= i * Blocks
           /\ k # 0 => i * (k - 1) <= i * k /\ i * (k - 1) \in Nat
           /\ i * 0 = 0
<1>0. Blocks \in Nat
  BY LidarAssumption
<1>1. i * k \in Nat /\ i * 0 = 0
  BY <1>0
<1>2. i * Blocks = i * k + i * (Blocks - k) /\ i * (Blocks - k) \in Nat
  BY <1>0
<1>3. k # 0 => i * k = i * (k - 1) + i /\ i * (k - 1) \in Nat
  BY <1>0
<1> QED BY <1>0, <1>1, <1>2, <1>3

\* The points of a packet lie between the times of the packet before and its
\* own, in order, when time went forward.
LEMMA TimeAtValue ==
    ASSUME NEW A \in Nat, NEW L \in Nat, L <= A, NEW b \in Nat \ {0}
    PROVE  /\ TimeAt(A, L, b) \in Nat /\ L <= TimeAt(A, L, b) /\ TimeAt(A, L, b) <= A
           /\ At(b) = Blocks => TimeAt(A, L, b) = A
           /\ At(b) # Blocks => TimeAt(A, L, b) <= TimeAt(A, L, b + 1)
<1> DEFINE x == (A - L) % TimeMod
<1> DEFINE i == x \div Blocks
<1>0. Blocks \in Nat /\ Blocks > 0 /\ TimeMod \in Nat /\ TimeMod > 0
  BY LidarAssumption
<1>1. A - L \in Nat
  OBVIOUS
<1>2. x \in Nat /\ x <= A - L
  BY <1>0, <1>1
<1> HIDE DEF x
<1>3. i \in Nat /\ i * Blocks <= x
  BY <1>0, <1>2
<1> HIDE DEF i
<1>4. /\ At(b) \in 1 .. Blocks /\ Blocks - At(b) \in 0 .. Blocks
      /\ At(b) # Blocks => Blocks - At(b + 1) = (Blocks - At(b)) - 1 /\ Blocks - At(b) # 0
  BY <1>0, PlaceValue
<1> DEFINE k == Blocks - At(b)
<1>5. k \in 0 .. Blocks /\ (At(b) # Blocks => k # 0) /\ (At(b) = Blocks => k = 0)
  BY <1>0, <1>4
<1>6. TimeAt(A, L, b) = IF A - i * k < 0 THEN 0 ELSE A - i * k
  BY DEF TimeAt, i, x
<1>7. At(b) # Blocks => TimeAt(A, L, b + 1) = IF A - i * (k - 1) < 0 THEN 0 ELSE A - i * (k - 1)
  BY <1>4 DEF TimeAt, i, x
<1> HIDE DEF k
<1>8. /\ i * k \in Nat /\ i * k <= A - L /\ (k # 0 => i * (k - 1) <= i * k /\ i * (k - 1) \in Nat)
      /\ k = 0 => i * k = 0
  BY <1>1, <1>2, <1>3, <1>5, Products, <1>0
<1>9. TimeAt(A, L, b) = A - i * k
  BY <1>6, <1>8
<1>10. At(b) # Blocks => TimeAt(A, L, b + 1) = A - i * (k - 1)
  BY <1>5, <1>7, <1>8
<1> QED BY <1>5, <1>8, <1>9, <1>10

\* Times in their initial state.
LEMMA TimeInit == Init => ClockInv /\ TimeInv
<1> SUFFICES ASSUME Init PROVE ClockInv /\ TimeInv
  OBVIOUS
<1>1. DOMAIN allDataValue = {} /\ BaseTime \in Nat
  BY LidarAssumption DEF Init
<1>2. ClockInv
  BY <1>1 DEF Init, ClockInv
<1>3. temp.pts = <<>> /\ cloudPer.pts = <<>>
  BY DEF Init, NoFrame
<1> QED BY <1>2, <1>3 DEF Init, TimeInv, Until, UpTo, Now

\* A packet is appended with the device's time, or lost.
LEMMA ClockArrive ==
    ASSUME TypeOK, ClockInv, NEW p \in Packets,
           allDataValue' \in {allDataValue, Append(allDataValue, p)},
           UNCHANGED <<pc, allTimestamp, lastAllTimestamp, setBack>>, clock' \in Nat, clock <= clock',
           p.kind = "data" => p.ts = clock'
    PROVE  ClockInv'
<1> SUFFICES ASSUME ~setBack PROVE ClockInv'
  BY DEF ClockInv
<1>0. /\ allDataValue \in Seq(Packets) /\ clock \in Nat /\ allTimestamp \in Nat /\ lastAllTimestamp \in Nat
  BY DEF TypeOK
<1>1. Len(allDataValue) \in Nat /\ DOMAIN allDataValue = 1 .. Len(allDataValue)
  BY <1>0, QueueSteps
<1>2. \A i \in DOMAIN allDataValue' : \/ i \in DOMAIN allDataValue /\ allDataValue'[i] = allDataValue[i]
                                      \/ i = Len(allDataValue) + 1 /\ allDataValue'[i] = p
  BY <1>0, QueueSteps
<1>3. \A i \in DOMAIN allDataValue : allDataValue[i].ts \in Nat
  BY <1>0, QueueSteps, PacketFields
<1>4. \A i \in DOMAIN allDataValue : allDataValue[i].kind = "data" =>
          allTimestamp <= allDataValue[i].ts /\ allDataValue[i].ts <= clock
  BY DEF ClockInv
<1>5. allTimestamp <= clock' /\ lastAllTimestamp <= allTimestamp
  BY <1>0 DEF ClockInv
<1>6. ASSUME NEW i \in DOMAIN allDataValue', allDataValue'[i].kind = "data"
      PROVE  allTimestamp <= allDataValue'[i].ts /\ allDataValue'[i].ts <= clock'
  <2>1. CASE i \in DOMAIN allDataValue /\ allDataValue'[i] = allDataValue[i]
    BY <1>0, <1>3, <1>4, <1>6, <2>1
  <2>2. CASE allDataValue'[i] = p
    BY <1>5, <1>6, <2>2
  <2> QED BY <1>2, <2>1, <2>2
<1>7. ASSUME NEW i \in DOMAIN allDataValue', NEW j \in DOMAIN allDataValue', i < j,
             allDataValue'[i].kind = "data", allDataValue'[j].kind = "data"
      PROVE  allDataValue'[i].ts <= allDataValue'[j].ts
  <2>1. i \in DOMAIN allDataValue /\ allDataValue'[i] = allDataValue[i]
    BY <1>1, <1>2, <1>7
  <2>2. CASE j \in DOMAIN allDataValue /\ allDataValue'[j] = allDataValue[j]
    BY <1>7, <2>1, <2>2 DEF ClockInv
  <2>3. CASE allDataValue'[j] = p
    BY <1>6, <1>7, <2>1, <2>3
  <2> QED BY <1>2, <2>2, <2>3
<1> QED BY <1>5, <1>6, <1>7 DEF ClockInv

\* A packet is taken from the queue.
LEMMA ClockPop ==
    ASSUME TypeOK, ClockInv, pc = "idle", allDataValue # <<>>, allDataValue' = Tail(allDataValue),
           UNCHANGED <<clock, setBack, lastAllTimestamp>>,
           \/ pc' = "idle" /\ UNCHANGED allTimestamp
           \/ /\ pc' = "parse" /\ Head(allDataValue).kind = "data"
              /\ allTimestamp' = Head(allDataValue).ts
    PROVE  ClockInv' /\ (~setBack => lastAllTimestamp <= allTimestamp')
<1> SUFFICES ASSUME ~setBack PROVE ClockInv' /\ lastAllTimestamp <= allTimestamp'
  BY DEF ClockInv
<1>0. /\ allDataValue \in Seq(Packets) /\ clock \in Nat /\ allTimestamp \in Nat /\ lastAllTimestamp \in Nat
  BY DEF TypeOK
<1>1. /\ Len(allDataValue) \in Nat /\ Len(allDataValue) > 0 /\ Head(allDataValue) = allDataValue[1]
      /\ DOMAIN allDataValue = 1 .. Len(allDataValue)
      /\ DOMAIN allDataValue' = 1 .. Len(allDataValue) - 1
      /\ \A i \in DOMAIN allDataValue' : allDataValue'[i] = allDataValue[i + 1]
  BY <1>0, QueueSteps
<1>2. \A i \in DOMAIN allDataValue : allDataValue[i].ts \in Nat
  BY <1>0, QueueSteps, PacketFields
<1>3. 1 \in DOMAIN allDataValue /\ \A i \in DOMAIN allDataValue' : i + 1 \in DOMAIN allDataValue /\ 1 < i + 1
  BY <1>1
<1>4. \A i \in DOMAIN allDataValue : allDataValue[i].kind = "data" =>
          allTimestamp <= allDataValue[i].ts /\ allDataValue[i].ts <= clock
  BY DEF ClockInv
<1>5. \A i, j \in DOMAIN allDataValue :
          i < j /\ allDataValue[i].kind = "data" /\ allDataValue[j].kind = "data"
             => allDataValue[i].ts <= allDataValue[j].ts
  BY DEF ClockInv
<1>6. /\ lastAllTimestamp = allTimestamp /\ allTimestamp <= clock
      /\ allTimestamp' = allTimestamp \/ (allTimestamp' = allDataValue[1].ts /\ allDataValue[1].kind = "data")
  BY <1>1 DEF ClockInv
<1>7. allTimestamp' \in Nat /\ lastAllTimestamp <= allTimestamp' /\ allTimestamp' <= clock
  BY <1>0, <1>2, <1>3, <1>4, <1>6
<1>8. ASSUME NEW i \in DOMAIN allDataValue', allDataValue'[i].kind = "data"
      PROVE  allTimestamp' <= allDataValue'[i].ts /\ allDataValue'[i].ts <= clock
  <2>1. i + 1 \in DOMAIN allDataValue /\ 1 < i + 1 /\ allDataValue'[i] = allDataValue[i + 1]
    BY <1>1, <1>3
  <2>2. allTimestamp <= allDataValue[i + 1].ts /\ allDataValue[i + 1].ts <= clock
    BY <1>4, <1>8, <2>1
  <2>3. allDataValue[1].kind = "data" => allDataValue[1].ts <= allDataValue[i + 1].ts
    BY <1>3, <1>5, <1>8, <2>1
  <2> QED BY <1>6, <2>1, <2>2, <2>3
<1>9. ASSUME NEW i \in DOMAIN allDataValue', NEW j \in DOMAIN allDataValue', i < j,
             allDataValue'[i].kind = "data", allDataValue'[j].kind = "data"
      PROVE  allDataValue'[i].ts <= allDataValue'[j].ts
  <2>1. i + 1 \in DOMAIN allDataValue /\ j + 1 \in DOMAIN allDataValue /\ i + 1 < j + 1
    BY <1>1, <1>3, <1>9
  <2> QED BY <1>1, <1>5, <1>9, <2>1
<1>10. pc' = "idle" => lastAllTimestamp' = allTimestamp'
  BY <1>6
<1> QED BY <1>7, <1>8, <1>9, <1>10 DEF ClockInv

\* The decoder goes to the next block: its time is not before this one's.
LEMMA NowForward ==
    ASSUME TypeOK, ClockInv, ~setBack, pc # "idle", NextBlock, UNCHANGED allTimestamp
    PROVE  /\ PointTime \in Nat /\ Now' \in Nat /\ PointTime <= Now'
           /\ lastAllTimestamp' <= allTimestamp
           /\ pc' = "idle" => lastAllTimestamp' = allTimestamp
<1>0. /\ allTimestamp \in Nat /\ lastAllTimestamp \in Nat /\ blk \in Nat \ {0}
      /\ lastAllTimestamp <= allTimestamp /\ Place = At(blk)
  BY DEF TypeOK, ClockInv, Place, At
<1>1. PointTime = TimeAt(allTimestamp, lastAllTimestamp, blk)
  BY DEF PointTime, PointInterval, TimeAt, Place, At
<1>2. CASE At(blk) = Blocks
  <2>1. pc' = "idle" /\ lastAllTimestamp' = allTimestamp
    BY <1>0, <1>2 DEF NextBlock
  <2> QED BY <1>0, <1>1, <1>2, <2>1, TimeAtValue DEF Now
<1>3. CASE At(blk) # Blocks
  <2>1. pc' = "parse" /\ lastAllTimestamp' = lastAllTimestamp /\ blk' = blk + 1
    BY <1>0, <1>3 DEF NextBlock
  <2>2. Now' = PointTime'
    BY <2>1 DEF Now
  <2>3. PointTime' = TimeAt(allTimestamp', lastAllTimestamp', blk')
    BY DEF PointTime, PointInterval, TimeAt, Place, At
  <2>4. blk + 1 \in Nat \ {0}
    BY <1>0
  <2> QED BY <1>0, <1>1, <1>3, <2>1, <2>2, <2>3, <2>4, TimeAtValue
<1> QED BY <1>2, <1>3

\* No step puts the packets' times out of order.
LEMMA ClockNext ==
    ASSUME TypeOK, ClockInv, [Next]_vars
    PROVE  ClockInv'
<1>1. ASSUME UNCHANGED <<clock, setBack, allDataValue, pc, allTimestamp, lastAllTimestamp>>
      PROVE  ClockInv'
  BY <1>1 DEF ClockInv
<1>2. CASE UNCHANGED vars \/ DataTimeout \/ Poll \/ GetFrame \/ ReadFlag
  <2>1. UNCHANGED <<clock, setBack, allDataValue, pc, allTimestamp, lastAllTimestamp>>
    BY <1>2 DEF vars, DataTimeout, Poll, GetFrame, ReadFlag, sdk, receiving, device, decoder
  <2> QED BY <1>1, <2>1
<1>3. CASE InStep
  <2> DEFINE p == [kind |-> "data", base |-> nData * Blocks, ts |-> clock + Blocks]
  <2>1. clock \in Nat /\ Blocks \in Nat /\ nData * Blocks \in Nat
    BY LidarAssumption, PacketStart DEF TypeOK
  <2>2. p \in Packets /\ p.ts = clock + Blocks
    BY <2>1 DEF Packets
  <2>3. allDataValue' \in {allDataValue, Append(allDataValue, p)}
    BY <1>3 DEF InStep, DataPacket, Queued
  <2>4. UNCHANGED <<pc, allTimestamp, lastAllTimestamp, setBack>> /\ clock' = clock + Blocks
    BY <1>3 DEF InStep, DataPacket, receiving, decoder
  <2> HIDE DEF p
  <2>5. clock' \in Nat /\ clock <= clock' /\ (p.kind = "data" => p.ts = clock')
    BY <2>1, <2>2, <2>4
  <2> QED BY <2>2, <2>3, <2>4, <2>5, ClockArrive
<1>4. CASE AfterSetBack
  BY <1>4 DEF AfterSetBack, ClockInv
<1>5. CASE DevPacket
  <2> DEFINE p == [kind |-> "dev", base |-> 0, ts |-> 0]
  <2>1. p \in Packets /\ p.kind = "dev"
    BY DEF Packets
  <2>2. allDataValue' \in {allDataValue, Append(allDataValue, p)}
    BY <1>5 DEF DevPacket, Queued
  <2> HIDE DEF p
  <2>3. UNCHANGED <<pc, allTimestamp, lastAllTimestamp, setBack, clock>>
    BY <1>5 DEF DevPacket, receiving, decoder
  <2>4. clock' \in Nat /\ clock <= clock' /\ (p.kind = "data" => p.ts = clock')
    BY <2>1, <2>3 DEF TypeOK
  <2> QED BY <2>1, <2>2, <2>3, <2>4, ClockArrive
<1>6. CASE PopDev
  <2>1. /\ pc = "idle" /\ pc' = "idle" /\ allDataValue # <<>> /\ allDataValue' = Tail(allDataValue)
        /\ UNCHANGED <<clock, setBack, allTimestamp, lastAllTimestamp>>
    BY <1>6 DEF PopDev, device
  <2> QED BY <2>1, ClockPop
<1>7. CASE PopData
  <2>1. /\ pc = "idle" /\ pc' = "parse" /\ allDataValue # <<>> /\ allDataValue' = Tail(allDataValue)
        /\ Head(allDataValue).kind = "data" /\ allTimestamp' = Head(allDataValue).ts
        /\ UNCHANGED <<clock, setBack, lastAllTimestamp>>
    BY <1>7 DEF PopData, device
  <2> QED BY <2>1, ClockPop
<1>8. CASE Overflow \/ ZeroBlock \/ PointBlock \/ SendFrame
  <2>1. /\ pc # "idle" /\ NextBlock /\ UNCHANGED <<clock, setBack, allDataValue, allTimestamp>>
    BY <1>8 DEF Overflow, ZeroBlock, PointBlock, SendFrame, device
  <2>2. ~setBack => /\ lastAllTimestamp' <= allTimestamp
                    /\ pc' = "idle" => lastAllTimestamp' = allTimestamp
    BY <2>1, NowForward
  <2> QED BY <2>1, <2>2 DEF ClockInv
<1>9. CASE SyncBlock \/ SendFlag
  <2>1. /\ pc # "idle" /\ pc' # "idle"
        /\ UNCHANGED <<clock, setBack, allDataValue, allTimestamp, lastAllTimestamp>>
    BY <1>9 DEF SyncBlock, SendFlag, device
  <2> QED BY <2>1 DEF ClockInv
<1> QED BY <1>2, <1>3, <1>4, <1>5, <1>6, <1>7, <1>8, <1>9 DEF Next, LidarRun, Acquire

\* The times of last points are numbers.
LEMMA TimeTypes ==
    ASSUME TypeOK
    PROVE  /\ Now \in Nat /\ usedTs \in Nat
           /\ \A pts \in {temp.pts, cloudPer.pts, cloudGet, cloudLast} :
                 pts \in Points /\ (pts # <<>> => LastTs(pts) \in Nat)
<1>1. Now \in Nat /\ usedTs \in Nat
  BY PointTimeValue DEF Now, TypeOK
<1>2. ASSUME NEW pts \in Points, pts # <<>> PROVE LastTs(pts) \in Nat
  <2> DEFINE P == [id : Nat \ {0}, ts : Nat]
  <2>1. pts \in Seq(P)
    BY DEF Points
  <2> HIDE DEF P
  <2>2. pts[Len(pts)] \in P
    BY <1>2, <2>1, LastElement
  <2> QED BY <2>2 DEF P, LastTs
<1>3. temp.pts \in Points /\ cloudPer.pts \in Points /\ cloudGet \in Points /\ cloudLast \in Points
  BY DEF TypeOK, Frames
<1> QED BY <1>1, <1>2, <1>3

\* The last point of two clouds put together.
LEMMA ConcatLast ==
    ASSUME NEW s \in Points, NEW t \in Points
    PROVE  /\ t # <<>> => s \o t # <<>> /\ LastTs(s \o t) = LastTs(t)
           /\ t = <<>> => s \o t = s
<1> DEFINE P == [id : Nat \ {0}, ts : Nat]
<1>0. s \in Seq(P) /\ t \in Seq(P)
  BY DEF Points
<1> HIDE DEF P
<1>1. ASSUME t # <<>> PROVE s \o t # <<>> /\ LastTs(s \o t) = LastTs(t)
  <2>1. Len(t) \in Nat /\ Len(t) > 0
    BY <1>0, <1>1, LastElement
  <2>2. Len(s \o t) = Len(s) + Len(t) /\ Len(s) \in Nat /\ (s \o t)[Len(s) + Len(t)] = t[Len(t)]
    BY <1>0, <2>1
  <2>3. s \o t # <<>>
    BY <1>0, <2>1, <2>2
  <2> QED BY <2>2, <2>3 DEF LastTs
<1>2. t = <<>> => s \o t = s
  BY <1>0
<1> QED BY <1>1, <1>2

\* Nothing changes but, perhaps, the time no point has passed: it grows.
LEMMA TimeQuiet ==
    ASSUME TypeOK, TimeInv, ~setBack, UNCHANGED <<cloudGet, cloudLast, cloudPer, temp, usedTs>>,
           Now' \in Nat, Now <= Now',
           \/ pc \in {"idle", "parse"} /\ pc' \in {"idle", "parse"}
           \/ pc \in {"flag", "publish"} /\ pc' \in {"flag", "publish"}
    PROVE  TimeInv'
<1> USE TimeTypes
<1>1. Until(Now', usedTs, temp.pts, cloudPer.pts) /\ UpTo(cloudGet, Now') /\ UpTo(cloudLast, Now')
  BY DEF TimeInv, Until, UpTo
<1> QED BY <1>1 DEF TimeInv

\* No step gives a frame an older last point than the acquirer has seen.
LEMMA TimeNext ==
    ASSUME TypeOK, TypeOK', StackInv, ClockInv, TimeInv, [Next]_vars
    PROVE  TimeInv'
<1> SUFFICES ASSUME ~setBack' PROVE TimeInv'
  BY DEF TimeInv
<1> DEFINE clouds == <<cloudGet, cloudLast, cloudPer, temp, usedTs>>
<1>0. ~setBack
  <2>1. CASE AfterSetBack
    BY <2>1 DEF AfterSetBack
  <2>2. CASE UNCHANGED vars \/ InStep \/ DevPacket \/ DataTimeout \/ LidarRun \/ Acquire
    <3>1. setBack' = setBack
      BY <2>2 DEF vars, InStep, DevPacket, DataTimeout, LidarRun, PopDev, PopData, Overflow, ZeroBlock,
                  PointBlock, SyncBlock, SendFlag, SendFrame, Acquire, Poll, GetFrame, ReadFlag, sdk, device
    <3> QED BY <3>1
  <2> QED BY <2>1, <2>2 DEF Next
<1>1. Now \in Nat /\ Now' \in Nat
  <2>1. Now' \in Nat
    <3>1. PointTime' \in Nat /\ lastAllTimestamp' \in Nat
      BY PointTimeValue DEF TypeOK
    <3> QED BY <3>1 DEF Now
  <2> QED BY <2>1, TimeTypes
<1>2. ASSUME UNCHANGED <<clouds, pc, blk, allTimestamp, lastAllTimestamp>> PROVE TimeInv'
  <2>1. Now' = Now
    BY <1>2 DEF Now, PointTime, PointInterval, Place
  <2> QED BY <1>0, <1>1, <1>2, <2>1, TimeQuiet DEF TypeOK
<1>3. CASE UNCHANGED vars \/ InStep \/ AfterSetBack \/ DevPacket \/ DataTimeout \/ Poll
  <2>1. UNCHANGED <<clouds, pc, blk, allTimestamp, lastAllTimestamp>>
    BY <1>3 DEF vars, InStep, AfterSetBack, DataPacket, DevPacket, DataTimeout, Poll, receiving, sdk,
                decoder, acquirer
  <2> QED BY <1>2, <2>1
<1>4. CASE PopDev
  <2>1. UNCHANGED <<clouds, pc, blk, allTimestamp, lastAllTimestamp>>
    BY <1>4 DEF PopDev, acquirer
  <2> QED BY <1>2, <2>1
<1>5. CASE PopData
  <2>1. /\ pc = "idle" /\ pc' = "parse" /\ allDataValue # <<>> /\ allDataValue' = Tail(allDataValue)
        /\ Head(allDataValue).kind = "data" /\ allTimestamp' = Head(allDataValue).ts
        /\ UNCHANGED <<clock, setBack, lastAllTimestamp, clouds>>
    BY <1>5 DEF PopData, device, acquirer
  <2>2. lastAllTimestamp <= allTimestamp'
    BY <1>0, <2>1, ClockPop
  <2>3. /\ allTimestamp' \in Nat /\ lastAllTimestamp \in Nat /\ lastAllTimestamp' = lastAllTimestamp
        /\ blk' \in Nat \ {0}
    BY <2>1 DEF TypeOK
  <2>4. PointTime' = TimeAt(allTimestamp', lastAllTimestamp', blk')
    BY DEF PointTime, PointInterval, TimeAt, Place, At
  <2>5. lastAllTimestamp <= PointTime'
    BY <2>2, <2>3, <2>4, TimeAtValue
  <2>6. Now = lastAllTimestamp /\ Now' = PointTime'
    BY <2>1 DEF Now
  <2> QED BY <1>0, <1>1, <2>1, <2>5, <2>6, TimeQuiet
<1>6. CASE Overflow \/ ZeroBlock
  <2>1. /\ pc = "parse" /\ pc' \in {"idle", "parse"} /\ NextBlock /\ UNCHANGED allTimestamp
        /\ UNCHANGED clouds
    BY <1>6 DEF Overflow, ZeroBlock, NextBlock, acquirer
  <2>2. Now = PointTime
    BY <2>1 DEF Now
  <2>3. Now <= Now'
    BY <1>0, <2>1, <2>2, NowForward
  <2> QED BY <1>0, <1>1, <2>1, <2>3, TimeQuiet
<1>7. CASE PointBlock
  <2> DEFINE p == [id |-> blk, ts |-> PointTime]
  <2>1. /\ pc = "parse" /\ pc' \in {"idle", "parse"} /\ NextBlock /\ UNCHANGED allTimestamp
        /\ UNCHANGED <<cloudLast, cloudPer, temp, usedTs>> /\ cloudGet' = cloudGet \o Echoes(p)
    BY <1>7 DEF PointBlock, NextBlock, acquirer
  <2>2. Now = PointTime /\ PointTime <= Now'
    BY <1>0, <2>1, NowForward DEF Now
  <2>3. p \in [id : Nat \ {0}, ts : Nat] /\ p.ts = PointTime
    BY PointTimeValue DEF TypeOK
  <2> HIDE DEF p
  <2>4. Echoes(p) \in Points /\ Echoes(p) # <<>> /\ LastTs(Echoes(p)) = PointTime
    <3>1. Echoes(p) \in Points /\ Len(Echoes(p)) \in {1, 2} /\ Echoes(p)[Len(Echoes(p))] = p
      BY <2>3, EchoPoints
    <3>2. Echoes(p) # <<>>
      BY <3>1
    <3> QED BY <2>3, <3>1, <3>2 DEF LastTs
  <2>5. cloudGet' # <<>> /\ LastTs(cloudGet') = PointTime
    BY <2>1, <2>4, ConcatLast DEF TypeOK
  <2>6. UpTo(cloudGet', Now') /\ Until(LastTs(cloudGet'), usedTs, temp.pts, cloudPer.pts)
    BY <1>0, <2>2, <2>5 DEF UpTo, TimeInv
  <2>7. Until(Now', usedTs, temp.pts, cloudPer.pts) /\ UpTo(cloudLast, Now')
    BY <1>0, <1>1, <2>2, TimeTypes DEF TimeInv, Until, UpTo
  <2> QED BY <1>0, <2>1, <2>6, <2>7 DEF TimeInv
<1>8. CASE SyncBlock
  <2>1. /\ pc = "parse" /\ pc' = "flag" /\ UNCHANGED <<cloudPer, temp, usedTs>>
        /\ UNCHANGED <<blk, allTimestamp, lastAllTimestamp>>
    BY <1>8 DEF SyncBlock, acquirer
  <2>2. Now' = Now
    BY <2>1 DEF Now, PointTime, PointInterval, Place
  <2>3. CASE m_StackFrame = 1
    <3>1. cloudLast = <<>> /\ UNCHANGED <<cloudGet, cloudLast>>
      BY <1>8, <2>3 DEF SyncBlock, StackInv
    <3> QED BY <1>0, <2>1, <2>2, <3>1 DEF TimeInv
  <2>4. CASE m_StackFrame = 2
    <3>1. cloudGet' = cloudLast \o cloudGet /\ cloudLast' = cloudGet
      BY <1>8, <2>4 DEF SyncBlock
    <3>2. CASE cloudGet # <<>>
      <4>1. cloudGet' # <<>> /\ LastTs(cloudGet') = LastTs(cloudGet)
        BY <3>1, <3>2, ConcatLast DEF TypeOK
      <4> QED BY <1>0, <2>1, <2>2, <3>1, <3>2, <4>1 DEF TimeInv, UpTo
    <3>3. CASE cloudGet = <<>>
      <4>1. cloudGet' = cloudLast
        BY <3>1, <3>3, ConcatLast DEF TypeOK
      <4> QED BY <1>0, <2>1, <2>2, <3>1, <3>3, <4>1 DEF TimeInv, UpTo
    <3> QED BY <3>2, <3>3
  <2> QED BY <2>3, <2>4 DEF TypeOK
<1>9. CASE SendFlag
  <2>1. /\ pc = "flag" /\ pc' = "publish" /\ UNCHANGED clouds
        /\ UNCHANGED <<blk, allTimestamp, lastAllTimestamp>>
    BY <1>9 DEF SendFlag, acquirer
  <2>2. Now' = Now
    BY <2>1 DEF Now, PointTime, PointInterval, Place
  <2> QED BY <1>0, <1>1, <2>1, <2>2, TimeQuiet
<1>10. CASE SendFrame
  <2>1. /\ pc = "publish" /\ pc' \in {"idle", "parse"} /\ NextBlock /\ UNCHANGED allTimestamp
        /\ UNCHANGED <<cloudLast, temp, usedTs>> /\ cloudGet' = <<>> /\ cloudPer'.pts = cloudGet
    BY <1>10 DEF SendFrame, NextBlock, acquirer
  <2>2. Now = PointTime /\ PointTime <= Now'
    BY <1>0, <2>1, NowForward DEF Now
  <2>3. Until(Now', usedTs, temp.pts, cloudPer'.pts) /\ UpTo(cloudGet', Now') /\ UpTo(cloudLast, Now')
    BY <1>0, <1>1, <2>1, <2>2, TimeTypes DEF TimeInv, Until, UpTo
  <2>4. cloudGet # <<>> => /\ usedTs <= LastTs(cloudGet) /\ UpTo(temp.pts, LastTs(cloudGet))
    BY <1>0 DEF TimeInv, Until
  <2>5. cloudLast # <<>> => Until(LastTs(cloudLast), usedTs, temp.pts, cloudPer'.pts)
    <3> SUFFICES ASSUME cloudLast # <<>> PROVE Until(LastTs(cloudLast), usedTs, temp.pts, cloudGet)
      BY <2>1
    <3>1. cloudGet # <<>> /\ LastTs(cloudGet) = LastTs(cloudLast)
      BY <1>0, <2>1 DEF TimeInv
    <3>2. LastTs(cloudGet) <= LastTs(cloudGet)
      BY <3>1, TimeTypes
    <3> QED BY <2>4, <3>1, <3>2 DEF Until, UpTo
  <2> QED BY <1>0, <2>1, <2>3, <2>4, <2>5 DEF TimeInv
<1>11. CASE GetFrame
  <2>1. /\ UNCHANGED <<pc, blk, allTimestamp, lastAllTimestamp, cloudGet, cloudLast, usedTs>>
        /\ temp' = cloudPer /\ cloudPer'.pts = <<>>
    BY <1>11 DEF GetFrame, sdk, decoder, NoFrame
  <2>2. Now' = Now
    BY <2>1 DEF Now, PointTime, PointInterval, Place
  <2>3. \A t : Until(t, usedTs, temp.pts, cloudPer.pts) => Until(t, usedTs, temp'.pts, cloudPer'.pts)
    BY <2>1 DEF Until, UpTo
  <2> QED BY <1>0, <2>1, <2>2, <2>3 DEF TimeInv
<1>12. CASE ReadFlag
  <2>1. /\ UNCHANGED <<pc, blk, allTimestamp, lastAllTimestamp, cloudGet, cloudLast, cloudPer>>
        /\ temp'.pts = <<>>
        /\ usedTs' = usedTs \/ (temp.pts # <<>> /\ usedTs' = LastTs(temp.pts))
    BY <1>12 DEF ReadFlag, sdk, decoder, NoFrame, LastTs
  <2>2. Now' = Now
    BY <2>1 DEF Now, PointTime, PointInterval, Place
  <2>3. \A t : Until(t, usedTs, temp.pts, cloudPer.pts) => Until(t, usedTs', temp'.pts, cloudPer'.pts)
    BY <2>1 DEF Until, UpTo
  <2>4. cloudPer.pts # <<>> => usedTs' <= LastTs(cloudPer.pts)
    BY <1>0, <2>1 DEF TimeInv, UpTo
  <2> QED BY <1>0, <2>1, <2>2, <2>3, <2>4 DEF TimeInv, UpTo
<1> QED BY <1>3, <1>4, <1>5, <1>6, <1>7, <1>8, <1>9, <1>10, <1>11, <1>12 DEF Next, LidarRun, Acquire

\* The acquirer's time does not go back in a step.
LEMMA TimeStep ==
    ASSUME TypeOK, TimeInv, [Next]_vars
    PROVE  setBack \/ usedTs' >= usedTs
<1> SUFFICES ASSUME ~setBack PROVE usedTs' >= usedTs
  OBVIOUS
<1>0. usedTs \in Nat
  BY DEF TypeOK
<1>1. CASE ReadFlag
  <2>1. usedTs' = usedTs \/ (temp.pts # <<>> /\ usedTs' = LastTs(temp.pts))
    BY <1>1 DEF ReadFlag, LastTs
  <2> QED BY <1>0, <2>1, TimeTypes DEF TimeInv
<1>2. CASE ~ReadFlag
  <2>1. usedTs' = usedTs
    BY <1>2 DEF Next, vars, InStep, AfterSetBack, DataPacket, DevPacket, DataTimeout, receiving, acquirer,
                LidarRun, PopDev, PopData, Overflow, ZeroBlock, PointBlock, SyncBlock, SendFlag, SendFrame,
                Acquire, Poll, GetFrame
  <2> QED BY <1>0, <2>1
<1> QED BY <1>1, <1>2

-----------------------------------------------------------------------------
(* Theorems *)

\* The invariant holds from the constructor on.
LEMMA LidarInvariant == Spec => []LidarInv
<1>1. Init => LidarInv
  BY LidarInit, PacketsInit, OrderInit, SweepInit, TimeInit DEF LidarInv
<1>2. LidarInv /\ [Next]_vars => LidarInv'
  <2> SUFFICES ASSUME LidarInv, [Next]_vars PROVE LidarInv'
    OBVIOUS
  <2> USE DEF LidarInv
  <2>1. TypeOK' /\ CloudInv' /\ StackInv'
    BY TypeNext
  <2>2. PacketsInv' /\ BlockInv'
    BY <2>1, PacketsNext
  <2>3. OrderInv' /\ FlagInv' /\ BadFrameOnlyIfOvertaken'
    BY OrderNext
  <2>4. SyncInv' /\ SweepInv'
    BY SweepNext
  <2>5. ClockInv' /\ TimeInv'
    BY <2>1, ClockNext, TimeNext
  <2> QED BY <2>1, <2>2, <2>3, <2>4, <2>5
<1> QED BY <1>1, <1>2, PTL DEF Spec

\* Types and limits: whatever the device sends, and when markers are lost, a
\* sweep keeps at most two points more than MaxPoints and a frame two sweeps.
THEOREM LidarTypeCorrect == Spec => []TypeOK
<1>1. LidarInv => TypeOK
  BY DEF LidarInv
<1> QED BY <1>1, LidarInvariant, PTL

\* Every frame getLidarPerFrameDate returns consists of all the points that
\* were received in the last sweep before its marker or, if the model stacks,
\* in the last two, in the device's order: for any packet size, loss and
\* interleaving.
THEOREM FramesAreWholeSweeps == Spec => []FramesAreSweeps
<1>1. LidarInv => FramesAreSweeps
  <2>1. \A e, k : Opening(e, k) = OpeningOf(syncs, e, k)
    BY DEF Opening, OpeningOf, FromLast
  <2>2. LidarInv => (got.frame # NoFrame => SweepOf(got.frame.pts, got.frame.end, model, accepted, syncs))
    BY DEF LidarInv, SweepInv
  <2> QED BY <2>1, <2>2 DEF SweepOf, Swept, Sorted, FramesAreSweeps
<1> QED BY <1>1, LidarInvariant, PTL

\* A frame with too few distances is returned as good only when a later sweep
\* was completed between taking the frame and reading the flag.
THEOREM BadFrameWasOvertaken == Spec => []BadFrameOnlyIfOvertaken
<1>1. LidarInv => BadFrameOnlyIfOvertaken
  BY DEF LidarInv
<1> QED BY <1>1, LidarInvariant, PTL

\* getLidarPerFrameDate never returns an empty handle, a frame twice or one
\* older than the last.
THEOREM FramesAlwaysInOrder == Spec => FramesInOrder
<1>1. LidarInv /\ [Next]_vars => [got' # got => got'.frame.end > got.frame.end]_vars
  BY FramesStep DEF LidarInv
<1> QED BY <1>1, LidarInvariant, PTL DEF Spec, FramesInOrder

\* The timestamps the acquirer attaches to frames do not decrease while the
\* device's clock is not set back, whatever is lost.
THEOREM TimeAlwaysForward == Spec => TimeForward
<1>1. LidarInv /\ [Next]_vars => [setBack \/ usedTs' >= usedTs]_vars
  BY TimeStep DEF LidarInv
<1> QED BY <1>1, LidarInvariant, PTL DEF Spec, TimeForward
=============================================================================
