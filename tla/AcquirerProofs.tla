-------------------------- MODULE AcquirerProofs --------------------------
(***************************************************************************)
(* PointCloudAcquirer and LidarBgDiff for any window length, distance,     *)
(* retry limit and queue bound: a frame is monitored only against a loaded *)
(* background, and what "stable" says of the last frames.                  *)
(***************************************************************************)
EXTENDS Acquirer, TLAPS

-----------------------------------------------------------------------------
(* The invariant *)

\* Past its initialisation a thread either has its background or finds the
\* monitor off: ship_monitor is set before the threads start and only cleared.
BackgroundOrOff ==
    \A r \in Radars : ship_monitor /\ pc[r] \notin {"none", "init", "disable"} => bg_ready[r]

\* A window of centres h against the last frames w the monitor was given:
\* h has no more items than frames came, and than came since a small cluster;
\* and as far back as w holds only centres it is the end of h.
HistoryOf(h, w) ==
    /\ Len(h) <= Len(w)
    /\ \A j \in 1 .. Len(w) : w[j] = Small => Len(h) <= Len(w) - j
    /\ \A k \in 0 .. Len(w) - 1 :
          (\A i \in 0 .. k : w[Len(w) - i] \in Centres) =>
              k < Len(h) /\ h[Len(h) - k] = w[Len(w) - k]

HistoryInv == \A r \in Radars : HistoryOf(center_history[r], recent[r])

\* "Stable" is said only of a ship that was not lost to a small cluster during
\* the last StableCount frames, and, when none of them was empty, that ended
\* less than StableDist from where it began (judgeShipStatus).  lidar_bg_diff.h:99
\* speaks of consecutive frames; an empty frame, for which monitorShip says that
\* the ship has left (lidar_bg_diff.cpp:252), may lie between them.
StableWindow ==
    \A r \in Radars : status[r] = "SHIP_STABLE" =>
        LET w == recent[r]
        IN /\ Len(w) = StableCount
           /\ \A i \in DOMAIN w : w[i] # Small
           /\ (\A i \in DOMAIN w : w[i] # Empty) => Distance(w[1], w[StableCount]) < StableDist

AcquirerInv == TypeOK /\ BackgroundOrOff /\ HistoryInv /\ StableWindow

-----------------------------------------------------------------------------
(* The window of centres *)

\* A frame is nothing, a small cluster, or a centre, and only one of them.
LEMMA FrameKinds ==
    /\ Empty \notin Centres /\ Small \notin Centres /\ Empty # Small
    /\ \A f \in Frames : f = Empty \/ f = Small \/ f \in Centres
    /\ \A c \in Centres : c \in Nat /\ c \in Frames
  BY AcquirerAssumption DEF Empty, Small, Frames

\* Append and drop the oldest: the new item is last, the others move one back.
LEMMA WindowValue ==
    ASSUME NEW S, NEW s \in Seq(S), NEW c \in S, Len(s) <= StableCount
    PROVE  /\ Window(s, c) \in Seq(S)
           /\ Len(Window(s, c)) = IF Len(s) = StableCount THEN StableCount ELSE Len(s) + 1
           /\ Window(s, c)[Len(Window(s, c))] = c
           /\ \A k \in 1 .. Len(Window(s, c)) - 1 :
                 Window(s, c)[Len(Window(s, c)) - k] = s[Len(s) - (k - 1)]
<1> DEFINE w == Append(s, c)
<1>0. StableCount \in Nat \ {0} /\ Len(s) \in Nat
  BY AcquirerAssumption
<1>1. w \in Seq(S) /\ Len(w) = Len(s) + 1 /\ w[Len(s) + 1] = c /\ \A i \in 1 .. Len(s) : w[i] = s[i]
  OBVIOUS
<1>2. CASE Len(s) = StableCount
  <2>1. Window(s, c) = Tail(w)
    BY <1>0, <1>1, <1>2 DEF Window
  <2>2. /\ Tail(w) \in Seq(S) /\ Len(Tail(w)) = StableCount
        /\ \A i \in 1 .. StableCount : Tail(w)[i] = w[i + 1]
    BY <1>0, <1>1, <1>2
  <2> HIDE DEF w
  <2>3. \A k \in 1 .. StableCount - 1 : Tail(w)[StableCount - k] = s[StableCount - (k - 1)]
    <3> SUFFICES ASSUME NEW k \in 1 .. StableCount - 1
                 PROVE  Tail(w)[StableCount - k] = s[StableCount - (k - 1)]
      OBVIOUS
    <3>1. StableCount - k \in 1 .. StableCount /\ StableCount - k + 1 = StableCount - (k - 1)
          /\ StableCount - (k - 1) \in 1 .. Len(s)
      BY <1>0, <1>2
    <3> QED BY <1>1, <2>2, <3>1
  <2> QED BY <1>0, <1>1, <1>2, <2>1, <2>2, <2>3
<1>3. CASE Len(s) # StableCount
  <2>1. Window(s, c) = w
    BY <1>0, <1>1, <1>3 DEF Window
  <2> HIDE DEF w
  <2>2. \A k \in 1 .. Len(s) : w[Len(s) + 1 - k] = s[Len(s) - (k - 1)]
    <3> SUFFICES ASSUME NEW k \in 1 .. Len(s) PROVE w[Len(s) + 1 - k] = s[Len(s) - (k - 1)]
      OBVIOUS
    <3>1. Len(s) + 1 - k = Len(s) - (k - 1) /\ Len(s) - (k - 1) \in 1 .. Len(s)
      BY <1>0
    <3> QED BY <1>1, <3>1
  <2> QED BY <1>0, <1>1, <1>3, <2>1, <2>2
<1> QED BY <1>2, <1>3

\* The history of the last frames is kept the same way.
LEMMA LastFewWindow ==
    ASSUME NEW s \in Seq(Frames), NEW f \in Frames, Len(s) <= StableCount
    PROVE  /\ LastFew(s, f) \in Seq(Frames)
           /\ Len(LastFew(s, f)) = IF Len(s) = StableCount THEN StableCount ELSE Len(s) + 1
           /\ LastFew(s, f)[Len(LastFew(s, f))] = f
           /\ \A k \in 1 .. Len(LastFew(s, f)) - 1 :
                 LastFew(s, f)[Len(LastFew(s, f)) - k] = s[Len(s) - (k - 1)]
<1>1. LastFew(s, f) = Window(s, f)
  BY DEF LastFew, Window
<1>2. /\ Window(s, f) \in Seq(Frames)
      /\ Len(Window(s, f)) = IF Len(s) = StableCount THEN StableCount ELSE Len(s) + 1
      /\ Window(s, f)[Len(Window(s, f))] = f
  BY WindowValue
<1>3. \A k \in 1 .. Len(Window(s, f)) - 1 :
          Window(s, f)[Len(Window(s, f)) - k] = s[Len(s) - (k - 1)]
  BY WindowValue
<1> QED BY <1>1, <1>2, <1>3

\* What becomes of center_history_ for each kind of frame.
LEMMA HistoryValue ==
    ASSUME NEW h
    PROVE  /\ History(h, Empty) = h /\ History(h, Small) = <<>>
           /\ \A c \in Centres : History(h, c) = Window(h, c)
<1>1. History(h, Empty) = h
  BY DEF History, Empty, Small
<1>2. History(h, Small) = <<>>
  BY DEF History, Empty, Small
<1>3. \A c \in Centres : History(h, c) = Window(h, c)
  BY FrameKinds DEF History
<1> QED BY <1>1, <1>2, <1>3

\* A ship at c: the centre is the newest item of both windows.
LEMMA HistoryOfCentre ==
    ASSUME NEW h \in Seq(Centres), NEW w \in Seq(Frames), NEW c \in Centres,
           Len(h) <= StableCount, Len(w) <= StableCount, HistoryOf(h, w)
    PROVE  HistoryOf(Window(h, c), LastFew(w, c))
<1> DEFINE h2 == Window(h, c)
           w2 == LastFew(w, c)
<1>0. StableCount \in Nat \ {0} /\ Len(h) \in Nat /\ Len(w) \in Nat /\ c \in Frames
  BY AcquirerAssumption, FrameKinds
<1>1. /\ Len(h2) = IF Len(h) = StableCount THEN StableCount ELSE Len(h) + 1
      /\ h2[Len(h2)] = c
      /\ \A k \in 1 .. Len(h2) - 1 : h2[Len(h2) - k] = h[Len(h) - (k - 1)]
  BY WindowValue
<1>2. /\ Len(w2) = IF Len(w) = StableCount THEN StableCount ELSE Len(w) + 1
      /\ w2[Len(w2)] = c
      /\ \A k \in 1 .. Len(w2) - 1 : w2[Len(w2) - k] = w[Len(w) - (k - 1)]
  BY <1>0, LastFewWindow
<1> HIDE DEF h2, w2
<1>3. Len(h2) <= Len(w2) /\ Len(h2) \in Nat /\ Len(w2) \in Nat /\ Len(w2) <= StableCount
  BY <1>0, <1>1, <1>2 DEF HistoryOf
<1>4. ASSUME NEW j \in 1 .. Len(w2), w2[j] = Small PROVE Len(h2) <= Len(w2) - j
  <2>1. j # Len(w2)
    BY <1>2, <1>4, FrameKinds
  <2> DEFINE k == Len(w2) - j
  <2>2. k \in 1 .. Len(w2) - 1 /\ Len(w2) - k = j
    BY <1>3, <2>1
  <2>3. w[Len(w) - (k - 1)] = Small
    BY <1>2, <1>4, <2>2
  <2>4. Len(w) - (k - 1) \in 1 .. Len(w)
    BY <1>0, <1>2, <2>2
  <2>5. Len(h) <= Len(w) - (Len(w) - (k - 1))
    BY <2>3, <2>4 DEF HistoryOf
  <2> HIDE DEF k
  <2>6. Len(h) <= k - 1
    BY <1>0, <2>2, <2>5
  <2>7. Len(h2) <= k
    BY <1>0, <1>1, <2>2, <2>6
  <2> QED BY <2>7 DEF k
<1>5. ASSUME NEW k \in 0 .. Len(w2) - 1, \A i \in 0 .. k : w2[Len(w2) - i] \in Centres
      PROVE  k < Len(h2) /\ h2[Len(h2) - k] = w2[Len(w2) - k]
  <2>1. CASE k = 0
    BY <1>0, <1>1, <1>2, <1>3, <2>1
  <2>2. CASE k # 0
    <3>1. k \in 1 .. Len(w2) - 1 /\ k - 1 \in 0 .. Len(w) - 1
      BY <1>0, <1>2, <1>3, <2>2
    <3>2. \A i \in 0 .. k - 1 : w[Len(w) - i] \in Centres
      <4> SUFFICES ASSUME NEW i \in 0 .. k - 1 PROVE w[Len(w) - i] \in Centres
        OBVIOUS
      <4>1. i + 1 \in 0 .. k /\ i + 1 \in 1 .. Len(w2) - 1 /\ (i + 1) - 1 = i
        BY <1>3, <3>1
      <4>2. w2[Len(w2) - (i + 1)] \in Centres
        BY <1>5, <4>1
      <4>3. w2[Len(w2) - (i + 1)] = w[Len(w) - ((i + 1) - 1)]
        BY <1>2, <4>1
      <4> QED BY <4>1, <4>2, <4>3
    <3>3. k - 1 < Len(h) /\ h[Len(h) - (k - 1)] = w[Len(w) - (k - 1)]
      BY <3>1, <3>2 DEF HistoryOf
    <3>4. k < Len(h2)
      BY <1>0, <1>1, <1>3, <3>1, <3>3
    <3>5. h2[Len(h2) - k] = h[Len(h) - (k - 1)]
      BY <1>1, <1>3, <3>1, <3>4
    <3> QED BY <1>2, <3>1, <3>3, <3>4, <3>5
  <2> QED BY <2>1, <2>2
<1> QED BY <1>3, <1>4, <1>5 DEF HistoryOf, h2, w2

\* A frame without a ship: nothing keeps the window, a small cluster clears it.
LEMMA HistoryOfNoShip ==
    ASSUME NEW h \in Seq(Centres), NEW w \in Seq(Frames), NEW f \in {Empty, Small},
           NEW h2 \in Seq(Centres), Len(h2) <= Len(h), f = Small => Len(h2) = 0,
           Len(h) <= StableCount, Len(w) <= StableCount, HistoryOf(h, w)
    PROVE  HistoryOf(h2, LastFew(w, f))
<1> DEFINE w2 == LastFew(w, f)
<1>0. StableCount \in Nat \ {0} /\ Len(h) \in Nat /\ Len(h2) \in Nat /\ Len(w) \in Nat /\ f \in Frames
  BY AcquirerAssumption DEF Frames
<1>1. /\ Len(w2) = IF Len(w) = StableCount THEN StableCount ELSE Len(w) + 1
      /\ w2[Len(w2)] = f
      /\ \A k \in 1 .. Len(w2) - 1 : w2[Len(w2) - k] = w[Len(w) - (k - 1)]
  BY <1>0, LastFewWindow
<1> HIDE DEF w2
<1>2. Len(h2) <= Len(w2) /\ Len(w2) \in Nat \ {0} /\ Len(w2) <= StableCount
  BY <1>0, <1>1 DEF HistoryOf
<1>3. ASSUME NEW j \in 1 .. Len(w2), w2[j] = Small PROVE Len(h2) <= Len(w2) - j
  <2>1. CASE j = Len(w2)
    <3>1. f = Small
      BY <1>1, <1>3, <2>1
    <3> QED BY <1>2, <2>1, <3>1
  <2>2. CASE j # Len(w2)
    <3> DEFINE k == Len(w2) - j
    <3>1. k \in 1 .. Len(w2) - 1 /\ Len(w2) - k = j
      BY <1>2, <2>2
    <3> HIDE DEF k
    <3>2. w[Len(w) - (k - 1)] = Small
      BY <1>1, <1>3, <3>1
    <3>3. Len(w) - (k - 1) \in 1 .. Len(w)
      BY <1>0, <1>1, <3>1
    <3>4. Len(h) <= Len(w) - (Len(w) - (k - 1))
      BY <3>2, <3>3 DEF HistoryOf
    <3>5. Len(h2) <= k
      BY <1>0, <3>1, <3>4
    <3> QED BY <3>5 DEF k
  <2> QED BY <2>1, <2>2
<1>4. ASSUME NEW k \in 0 .. Len(w2) - 1, \A i \in 0 .. k : w2[Len(w2) - i] \in Centres
      PROVE  FALSE
  <2>1. 0 \in 0 .. k /\ Len(w2) - 0 = Len(w2)
    BY <1>2
  <2>2. w2[Len(w2)] \in Centres
    BY <1>4, <2>1
  <2> QED BY <1>1, <2>2, FrameKinds
<1> QED BY <1>2, <1>3, <1>4 DEF HistoryOf, w2

-----------------------------------------------------------------------------
(* The verdict.  "Stable" needs a full window whose ends are close: then the *)
(* last StableCount frames hold no small cluster, and where they are all     *)
(* centres they are the window.                                              *)

\* What monitorShip makes of a frame, for one lidar.
LEMMA MonitorFrame ==
    ASSUME NEW h \in Seq(Centres), NEW w \in Seq(Frames), NEW g \in Frames,
           Len(h) <= StableCount, Len(w) <= StableCount, HistoryOf(h, w)
    PROVE  /\ History(h, g) \in Seq(Centres) /\ Len(History(h, g)) <= StableCount
           /\ LastFew(w, g) \in Seq(Frames) /\ Len(LastFew(w, g)) <= StableCount
           /\ HistoryOf(History(h, g), LastFew(w, g))
<1>0. StableCount \in Nat \ {0} /\ Len(h) \in Nat /\ Len(w) \in Nat
  BY AcquirerAssumption
<1>1. LastFew(w, g) \in Seq(Frames) /\ Len(LastFew(w, g)) <= StableCount
  BY <1>0, LastFewWindow
<1>2. CASE g \in Centres
  <2>1. History(h, g) = Window(h, g)
    BY <1>2, HistoryValue
  <2>2. Window(h, g) \in Seq(Centres) /\ Len(Window(h, g)) <= StableCount
    BY <1>0, <1>2, WindowValue
  <2> QED BY <1>1, <1>2, <2>1, <2>2, HistoryOfCentre
<1>3. CASE g = Empty
  <2>1. History(h, g) = h
    BY <1>3, HistoryValue
  <2>2. HistoryOf(h, LastFew(w, g))
    BY <1>0, <1>3, FrameKinds, HistoryOfNoShip
  <2> QED BY <1>1, <2>1, <2>2
<1>4. CASE g = Small
  <2>1. History(h, g) = <<>>
    BY <1>4, HistoryValue
  <2>2. History(h, g) \in Seq(Centres) /\ Len(History(h, g)) = 0
    BY <2>1
  <2>3. /\ Len(History(h, g)) <= Len(h) /\ Len(History(h, g)) <= StableCount
        /\ g \in {Empty, Small} /\ (g = Small => Len(History(h, g)) = 0)
    BY <1>0, <1>4, <2>2
  <2>4. HistoryOf(History(h, g), LastFew(w, g))
    BY <2>2, <2>3, HistoryOfNoShip
  <2> QED BY <1>1, <2>2, <2>3, <2>4
<1> QED BY <1>2, <1>3, <1>4, FrameKinds

\* The distance between two centres does not depend on their order.
LEMMA DistanceSymmetric == \A a, b \in Nat : Distance(a, b) = Distance(b, a)
  BY DEF Distance

\* What a verdict of "stable" implies for the last frames.
LEMMA StableVerdict ==
    ASSUME NEW h \in Seq(Centres), NEW w \in Seq(Frames), NEW c \in Centres,
           Len(h) <= StableCount, Len(w) <= StableCount, HistoryOf(h, w),
           Verdict(h, c) = "SHIP_STABLE"
    PROVE  LET w2 == LastFew(w, c)
           IN  /\ Len(w2) = StableCount
               /\ \A i \in DOMAIN w2 : w2[i] # Small
               /\ (\A i \in DOMAIN w2 : w2[i] # Empty) =>
                      Distance(w2[1], w2[StableCount]) < StableDist
<1> DEFINE h2 == Window(h, c)
           w2 == LastFew(w, c)
<1>0. StableCount \in Nat \ {0} /\ c \in Frames /\ Len(h) \in Nat /\ Len(w) \in Nat
  BY AcquirerAssumption, FrameKinds
<1>1. Len(h2) >= StableCount /\ Distance(c, h2[1]) < StableDist
  BY DEF Verdict
<1>2. h2 \in Seq(Centres) /\ Len(h2) <= StableCount
  BY <1>0, WindowValue
<1>3. w2 \in Seq(Frames) /\ Len(w2) <= StableCount /\ w2[Len(w2)] = c
  BY <1>0, LastFewWindow
<1>4. HistoryOf(h2, w2)
  BY HistoryOfCentre
<1> HIDE DEF h2, w2
<1>5. Len(h2) = StableCount /\ Len(w2) = StableCount
  BY <1>0, <1>1, <1>2, <1>3, <1>4 DEF HistoryOf
<1>6. DOMAIN w2 = 1 .. StableCount
  BY <1>3, <1>5
<1>7. ASSUME NEW i \in DOMAIN w2, w2[i] = Small PROVE FALSE
  <2>1. StableCount <= StableCount - i
    BY <1>4, <1>5, <1>6, <1>7 DEF HistoryOf
  <2> QED BY <1>0, <1>6, <2>1
<1>8. ASSUME \A i \in DOMAIN w2 : w2[i] # Empty
      PROVE  Distance(w2[1], w2[StableCount]) < StableDist
  <2>1. \A i \in 1 .. StableCount : w2[i] \in Centres
    <3> SUFFICES ASSUME NEW i \in 1 .. StableCount PROVE w2[i] \in Centres
      OBVIOUS
    <3>1. w2[i] \in Frames
      BY <1>3, <1>5
    <3> QED BY <1>6, <1>7, <1>8, <3>1, FrameKinds
  <2>2. \A i \in 0 .. StableCount - 1 : StableCount - i \in 1 .. StableCount
    BY <1>0
  <2>3. StableCount - 1 \in 0 .. Len(w2) - 1 /\ StableCount - (StableCount - 1) = 1
    BY <1>0, <1>5
  <2>4. h2[1] = w2[1]
    BY <1>4, <1>5, <2>1, <2>2, <2>3 DEF HistoryOf
  <2>5. w2[1] \in Nat /\ c \in Nat
    BY <1>0, <2>1, FrameKinds
  <2> QED BY <1>1, <1>3, <1>5, <2>4, <2>5, DistanceSymmetric
<1> QED BY <1>5, <1>7, <1>8 DEF w2

-----------------------------------------------------------------------------
(* The steps *)

\* The threads have not started and every window is empty.
LEMMA AcquirerInit == Init => AcquirerInv
<1> SUFFICES ASSUME Init PROVE AcquirerInv
  OBVIOUS
<1>1. TypeOK
  <2>1. /\ <<>> \in Seq(Centres) /\ <<>> \in Seq(Frames) /\ Len(<<>>) = 0
        /\ 0 \in 0 .. QueueBound /\ 0 \in 0 .. MaxRetry + 1 /\ 0 \in 0 .. MaxFrames /\ 0 <= StableCount
    BY AcquirerAssumption
  <2> QED BY <2>1 DEF Init, TypeOK, Points
<1>2. BackgroundOrOff /\ StableWindow
  BY DEF Init, BackgroundOrOff, StableWindow
<1>3. HistoryInv
  BY DEF Init, HistoryInv, HistoryOf
<1> QED BY <1>1, <1>2, <1>3 DEF AcquirerInv

\* Steps that are not the monitor's leave the windows and the verdicts alone.
LEMMA OtherStep ==
    ASSUME AcquirerInv, UNCHANGED perFrame, TypeOK', BackgroundOrOff'
    PROVE  AcquirerInv'
  BY DEF perFrame, AcquirerInv, HistoryInv, StableWindow

\* main's thread: start() and stop() leave the windows alone.
LEMMA MainThreadNext ==
    ASSUME AcquirerInv, StartFails \/ (\E m \in BOOLEAN : Start(m)) \/ Stop \/ Join
    PROVE  AcquirerInv'
<1>1. CASE StartFails \/ Stop \/ Join
  <2>1. TypeOK' /\ UNCHANGED perFrame
    BY <1>1 DEF StartFails, Stop, Join, perFrame, counters, AcquirerInv, TypeOK
  <2>2. BackgroundOrOff'
    BY <1>1 DEF StartFails, Stop, Join, AcquirerInv, BackgroundOrOff
  <2> QED BY <2>1, <2>2, OtherStep
<1>2. ASSUME NEW m \in BOOLEAN, Start(m) PROVE AcquirerInv'
  <2>1. TypeOK' /\ UNCHANGED perFrame
    BY <1>2 DEF Start, perFrame, counters, AcquirerInv, TypeOK, Points
  <2>2. BackgroundOrOff'
    BY <1>2 DEF Start, BackgroundOrOff
  <2> QED BY <2>1, <2>2, OtherStep
<1> QED BY <1>1, <1>2

\* A camera thread keeps the invariant.
LEMMA CameraNext == ASSUME AcquirerInv, NEW c \in Cameras, CameraLoop(c) PROVE AcquirerInv'
<1>1. TypeOK' /\ UNCHANGED perFrame
  BY DEF CameraLoop, Goto, perFrame, counters, AcquirerInv, TypeOK, Points
<1>2. BackgroundOrOff'
  BY DEF CameraLoop, Goto, AcquirerInv, TypeOK, BackgroundOrOff
<1> QED BY <1>1, <1>2, OtherStep

\* initLidarBgProcessor
LEMMA InitNext ==
    ASSUME AcquirerInv, NEW r \in Radars,
           NoMonitor(r) \/ (\E ok \in BOOLEAN : LoadBackground(r, ok)) \/ Disable(r)
    PROVE  AcquirerInv'
<1>1. CASE NoMonitor(r) \/ Disable(r)
  <2>1. TypeOK' /\ UNCHANGED perFrame
    BY <1>1 DEF NoMonitor, Disable, Goto, frozen, perFrame, counters, AcquirerInv, TypeOK, Points
  <2>2. BackgroundOrOff'
    BY <1>1 DEF NoMonitor, Disable, Goto, AcquirerInv, TypeOK, BackgroundOrOff
  <2> QED BY <2>1, <2>2, OtherStep
<1>2. ASSUME NEW ok \in BOOLEAN, LoadBackground(r, ok) PROVE AcquirerInv'
  <2>1. TypeOK' /\ UNCHANGED perFrame
    BY <1>2 DEF LoadBackground, Goto, frozen, perFrame, counters, AcquirerInv, TypeOK, Points
  <2>2. BackgroundOrOff'
    BY <1>2 DEF LoadBackground, Goto, AcquirerInv, TypeOK, BackgroundOrOff
  <2> QED BY <2>1, <2>2, OtherStep
<1> QED BY <1>1, <1>2

\* The loop without the monitor: the flag is not set and no background lost.
LEMMA LoopNext ==
    ASSUME AcquirerInv, NEW r \in Radars,
           \/ Loop(r) \/ NoFrame(r) \/ (\E u \in BOOLEAN : FrameReady(r, u))
           \/ NotMonitored(r) \/ Choose(r) \/ Enqueue(r) \/ GiveUp(r) \/ Dequeue(r)
    PROVE  AcquirerInv'
<1>1. CASE Loop(r) \/ NotMonitored(r) \/ Choose(r) \/ GiveUp(r)
  <2>1. TypeOK' /\ UNCHANGED perFrame
    BY <1>1 DEF Loop, NotMonitored, Choose, GiveUp, After, Goto, frozen, perFrame, counters,
       AcquirerInv, TypeOK, Points
  <2>2. BackgroundOrOff'
    BY <1>1 DEF Loop, NotMonitored, Choose, GiveUp, Goto, AcquirerInv, TypeOK, BackgroundOrOff
  <2> QED BY <2>1, <2>2, OtherStep
<1>2. CASE NoFrame(r)
  <2>1. try_get_cloud' \in [Radars -> 0 .. MaxRetry + 1]
    BY <1>2, AcquirerAssumption DEF NoFrame, TimedOut, AcquirerInv, TypeOK
  <2>2. TypeOK' /\ UNCHANGED perFrame
    BY <1>2, <2>1 DEF NoFrame, Goto, frozen, perFrame, AcquirerInv, TypeOK, Points
  <2>3. BackgroundOrOff'
    BY <1>2 DEF NoFrame, Goto, AcquirerInv, TypeOK, BackgroundOrOff
  <2> QED BY <2>2, <2>3, OtherStep
<1>3. ASSUME NEW u \in BOOLEAN, FrameReady(r, u) PROVE AcquirerInv'
  <2>1. try_get_cloud' \in [Radars -> 0 .. MaxRetry + 1] /\ frames' \in 0 .. MaxFrames
    BY <1>3, AcquirerAssumption DEF FrameReady, AcquirerInv, TypeOK
  <2>2. TypeOK' /\ UNCHANGED perFrame
    BY <1>3, <2>1 DEF FrameReady, Goto, frozen, perFrame, AcquirerInv, TypeOK, Points
  <2>3. BackgroundOrOff'
    BY <1>3 DEF FrameReady, Goto, AcquirerInv, TypeOK, BackgroundOrOff
  <2> QED BY <2>2, <2>3, OtherStep
<1>4. CASE Enqueue(r) \/ Dequeue(r)
  <2>1. qlen' \in [Radars -> 0 .. QueueBound]
    BY <1>4, AcquirerAssumption DEF Enqueue, Dequeue, AcquirerInv, TypeOK
  <2>2. pc' \in [Radars \cup Cameras -> Points]
    BY <1>4 DEF Enqueue, Dequeue, After, Goto, AcquirerInv, TypeOK, Points
  <2>3. TypeOK' /\ UNCHANGED perFrame
    BY <1>4, <2>1, <2>2 DEF Enqueue, Dequeue, frozen, perFrame, counters, AcquirerInv, TypeOK
  <2>4. BackgroundOrOff'
    BY <1>4 DEF Enqueue, Dequeue, Goto, AcquirerInv, TypeOK, BackgroundOrOff
  <2> QED BY <2>3, <2>4, OtherStep
<1> QED BY <1>1, <1>2, <1>3, <1>4

\* monitorShip
LEMMA MonitorNext ==
    ASSUME AcquirerInv, NEW r \in Radars, NEW f \in Frames, Monitored(r, f)
    PROVE  AcquirerInv'
<1> DEFINE g == Seen(r, f)
           h == center_history[r]
           w == recent[r]
           v == IF g \in {Empty, Small} THEN "SHIP_LEAVE" ELSE Verdict(h, g)
<1>1. g \in Frames
  BY DEF Seen, Frames
<1>2. /\ h \in Seq(Centres) /\ w \in Seq(Frames) /\ Len(h) <= StableCount /\ Len(w) <= StableCount
      /\ HistoryOf(h, w)
  BY DEF AcquirerInv, TypeOK, HistoryInv
<1>3. /\ History(h, g) \in Seq(Centres) /\ Len(History(h, g)) <= StableCount
      /\ LastFew(w, g) \in Seq(Frames) /\ Len(LastFew(w, g)) <= StableCount
      /\ HistoryOf(History(h, g), LastFew(w, g))
  BY <1>1, <1>2, MonitorFrame
<1>4. v \in {"SHIP_LEAVE", "SHIP_MOVING", "SHIP_STABLE"}
  BY DEF Verdict
<1>5. /\ center_history' = [center_history EXCEPT ![r] = History(h, g)]
      /\ recent' = [recent EXCEPT ![r] = LastFew(w, g)]
      /\ status' = [status EXCEPT ![r] = v]
      /\ ship_out' = [ship_out EXCEPT ![r] = TRUE]
      /\ pc[r] = "frame" /\ pc' = [pc EXCEPT ![r] = IF v = "SHIP_STABLE" THEN "choose" ELSE "loop"]
      /\ UNCHANGED <<frozen, ship_monitor, bg_ready, qlen, counters>>
  BY DEF Monitored, Goto
<1>6. v = "SHIP_STABLE" => g \in Centres /\ Verdict(h, g) = "SHIP_STABLE"
  BY <1>1, FrameKinds
<1> HIDE DEF g, h, w, v
<1>7. TypeOK'
  <2>1. /\ center_history' \in [Radars -> Seq(Centres)] /\ recent' \in [Radars -> Seq(Frames)]
        /\ status' \in [Radars -> {"SHIP_LEAVE", "SHIP_MOVING", "SHIP_STABLE"}]
        /\ ship_out' \in [Radars -> BOOLEAN] /\ pc' \in [Radars \cup Cameras -> Points]
    BY <1>3, <1>4, <1>5 DEF AcquirerInv, TypeOK, Points
  <2>2. \A q \in Radars : Len(center_history'[q]) <= StableCount /\ Len(recent'[q]) <= StableCount
    BY <1>3, <1>5 DEF AcquirerInv, TypeOK
  <2> QED BY <1>5, <2>1, <2>2 DEF AcquirerInv, TypeOK, frozen, counters
<1>8. BackgroundOrOff'
  BY <1>5 DEF AcquirerInv, TypeOK, BackgroundOrOff
<1>9. HistoryInv'
  <2> SUFFICES ASSUME NEW q \in Radars PROVE HistoryOf(center_history'[q], recent'[q])
    BY DEF HistoryInv, HistoryOf
  <2>1. CASE q = r
    BY <1>3, <1>5, <2>1 DEF AcquirerInv, TypeOK
  <2>2. CASE q # r
    BY <1>5, <2>2 DEF AcquirerInv, TypeOK, HistoryInv
  <2> QED BY <2>1, <2>2
<1>10. StableWindow'
  <2> SUFFICES ASSUME NEW q \in Radars, status'[q] = "SHIP_STABLE"
               PROVE  /\ Len(recent'[q]) = StableCount
                      /\ \A i \in DOMAIN recent'[q] : recent'[q][i] # Small
                      /\ (\A i \in DOMAIN recent'[q] : recent'[q][i] # Empty) =>
                            Distance(recent'[q][1], recent'[q][StableCount]) < StableDist
    BY DEF StableWindow, Distance
  <2>1. CASE q = r
    <3>1. recent'[q] = LastFew(w, g) /\ v = "SHIP_STABLE"
      BY <1>5, <2>1 DEF AcquirerInv, TypeOK
    <3> QED BY <1>2, <1>6, <3>1, StableVerdict
  <2>2. CASE q # r
    <3>1. recent'[q] = recent[q] /\ status[q] = "SHIP_STABLE"
      BY <1>5, <2>2 DEF AcquirerInv, TypeOK
    <3> QED BY <3>1 DEF AcquirerInv, StableWindow
  <2> QED BY <2>1, <2>2
<1> QED BY <1>7, <1>8, <1>9, <1>10 DEF AcquirerInv

\* The invariant holds from the constructor on.
LEMMA AcquirerInvariant == Spec => []AcquirerInv
<1>1. AcquirerInv /\ [Next]_vars => AcquirerInv'
  <2> SUFFICES ASSUME AcquirerInv, [Next]_vars PROVE AcquirerInv'
    OBVIOUS
  <2>1. ASSUME NEW r \in Radars, RadarLoop(r) \/ Dequeue(r) PROVE AcquirerInv'
    BY <2>1, InitNext, LoopNext, MonitorNext DEF RadarLoop
  <2>2. CASE UNCHANGED vars
    <3>1. TypeOK' /\ BackgroundOrOff' /\ UNCHANGED perFrame
      BY <2>2 DEF vars, perFrame, counters, AcquirerInv, TypeOK, BackgroundOrOff
    <3> QED BY <3>1, OtherStep
  <2> QED BY <2>1, <2>2, MainThreadNext, CameraNext DEF Next
<1> QED BY <1>1, AcquirerInit, PTL DEF Spec

-----------------------------------------------------------------------------
(* The theorems *)

\* Types and limits: the queues, MAX_RETRY_LIDAR and the window of centres.
THEOREM AcquirerTypeCorrect == Spec => []TypeOK
<1>1. AcquirerInv => TypeOK
  BY DEF AcquirerInv
<1> QED BY <1>1, AcquirerInvariant, PTL

\* However the radar threads and their failures to load a background
\* interleave, monitorShip is never called without one.
THEOREM NeverMonitorsBlind == Spec => []MonitorHasBackground
<1>1. AcquirerInv => MonitorHasBackground
  BY DEF AcquirerInv, BackgroundOrOff, MonitorHasBackground
<1> QED BY <1>1, AcquirerInvariant, PTL

\* What "stable" means in judgeShipStatus, for every window length and threshold:
\* less than the consecutive frames that lidar_bg_diff.h:99 asks for.
THEOREM StableMeansStable == Spec => []StableWindow
<1>1. AcquirerInv => StableWindow
  BY DEF AcquirerInv
<1> QED BY <1>1, AcquirerInvariant, PTL
=============================================================================
