---------------------------- MODULE FuserProofs ----------------------------
(***************************************************************************)
(* PointCloudFuser for every threshold, cache size, queue size and every   *)
(* pair of lidar streams whose timestamps do not run backwards.            *)
(***************************************************************************)
EXTENDS MCFuser, FiniteSetTheorems, TLAPS

-----------------------------------------------------------------------------
(* A lidar's stream, as the fuser sees it: cached frames c, queued frames  *)
(* q, and x, the timestamp of the newest frame delivered so far.           *)

Stream(c, q, x) == c \in Seq(Stamps) /\ q \in Seq(Stamps) /\ x \in Stamps

\* Timestamps rise along the cache, on into the queue, up to x.
Ordered(c, q, x) ==
    /\ \A i, j \in 1 .. Len(c) : i <= j => c[i] <= c[j]
    /\ \A i, j \in 1 .. Len(q) : i <= j => q[i] <= q[j]
    /\ \A i \in 1 .. Len(c), j \in 1 .. Len(q) : c[i] <= q[j]
    /\ \A i \in 1 .. Len(c) : c[i] <= x
    /\ \A i \in 1 .. Len(q) : q[i] <= x

\* Nothing in the stream, now or later, is older than m.
AtLeast(c, q, x, m) ==
    /\ \A i \in 1 .. Len(c) : m <= c[i]
    /\ \A i \in 1 .. Len(q) : m <= q[i]
    /\ m <= x

\* Erasing the oldest cached frame keeps a stream ordered, and what remains
\* is no older than that frame.
LEMMA EraseFront ==
    ASSUME NEW c, NEW q, NEW x, Stream(c, q, x), Ordered(c, q, x), c # <<>>
    PROVE  /\ Stream(Tail(c), q, x) /\ Ordered(Tail(c), q, x)
           /\ Len(Tail(c)) = Len(c) - 1
           /\ Head(c) \in Stamps
           /\ AtLeast(c, q, x, Head(c)) /\ AtLeast(Tail(c), q, x, Head(c))
           /\ \A m \in Int : AtLeast(c, q, x, m) => m <= Head(c) /\ AtLeast(Tail(c), q, x, m)
<1> USE FuserAssumption
<1>1. /\ Tail(c) \in Seq(Stamps) /\ Len(Tail(c)) = Len(c) - 1 /\ Len(c) \in Nat \ {0}
      /\ \A i \in 1 .. Len(c) - 1 : Tail(c)[i] = c[i + 1]
      /\ Head(c) = c[1] /\ c[1] \in Stamps
      /\ \A i \in 1 .. Len(c) : c[i] \in Stamps
      /\ Len(q) \in Nat /\ \A i \in 1 .. Len(q) : q[i] \in Stamps
  BY DEF Stream
<1>2. \A i \in 1 .. Len(c) - 1 : i + 1 \in 1 .. Len(c) /\ i \in Int
  BY <1>1
<1>3. Ordered(Tail(c), q, x)
  BY <1>1, <1>2 DEF Ordered, Stream, Stamps
<1>4. AtLeast(c, q, x, Head(c)) /\ AtLeast(Tail(c), q, x, Head(c))
  BY <1>1, <1>2 DEF Ordered, AtLeast, Stream, Stamps
<1>5. \A m \in Int : AtLeast(c, q, x, m) => m <= Head(c) /\ AtLeast(Tail(c), q, x, m)
  BY <1>1, <1>2 DEF AtLeast, Stream, Stamps
<1> QED BY <1>1, <1>3, <1>4, <1>5 DEF Stream

\* Appending one number at least as large as everything before it.
LEMMA AppendRises ==
    ASSUME NEW c \in Seq(Stamps), NEW y \in Stamps,
           \A i, j \in 1 .. Len(c) : i <= j => c[i] <= c[j],
           \A i \in 1 .. Len(c) : c[i] <= y
    PROVE  /\ Append(c, y) \in Seq(Stamps) /\ Append(c, y) # <<>>
           /\ Len(Append(c, y)) = Len(c) + 1 /\ Len(c) \in Nat
           /\ \A i \in 1 .. Len(c) + 1 :
                 \/ i \in 1 .. Len(c) /\ Append(c, y)[i] = c[i]
                 \/ i = Len(c) + 1 /\ Append(c, y)[i] = y
           /\ \A i, j \in 1 .. Len(c) + 1 : i <= j => Append(c, y)[i] <= Append(c, y)[j]
<1> DEFINE d == Append(c, y)
           n == Len(c)
<1>1. /\ d \in Seq(Stamps) /\ d # <<>> /\ Len(d) = n + 1 /\ n \in Nat
      /\ \A i \in 1 .. n : d[i] = c[i] /\ c[i] \in Stamps
      /\ d[n + 1] = y
  OBVIOUS
<1> HIDE DEF d
<1>2. \A i \in 1 .. n + 1 : (i \in 1 .. n /\ d[i] = c[i]) \/ (i = n + 1 /\ d[i] = y)
  BY <1>1
<1>3. ASSUME NEW i \in 1 .. n + 1, NEW j \in 1 .. n + 1, i <= j PROVE d[i] <= d[j]
  <2>1. CASE j \in 1 .. n
    BY <1>1, <1>3, <2>1
  <2>2. CASE j = n + 1
    <3>1. y \in Int
      BY FuserAssumption DEF Stamps
    <3> QED BY <1>1, <1>2, <2>2, <3>1
  <2> QED BY <1>1, <2>1, <2>2
<1> QED BY <1>1, <1>2, <1>3 DEF d

\* A newly delivered frame, not older than the last one, keeps the order.
LEMMA Deliver ==
    ASSUME NEW c, NEW q, NEW x, Stream(c, q, x), Ordered(c, q, x),
           NEW y \in Stamps, y >= x
    PROVE  /\ Stream(c, Append(q, y), y) /\ Ordered(c, Append(q, y), y)
           /\ \A m \in Int : AtLeast(c, q, x, m) => AtLeast(c, Append(q, y), y, m)
<1> USE FuserAssumption
<1> DEFINE e == Append(q, y)
<1>0. /\ \A i \in 1 .. Len(c) : c[i] \in Stamps
      /\ \A i \in 1 .. Len(q) : q[i] \in Stamps
      /\ Len(c) \in Nat
  BY DEF Stream
<1>a. x \in Int /\ y \in Int
  BY DEF Stream, Stamps
<1>b. /\ \A i \in 1 .. Len(c) : c[i] \in Int
      /\ \A i \in 1 .. Len(q) : q[i] \in Int
  BY <1>0 DEF Stamps
<1>1. /\ e \in Seq(Stamps) /\ Len(e) = Len(q) + 1 /\ Len(q) \in Nat
      /\ \A i \in 1 .. Len(q) + 1 :
            (i \in 1 .. Len(q) /\ e[i] = q[i]) \/ (i = Len(q) + 1 /\ e[i] = y)
      /\ \A i, j \in 1 .. Len(q) + 1 : i <= j => e[i] <= e[j]
  <2>1. \A i \in 1 .. Len(q) : q[i] <= y
    BY <1>a, <1>b DEF Ordered
  <2> QED BY <2>1, AppendRises DEF Stream, Ordered
<1> HIDE DEF e
<1>2. Ordered(c, e, y)
  <2>1. \A i \in 1 .. Len(c) : c[i] <= y
    BY <1>a, <1>b DEF Ordered
  <2>2. \A i \in 1 .. Len(e) : e[i] <= y
    BY <1>a, <1>b, <1>1 DEF Ordered
  <2>3. \A i \in 1 .. Len(c), j \in 1 .. Len(e) : c[i] <= e[j]
    BY <1>0, <1>1, <2>1 DEF Ordered
  <2> QED BY <1>1, <2>1, <2>2, <2>3 DEF Ordered
<1>3. \A m \in Int : AtLeast(c, q, x, m) => AtLeast(c, e, y, m)
  BY <1>a, <1>b, <1>1 DEF AtLeast
<1> QED BY <1>1, <1>2, <1>3 DEF Stream, e

\* Moving the oldest queued frame to the cache keeps the order.
LEMMA Move ==
    ASSUME NEW c, NEW q, NEW x, Stream(c, q, x), Ordered(c, q, x), q # <<>>
    PROVE  /\ Stream(Append(c, Head(q)), Tail(q), x)
           /\ Ordered(Append(c, Head(q)), Tail(q), x)
           /\ Append(c, Head(q)) # <<>>
           /\ Len(Append(c, Head(q))) = Len(c) + 1
           /\ Len(Tail(q)) = Len(q) - 1
           /\ \A m \in Int : AtLeast(c, q, x, m) => AtLeast(Append(c, Head(q)), Tail(q), x, m)
<1> USE FuserAssumption
<1> DEFINE d == Append(c, Head(q))
<1>1. /\ Tail(q) \in Seq(Stamps) /\ Len(Tail(q)) = Len(q) - 1 /\ Len(q) \in Nat \ {0}
      /\ \A i \in 1 .. Len(q) - 1 : Tail(q)[i] = q[i + 1]
      /\ Head(q) = q[1] /\ q[1] \in Stamps
      /\ \A i \in 1 .. Len(q) : q[i] \in Stamps
  BY DEF Stream
<1>2. /\ Len(c) \in Nat
      /\ \A i \in 1 .. Len(c) : c[i] \in Stamps
  BY DEF Stream
<1>3. /\ d \in Seq(Stamps) /\ d # <<>> /\ Len(d) = Len(c) + 1
      /\ \A i \in 1 .. Len(c) + 1 :
            (i \in 1 .. Len(c) /\ d[i] = c[i]) \/ (i = Len(c) + 1 /\ d[i] = q[1])
      /\ \A i, j \in 1 .. Len(c) + 1 : i <= j => d[i] <= d[j]
  <2>1. \A i \in 1 .. Len(c) : c[i] <= q[1]
    BY <1>1 DEF Ordered
  <2> QED BY <1>1, <2>1, AppendRises DEF Stream, Ordered
<1>4. \A i \in 1 .. Len(q) - 1 : i + 1 \in 1 .. Len(q) /\ i \in Int /\ 1 \in 1 .. Len(q)
  BY <1>1
<1>5. 1 \in 1 .. Len(q)
  BY <1>1
<1> HIDE DEF d
<1>6. Ordered(d, Tail(q), x)
  <2>1. \A i, j \in 1 .. Len(Tail(q)) : i <= j => Tail(q)[i] <= Tail(q)[j]
    BY <1>1, <1>4 DEF Ordered
  <2>2. \A j \in 1 .. Len(Tail(q)) : q[1] <= Tail(q)[j] /\ Tail(q)[j] <= x
    BY <1>1, <1>4 DEF Ordered
  <2>3. \A i \in 1 .. Len(d), j \in 1 .. Len(Tail(q)) : d[i] <= Tail(q)[j]
    BY <1>1, <1>2, <1>3, <1>4, <2>2 DEF Ordered
  <2>4. \A i \in 1 .. Len(d) : d[i] <= x
    BY <1>1, <1>3, <1>5 DEF Ordered
  <2> QED BY <1>3, <2>1, <2>2, <2>3, <2>4 DEF Ordered
<1>7. \A m \in Int : AtLeast(c, q, x, m) => AtLeast(d, Tail(q), x, m)
  <2> SUFFICES ASSUME NEW m \in Int, AtLeast(c, q, x, m) PROVE AtLeast(d, Tail(q), x, m)
    OBVIOUS
  <2>1. \A i \in 1 .. Len(d) : m <= d[i]
    BY <1>3, <1>5 DEF AtLeast
  <2>2. \A i \in 1 .. Len(Tail(q)) : m <= Tail(q)[i]
    BY <1>1, <1>4 DEF AtLeast
  <2> QED BY <2>1, <2>2 DEF AtLeast
<1> QED BY <1>1, <1>3, <1>6, <1>7 DEF Stream, d

-----------------------------------------------------------------------------
(* The inductive invariant.  StreamInv: both streams are ordered.  PendInv *)
(* ties the frame being enqueued to the front of the caches, so that       *)
(* erasing them later erases what was output.  OutInv: one of the two      *)
(* streams has nothing older than the last output, and a frame about to be *)
(* output alone is not older either, because the last frame of the other   *)
(* lidar was erased for being older than it.                               *)

StreamInv == \A l \in Lidars : Ordered(cache[l], qIn[l], last[l])

PendFits ==
    \/ /\ pend.src = "AB" /\ BothCached
       /\ pend.ts = Later(Head(cache["A"]), Head(cache["B"]))
    \/ /\ pend.src = "A" /\ cache["A"] # <<>> /\ pend.ts = Head(cache["A"])
    \/ /\ pend.src = "B" /\ cache["B"] # <<>> /\ pend.ts = Head(cache["B"])

PendInv == pc \in {"emit", "retry"} => matched /\ PendFits

OutInv ==
    /\ \E l \in Lidars : AtLeast(cache[l], qIn[l], last[l], lastOut)
    /\ pc = "match" /\ ~matched =>
          \A l \in Lidars : cache[Other(l)] = <<>> /\ cache[l] # <<>> => lastOut <= Head(cache[l])
    /\ pc \in {"emit", "retry"} => lastOut <= pend.ts

FuserInv == TypeOK /\ StreamInv /\ PendInv /\ EveryPassOutputs /\ OutInv

\* What the type invariant says of one lidar's stream.
LEMMA StreamTyped ==
    ASSUME TypeOK, NEW l \in Lidars
    PROVE  Stream(cache[l], qIn[l], last[l]) /\ Len(cache[l]) \in Nat /\ Len(qIn[l]) \in Nat
  BY DEF TypeOK, Stream

\* Timestamps are integers, and so is -1.
LEMMA LastOutInt == ASSUME TypeOK PROVE lastOut \in Int
  BY FuserAssumption DEF TypeOK, Stamps

\* Before the first frame everything holds.
LEMMA FuserInit == Init => FuserInv
<1> SUFFICES ASSUME Init PROVE FuserInv
  OBVIOUS
<1>1. \A l \in Lidars : cache[l] = <<>> /\ qIn[l] = <<>> /\ last[l] = 0
  BY DEF Init
<1>2. 0 \in Stamps /\ <<>> \in Seq(Stamps) /\ Len(<<>>) = 0 /\ <<>> \in Seq(OutFrames)
  BY FuserAssumption DEF Stamps
<1>3. pend \in OutFrames
  BY <1>2 DEF Init, OutFrames
<1>4. TypeOK
  <2>1. /\ cache \in [Lidars -> Seq(Stamps)] /\ pass \in [Lidars -> Seq(Stamps)]
        /\ qIn \in [Lidars -> Seq(Stamps)] /\ last \in [Lidars -> Stamps]
        /\ sent \in [Lidars -> Nat] /\ qOut \in Seq(OutFrames)
    BY <1>2 DEF Init
  <2>2. /\ \A l \in Lidars : Len(cache[l]) <= MaxCacheFrame /\ Len(qIn[l]) <= QInBound
        /\ Len(qOut) <= QOutBound
    BY <1>1, <1>2, FuserAssumption DEF Init
  <2>3. /\ running \in BOOLEAN /\ matched \in BOOLEAN /\ hasError \in BOOLEAN
        /\ lastOut \in Stamps \cup {-1} /\ pairs \in Nat /\ pc = "init"
    BY DEF Init
  <2> QED BY <1>3, <2>1, <2>2, <2>3 DEF TypeOK
<1>5. StreamInv /\ OutInv
  <2>1. Ordered(<<>>, <<>>, 0) /\ AtLeast(<<>>, <<>>, 0, -1)
    BY <1>2 DEF Ordered, AtLeast
  <2>2. "A" \in Lidars /\ lastOut = -1 /\ pc = "init"
    BY DEF Init, Lidars
  <2> QED BY <1>1, <2>1, <2>2 DEF StreamInv, OutInv
<1>6. PendInv /\ EveryPassOutputs
  BY DEF Init, PendInv, EveryPassOutputs
<1> QED BY <1>4, <1>5, <1>6 DEF FuserInv

\* Steps that leave caches, input queues and the last output alone.
LEMMA StreamFrame ==
    ASSUME StreamInv, UNCHANGED <<cache, qIn, last>>
    PROVE  StreamInv'
  BY DEF StreamInv

\* dequeue into a cache: types, limits and order survive, nothing gets older.
LEMMA TakeKeeps ==
    ASSUME TypeOK, StreamInv, NEW l \in Lidars, TakeFrom(l), UNCHANGED last
    PROVE  /\ cache' \in [Lidars -> Seq(Stamps)] /\ qIn' \in [Lidars -> Seq(Stamps)]
           /\ \A k \in Lidars : Len(cache'[k]) <= MaxCacheFrame /\ Len(qIn'[k]) <= QInBound
           /\ StreamInv'
           /\ \A k \in Lidars : \A m \in Int : AtLeast(cache[k], qIn[k], last[k], m)
                  => AtLeast(cache'[k], qIn'[k], last'[k], m)
<1>1. CASE qIn[l] = <<>>
  BY <1>1 DEF TakeFrom, TypeOK, StreamInv
<1>2. CASE qIn[l] # <<>>
  <2> DEFINE c == cache[l]
             q == qIn[l]
             x == last[l]
             d == Append(c, Head(q))
  <2>1. /\ Stream(c, q, x) /\ Ordered(c, q, x) /\ q # <<>>
        /\ Len(c) \in Nat /\ Len(q) \in Nat
        /\ Len(c) <= MaxCacheFrame /\ Len(q) <= QInBound
    BY <1>2, StreamTyped DEF StreamInv, TypeOK
  <2>2. /\ cache' = [cache EXCEPT ![l] = Trim(d)]
        /\ qIn' = [qIn EXCEPT ![l] = Tail(q)]
    BY <1>2 DEF TakeFrom
  <2> HIDE DEF c, q, x
  <2>3. /\ Stream(d, Tail(q), x) /\ Ordered(d, Tail(q), x) /\ d # <<>>
        /\ Len(d) = Len(c) + 1 /\ Len(Tail(q)) = Len(q) - 1
        /\ \A m \in Int : AtLeast(c, q, x, m) => AtLeast(d, Tail(q), x, m)
    BY <2>1, Move
  <2> HIDE DEF d
  <2>4. /\ Stream(Tail(d), Tail(q), x) /\ Ordered(Tail(d), Tail(q), x)
        /\ Len(Tail(d)) = Len(d) - 1
        /\ \A m \in Int : AtLeast(d, Tail(q), x, m) => AtLeast(Tail(d), Tail(q), x, m)
    BY <2>3, EraseFront
  <2>5. /\ Stream(Trim(d), Tail(q), x) /\ Ordered(Trim(d), Tail(q), x)
        /\ Len(Trim(d)) <= MaxCacheFrame
        /\ \A m \in Int : AtLeast(c, q, x, m) => AtLeast(Trim(d), Tail(q), x, m)
    BY <2>1, <2>3, <2>4, FuserAssumption DEF Trim
  <2>6. Len(Tail(q)) <= QInBound
    BY <2>1, <2>3, FuserAssumption
  <2>7. Trim(d) \in Seq(Stamps) /\ Tail(q) \in Seq(Stamps)
    BY <2>5 DEF Stream
  <2>8. /\ cache' \in [Lidars -> Seq(Stamps)] /\ qIn' \in [Lidars -> Seq(Stamps)]
        /\ cache'[l] = Trim(d) /\ qIn'[l] = Tail(q) /\ last'[l] = x
        /\ \A k \in Lidars \ {l} :
              cache'[k] = cache[k] /\ qIn'[k] = qIn[k] /\ last'[k] = last[k]
    BY <2>2, <2>7 DEF TypeOK, x
  <2>9. \A k \in Lidars : Len(cache'[k]) <= MaxCacheFrame /\ Len(qIn'[k]) <= QInBound
    BY <2>5, <2>6, <2>8 DEF TypeOK
  <2>10. StreamInv'
    BY <2>5, <2>8 DEF StreamInv
  <2>11. \A k \in Lidars : \A m \in Int : AtLeast(cache[k], qIn[k], last[k], m)
            => AtLeast(cache'[k], qIn'[k], last'[k], m)
    BY <2>5, <2>8 DEF c, q, x
  <2> QED BY <2>8, <2>9, <2>10, <2>11
<1> QED BY <1>1, <1>2

\* Erasing front frames: types, limits and order survive, nothing gets older.
LEMMA EraseKeeps ==
    ASSUME TypeOK, StreamInv, UNCHANGED <<qIn, last>>, NEW E \in SUBSET Lidars,
           \A l \in E : cache[l] # <<>>,
           cache' = [l \in Lidars |-> IF l \in E THEN Tail(cache[l]) ELSE cache[l]]
    PROVE  /\ cache' \in [Lidars -> Seq(Stamps)]
           /\ \A l \in Lidars : Len(cache'[l]) <= MaxCacheFrame
           /\ StreamInv'
           /\ \A l \in Lidars : \A m \in Int : AtLeast(cache[l], qIn[l], last[l], m)
                  => AtLeast(cache'[l], qIn'[l], last'[l], m)
           /\ \A l \in E : AtLeast(cache'[l], qIn'[l], last'[l], Head(cache[l]))
<1>1. ASSUME NEW l \in Lidars
      PROVE  /\ cache'[l] \in Seq(Stamps) /\ Len(cache'[l]) <= MaxCacheFrame
             /\ Ordered(cache'[l], qIn'[l], last'[l])
             /\ \A m \in Int : AtLeast(cache[l], qIn[l], last[l], m)
                    => AtLeast(cache'[l], qIn'[l], last'[l], m)
             /\ l \in E => AtLeast(cache'[l], qIn'[l], last'[l], Head(cache[l]))
  <2>1. Stream(cache[l], qIn[l], last[l]) /\ Ordered(cache[l], qIn[l], last[l])
    BY StreamTyped DEF StreamInv
  <2>2. Len(cache[l]) \in Nat /\ Len(cache[l]) <= MaxCacheFrame
    BY StreamTyped DEF TypeOK
  <2>3. CASE l \in E
    <3> DEFINE c == cache[l]
               q == qIn[l]
               x == last[l]
    <3>1. cache'[l] = Tail(c) /\ qIn'[l] = q /\ last'[l] = x /\ c # <<>>
      BY <2>3
    <3> HIDE DEF c, q, x
    <3>2. /\ Stream(Tail(c), q, x) /\ Ordered(Tail(c), q, x) /\ Len(Tail(c)) = Len(c) - 1
          /\ AtLeast(Tail(c), q, x, Head(c))
          /\ \A m \in Int : AtLeast(c, q, x, m) => AtLeast(Tail(c), q, x, m)
      BY <2>1, <3>1, EraseFront DEF c, q, x
    <3>3. Len(Tail(c)) <= MaxCacheFrame
      BY <2>2, <3>2, FuserAssumption DEF c
    <3> QED BY <3>1, <3>2, <3>3 DEF Stream, c, q, x
  <2>4. CASE l \notin E
    BY <2>1, <2>2, <2>4 DEF Stream
  <2> QED BY <2>3, <2>4
<1>2. cache' \in [Lidars -> Seq(Stamps)]
  <2> DEFINE f(l) == IF l \in E THEN Tail(cache[l]) ELSE cache[l]
  <2>1. \A l \in Lidars : f(l) \in Seq(Stamps)
    BY <1>1
  <2> QED BY <2>1
<1> QED BY <1>1, <1>2 DEF StreamInv

-----------------------------------------------------------------------------
(* One lemma per group of steps. *)

\* The radar threads.
LEMMA RadarKeeps ==
    ASSUME FuserInv, NEW l \in Lidars, NEW ts \in Stamps, RadarEnqueue(l, ts)
    PROVE  FuserInv'
<1> USE DEF FuserInv
<1> DEFINE c == cache[l]
           q == qIn[l]
           x == last[l]
<1>1. /\ Stream(c, q, x) /\ Ordered(c, q, x) /\ ts >= x
      /\ Len(q) \in Nat /\ Len(q) < QInBound /\ q \in Seq(Stamps)
  BY StreamTyped DEF StreamInv, RadarEnqueue, Stream
<1>2. /\ qIn' = [qIn EXCEPT ![l] = Append(q, ts)] /\ last' = [last EXCEPT ![l] = ts]
      /\ sent' = [sent EXCEPT ![l] = sent[l] + 1]
      /\ UNCHANGED <<running, pc, cache, matched, pend, qOut, hasError, lastOut, pass, pairs>>
  BY DEF RadarEnqueue, history
<1> HIDE DEF c, q, x
<1>3. /\ Stream(c, Append(q, ts), ts) /\ Ordered(c, Append(q, ts), ts)
      /\ \A m \in Int : AtLeast(c, q, x, m) => AtLeast(c, Append(q, ts), ts, m)
  BY <1>1, Deliver
<1>4. Append(q, ts) \in Seq(Stamps) /\ Len(Append(q, ts)) <= QInBound
  BY <1>1, FuserAssumption
<1>5. /\ qIn' \in [Lidars -> Seq(Stamps)] /\ last' \in [Lidars -> Stamps]
      /\ sent' \in [Lidars -> Nat]
      /\ cache'[l] = c /\ qIn'[l] = Append(q, ts) /\ last'[l] = ts
      /\ \A k \in Lidars \ {l} :
            cache'[k] = cache[k] /\ qIn'[k] = qIn[k] /\ last'[k] = last[k]
  BY <1>2, <1>4 DEF TypeOK, c
<1>6. \A k \in Lidars : Len(cache'[k]) <= MaxCacheFrame /\ Len(qIn'[k]) <= QInBound
  BY <1>2, <1>4, <1>5 DEF TypeOK
<1>7. TypeOK'
  BY <1>2, <1>5, <1>6 DEF TypeOK
<1>8. StreamInv'
  BY <1>3, <1>5 DEF StreamInv
<1>9. \A k \in Lidars : AtLeast(cache[k], qIn[k], last[k], lastOut)
         => AtLeast(cache'[k], qIn'[k], last'[k], lastOut)
  BY <1>3, <1>5, LastOutInt DEF c, q, x
<1>10. OutInv'
  BY <1>2, <1>9 DEF OutInv
<1>11. PendInv' /\ EveryPassOutputs'
  BY <1>2 DEF PendInv, PendFits, BothCached, EveryPassOutputs
<1> QED BY <1>7, <1>8, <1>10, <1>11

\* Steps that touch neither caches nor inputs nor the last output: the
\* calculator's dequeue, start, stop, leaving the loop, ending a pass and
\* the two halves of a failed enqueue.
LEMMA ControlKeeps ==
    ASSUME FuserInv,
           \/ CalcDequeue \/ (\E loaded \in BOOLEAN : Start(loaded)) \/ Stop
           \/ Exit \/ EndPass \/ EmitFull \/ Retry
    PROVE  FuserInv'
<1> USE DEF FuserInv
<1>1. UNCHANGED <<cache, qIn, last, sent, lastOut, pass, pairs, matched, pend, hasError>>
  BY DEF CalcDequeue, Start, Stop, Exit, EndPass, EmitFull, Retry, history, inVars
<1>2. /\ pc' \in {"takeA", "failed", "done", "retry", "emit", pc}
      /\ pc' \in {"retry", "emit"} => pc \in {"retry", "emit"}
  BY DEF CalcDequeue, Start, Stop, Exit, EndPass, EmitFull, Retry
<1>3. running' \in BOOLEAN
  BY DEF CalcDequeue, Start, Stop, Exit, EndPass, EmitFull, Retry, TypeOK
<1>4. qOut' \in Seq(OutFrames) /\ Len(qOut') <= QOutBound
  <2>1. CASE CalcDequeue
    BY <2>1, FuserAssumption DEF CalcDequeue, TypeOK
  <2>2. CASE ~CalcDequeue
    BY <2>2 DEF Start, Stop, Exit, EndPass, EmitFull, Retry, TypeOK
  <2> QED BY <2>1, <2>2
<1>5. TypeOK'
  BY <1>1, <1>2, <1>3, <1>4 DEF TypeOK
<1>6. StreamInv'
  BY <1>1, StreamFrame
<1>7. PendInv' /\ EveryPassOutputs' /\ OutInv'
  BY <1>1, <1>2 DEF PendInv, PendFits, BothCached, EveryPassOutputs, OutInv
<1> QED BY <1>5, <1>6, <1>7

\* Filling the caches from the input queues.
LEMMA TakeStepKeeps ==
    ASSUME FuserInv, TakeA \/ TakeB
    PROVE  FuserInv'
<1> USE DEF FuserInv
<1>1. PICK l \in Lidars : TakeFrom(l)
  BY DEF TakeA, TakeB, Lidars
<1>2. UNCHANGED <<running, pend, qOut, hasError, sent, last, lastOut>>
  BY DEF TakeA, TakeB, history
<1>3. /\ cache' \in [Lidars -> Seq(Stamps)] /\ qIn' \in [Lidars -> Seq(Stamps)]
      /\ \A k \in Lidars : Len(cache'[k]) <= MaxCacheFrame /\ Len(qIn'[k]) <= QInBound
      /\ StreamInv'
      /\ \A k \in Lidars : \A m \in Int : AtLeast(cache[k], qIn[k], last[k], m)
             => AtLeast(cache'[k], qIn'[k], last'[k], m)
  BY <1>1, <1>2, TakeKeeps
<1>4. /\ pc' \in {"takeA", "takeB", "match"} /\ matched' \in BOOLEAN
      /\ pass' \in [Lidars -> Seq(Stamps)] /\ pairs' \in Nat
  <2>1. CASE TakeA
    BY <2>1 DEF TakeA, history, TypeOK
  <2>2. CASE TakeB
    <3>1. CASE \A k \in Lidars : Len(cache'[k]) > FrameCache
      <4>1. pc' = "match" /\ matched' = FALSE /\ pass' = cache' /\ pairs' = 0
        BY <2>2, <3>1, Zenon DEF TakeB
      <4> QED BY <1>3, <4>1
    <3>2. CASE ~\A k \in Lidars : Len(cache'[k]) > FrameCache
      BY <2>2, <3>2 DEF TakeB, TypeOK
    <3> QED BY <3>1, <3>2
  <2> QED BY <2>1, <2>2
<1>5. pc' = "match" => \A k \in Lidars : Len(cache'[k]) > FrameCache
  BY DEF TakeA, TakeB
<1>6. pc' = "match" => \A k \in Lidars : cache'[k] # <<>>
  BY <1>3, <1>5, FuserAssumption
<1>7. TypeOK'
  BY <1>2, <1>3, <1>4 DEF TypeOK
<1>8. PendInv' /\ EveryPassOutputs'
  BY <1>4, <1>6 DEF PendInv, EveryPassOutputs, Lidars
<1>9. OutInv'
  <2>1. \E k \in Lidars : AtLeast(cache'[k], qIn'[k], last'[k], lastOut')
    BY <1>2, <1>3, LastOutInt DEF OutInv
  <2>2. \A k \in Lidars : Other(k) \in Lidars
    BY DEF Lidars, Other
  <2> QED BY <1>4, <1>6, <2>1, <2>2 DEF OutInv
<1> QED BY <1>3, <1>7, <1>8, <1>9

\* Choosing what to output: a pair, or one lidar's frame alone.
LEMMA ChooseKeeps ==
    ASSUME FuserInv, Fuse \/ (\E l \in Lidars : Solo(l))
    PROVE  FuserInv'
<1> USE DEF FuserInv
<1>1. /\ UNCHANGED <<running, cache, qIn, sent, last, qOut, hasError, lastOut, pass>>
      /\ matched' = TRUE /\ pc' = "emit"
  BY DEF Fuse, Solo, inVars, history
<1>2. pend' \in OutFrames /\ PendFits' /\ lastOut <= pend'.ts /\ pairs' \in Nat
  <2>1. CASE Fuse
    <3> DEFINE a == Head(cache["A"])
               b == Head(cache["B"])
    <3>1. BothCached /\ pend' = [src |-> "AB", ts |-> Later(a, b)] /\ pairs' = pairs + 1
      BY <2>1 DEF Fuse
    <3>2. "A" \in Lidars /\ "B" \in Lidars
      BY DEF Lidars
    <3>3. /\ a \in Stamps
          /\ AtLeast(cache["A"], qIn["A"], last["A"], lastOut) => lastOut <= a
      BY <3>1, <3>2, StreamTyped, LastOutInt, EraseFront DEF BothCached, StreamInv
    <3>4. /\ b \in Stamps
          /\ AtLeast(cache["B"], qIn["B"], last["B"], lastOut) => lastOut <= b
      BY <3>1, <3>2, StreamTyped, LastOutInt, EraseFront DEF BothCached, StreamInv
    <3>5. lastOut <= a \/ lastOut <= b
      BY <3>3, <3>4 DEF OutInv, Lidars
    <3> HIDE DEF a, b
    <3>6. a \in Int /\ b \in Int
      BY <3>3, <3>4, FuserAssumption DEF Stamps
    <3>7. Later(a, b) \in Stamps
      BY <3>3, <3>4 DEF Later
    <3>8. lastOut <= Later(a, b)
      BY <3>5, <3>6, LastOutInt DEF Later
    <3>9. PendFits'
      BY <1>1, <3>1 DEF PendFits, BothCached, a, b
    <3> QED BY <3>1, <3>7, <3>8, <3>9 DEF OutFrames, TypeOK
  <2>2. ASSUME NEW l \in Lidars, Solo(l)
        PROVE  pend' \in OutFrames /\ PendFits' /\ lastOut <= pend'.ts /\ pairs' \in Nat
    <3>1. /\ pend' = [src |-> l, ts |-> Head(cache[l])] /\ UNCHANGED pairs
          /\ cache[l] # <<>> /\ cache[Other(l)] = <<>> /\ ~matched /\ pc = "match"
      BY <2>2 DEF Solo, SoloNow, history
    <3>2. Head(cache[l]) \in Stamps
      BY <3>1, StreamTyped DEF Stream
    <3>3. pend' \in OutFrames
      BY <3>1, <3>2 DEF OutFrames, Lidars
    <3>4. PendFits'
      BY <1>1, <3>1 DEF PendFits, Lidars
    <3>5. lastOut <= Head(cache[l])
      BY <3>1 DEF OutInv
    <3> QED BY <3>1, <3>3, <3>4, <3>5 DEF TypeOK
  <2> QED BY <2>1, <2>2
<1>3. TypeOK'
  BY <1>1, <1>2 DEF TypeOK
<1>4. StreamInv'
  BY <1>1, StreamFrame
<1>5. PendInv' /\ EveryPassOutputs' /\ OutInv'
  BY <1>1, <1>2 DEF PendInv, EveryPassOutputs, OutInv
<1> QED BY <1>3, <1>4, <1>5

\* Erasing the older of two frames that do not match.
LEMMA DropKeeps ==
    ASSUME FuserInv, DropOlder
    PROVE  FuserInv'
<1> USE DEF FuserInv
<1>1. /\ pc = "match" /\ BothCached /\ hasError' = TRUE
      /\ UNCHANGED <<running, pc, matched, pend, qIn, sent, last, qOut, lastOut, pass, pairs>>
  BY DEF DropOlder, inVars, history
<1>2. Older \in Lidars /\ \A l \in Lidars : cache[l] # <<>>
  BY <1>1 DEF Older, Lidars, BothCached
<1>3. cache' = [l \in Lidars |-> IF l \in {Older} THEN Tail(cache[l]) ELSE cache[l]]
  BY <1>2 DEF DropOlder, TypeOK
<1>4. /\ cache' \in [Lidars -> Seq(Stamps)]
      /\ \A l \in Lidars : Len(cache'[l]) <= MaxCacheFrame
      /\ StreamInv'
      /\ \A l \in Lidars : \A m \in Int : AtLeast(cache[l], qIn[l], last[l], m)
             => AtLeast(cache'[l], qIn'[l], last'[l], m)
  <2>1. {Older} \in SUBSET Lidars /\ \A l \in {Older} : cache[l] # <<>>
    BY <1>2
  <2>2. UNCHANGED <<qIn, last>>
    BY <1>1
  <2> QED BY <1>3, <2>1, <2>2, EraseKeeps
<1>5. TypeOK'
  BY <1>1, <1>4 DEF TypeOK
<1>6. PendInv'
  BY <1>1 DEF PendInv
<1> DEFINE k == Other(Older)
<1>7. /\ k \in Lidars /\ k # Older /\ cache'[k] = cache[k] /\ cache[k] # <<>>
      /\ \A l \in Lidars : l = k \/ l = Older
      /\ \A l \in Lidars : Other(l) = k => l = Older
      /\ Other(k) = Older
  BY <1>2, <1>3 DEF Other, Lidars
<1>8. EveryPassOutputs'
  BY <1>7 DEF EveryPassOutputs
<1>9. Head(cache[Older]) <= Head(cache[k])
  <2>1. Head(cache["A"]) \in Stamps /\ Head(cache["B"]) \in Stamps
    BY <1>1, StreamTyped DEF BothCached, Lidars, Stream
  <2>2. Head(cache["A"]) \in Int /\ Head(cache["B"]) \in Int
    BY <2>1, FuserAssumption DEF Stamps
  <2> QED BY <2>2 DEF Older, Other
<1> HIDE DEF k
<1>10. lastOut <= Head(cache[k])
  <2>1. /\ Head(cache[k]) \in Stamps
        /\ AtLeast(cache[k], qIn[k], last[k], lastOut) => lastOut <= Head(cache[k])
    BY <1>7, StreamTyped, LastOutInt, EraseFront DEF StreamInv
  <2>2. /\ Head(cache[Older]) \in Stamps
        /\ AtLeast(cache[Older], qIn[Older], last[Older], lastOut) => lastOut <= Head(cache[Older])
    BY <1>2, StreamTyped, LastOutInt, EraseFront DEF StreamInv
  <2>3. Head(cache[k]) \in Int /\ Head(cache[Older]) \in Int
    BY <2>1, <2>2, FuserAssumption DEF Stamps
  <2>4. lastOut <= Head(cache[k]) \/ lastOut <= Head(cache[Older])
    BY <1>7, <2>1, <2>2 DEF OutInv
  <2> QED BY <1>9, <2>3, <2>4, LastOutInt
<1>11. OutInv'
  <2>1. \E l \in Lidars : AtLeast(cache'[l], qIn'[l], last'[l], lastOut')
    BY <1>1, <1>4, LastOutInt DEF OutInv
  <2>2. ASSUME NEW l \in Lidars, cache'[Other(l)] = <<>>, cache'[l] # <<>>
        PROVE  lastOut' <= Head(cache'[l])
    <3>1. CASE l = k
      BY <1>1, <1>7, <1>10, <3>1
    <3>2. CASE l = Older
      <4>1. Other(l) = k
        BY <3>2 DEF k
      <4> QED BY <1>7, <2>2, <4>1
    <3> QED BY <1>7, <3>1, <3>2
  <2> QED BY <1>1, <2>1, <2>2 DEF OutInv
<1> QED BY <1>4, <1>5, <1>6, <1>8, <1>11

\* Erasing what made pend, after it was output (done) or given up.
LEMMA ReleaseKeeps ==
    ASSUME FuserInv, pc \in {"emit", "retry"}, Release,
           UNCHANGED <<running, matched, pend, qIn, sent, last, hasError, pass, pairs>>,
           qOut' \in Seq(OutFrames), Len(qOut') <= QOutBound,
           lastOut' = lastOut \/ lastOut' = pend.ts
    PROVE  FuserInv' /\ lastOut' >= lastOut
<1> USE DEF FuserInv
<1> DEFINE E == {l \in Lidars : pend.src \in {"AB", l}}
<1>1. /\ matched /\ PendFits /\ lastOut <= pend.ts
      /\ pend.src \in {"AB", "A", "B"} /\ pend.ts \in Stamps
  BY DEF PendInv, OutInv, TypeOK, OutFrames
<1>2. /\ E \in SUBSET Lidars /\ \A l \in E : cache[l] # <<>>
      /\ cache' = [l \in Lidars |-> IF l \in E THEN Tail(cache[l]) ELSE cache[l]]
  BY <1>1 DEF PendFits, BothCached, Release, Lidars
<1>3. \E l \in E : pend.ts = Head(cache[l])
  BY <1>1 DEF PendFits, Later, Lidars
<1>4. pc' \in {"match", "takeA"}
  BY DEF Release
<1> HIDE DEF E
<1>5. /\ cache' \in [Lidars -> Seq(Stamps)]
      /\ \A l \in Lidars : Len(cache'[l]) <= MaxCacheFrame
      /\ StreamInv'
      /\ \A l \in Lidars : \A m \in Int : AtLeast(cache[l], qIn[l], last[l], m)
             => AtLeast(cache'[l], qIn'[l], last'[l], m)
      /\ \A l \in E : AtLeast(cache'[l], qIn'[l], last'[l], Head(cache[l]))
  BY <1>2, EraseKeeps
<1>6. TypeOK'
  BY <1>1, <1>4, <1>5 DEF TypeOK
<1>7. PendInv' /\ EveryPassOutputs'
  BY <1>1, <1>4 DEF PendInv, EveryPassOutputs
<1>8. \E l \in Lidars : AtLeast(cache'[l], qIn'[l], last'[l], lastOut')
  <2>1. CASE lastOut' = lastOut
    BY <1>5, <2>1, LastOutInt DEF OutInv
  <2>2. CASE lastOut' = pend.ts
    BY <1>2, <1>3, <1>5, <2>2
  <2> QED BY <2>1, <2>2
<1>9. OutInv'
  BY <1>1, <1>4, <1>8 DEF OutInv
<1>10. lastOut' >= lastOut
  <2>1. pend.ts \in Int
    BY <1>1, FuserAssumption DEF Stamps
  <2> QED BY <1>1, <2>1, LastOutInt
<1> QED BY <1>5, <1>6, <1>7, <1>9, <1>10

\* A successful enqueue, or the give-up after stop().
LEMMA EmitKeeps ==
    ASSUME FuserInv, Emit \/ GiveUp
    PROVE  FuserInv' /\ lastOut' >= lastOut
<1> USE DEF FuserInv
<1>1. /\ pc \in {"emit", "retry"} /\ Release
      /\ UNCHANGED <<running, matched, pend, qIn, sent, last, hasError, pass, pairs>>
      /\ lastOut' = lastOut \/ lastOut' = pend.ts
  BY DEF Emit, GiveUp, inVars, history
<1>2. qOut' \in Seq(OutFrames) /\ Len(qOut') <= QOutBound
  <2>1. CASE Emit
    BY <2>1, FuserAssumption DEF Emit, TypeOK
  <2>2. CASE GiveUp
    BY <2>2 DEF GiveUp, TypeOK
  <2> QED BY <2>1, <2>2
<1> QED BY <1>1, <1>2, ReleaseKeeps

\* Every step keeps the invariant and never lowers the last output.
LEMMA FuserNext == FuserInv /\ [Next]_vars => FuserInv' /\ lastOut' >= lastOut
<1> SUFFICES ASSUME FuserInv, [Next]_vars PROVE FuserInv' /\ lastOut' >= lastOut
  OBVIOUS
<1>0. lastOut \in Int
  BY LastOutInt DEF FuserInv
<1>1. ASSUME NEW l \in Lidars, NEW ts \in Stamps, RadarEnqueue(l, ts)
      PROVE  FuserInv' /\ lastOut' >= lastOut
  <2>1. lastOut' = lastOut
    BY <1>1 DEF RadarEnqueue, history
  <2> QED BY <1>0, <1>1, <2>1, RadarKeeps
<1>2. CASE \/ CalcDequeue \/ (\E loaded \in BOOLEAN : Start(loaded)) \/ Stop
           \/ Exit \/ EndPass \/ EmitFull \/ Retry
  <2>1. lastOut' = lastOut
    BY <1>2 DEF CalcDequeue, Start, Stop, Exit, EndPass, EmitFull, Retry, history
  <2> QED BY <1>0, <1>2, <2>1, ControlKeeps
<1>3. CASE TakeA \/ TakeB
  <2>1. lastOut' = lastOut
    BY <1>3 DEF TakeA, TakeB, history
  <2> QED BY <1>0, <1>3, <2>1, TakeStepKeeps
<1>4. CASE Fuse \/ (\E l \in Lidars : Solo(l))
  <2>1. lastOut' = lastOut
    BY <1>4 DEF Fuse, Solo, history
  <2> QED BY <1>0, <1>4, <2>1, ChooseKeeps
<1>5. CASE DropOlder
  <2>1. lastOut' = lastOut
    BY <1>5 DEF DropOlder, history
  <2> QED BY <1>0, <1>5, <2>1, DropKeeps
<1>6. CASE Emit \/ GiveUp
  BY <1>6, EmitKeeps
<1>7. CASE UNCHANGED vars
  <2>1. lastOut' = lastOut
    BY <1>7 DEF vars
  <2>2. FuserInv'
    BY <1>7 DEF FuserInv, TypeOK, StreamInv, PendInv, PendFits, BothCached,
                EveryPassOutputs, OutInv, vars
  <2> QED BY <1>0, <2>1, <2>2
<1> QED BY <1>1, <1>2, <1>3, <1>4, <1>5, <1>6, <1>7 DEF Next, FuseLoop

\* An erased mismatched frame is out of reach of everything the other lidar
\* has cached or queued: the other stream only rises from its front.
LEMMA DropIsSafe ==
    ASSUME FuserInv, [Next]_vars, NEW l \in Lidars, pc = "match", cache'[l] # cache[l],
           NEW t \in Elems(cache[Other(l)]) \cup Elems(qIn[Other(l)])
    PROVE  Diff(Head(cache[l]), t) >= MatchNs
<1> USE DEF FuserInv
<1>1. DropOlder
  <2>1. ~(TakeA \/ TakeB \/ Emit \/ GiveUp)
    BY DEF TakeA, TakeB, Emit, GiveUp
  <2>2. cache' # cache
    OBVIOUS
  <2> QED BY <2>1, <2>2 DEF Next, FuseLoop, vars, RadarEnqueue, CalcDequeue, Start, Stop, Exit, Fuse,
                            Solo, EndPass, EmitFull, Retry
<1> DEFINE k == Other(l)
<1>2. /\ l = Older /\ k \in Lidars /\ cache["A"] # <<>> /\ cache["B"] # <<>>
      /\ Diff(Head(cache["A"]), Head(cache["B"])) >= MatchNs
  BY <1>1 DEF DropOlder, TypeOK, Other, Lidars, BothCached, Older
<1>3. cache[k] # <<>> /\ cache[l] # <<>>
  BY <1>2 DEF Lidars
<1>4. AtLeast(cache[k], qIn[k], last[k], Head(cache[k])) /\ Head(cache[k]) \in Stamps
  BY <1>2, <1>3, StreamTyped, EraseFront DEF StreamInv
<1>5. Head(cache[l]) \in Stamps
  BY <1>3, StreamTyped DEF Stream
<1>6. /\ Head(cache[k]) \in Int /\ Head(cache[l]) \in Int
  BY <1>4, <1>5, FuserAssumption DEF Stamps
<1>7. t \in Int /\ Head(cache[k]) <= t
  <2>1. cache[k] \in Seq(Stamps) /\ qIn[k] \in Seq(Stamps)
    BY <1>2, StreamTyped DEF Stream
  <2>2. t \in Stamps
    BY <2>1 DEF Elems
  <2>3. Head(cache[k]) <= t
    BY <1>4, <2>1 DEF Elems, AtLeast
  <2> QED BY <2>2, <2>3, FuserAssumption DEF Stamps
<1>8. Head(cache[l]) <= Head(cache[k]) /\ Diff(Head(cache[l]), Head(cache[k])) >= MatchNs
  BY <1>2, <1>6, FuserAssumption DEF Older, Other, Lidars, Diff
<1> QED BY <1>6, <1>7, <1>8, FuserAssumption DEF Diff

-----------------------------------------------------------------------------

\* Types and limits: the caches never hold more than MAX_CACHE_FRAME frames.
THEOREM FuserTypeCorrect == Spec => []TypeOK
<1>1. FuserInv => TypeOK
  BY DEF FuserInv
<1>2. FuserInv /\ [Next]_vars => FuserInv'
  BY FuserNext
<1> QED BY <1>1, <1>2, FuserInit, PTL DEF Spec

\* A pass over full caches always outputs something.
THEOREM PassesOutput == Spec => []EveryPassOutputs
<1>1. FuserInv => EveryPassOutputs
  BY DEF FuserInv
<1>2. FuserInv /\ [Next]_vars => FuserInv'
  BY FuserNext
<1> QED BY <1>1, <1>2, FuserInit, PTL DEF Spec

\* The calculator receives frames in the order of their timestamps, for all
\* thresholds, limits and lidar streams.
THEOREM FuserOutputMonotone == Spec => OutputMonotone
<1>1. FuserInv /\ [Next]_vars => FuserInv' /\ [lastOut' >= lastOut]_vars
  BY FuserNext
<1> QED BY <1>1, FuserInit, PTL DEF Spec, OutputMonotone

\* No frame that could still be paired is erased as mismatched.
THEOREM FuserNoMatchableDrop == Spec => NoMatchableDrop
<1>1. FuserInv /\ [Next]_vars =>
        /\ FuserInv'
        /\ [\A l \in Lidars : pc = "match" /\ cache'[l] # cache[l] =>
               \A t \in Elems(cache[Other(l)]) \cup Elems(qIn[Other(l)]) :
                  Diff(Head(cache[l]), t) >= MatchNs]_vars
  BY FuserNext, DropIsSafe
<1> QED BY <1>1, FuserInit, PTL DEF Spec, NoMatchableDrop
-----------------------------------------------------------------------------
(* The gate of line 89 counts deliveries *)

\* Nothing is output before both lidars have delivered more than FRAME_CACHE
\* frames.  The comments at point_cloud_fuser.cpp:149-151 and :169-171 ("only A
\* has data: output A directly") promise a fallback for one lidar; it lies
\* behind the gate of line 89, so a lidar that is alone from the start is
\* never output.
OutputNeedsBoth == lastOut # -1 => \A l \in Lidars : sent[l] > FrameCache

\* A lidar's cached and queued frames have been delivered, and a pass is under
\* way, or a frame was output, only once both lidars delivered enough.
Held(l) == Len(cache[l]) + Len(qIn[l])
CountInv == /\ \A l \in Lidars : Held(l) <= sent[l]
            /\ pc \in {"match", "emit", "retry"} => \A l \in Lidars : sent[l] > FrameCache
            /\ OutputNeedsBoth

\* The frames held are a number, no smaller than the cache.
LEMMA HeldNat == ASSUME TypeOK, NEW l \in Lidars
                 PROVE  Held(l) \in Nat /\ Len(cache[l]) \in Nat /\ Len(qIn[l]) \in Nat /\ Len(cache[l]) <= Held(l)
<1>1. Len(cache[l]) \in Nat /\ Len(qIn[l]) \in Nat
  BY DEF TypeOK
<1> QED BY <1>1 DEF Held, TypeOK

\* Taking a frame out of a nonempty queue into a cache adds none.
LEMMA Taking ==
    ASSUME NEW c \in Seq(Stamps), NEW q \in Seq(Stamps), q # <<>>
    PROVE  Len(Trim(Append(c, Head(q)))) + Len(Tail(q)) <= Len(c) + Len(q)
<1> DEFINE d == Append(c, Head(q))
<1>1. Head(q) \in Stamps /\ Len(Tail(q)) = Len(q) - 1 /\ Len(q) \in Nat /\ Len(c) \in Nat
  OBVIOUS
<1>2. d \in Seq(Stamps) /\ Len(d) = Len(c) + 1 /\ d # <<>>
  BY <1>1
<1>3. Len(Tail(d)) = Len(d) - 1
  BY <1>2
<1>4. Trim(d) = d \/ Trim(d) = Tail(d)
  BY DEF Trim
<1>5. Len(Trim(d)) <= Len(c) + 1 /\ Len(Trim(d)) \in Int
  BY <1>1, <1>2, <1>3, <1>4
<1> QED BY <1>1, <1>5

\* Dequeuing into a cache adds no frame to a lidar's stream.
LEMMA TakeCounts ==
    ASSUME TypeOK, NEW l \in Lidars, TakeFrom(l), NEW k \in Lidars
    PROVE  Held(k)' <= Held(k)
<1>0. Held(k) \in Nat
  BY HeldNat
<1>1. CASE qIn[l] = <<>> \/ k # l
  <2>1. cache'[k] = cache[k] /\ qIn'[k] = qIn[k]
    BY <1>1 DEF TakeFrom, TypeOK
  <2>2. Held(k)' = Held(k)
    BY <2>1 DEF Held
  <2> QED BY <1>0, <2>2
<1>2. CASE qIn[l] # <<>> /\ k = l
  <2>1. cache'[k] = Trim(Append(cache[k], Head(qIn[k]))) /\ qIn'[k] = Tail(qIn[k])
    BY <1>2 DEF TakeFrom, TypeOK
  <2>2. cache[k] \in Seq(Stamps) /\ qIn[k] \in Seq(Stamps) /\ qIn[k] # <<>>
    BY <1>2 DEF TypeOK
  <2>3. Len(Trim(Append(cache[k], Head(qIn[k])))) + Len(Tail(qIn[k])) <= Len(cache[k]) + Len(qIn[k])
    BY <2>2, Taking
  <2> QED BY <2>1, <2>3 DEF Held, TypeOK
<1> QED BY <1>1, <1>2

\* Erasing a front frame, or leaving the cache alone, adds none either.
LEMMA EraseCounts ==
    ASSUME TypeOK, NEW k \in Lidars, UNCHANGED qIn,
           cache'[k] = cache[k] \/ (cache[k] # <<>> /\ cache'[k] = Tail(cache[k]))
    PROVE  Held(k)' <= Held(k)
<1>1. Len(cache[k]) \in Nat /\ Len(qIn[k]) \in Nat
  BY DEF TypeOK
<1>2. cache[k] # <<>> => Len(Tail(cache[k])) = Len(cache[k]) - 1
  BY DEF TypeOK
<1>3. Len(cache'[k]) = Len(cache[k]) \/ Len(cache'[k]) = Len(cache[k]) - 1
  BY <1>2
<1> QED BY <1>1, <1>3 DEF Held, TypeOK

\* Every step keeps the count.
LEMMA CountNext == FuserInv /\ FuserInv' /\ CountInv /\ [Next]_vars => CountInv'
<1> SUFFICES ASSUME TypeOK, PendInv, TypeOK', CountInv, [Next]_vars PROVE CountInv'
  BY DEF FuserInv
<1>0. /\ FrameCache \in Nat /\ \A l \in Lidars : sent[l] \in Nat /\ sent'[l] \in Nat
      /\ \A l \in Lidars : Held(l) \in Nat
      /\ \A l \in Lidars : Held(l)' \in Nat /\ Len(cache'[l]) \in Nat /\ Len(cache'[l]) <= Held(l)'
  <2>1. \A l \in Lidars : Held(l)' \in Nat /\ Len(cache'[l]) \in Nat /\ Len(cache'[l]) <= Held(l)'
    <3> SUFFICES ASSUME NEW l \in Lidars
                 PROVE  Held(l)' \in Nat /\ Len(cache'[l]) \in Nat /\ Len(cache'[l]) <= Held(l)'
      OBVIOUS
    <3>1. cache'[l] \in Seq(Stamps) /\ qIn'[l] \in Seq(Stamps)
      BY DEF TypeOK
    <3>2. Len(cache'[l]) \in Nat /\ Len(qIn'[l]) \in Nat
      BY <3>1
    <3>3. \A a, b \in Nat : a + b \in Nat /\ a <= a + b
      OBVIOUS
    <3>4. Held(l)' = Len(cache'[l]) + Len(qIn'[l])
      BY DEF Held
    <3> QED BY <3>2, <3>3, <3>4, Zenon
  <2> QED BY <2>1, HeldNat, FuserAssumption DEF TypeOK
<1>1. ASSUME NEW l \in Lidars, NEW ts \in Stamps, RadarEnqueue(l, ts) PROVE CountInv'
  <2>1. sent' = [sent EXCEPT ![l] = sent[l] + 1] /\ UNCHANGED <<cache, pc, lastOut>>
    BY <1>1 DEF RadarEnqueue, history
  <2>2. qIn' = [qIn EXCEPT ![l] = Append(qIn[l], ts)] /\ Len(Append(qIn[l], ts)) = Len(qIn[l]) + 1
    BY <1>1 DEF RadarEnqueue, TypeOK
  <2>3. \A k \in Lidars : sent'[k] >= sent[k]
    <3>1. sent \in [Lidars -> Nat]
      BY DEF TypeOK
    <3> QED BY <2>1, <3>1
  <2>4. \A k \in Lidars : Held(k)' <= sent'[k]
    <3> SUFFICES ASSUME NEW k \in Lidars PROVE Held(k)' <= sent'[k]
      OBVIOUS
    <3>1. CASE k # l
      <4>1. Held(k)' = Held(k) /\ sent'[k] = sent[k]
        BY <2>1, <2>2, <3>1 DEF Held, TypeOK
      <4> QED BY <1>0, <4>1 DEF CountInv
    <3>2. CASE k = l
      <4>1. Len(qIn'[k]) = Len(qIn[k]) + 1 /\ cache'[k] = cache[k] /\ sent'[k] = sent[k] + 1
        BY <2>1, <2>2, <3>2 DEF TypeOK
      <4>2. Len(cache[k]) \in Nat /\ Len(qIn[k]) \in Nat
        BY HeldNat
      <4>3. Held(k)' = Held(k) + 1
        BY <4>1, <4>2 DEF Held, TypeOK
      <4> QED BY <1>0, <4>1, <4>3 DEF CountInv
    <3> QED BY <3>1, <3>2
  <2>5. (\A k \in Lidars : sent[k] > FrameCache) => \A k \in Lidars : sent'[k] > FrameCache
    BY <1>0, <2>3
  <2> QED BY <2>1, <2>4, <2>5 DEF CountInv, OutputNeedsBoth
<1>2. CASE TakeA
  <2>1. \A k \in Lidars : Held(k)' <= Held(k)
    BY <1>2, TakeCounts DEF TakeA, Lidars
  <2>2. UNCHANGED <<sent, lastOut>> /\ pc' = "takeB"
    BY <1>2 DEF TakeA, history
  <2> QED BY <1>0, <2>1, <2>2 DEF CountInv, OutputNeedsBoth
<1>3. CASE TakeB
  <2>1. \A k \in Lidars : Held(k)' <= Held(k)
    BY <1>3, TakeCounts DEF TakeB, Lidars
  <2>2. UNCHANGED <<sent, lastOut>>
    BY <1>3 DEF TakeB
  <2>3. \A k \in Lidars : Held(k)' <= sent'[k]
    BY <1>0, <2>1, <2>2 DEF CountInv
  <2>4. pc' = "takeA" \/ \A k \in Lidars : Len(cache'[k]) > FrameCache
    BY <1>3 DEF TakeB
  <2>5. pc' \in {"match", "emit", "retry"} => \A k \in Lidars : sent'[k] > FrameCache
    BY <1>0, <2>3, <2>4
  <2> QED BY <2>2, <2>3, <2>5 DEF CountInv, OutputNeedsBoth
<1>4. ASSUME UNCHANGED sent,
             \A k \in Lidars : Held(k)' <= Held(k),
             pc' \in {"match", "emit", "retry"} => pc \in {"match", "emit", "retry"},
             lastOut' # lastOut => pc \in {"match", "emit", "retry"}
      PROVE  CountInv'
  BY <1>0, <1>4 DEF CountInv, OutputNeedsBoth
<1>5. CASE DropOlder
  <2>1. Older \in Lidars /\ cache' = [cache EXCEPT ![Older] = Tail(cache[Older])]
        /\ cache[Older] # <<>> /\ UNCHANGED <<qIn, sent, pc, lastOut>>
    BY <1>5 DEF DropOlder, Older, Lidars, BothCached, inVars, history
  <2>2. \A k \in Lidars : cache'[k] = cache[k] \/ (cache[k] # <<>> /\ cache'[k] = Tail(cache[k]))
    BY <2>1 DEF TypeOK
  <2>3. \A k \in Lidars : Held(k)' <= Held(k)
    BY <2>1, <2>2, EraseCounts
  <2> QED BY <1>4, <2>1, <2>3
<1>6. CASE Emit \/ GiveUp
  <2>1. Release /\ pc \in {"emit", "retry"} /\ UNCHANGED <<qIn, sent>>
    BY <1>6 DEF Emit, GiveUp, inVars
  <2>2. \A k \in Lidars : cache'[k] = cache[k] \/ (cache[k] # <<>> /\ cache'[k] = Tail(cache[k]))
    BY <2>1 DEF Release, PendInv, PendFits, BothCached, Lidars
  <2>3. \A k \in Lidars : Held(k)' <= Held(k)
    BY <2>1, <2>2, EraseCounts
  <2> QED BY <1>4, <2>1, <2>3
<1>7. CASE \/ CalcDequeue \/ (\E b \in BOOLEAN : Start(b)) \/ Stop \/ Exit \/ Fuse
           \/ (\E l \in Lidars : Solo(l)) \/ EndPass \/ EmitFull \/ Retry \/ UNCHANGED vars
  <2>1. UNCHANGED <<qIn, sent, cache, lastOut>>
    BY <1>7 DEF CalcDequeue, Start, Stop, Exit, Fuse, Solo, EndPass, EmitFull, Retry, vars, inVars, history
  <2>2. pc' \in {"match", "emit", "retry"} => pc \in {"match", "emit", "retry"}
    BY <1>7 DEF CalcDequeue, Start, Stop, Exit, Fuse, Solo, EndPass, EmitFull, Retry, vars
  <2>3. \A k \in Lidars : Held(k)' <= Held(k)
    BY <2>1, EraseCounts
  <2> QED BY <1>4, <2>1, <2>2, <2>3
<1> QED BY <1>1, <1>2, <1>3, <1>5, <1>6, <1>7 DEF Next, FuseLoop

\* The fallback for one lidar needs both: for every FRAME_CACHE and every cache
\* limit the gate of fuseLoop (point_cloud_fuser.cpp:89) keeps a lidar that is
\* alone from being output, contrary to the comments on the fallback.
THEOREM FallbackNeedsBoth == Spec => []OutputNeedsBoth
<1>1. Init => CountInv
  BY FuserAssumption DEF Init, CountInv, OutputNeedsBoth, Held
<1>2. CountInv => OutputNeedsBoth
  BY DEF CountInv
<1>3. FuserInv /\ [Next]_vars => FuserInv'
  BY FuserNext
<1> QED BY <1>1, <1>2, <1>3, FuserInit, CountNext, PTL DEF Spec

-----------------------------------------------------------------------------
(* PairingIsMaximum.  The loop consumes the front of two sorted sequences. *)
(* After it has gone past the first p frames of a and the first q of b and *)
(* made n pairs, Greedy says that n pairs could be made from what it went  *)
(* past, and that no choice of pairs beats those n by more than what can   *)
(* still be paired beyond p and q.                                         *)

Rising(s) == \A i, j \in 1 .. Len(s) : i <= j => s[i] <= s[j]

Within(a, b, p, q) == {m \in Matchings(a, b) : \A x \in m : x[1] <= p /\ x[2] <= q}

Beyond(a, b, p, q) == {m \in Matchings(a, b) : \A x \in m : x[1] > p /\ x[2] > q}

Greedy(a, b, p, q, n) ==
    /\ \E m \in Within(a, b, p, q) : Cardinality(m) = n
    /\ \A m \in Matchings(a, b) :
          \E k \in Beyond(a, b, p, q) : Cardinality(m) <= n + Cardinality(k)

\* A matching is a finite set of index pairs.
LEMMA MatchingFinite ==
    ASSUME NEW a \in Seq(Stamps), NEW b \in Seq(Stamps), NEW m \in Matchings(a, b)
    PROVE  IsFiniteSet(m) /\ Cardinality(m) \in Nat
<1>1. /\ DOMAIN a = 1 .. Len(a) /\ DOMAIN b = 1 .. Len(b)
      /\ Len(a) \in Nat /\ Len(b) \in Nat
  OBVIOUS
<1>2. IsFiniteSet(DOMAIN a) /\ IsFiniteSet(DOMAIN b)
  BY <1>1, FS_Interval
<1>3. IsFiniteSet((DOMAIN a) \X (DOMAIN b))
  BY <1>2, FS_Product
<1>4. m \in SUBSET ((DOMAIN a) \X (DOMAIN b))
  BY DEF Matchings
<1>5. IsFiniteSet(m)
  BY <1>3, <1>4, FS_Subset
<1> QED BY <1>5, FS_CardinalityType

\* What being a matching means, element by element.
LEMMA MatchingOf ==
    ASSUME NEW a \in Seq(Stamps), NEW b \in Seq(Stamps), NEW m \in Matchings(a, b)
    PROVE  /\ \A x \in m : /\ x = <<x[1], x[2]>>
                           /\ x[1] \in 1 .. Len(a) /\ x[2] \in 1 .. Len(b)
                           /\ Diff(a[x[1]], b[x[2]]) < MatchNs
           /\ \A x, y \in m : x[1] = y[1] => x = y
           /\ \A x, y \in m : x[2] = y[2] => x = y
<1>1. /\ m \subseteq (DOMAIN a) \X (DOMAIN b)
      /\ \A x \in m : Diff(a[x[1]], b[x[2]]) < MatchNs
      /\ \A x, y \in m : x # y => x[1] # y[1] /\ x[2] # y[2]
  BY DEF Matchings
<1>2. DOMAIN a = 1 .. Len(a) /\ DOMAIN b = 1 .. Len(b)
  OBVIOUS
<1> QED BY <1>1, <1>2

\* A frame of a sequence is an integer timestamp.
LEMMA StampAt ==
    ASSUME NEW s \in Seq(Stamps), NEW i \in 1 .. Len(s)
    PROVE  s[i] \in Int
<1>1. s[i] \in Stamps
  OBVIOUS
<1> QED BY <1>1, FuserAssumption DEF Stamps

\* Timestamps between two close ones and their partners are close.
LEMMA DiffBetween ==
    ASSUME NEW u \in Int, NEW v \in Int, NEW w \in Int, NEW z \in Int, u <= v, w <= z
    PROVE  /\ Diff(u, z) < MatchNs /\ Diff(v, w) < MatchNs => Diff(v, z) < MatchNs
           /\ Diff(u, w) >= MatchNs /\ u < w => Diff(u, z) >= MatchNs
           /\ Diff(u, w) >= MatchNs /\ ~(u < w) => Diff(v, w) >= MatchNs
           /\ Diff(v, z) < MatchNs => ~(Diff(v, z) >= MatchNs)
  BY FuserAssumption DEF Diff

\* Fewer pairs of a matching are a matching.
LEMMA SubMatching ==
    ASSUME NEW a, NEW b, NEW m \in Matchings(a, b), NEW k \in SUBSET m
    PROVE  k \in Matchings(a, b)
  BY DEF Matchings

\* Frames i of a and j of b are close; m uses neither; the pair added to m
Close(a, b, i, j) == Diff(a[i], b[j]) < MatchNs
Free(m, i, j) == \A x \in m : x[1] # i /\ x[2] # j
Add(m, i, j) == m \cup {<<i, j>>}

\* A matching grows by a close pair of frames that it does not use.
LEMMA GrowMatching ==
    ASSUME NEW a \in Seq(Stamps), NEW b \in Seq(Stamps), NEW m \in Matchings(a, b),
           NEW i \in 1 .. Len(a), NEW j \in 1 .. Len(b),
           Close(a, b, i, j), Free(m, i, j)
    PROVE  /\ Add(m, i, j) \in Matchings(a, b)
           /\ Cardinality(Add(m, i, j)) = Cardinality(m) + 1
<1> DEFINE e == <<i, j>>
<1>1. e[1] = i /\ e[2] = j /\ e \in (DOMAIN a) \X (DOMAIN b)
  OBVIOUS
<1> HIDE DEF e
<1>2. e \notin m
  BY <1>1 DEF Free
<1>3. Cardinality(m \cup {e}) = Cardinality(m) + 1
  BY <1>2, MatchingFinite, FS_AddElement
<1>4. m \cup {e} \in Matchings(a, b)
  <2>1. /\ m \subseteq (DOMAIN a) \X (DOMAIN b)
        /\ \A x \in m : Diff(a[x[1]], b[x[2]]) < MatchNs
        /\ \A x, y \in m : x # y => x[1] # y[1] /\ x[2] # y[2]
    BY DEF Matchings
  <2>2. m \cup {e} \in SUBSET ((DOMAIN a) \X (DOMAIN b))
    BY <1>1, <2>1
  <2>3. \A x \in m \cup {e} : Diff(a[x[1]], b[x[2]]) < MatchNs
    BY <1>1, <2>1 DEF Close
  <2>4. \A x, y \in m \cup {e} : x # y => x[1] # y[1] /\ x[2] # y[2]
    BY <1>1, <2>1 DEF Free
  <2> QED BY <2>2, <2>3, <2>4 DEF Matchings
<1> QED BY <1>3, <1>4 DEF e, Add

\* Nothing consumed, nothing paired.
LEMMA GreedyStarts ==
    ASSUME NEW a \in Seq(Stamps), NEW b \in Seq(Stamps)
    PROVE  Greedy(a, b, 0, 0, 0)
<1>1. {} \in Within(a, b, 0, 0) /\ Cardinality({}) = 0
  BY FS_EmptySet DEF Within, Matchings
<1>2. ASSUME NEW m \in Matchings(a, b)
      PROVE  m \in Beyond(a, b, 0, 0) /\ Cardinality(m) <= 0 + Cardinality(m)
  <2>1. \A x \in m : x[1] > 0 /\ x[2] > 0
    BY MatchingOf
  <2> QED BY <2>1, MatchingFinite DEF Beyond
<1> QED BY <1>1, <1>2 DEF Greedy

\* The exchange: what can be paired beyond p and q loses at most one pair when
\* both front frames are taken away.  If the fronts were paired with x and y,
\* then y and x lie between them, so they are close enough for each other.
LEMMA Exchange ==
    ASSUME NEW a \in Seq(Stamps), NEW b \in Seq(Stamps), Rising(a), Rising(b),
           NEW p \in 0 .. Len(a) - 1, NEW q \in 0 .. Len(b) - 1,
           NEW k \in Beyond(a, b, p, q)
    PROVE  \E k2 \in Beyond(a, b, p + 1, q + 1) : Cardinality(k) <= 1 + Cardinality(k2)
<1>0. k \in Matchings(a, b) /\ \A x \in k : x[1] > p /\ x[2] > q
  BY DEF Beyond
<1>1. /\ \A x \in k : /\ x = <<x[1], x[2]>>
                      /\ x[1] \in 1 .. Len(a) /\ x[2] \in 1 .. Len(b)
                      /\ Diff(a[x[1]], b[x[2]]) < MatchNs
      /\ \A x, y \in k : x[1] = y[1] => x = y
      /\ \A x, y \in k : x[2] = y[2] => x = y
  BY <1>0, MatchingOf
<1>2. IsFiniteSet(k) /\ Cardinality(k) \in Nat
  BY <1>0, MatchingFinite
<1>3. \A x \in k : (x[1] = p + 1 \/ x[1] > p + 1) /\ (x[2] = q + 1 \/ x[2] > q + 1)
  BY <1>0, <1>1
<1>4. ASSUME NEW e \in k, \A x \in k \ {e} : x[1] # p + 1 /\ x[2] # q + 1
      PROVE  \E k2 \in Beyond(a, b, p + 1, q + 1) : Cardinality(k) <= 1 + Cardinality(k2)
  <2>1. k \ {e} \in Matchings(a, b)
    BY <1>0, SubMatching
  <2>2. k \ {e} \in Beyond(a, b, p + 1, q + 1)
    BY <1>3, <1>4, <2>1 DEF Beyond
  <2>3. Cardinality(k \ {e}) = Cardinality(k) - 1
    BY <1>2, FS_RemoveElement
  <2>4. Cardinality(k) <= 1 + Cardinality(k \ {e})
    BY <1>2, <2>3
  <2> QED BY <2>2, <2>4
<1>5. CASE \A x \in k : x[1] # p + 1 /\ x[2] # q + 1
  <2>1. k \in Beyond(a, b, p + 1, q + 1)
    BY <1>0, <1>3, <1>5 DEF Beyond
  <2> QED BY <1>2, <2>1
<1>6. ASSUME NEW e \in k, e[1] = p + 1, \A x \in k : x[2] = q + 1 => x = e
      PROVE  \E k2 \in Beyond(a, b, p + 1, q + 1) : Cardinality(k) <= 1 + Cardinality(k2)
  BY <1>1, <1>4, <1>6
<1>7. ASSUME NEW e \in k, e[2] = q + 1, \A x \in k : x[1] = p + 1 => x = e
      PROVE  \E k2 \in Beyond(a, b, p + 1, q + 1) : Cardinality(k) <= 1 + Cardinality(k2)
  BY <1>1, <1>4, <1>7
<1>8. ASSUME NEW e \in k, NEW f \in k, e # f, e[1] = p + 1, f[2] = q + 1
      PROVE  \E k2 \in Beyond(a, b, p + 1, q + 1) : Cardinality(k) <= 1 + Cardinality(k2)
  <2> DEFINE y == f[1]
             x == e[2]
             r == (k \ {e}) \ {f}
  <2>1. y \in 1 .. Len(a) /\ x \in 1 .. Len(b) /\ y > p + 1 /\ x > q + 1
    BY <1>1, <1>3, <1>8
  <2>2. Diff(a[p + 1], b[x]) < MatchNs /\ Diff(a[y], b[q + 1]) < MatchNs
    BY <1>1, <1>8
  <2>3. \A z \in r : z[1] # y /\ z[2] # x
    BY <1>1
  <2>4. r \in Matchings(a, b)
    BY <1>0, SubMatching
  <2>5. Cardinality(r) = Cardinality(k) - 2
    <3>1. IsFiniteSet(k \ {e}) /\ Cardinality(k \ {e}) = Cardinality(k) - 1 /\ f \in k \ {e}
      BY <1>2, <1>8, FS_RemoveElement
    <3>2. Cardinality(r) = Cardinality(k \ {e}) - 1
      BY <3>1, FS_RemoveElement
    <3> QED BY <1>2, <3>1, <3>2
  <2>6. \A z \in r : z[1] > p + 1 /\ z[2] > q + 1
    BY <1>1, <1>3, <1>8
  <2> HIDE DEF y, x, r
  <2>7. Diff(a[y], b[x]) < MatchNs
    <3>1. Len(a) \in Nat /\ Len(b) \in Nat
      OBVIOUS
    <3>2. p + 1 \in 1 .. Len(a) /\ q + 1 \in 1 .. Len(b)
      BY <3>1
    <3>3. a[p + 1] \in Int /\ a[y] \in Int /\ b[q + 1] \in Int /\ b[x] \in Int
      BY <2>1, <3>2, StampAt
    <3>4. a[p + 1] <= a[y] /\ b[q + 1] <= b[x]
      BY <2>1, <3>1, <3>2 DEF Rising
    <3> QED BY <2>2, <3>3, <3>4, DiffBetween
  <2> DEFINE k2 == Add(r, y, x)
  <2>8. k2 \in Matchings(a, b) /\ Cardinality(k2) = Cardinality(r) + 1
    <3>1. Close(a, b, y, x) /\ Free(r, y, x)
      BY <2>3, <2>7 DEF Close, Free
    <3> QED BY <2>1, <2>4, <3>1, GrowMatching
  <2>9. \A z \in k2 : z[1] > p + 1 /\ z[2] > q + 1
    BY <2>1, <2>6 DEF Add
  <2> HIDE DEF k2
  <2>10. k2 \in Beyond(a, b, p + 1, q + 1)
    BY <2>8, <2>9 DEF Beyond
  <2>11. Cardinality(k) <= 1 + Cardinality(k2)
    BY <1>2, <2>5, <2>8
  <2> QED BY <2>10, <2>11
<1> QED BY <1>5, <1>6, <1>7, <1>8

\* Pairing two close front frames keeps the pairing as good as any.
LEMMA GreedyPairs ==
    ASSUME NEW a \in Seq(Stamps), NEW b \in Seq(Stamps), Rising(a), Rising(b),
           NEW p \in 0 .. Len(a) - 1, NEW q \in 0 .. Len(b) - 1, NEW n \in Nat,
           Greedy(a, b, p, q, n), Diff(a[p + 1], b[q + 1]) < MatchNs
    PROVE  Greedy(a, b, p + 1, q + 1, n + 1)
<1>0. Len(a) \in Nat /\ Len(b) \in Nat
  OBVIOUS
<1>1. p + 1 \in 1 .. Len(a) /\ q + 1 \in 1 .. Len(b)
  BY <1>0
<1>2. \E m \in Within(a, b, p + 1, q + 1) : Cardinality(m) = n + 1
  <2>1. PICK m \in Within(a, b, p, q) : Cardinality(m) = n
    BY DEF Greedy
  <2>2. m \in Matchings(a, b) /\ \A x \in m : x[1] <= p /\ x[2] <= q
    BY DEF Within
  <2>3. \A x \in m : x[1] \in Int /\ x[2] \in Int
    BY <2>2, MatchingOf
  <2>4. \A x \in m : x[1] # p + 1 /\ x[2] # q + 1 /\ x[1] <= p + 1 /\ x[2] <= q + 1
    BY <2>2, <2>3
  <2> DEFINE m2 == Add(m, p + 1, q + 1)
  <2>5. m2 \in Matchings(a, b) /\ Cardinality(m2) = n + 1
    <3>1. Close(a, b, p + 1, q + 1) /\ Free(m, p + 1, q + 1)
      BY <2>4 DEF Close, Free
    <3> QED BY <1>1, <2>1, <2>2, <3>1, GrowMatching
  <2>6. \A x \in m2 : x[1] <= p + 1 /\ x[2] <= q + 1
    BY <2>4 DEF Add
  <2> HIDE DEF m2
  <2> QED BY <2>5, <2>6 DEF Within
<1>3. ASSUME NEW m \in Matchings(a, b)
      PROVE  \E k \in Beyond(a, b, p + 1, q + 1) : Cardinality(m) <= (n + 1) + Cardinality(k)
  <2>1. PICK k \in Beyond(a, b, p, q) : Cardinality(m) <= n + Cardinality(k)
    BY DEF Greedy
  <2>2. PICK k2 \in Beyond(a, b, p + 1, q + 1) : Cardinality(k) <= 1 + Cardinality(k2)
    BY Exchange
  <2>3. k \in Matchings(a, b) /\ k2 \in Matchings(a, b)
    BY DEF Beyond
  <2>4. Cardinality(m) \in Nat /\ Cardinality(k) \in Nat /\ Cardinality(k2) \in Nat
    BY <2>3, MatchingFinite
  <2> QED BY <2>1, <2>2, <2>4
<1> QED BY <1>2, <1>3 DEF Greedy

\* Dropping a front frame that is older than everything left of the other
\* lidar, by at least MATCH_NS, costs no pair.
LEMMA GreedyDropsA ==
    ASSUME NEW a \in Seq(Stamps), NEW b \in Seq(Stamps), Rising(b),
           NEW p \in 0 .. Len(a) - 1, NEW q \in 0 .. Len(b) - 1, NEW n \in Nat,
           Greedy(a, b, p, q, n),
           Diff(a[p + 1], b[q + 1]) >= MatchNs, a[p + 1] < b[q + 1]
    PROVE  Greedy(a, b, p + 1, q, n)
<1>0. Len(a) \in Nat /\ Len(b) \in Nat
  OBVIOUS
<1>1. p + 1 \in 1 .. Len(a) /\ q + 1 \in 1 .. Len(b)
  BY <1>0
<1>2. \E m \in Within(a, b, p + 1, q) : Cardinality(m) = n
  <2>1. PICK m \in Within(a, b, p, q) : Cardinality(m) = n
    BY DEF Greedy
  <2>2. m \in Matchings(a, b) /\ \A x \in m : x[1] <= p /\ x[2] <= q
    BY DEF Within
  <2>3. \A x \in m : x[1] \in Int
    BY <2>2, MatchingOf
  <2>4. \A x \in m : x[1] <= p + 1 /\ x[2] <= q
    BY <2>2, <2>3
  <2> QED BY <2>1, <2>2, <2>4 DEF Within
<1>3. Beyond(a, b, p, q) \subseteq Beyond(a, b, p + 1, q)
  <2> SUFFICES ASSUME NEW k \in Beyond(a, b, p, q), NEW x \in k PROVE x[1] > p + 1
    BY DEF Beyond
  <2>1. k \in Matchings(a, b) /\ x[1] > p /\ x[2] > q
    BY DEF Beyond
  <2>2. /\ x[1] \in 1 .. Len(a) /\ x[2] \in 1 .. Len(b)
        /\ Diff(a[x[1]], b[x[2]]) < MatchNs
    BY <2>1, MatchingOf
  <2>3. a[p + 1] \in Int /\ b[q + 1] \in Int /\ b[x[2]] \in Int
    BY <1>1, <2>2, StampAt
  <2>4. b[q + 1] <= b[x[2]]
    BY <1>0, <1>1, <2>1, <2>2 DEF Rising
  <2>5. Diff(a[p + 1], b[x[2]]) >= MatchNs
    BY <2>3, <2>4, DiffBetween
  <2>6. ~(Diff(a[x[1]], b[x[2]]) >= MatchNs)
    <3>1. a[x[1]] \in Int
      BY <2>2, StampAt
    <3> QED BY <2>2, <2>3, <3>1, DiffBetween
  <2>7. x[1] # p + 1
    BY <2>5, <2>6
  <2> QED BY <2>1, <2>2, <2>7
<1> QED BY <1>2, <1>3 DEF Greedy

\* The same for the other lidar; a tie falls here, but a tie matches.
LEMMA GreedyDropsB ==
    ASSUME NEW a \in Seq(Stamps), NEW b \in Seq(Stamps), Rising(a),
           NEW p \in 0 .. Len(a) - 1, NEW q \in 0 .. Len(b) - 1, NEW n \in Nat,
           Greedy(a, b, p, q, n),
           Diff(a[p + 1], b[q + 1]) >= MatchNs, ~(a[p + 1] < b[q + 1])
    PROVE  Greedy(a, b, p, q + 1, n)
<1>0. Len(a) \in Nat /\ Len(b) \in Nat
  OBVIOUS
<1>1. p + 1 \in 1 .. Len(a) /\ q + 1 \in 1 .. Len(b)
  BY <1>0
<1>2. \E m \in Within(a, b, p, q + 1) : Cardinality(m) = n
  <2>1. PICK m \in Within(a, b, p, q) : Cardinality(m) = n
    BY DEF Greedy
  <2>2. m \in Matchings(a, b) /\ \A x \in m : x[1] <= p /\ x[2] <= q
    BY DEF Within
  <2>3. \A x \in m : x[2] \in Int
    BY <2>2, MatchingOf
  <2>4. \A x \in m : x[1] <= p /\ x[2] <= q + 1
    BY <2>2, <2>3
  <2> QED BY <2>1, <2>2, <2>4 DEF Within
<1>3. Beyond(a, b, p, q) \subseteq Beyond(a, b, p, q + 1)
  <2> SUFFICES ASSUME NEW k \in Beyond(a, b, p, q), NEW x \in k PROVE x[2] > q + 1
    BY DEF Beyond
  <2>1. k \in Matchings(a, b) /\ x[1] > p /\ x[2] > q
    BY DEF Beyond
  <2>2. /\ x[1] \in 1 .. Len(a) /\ x[2] \in 1 .. Len(b)
        /\ Diff(a[x[1]], b[x[2]]) < MatchNs
    BY <2>1, MatchingOf
  <2>3. a[p + 1] \in Int /\ b[q + 1] \in Int /\ a[x[1]] \in Int
    BY <1>1, <2>2, StampAt
  <2>4. a[p + 1] <= a[x[1]]
    BY <1>0, <1>1, <2>1, <2>2 DEF Rising
  <2>5. Diff(a[x[1]], b[q + 1]) >= MatchNs
    BY <2>3, <2>4, DiffBetween
  <2>6. ~(Diff(a[x[1]], b[x[2]]) >= MatchNs)
    <3>1. b[x[2]] \in Int
      BY <2>2, StampAt
    <3> QED BY <2>2, <2>3, <3>1, DiffBetween
  <2>7. x[2] # q + 1
    BY <2>5, <2>6
  <2> QED BY <2>1, <2>2, <2>7
<1> QED BY <1>2, <1>3 DEF Greedy

\* When one sequence is used up the pairs made are a maximum.
LEMMA GreedyEnds ==
    ASSUME NEW a \in Seq(Stamps), NEW b \in Seq(Stamps), NEW p, NEW q, NEW n \in Nat,
           p = Len(a) \/ q = Len(b), Greedy(a, b, p, q, n)
    PROVE  n = Max({Cardinality(m) : m \in Matchings(a, b)})
<1> DEFINE C == {Cardinality(m) : m \in Matchings(a, b)}
<1>1. n \in C
  BY DEF Greedy, Within
<1>2. ASSUME NEW m \in Matchings(a, b) PROVE Cardinality(m) <= n
  <2>1. PICK k \in Beyond(a, b, p, q) : Cardinality(m) <= n + Cardinality(k)
    BY DEF Greedy
  <2>2. k \in Matchings(a, b) /\ \A x \in k : x[1] > p /\ x[2] > q
    BY DEF Beyond
  <2>3. \A x \in k : x[1] \in 1 .. Len(a) /\ x[2] \in 1 .. Len(b)
    BY <2>2, MatchingOf
  <2>4. k = {}
    BY <2>2, <2>3
  <2> QED BY <2>1, <2>4, FS_EmptySet, MatchingFinite
<1>3. C \subseteq Nat
  BY MatchingFinite
<1>4. \A y \in C : n >= y
  BY <1>2, <1>3
<1> HIDE DEF C
<1>5. \E x \in C : \A y \in C : x >= y
  BY <1>1, <1>4
<1>6. Max(C) \in C /\ \A y \in C : Max(C) >= y
  BY <1>5 DEF Max
<1>7. Max(C) = n
  <2>1. n \in Nat /\ Max(C) \in Nat /\ n >= Max(C) /\ Max(C) >= n
    BY <1>1, <1>3, <1>4, <1>6
  <2> QED BY <2>1
<1> QED BY <1>7 DEF C

(* The invariant behind it: in a pass, the caches are what is left of the  *)
(* caches the pass began with, and the pairing made so far is Greedy.      *)
(* Between Fuse and Release the front frames count as consumed already.    *)

SuffixOf(c, s) == /\ Len(c) <= Len(s)
                  /\ \A i \in 1 .. Len(c) : c[i] = s[Len(s) - Len(c) + i]

Past(l) == Len(pass[l]) - Len(cache[l])

InPass == pc = "match" \/ (pc \in {"emit", "retry"} /\ pend.src = "AB")

FrontsPaired == IF pc = "match" THEN 0 ELSE 1

PairInv ==
    InPass =>
      /\ \A l \in Lidars : SuffixOf(cache[l], pass[l]) /\ Rising(pass[l])
      /\ Greedy(pass["A"], pass["B"], Past("A") + FrontsPaired, Past("B") + FrontsPaired, pairs)

\* The front of a non-empty suffix, and the suffix without it.
LEMMA SuffixFront ==
    ASSUME NEW c \in Seq(Stamps), NEW s \in Seq(Stamps), SuffixOf(c, s), c # <<>>
    PROVE  /\ Len(s) - Len(c) \in 0 .. Len(s) - 1
           /\ Head(c) = s[(Len(s) - Len(c)) + 1]
           /\ SuffixOf(Tail(c), s)
           /\ Len(s) - Len(Tail(c)) = (Len(s) - Len(c)) + 1
<1>1. /\ Tail(c) \in Seq(Stamps) /\ Len(Tail(c)) = Len(c) - 1 /\ Len(c) \in Nat \ {0}
      /\ \A i \in 1 .. Len(c) - 1 : Tail(c)[i] = c[i + 1]
      /\ Head(c) = c[1] /\ Len(s) \in Nat
  OBVIOUS
<1>2. Len(c) <= Len(s) /\ \A i \in 1 .. Len(c) : c[i] = s[(Len(s) - Len(c)) + i]
  BY DEF SuffixOf
<1>3. 1 \in 1 .. Len(c) /\ \A i \in 1 .. Len(c) - 1 : i + 1 \in 1 .. Len(c) /\ i \in Int
  BY <1>1
<1>4. Len(s) - Len(Tail(c)) = (Len(s) - Len(c)) + 1 /\ Len(Tail(c)) <= Len(s)
  BY <1>1, <1>2
<1>5. \A i \in 1 .. Len(c) - 1 : (Len(s) - Len(c)) + (i + 1) = (Len(s) - Len(Tail(c))) + i
  BY <1>1
<1>6. SuffixOf(Tail(c), s)
  <2> SUFFICES ASSUME NEW i \in 1 .. Len(Tail(c))
               PROVE  Tail(c)[i] = s[(Len(s) - Len(Tail(c))) + i]
    BY <1>4 DEF SuffixOf
  <2>1. i \in 1 .. Len(c) - 1
    BY <1>1
  <2>2. Tail(c)[i] = s[(Len(s) - Len(c)) + (i + 1)]
    BY <1>1, <1>2, <1>3, <2>1
  <2> QED BY <1>5, <2>1, <2>2
<1> QED BY <1>1, <1>2, <1>3, <1>4, <1>6

\* What the invariant gives a step of the pass.
LEMMA PairFacts ==
    ASSUME TypeOK, PairInv, pc = "match"
    PROVE  /\ \A l \in Lidars : /\ cache[l] \in Seq(Stamps) /\ pass[l] \in Seq(Stamps)
                                /\ SuffixOf(cache[l], pass[l]) /\ Rising(pass[l])
           /\ Greedy(pass["A"], pass["B"], Past("A"), Past("B"), pairs)
           /\ pairs \in Nat
<1>1. /\ \A l \in Lidars : SuffixOf(cache[l], pass[l]) /\ Rising(pass[l])
      /\ Greedy(pass["A"], pass["B"], Past("A") + 0, Past("B") + 0, pairs)
  BY DEF PairInv, InPass, FrontsPaired
<1>2. \A l \in Lidars : cache[l] \in Seq(Stamps) /\ pass[l] \in Seq(Stamps)
  BY DEF TypeOK
<1>3. Past("A") \in Int /\ Past("B") \in Int
  BY <1>2 DEF Past, Lidars
<1>4. Past("A") + 0 = Past("A") /\ Past("B") + 0 = Past("B")
  BY <1>3
<1>5. Greedy(pass["A"], pass["B"], Past("A"), Past("B"), pairs)
  BY <1>1, <1>4
<1> QED BY <1>1, <1>2, <1>5 DEF TypeOK

\* TakeB opens a pass: nothing consumed yet.
LEMMA PairTakeB ==
    ASSUME FuserInv', TakeB PROVE PairInv'
<1>1. CASE pc' = "takeA"
  BY <1>1 DEF PairInv, InPass
<1>2. CASE pc' # "takeA"
  <2>1. pc' = "match" /\ pass' = cache' /\ pairs' = 0
    BY <1>2 DEF TakeB
  <2>2. \A l \in Lidars : pass'[l] \in Seq(Stamps) /\ Ordered(cache'[l], qIn'[l], last'[l])
    BY DEF FuserInv, TypeOK, StreamInv
  <2>3. \A l \in Lidars : Rising(pass'[l]) /\ SuffixOf(cache'[l], pass'[l])
    <3> SUFFICES ASSUME NEW l \in Lidars PROVE Rising(pass'[l]) /\ SuffixOf(cache'[l], pass'[l])
      OBVIOUS
    <3>1. Len(pass'[l]) \in Nat /\ cache'[l] = pass'[l]
      BY <2>1, <2>2
    <3>2. Rising(pass'[l])
      BY <2>2, <3>1 DEF Ordered, Rising
    <3>3. Len(pass'[l]) - Len(pass'[l]) = 0 /\ \A i \in 1 .. Len(pass'[l]) : 0 + i = i
      BY <3>1
    <3> QED BY <3>1, <3>2, <3>3 DEF SuffixOf
  <2>4. Past("A")' = 0 /\ Past("B")' = 0 /\ FrontsPaired' = 0
    BY <2>1, <2>2 DEF Past, FrontsPaired, Lidars
  <2>5. Greedy(pass'["A"], pass'["B"], 0, 0, 0)
    BY <2>2, GreedyStarts DEF Lidars
  <2>6. Greedy(pass["A"], pass["B"], Past("A") + FrontsPaired, Past("B") + FrontsPaired, pairs)'
    <3>1. 0 + 0 = 0
      OBVIOUS
    <3> QED BY <2>1, <2>4, <2>5, <3>1
  <2> QED BY <2>3, <2>6 DEF PairInv
<1> QED BY <1>1, <1>2

\* Fuse pairs the two front frames.
LEMMA PairFuse ==
    ASSUME FuserInv, PairInv, Fuse PROVE PairInv'
<1>0. pc = "match" /\ cache["A"] # <<>> /\ cache["B"] # <<>> /\ TypeOK
  BY DEF Fuse, BothCached, FuserInv
<1>1. /\ \A l \in Lidars : /\ cache[l] \in Seq(Stamps) /\ pass[l] \in Seq(Stamps)
                           /\ SuffixOf(cache[l], pass[l]) /\ Rising(pass[l])
      /\ Greedy(pass["A"], pass["B"], Past("A"), Past("B"), pairs)
      /\ pairs \in Nat
  BY <1>0, PairFacts
<1>2. "A" \in Lidars /\ "B" \in Lidars
  BY DEF Lidars
<1>3. /\ Past("A") \in 0 .. Len(pass["A"]) - 1 /\ Head(cache["A"]) = pass["A"][Past("A") + 1]
      /\ Past("B") \in 0 .. Len(pass["B"]) - 1 /\ Head(cache["B"]) = pass["B"][Past("B") + 1]
  BY <1>0, <1>1, <1>2, SuffixFront DEF Past
<1>4. Diff(pass["A"][Past("A") + 1], pass["B"][Past("B") + 1]) < MatchNs
  BY <1>3 DEF Fuse
<1>5. Greedy(pass["A"], pass["B"], Past("A") + 1, Past("B") + 1, pairs + 1)
  BY <1>1, <1>2, <1>3, <1>4, GreedyPairs
<1>6. pc' = "emit" /\ pairs' = pairs + 1 /\ UNCHANGED <<cache, pass>>
  BY DEF Fuse
<1>7. Past("A")' = Past("A") /\ Past("B")' = Past("B") /\ FrontsPaired' = 1
  BY <1>6 DEF Past, FrontsPaired
<1>8. Greedy(pass["A"], pass["B"], Past("A") + FrontsPaired, Past("B") + FrontsPaired, pairs)'
  BY <1>5, <1>6, <1>7
<1> QED BY <1>1, <1>6, <1>8 DEF PairInv

\* A front frame erased, of lidar l: what is left of its cache.
LEMMA PairErase ==
    ASSUME NEW l \in Lidars, cache[l] \in Seq(Stamps), pass[l] \in Seq(Stamps),
           SuffixOf(cache[l], pass[l]), cache[l] # <<>>,
           cache'[l] = Tail(cache[l]), pass'[l] = pass[l]
    PROVE  Past(l)' = Past(l) + 1 /\ SuffixOf(cache'[l], pass'[l])
  BY SuffixFront DEF Past

\* DropOlder goes past a frame that nothing left can be paired with.
LEMMA PairDrop ==
    ASSUME FuserInv, PairInv, DropOlder PROVE PairInv'
<1>0. pc = "match" /\ cache["A"] # <<>> /\ cache["B"] # <<>> /\ TypeOK
  BY DEF DropOlder, BothCached, FuserInv
<1>1. /\ \A l \in Lidars : /\ cache[l] \in Seq(Stamps) /\ pass[l] \in Seq(Stamps)
                           /\ SuffixOf(cache[l], pass[l]) /\ Rising(pass[l])
      /\ Greedy(pass["A"], pass["B"], Past("A"), Past("B"), pairs)
      /\ pairs \in Nat
  BY <1>0, PairFacts
<1>2. "A" \in Lidars /\ "B" \in Lidars /\ Lidars = {"A", "B"}
  BY DEF Lidars
<1>3. /\ Past("A") \in 0 .. Len(pass["A"]) - 1 /\ Head(cache["A"]) = pass["A"][Past("A") + 1]
      /\ Past("B") \in 0 .. Len(pass["B"]) - 1 /\ Head(cache["B"]) = pass["B"][Past("B") + 1]
  BY <1>0, <1>1, <1>2, SuffixFront DEF Past
<1>4. Diff(pass["A"][Past("A") + 1], pass["B"][Past("B") + 1]) >= MatchNs
  BY <1>3 DEF DropOlder
<1>5. pc' = "match" /\ UNCHANGED <<pass, pairs>> /\ cache' = [cache EXCEPT ![Older] = Tail(cache[Older])]
  BY <1>0 DEF DropOlder, history
<1>a. Past("A") \in Int /\ Past("B") \in Int /\ FrontsPaired' = 0
  BY <1>3, <1>5 DEF FrontsPaired
<1>b. DOMAIN cache = Lidars
  BY <1>0 DEF TypeOK
<1>6. CASE pass["A"][Past("A") + 1] < pass["B"][Past("B") + 1]
  <2>1. Older = "A"
    BY <1>3, <1>6 DEF Older
  <2>2. cache'["A"] = Tail(cache["A"]) /\ cache'["B"] = cache["B"]
    BY <1>2, <1>5, <1>b, <2>1
  <2>3. Past("A")' = Past("A") + 1 /\ SuffixOf(cache'["A"], pass'["A"])
    BY <1>0, <1>1, <1>2, <1>5, <2>2, PairErase
  <2>4. Past("B")' = Past("B") /\ SuffixOf(cache'["B"], pass'["B"])
    BY <1>1, <1>2, <1>5, <2>2 DEF Past
  <2>5. Greedy(pass["A"], pass["B"], Past("A") + 1, Past("B"), pairs)
    BY <1>1, <1>2, <1>3, <1>4, <1>6, GreedyDropsA
  <2>6. (Past("A") + 1) + 0 = Past("A") + 1 /\ Past("B") + 0 = Past("B")
    BY <1>a
  <2>7. Greedy(pass["A"], pass["B"], Past("A") + FrontsPaired, Past("B") + FrontsPaired, pairs)'
    BY <1>5, <1>a, <2>3, <2>4, <2>5, <2>6
  <2>8. \A l \in Lidars : SuffixOf(cache'[l], pass'[l]) /\ Rising(pass'[l])
    BY <1>1, <1>2, <1>5, <2>3, <2>4
  <2> QED BY <2>7, <2>8 DEF PairInv
<1>7. CASE ~(pass["A"][Past("A") + 1] < pass["B"][Past("B") + 1])
  <2>1. Older = "B"
    BY <1>3, <1>7 DEF Older
  <2>2. cache'["B"] = Tail(cache["B"]) /\ cache'["A"] = cache["A"]
    BY <1>2, <1>5, <1>b, <2>1
  <2>3. Past("B")' = Past("B") + 1 /\ SuffixOf(cache'["B"], pass'["B"])
    BY <1>0, <1>1, <1>2, <1>5, <2>2, PairErase
  <2>4. Past("A")' = Past("A") /\ SuffixOf(cache'["A"], pass'["A"])
    BY <1>1, <1>2, <1>5, <2>2 DEF Past
  <2>5. Greedy(pass["A"], pass["B"], Past("A"), Past("B") + 1, pairs)
    BY <1>1, <1>2, <1>3, <1>4, <1>7, GreedyDropsB
  <2>6. (Past("B") + 1) + 0 = Past("B") + 1 /\ Past("A") + 0 = Past("A")
    BY <1>a
  <2>7. Greedy(pass["A"], pass["B"], Past("A") + FrontsPaired, Past("B") + FrontsPaired, pairs)'
    BY <1>5, <1>a, <2>3, <2>4, <2>5, <2>6
  <2>8. \A l \in Lidars : SuffixOf(cache'[l], pass'[l]) /\ Rising(pass'[l])
    BY <1>1, <1>2, <1>5, <2>3, <2>4
  <2> QED BY <2>7, <2>8 DEF PairInv
<1> QED BY <1>6, <1>7

\* Release erases the pair that was counted when it was made.
LEMMA PairRelease ==
    ASSUME FuserInv, PairInv, Emit \/ GiveUp PROVE PairInv'
<1>1. pc \in {"emit", "retry"} /\ Release /\ UNCHANGED <<pass, pairs, pend>>
  BY DEF Emit, GiveUp, history
<1>2. CASE pend.src # "AB"
  BY <1>1, <1>2 DEF Release, PairInv, InPass
<1>3. CASE pend.src = "AB"
  <2>0. pc' = "match" /\ \A l \in Lidars : cache'[l] = Tail(cache[l])
    BY <1>1, <1>3 DEF Release
  <2>1. \A l \in Lidars : cache[l] # <<>>
    BY <1>1, <1>3 DEF FuserInv, PendInv, PendFits, BothCached, Lidars
  <2>2. /\ \A l \in Lidars : SuffixOf(cache[l], pass[l]) /\ Rising(pass[l])
        /\ Greedy(pass["A"], pass["B"], Past("A") + 1, Past("B") + 1, pairs)
    BY <1>1, <1>3 DEF PairInv, InPass, FrontsPaired
  <2>3. \A l \in Lidars : cache[l] \in Seq(Stamps) /\ pass[l] \in Seq(Stamps)
    BY DEF FuserInv, TypeOK
  <2>4. \A l \in Lidars : Past(l)' = Past(l) + 1 /\ SuffixOf(cache'[l], pass'[l])
    BY <1>1, <2>0, <2>1, <2>2, <2>3, PairErase
  <2>5. \A l \in Lidars : Past(l) \in Int /\ (Past(l) + 1) + 0 = Past(l) + 1
    BY <2>3 DEF Past
  <2>6. "A" \in Lidars /\ "B" \in Lidars /\ FrontsPaired' = 0
    BY <2>0 DEF Lidars, FrontsPaired
  <2>7. Greedy(pass["A"], pass["B"], Past("A") + FrontsPaired, Past("B") + FrontsPaired, pairs)'
    <3>1. /\ Past("A")' + FrontsPaired' = Past("A") + 1
          /\ Past("B")' + FrontsPaired' = Past("B") + 1
      BY <2>4, <2>5, <2>6
    <3> QED BY <1>1, <2>2, <3>1
  <2>8. \A l \in Lidars : SuffixOf(cache'[l], pass'[l]) /\ Rising(pass'[l])
    BY <1>1, <2>2, <2>4
  <2> QED BY <2>7, <2>8 DEF PairInv
<1> QED BY <1>2, <1>3

\* Every step keeps the pairing invariant.
LEMMA PairNext == FuserInv /\ FuserInv' /\ PairInv /\ [Next]_vars => PairInv'
<1> SUFFICES ASSUME FuserInv, FuserInv', PairInv, [Next]_vars PROVE PairInv'
  OBVIOUS
<1>1. CASE TakeB
  BY <1>1, PairTakeB
<1>2. CASE Fuse
  BY <1>2, PairFuse
<1>3. CASE DropOlder
  BY <1>3, PairDrop
<1>4. CASE Emit \/ GiveUp
  BY <1>4, PairRelease
<1>5. CASE TakeA \/ Exit \/ EndPass
  BY <1>5 DEF TakeA, Exit, EndPass, PairInv, InPass
<1>6. CASE \E l \in Lidars : Solo(l)
  <2>1. pc' = "emit" /\ pend'.src # "AB"
    BY <1>6 DEF Solo, Lidars
  <2> QED BY <2>1 DEF PairInv, InPass
<1>7. CASE \E loaded \in BOOLEAN : Start(loaded)
  BY <1>7 DEF Start, PairInv, InPass
<1>8. CASE \/ (\E l \in Lidars, ts \in Stamps : RadarEnqueue(l, ts)) \/ CalcDequeue \/ Stop
           \/ EmitFull \/ Retry \/ UNCHANGED vars
  <2>1. UNCHANGED <<cache, pass, pairs, pend>>
    BY <1>8 DEF RadarEnqueue, CalcDequeue, Stop, EmitFull, Retry, vars, history
  <2>2. pc' = pc \/ (pc \in {"emit", "retry"} /\ pc' \in {"emit", "retry"})
    BY <1>8 DEF RadarEnqueue, CalcDequeue, Stop, EmitFull, Retry, vars
  <2>3. InPass' = InPass /\ FrontsPaired' = FrontsPaired
    BY <2>1, <2>2 DEF InPass, FrontsPaired
  <2>4. Past("A")' = Past("A") /\ Past("B")' = Past("B")
    BY <2>1 DEF Past
  <2> QED BY <2>1, <2>3, <2>4 DEF PairInv
<1> QED BY <1>1, <1>2, <1>3, <1>4, <1>5, <1>6, <1>7, <1>8 DEF Next, FuseLoop

\* The greedy loop of fuseLoop (point_cloud_fuser.cpp:94-147) makes as many pairs
\* as any choice of pairs from the caches it started with could, for every
\* MATCH_NS and any two caches of timestamps that do not run backwards.
THEOREM FuserPairingIsMaximum == Spec => []PairingIsMaximum
<1>1. Init => PairInv
  BY DEF Init, PairInv, InPass
<1>2. FuserInv /\ PairInv => PairingIsMaximum
  <2> SUFFICES ASSUME FuserInv, PairInv, pc = "match", ~BothCached
               PROVE  pairs = Max({Cardinality(m) : m \in Matchings(pass["A"], pass["B"])})
    BY DEF PairingIsMaximum
  <2>1. /\ \A l \in Lidars : cache[l] \in Seq(Stamps) /\ pass[l] \in Seq(Stamps)
        /\ Greedy(pass["A"], pass["B"], Past("A"), Past("B"), pairs)
        /\ pairs \in Nat
    BY PairFacts DEF FuserInv
  <2>2. \A l \in Lidars : cache[l] = <<>> => Past(l) = Len(pass[l])
    BY <2>1 DEF Past
  <2>3. "A" \in Lidars /\ "B" \in Lidars
    BY DEF Lidars
  <2>4. Past("A") = Len(pass["A"]) \/ Past("B") = Len(pass["B"])
    BY <2>2, <2>3 DEF BothCached
  <2> QED BY <2>1, <2>3, <2>4, GreedyEnds
<1>3. FuserInv /\ [Next]_vars => FuserInv'
  BY FuserNext
<1> QED BY <1>1, <1>2, <1>3, FuserInit, PairNext, PTL DEF Spec
=============================================================================
