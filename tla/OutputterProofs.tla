-------------------------- MODULE OutputterProofs --------------------------
(***************************************************************************)
(* ConcreteDataOutputter for queues of any size: packets are published in  *)
(* the order in which outputLoop took their results, each at most once,    *)
(* what a queue accepted stays until its worker takes it, and the threads  *)
(* and queues together implement the pipe of LossyPipe.                    *)
(*                                                                         *)
(* And, at the end, its member mqtt_, an IndustrialMqttClient, for every   *)
(* limit on reconnect attempts: the handle mqtt_cli_ accounts for every    *)
(* client libhv allocated, and publish() does not pass on a freed one.     *)
(***************************************************************************)
EXTENDS Outputter, MqttClient, SequenceTheorems, TLAPS

-----------------------------------------------------------------------------
(* The invariant.  A result on its way is in one of six places: published, *)
(* with the MQTT worker, in its queue, with the solve worker, in its       *)
(* queue, with outputLoop.  Each place holds results taken before those of *)
(* the next, and each queue is itself in the order of taking.              *)

NoRepeats(s) == \A i, j \in DOMAIN s : i # j => s[i] # s[j]

\* T has a before b
Before(T, a, b) == \E i, j \in DOMAIN T : i < j /\ T[i] = a /\ T[j] = b

InOrder(T, s) == \A i, j \in DOMAIN s : i < j => Before(T, s[i], s[j])

\* What thread t has taken from one queue and not yet put into the next, as a set
Carried(t) == IF Carries(t) THEN {held[t]} ELSE {}

Places == 1 .. 6
Place == [n \in Places |-> CASE n = 1 -> Elems(published)
                             [] n = 2 -> Carried("mqtt")
                             [] n = 3 -> Elems(mqttQ)
                             [] n = 4 -> Carried("solve")
                             [] n = 5 -> Elems(solveQ)
                             [] n = 6 -> Carried("output")]

\* In T all of one place is before all of the next
Ordered(T, P) == \A m, n \in Places : m < n => \A a \in P[m], b \in P[n] : Before(T, a, b)

\* Results are taken once, and none that still waits in rq_six_dof
TakenInv == /\ NoRepeats(taken) /\ NoRepeats(qSix)
            /\ Elems(taken) \cup Elems(qSix) \subseteq sent
            /\ Elems(taken) \cap Elems(qSix) = {}

PipeInv == /\ \A n \in Places : Place[n] \subseteq Elems(taken)
           /\ Ordered(taken, Place)
           /\ InOrder(taken, published) /\ InOrder(taken, mqttQ) /\ InOrder(taken, solveQ)

OutputterInv == TypeOK /\ TakenInv /\ PipeInv

-----------------------------------------------------------------------------
(* Sequences *)

\* A dequeue takes the head and leaves the tail.
LEMMA TailOf ==
    ASSUME NEW S, NEW s \in Seq(S), s # <<>>
    PROVE  /\ Head(s) \in S /\ Tail(s) \in Seq(S) /\ Len(Tail(s)) = Len(s) - 1
           /\ Elems(s) = Elems(Tail(s)) \cup {Head(s)}
           /\ Len(s) \in Nat \ {0} /\ DOMAIN s = 1 .. Len(s) /\ Head(s) = s[1]
           /\ DOMAIN Tail(s) = 1 .. Len(s) - 1
           /\ \A i \in 1 .. Len(s) - 1 : Tail(s)[i] = s[i + 1]
<1>1. /\ Head(s) \in S /\ Tail(s) \in Seq(S) /\ Len(Tail(s)) = Len(s) - 1
      /\ Len(s) \in Nat \ {0} /\ DOMAIN s = 1 .. Len(s) /\ Head(s) = s[1]
      /\ DOMAIN Tail(s) = 1 .. Len(s) - 1
      /\ \A i \in 1 .. Len(s) - 1 : Tail(s)[i] = s[i + 1]
  OBVIOUS
<1>2. ASSUME NEW x \in Elems(s) PROVE x \in Elems(Tail(s)) \cup {Head(s)}
  <2>1. PICK i \in 1 .. Len(s) : x = s[i]
    BY <1>1, <1>2 DEF Elems
  <2>2. CASE i = 1
    BY <1>1, <2>1, <2>2
  <2>3. CASE i # 1
    <3>1. i - 1 \in 1 .. Len(s) - 1 /\ (i - 1) + 1 = i
      BY <1>1, <2>3
    <3>2. Tail(s)[i - 1] = x
      BY <1>1, <2>1, <3>1
    <3> QED BY <1>1, <3>1, <3>2 DEF Elems
  <2> QED BY <2>2, <2>3
<1>3. ASSUME NEW x \in Elems(Tail(s)) \cup {Head(s)} PROVE x \in Elems(s)
  <2>1. CASE x = Head(s)
    <3>1. 1 \in 1 .. Len(s)
      BY <1>1
    <3> QED BY <1>1, <2>1, <3>1 DEF Elems
  <2>2. CASE x \in Elems(Tail(s))
    <3>1. PICK i \in 1 .. Len(s) - 1 : x = Tail(s)[i]
      BY <1>1, <2>2 DEF Elems
    <3>2. i + 1 \in 1 .. Len(s) /\ x = s[i + 1]
      BY <1>1, <3>1
    <3> QED BY <1>1, <3>2 DEF Elems
  <2> QED BY <1>3, <2>1, <2>2
<1> QED BY <1>1, <1>2, <1>3

\* An enqueue appends one item.
LEMMA AppendTo ==
    ASSUME NEW S, NEW s \in Seq(S), NEW x \in S
    PROVE  /\ Append(s, x) \in Seq(S) /\ Len(Append(s, x)) = Len(s) + 1
           /\ Elems(Append(s, x)) = Elems(s) \cup {x}
           /\ Len(s) \in Nat /\ DOMAIN s = 1 .. Len(s)
           /\ DOMAIN Append(s, x) = 1 .. Len(s) + 1
           /\ Append(s, x)[Len(s) + 1] = x
           /\ \A i \in 1 .. Len(s) : Append(s, x)[i] = s[i]
<1>1. /\ Append(s, x) \in Seq(S) /\ Len(Append(s, x)) = Len(s) + 1
      /\ Len(s) \in Nat /\ DOMAIN s = 1 .. Len(s)
      /\ DOMAIN Append(s, x) = 1 .. Len(s) + 1
      /\ Append(s, x)[Len(s) + 1] = x
      /\ \A i \in 1 .. Len(s) : Append(s, x)[i] = s[i]
  OBVIOUS
<1>2. /\ \A i \in 1 .. Len(s) + 1 : i = Len(s) + 1 \/ i \in 1 .. Len(s)
      /\ \A i \in 1 .. Len(s) : i \in 1 .. Len(s) + 1
      /\ Len(s) + 1 \in 1 .. Len(s) + 1
  BY <1>1
<1>3. Elems(Append(s, x)) = Elems(s) \cup {x}
  BY <1>1, <1>2, Zenon DEF Elems
<1> QED BY <1>1, <1>3

\* What is queued without repetition stays so when its head is taken.
LEMMA TailNoRepeats ==
    ASSUME NEW S, NEW s \in Seq(S), s # <<>>, NoRepeats(s)
    PROVE  NoRepeats(Tail(s)) /\ Head(s) \notin Elems(Tail(s))
<1>1. NoRepeats(Tail(s))
  <2> SUFFICES ASSUME NEW i \in 1 .. Len(s) - 1, NEW j \in 1 .. Len(s) - 1, i # j
               PROVE  Tail(s)[i] # Tail(s)[j]
    BY TailOf DEF NoRepeats
  <2>1. i + 1 \in DOMAIN s /\ j + 1 \in DOMAIN s /\ i + 1 # j + 1
    BY TailOf
  <2> QED BY TailOf, <2>1 DEF NoRepeats
<1>2. ASSUME Head(s) \in Elems(Tail(s)) PROVE FALSE
  <2>1. PICK i \in 1 .. Len(s) - 1 : Head(s) = Tail(s)[i]
    BY <1>2, TailOf DEF Elems
  <2>2. 1 \in DOMAIN s /\ i + 1 \in DOMAIN s /\ i + 1 # 1 /\ s[1] = s[i + 1]
    BY <2>1, TailOf
  <2> QED BY <2>2 DEF NoRepeats
<1> QED BY <1>1, <1>2

\* ... and when one that is not queued yet joins it.
LEMMA AppendNoRepeats ==
    ASSUME NEW S, NEW s \in Seq(S), NEW x \in S, NoRepeats(s), x \notin Elems(s)
    PROVE  NoRepeats(Append(s, x))
<1> SUFFICES ASSUME NEW i \in 1 .. Len(s) + 1, NEW j \in 1 .. Len(s) + 1, i # j
             PROVE  Append(s, x)[i] # Append(s, x)[j]
  BY AppendTo DEF NoRepeats
<1>1. CASE i \in 1 .. Len(s) /\ j \in 1 .. Len(s)
  BY <1>1, AppendTo DEF NoRepeats
<1>2. CASE i = Len(s) + 1 /\ j \in 1 .. Len(s)
  BY <1>2, AppendTo DEF Elems
<1>3. CASE j = Len(s) + 1 /\ i \in 1 .. Len(s)
  BY <1>3, AppendTo DEF Elems
<1> QED BY <1>1, <1>2, <1>3, AppendTo

-----------------------------------------------------------------------------
(* The order of taking *)

\* Taking one more result keeps the order, and puts it last.
LEMMA TakeKeepsOrder ==
    ASSUME NEW S, NEW T \in Seq(S), NEW x \in S
    PROVE  /\ \A a, b : Before(T, a, b) => Before(Append(T, x), a, b)
           /\ \A a \in Elems(T) : Before(Append(T, x), a, x)
<1>1. ASSUME NEW a, NEW b, Before(T, a, b) PROVE Before(Append(T, x), a, b)
  <2>1. PICK i \in 1 .. Len(T), j \in 1 .. Len(T) : i < j /\ T[i] = a /\ T[j] = b
    BY <1>1, AppendTo DEF Before
  <2>2. /\ i \in DOMAIN Append(T, x) /\ j \in DOMAIN Append(T, x)
        /\ Append(T, x)[i] = a /\ Append(T, x)[j] = b
    BY <2>1, AppendTo
  <2> QED BY <2>1, <2>2 DEF Before
<1>2. ASSUME NEW a \in Elems(T) PROVE Before(Append(T, x), a, x)
  <2>1. PICK i \in 1 .. Len(T) : T[i] = a
    BY <1>2, AppendTo DEF Elems
  <2>2. /\ i \in DOMAIN Append(T, x) /\ Len(T) + 1 \in DOMAIN Append(T, x) /\ i < Len(T) + 1
        /\ Append(T, x)[i] = a /\ Append(T, x)[Len(T) + 1] = x
    BY <2>1, AppendTo
  <2> QED BY <2>2 DEF Before
<1> QED BY <1>1, <1>2

\* A queue in order stays so when its head is taken, which was before the rest.
LEMMA TailInOrder ==
    ASSUME NEW S, NEW s \in Seq(S), s # <<>>, NEW T, InOrder(T, s)
    PROVE  InOrder(T, Tail(s)) /\ \A b \in Elems(Tail(s)) : Before(T, Head(s), b)
<1>1. InOrder(T, Tail(s))
  <2> SUFFICES ASSUME NEW i \in 1 .. Len(s) - 1, NEW j \in 1 .. Len(s) - 1, i < j
               PROVE  Before(T, Tail(s)[i], Tail(s)[j])
    BY TailOf DEF InOrder
  <2>1. i + 1 \in DOMAIN s /\ j + 1 \in DOMAIN s /\ i + 1 < j + 1
    BY TailOf
  <2>2. Before(T, s[i + 1], s[j + 1])
    BY <2>1 DEF InOrder
  <2> QED BY TailOf, <2>2
<1>2. ASSUME NEW b \in Elems(Tail(s)) PROVE Before(T, Head(s), b)
  <2>1. PICK i \in 1 .. Len(s) - 1 : b = Tail(s)[i]
    BY <1>2, TailOf DEF Elems
  <2>2. 1 \in DOMAIN s /\ i + 1 \in DOMAIN s /\ 1 < i + 1 /\ b = s[i + 1]
    BY <2>1, TailOf
  <2>3. Before(T, s[1], s[i + 1])
    BY <2>2 DEF InOrder
  <2> QED BY TailOf, <2>2, <2>3
<1> QED BY <1>1, <1>2

\* ... and when a result comes that was taken after all of it.
LEMMA AppendInOrder ==
    ASSUME NEW S, NEW s \in Seq(S), NEW x \in S, NEW T, InOrder(T, s),
           \A a \in Elems(s) : Before(T, a, x)
    PROVE  InOrder(T, Append(s, x))
<1> SUFFICES ASSUME NEW i \in 1 .. Len(s) + 1, NEW j \in 1 .. Len(s) + 1, i < j
             PROVE  Before(T, Append(s, x)[i], Append(s, x)[j])
  BY AppendTo DEF InOrder
<1>1. i \in 1 .. Len(s) /\ Append(s, x)[i] = s[i] /\ s[i] \in Elems(s)
  BY AppendTo DEF Elems
<1>2. CASE j \in 1 .. Len(s)
  <2>1. Before(T, s[i], s[j])
    BY <1>1, <1>2, AppendTo DEF InOrder
  <2> QED BY <1>1, <1>2, <2>1, AppendTo
<1>3. CASE j = Len(s) + 1
  BY <1>1, <1>3, AppendTo
<1> QED BY <1>2, <1>3, AppendTo

\* A result x moves from one place to the next, or is lost there: the places
\* stay ordered when x came before whatever is left where it was.
LEMMA MoveKeepsOrder ==
    ASSUME NEW T, NEW P, NEW R, NEW k \in 1 .. 5, NEW x \in P[k + 1], Ordered(T, P),
           \A n \in Places : R[n] \subseteq P[n] \/ (n = k /\ R[n] \subseteq P[n] \cup {x}),
           \A b \in R[k + 1] : Before(T, x, b)
    PROVE  Ordered(T, R)
<1> SUFFICES ASSUME NEW m \in Places, NEW n \in Places, m < n, NEW a \in R[m], NEW b \in R[n]
             PROVE  Before(T, a, b)
  BY DEF Ordered
<1>1. CASE a \in P[m] /\ b \in P[n]
  BY <1>1 DEF Ordered
<1>2. CASE m = k /\ a = x
  <2>1. CASE n = k + 1
    BY <1>2, <2>1
  <2>2. CASE n # k + 1
    <3>1. k + 1 \in Places /\ k + 1 < n /\ b \in P[n]
      BY <1>2, <2>2 DEF Places
    <3> QED BY <1>2, <3>1 DEF Ordered
  <2> QED BY <2>1, <2>2
<1>3. CASE n = k /\ b = x
  <2>1. k + 1 \in Places /\ m < k + 1 /\ a \in P[m]
    BY <1>3 DEF Places
  <2> QED BY <1>3, <2>1 DEF Ordered
<1> QED BY <1>1, <1>2, <1>3 DEF Places

-----------------------------------------------------------------------------
(* What the actions are made of *)

\* The places one by one, before and after a step.
LEMMA PlaceIs ==
    /\ Place[1] = Elems(published) /\ Place[2] = Carried("mqtt") /\ Place[3] = Elems(mqttQ)
    /\ Place[4] = Carried("solve") /\ Place[5] = Elems(solveQ) /\ Place[6] = Carried("output")
    /\ Place'[1] = Elems(published') /\ Place'[2] = Carried("mqtt")' /\ Place'[3] = Elems(mqttQ')
    /\ Place'[4] = Carried("solve")' /\ Place'[5] = Elems(solveQ') /\ Place'[6] = Carried("output")'
    /\ \A n \in Places : n = 1 \/ n = 2 \/ n = 3 \/ n = 4 \/ n = 5 \/ n = 6
<1>1. /\ 1 \in Places /\ 2 \in Places /\ 3 \in Places
      /\ 4 \in Places /\ 5 \in Places /\ 6 \in Places
      /\ \A n \in Places : n = 1 \/ n = 2 \/ n = 3 \/ n = 4 \/ n = 5 \/ n = 6
  BY DEF Places
<1>2. /\ Place[1] = Elems(published) /\ Place[2] = Carried("mqtt") /\ Place[3] = Elems(mqttQ)
      /\ Place[4] = Carried("solve") /\ Place[5] = Elems(solveQ) /\ Place[6] = Carried("output")
  BY <1>1 DEF Place
<1>3. /\ Place'[1] = Elems(published') /\ Place'[2] = Carried("mqtt")'
      /\ Place'[3] = Elems(mqttQ') /\ Place'[4] = Carried("solve")'
      /\ Place'[5] = Elems(solveQ') /\ Place'[6] = Carried("output")'
  BY <1>1 DEF Place, Elems
<1> QED BY <1>1, <1>2, <1>3

\* enqueueWithDropOld on a queue within its limit drops nothing: it appends
\* the item, or refuses it when the queue is full.
LEMMA FullRefusesNewest ==
    ASSUME NEW q \in Seq(Results), NEW x \in Results, NEW max \in Nat \ {0}, Len(q) < max
    PROVE  /\ EnqueueWithDropOld(q, x, max) = IF Len(q) < max - 1 THEN Append(q, x) ELSE q
           /\ Fits(q, max) <=> Len(q) < max - 1
           /\ EnqueueWithDropOld(q, x, max) \in Seq(Results)
           /\ Len(EnqueueWithDropOld(q, x, max)) < max
<1>1. DropOld(q, max) = q /\ Len(q) \in Nat
  BY DEF DropOld
<1>2. /\ EnqueueWithDropOld(q, x, max) = IF Len(q) < max - 1 THEN Append(q, x) ELSE q
      /\ Fits(q, max) <=> Len(q) < max - 1
  BY <1>1 DEF EnqueueWithDropOld, Fits
<1>3. Append(q, x) \in Seq(Results) /\ Len(Append(q, x)) = Len(q) + 1
  BY AppendTo
<1> QED BY <1>1, <1>2, <1>3

\* The thread a notification wakes was waiting, so it carries nothing.
LEMMA NotifyWakes ==
    ASSUME TypeOK, NEW t \in Threads, NEW s \in States, pc[t] # "wait", MoveAndNotify(t, s)
    PROVE  /\ pc' \in [Threads -> States] /\ pc'[t] = s
           /\ \A v \in Threads \ {t} : pc'[v] = pc[v] \/ (pc[v] = "wait" /\ pc'[v] = "test")
<1>1. pc \in [Threads -> States] /\ "test" \in States
  BY DEF TypeOK, States
<1>2. CASE Waiting = {}
  BY <1>1, <1>2 DEF MoveAndNotify
<1>3. CASE Waiting # {}
  <2>1. PICK u \in Waiting : pc' = [pc EXCEPT ![t] = s, ![u] = "test"]
    BY <1>3 DEF MoveAndNotify
  <2>2. u \in Threads /\ pc[u] = "wait" /\ u # t
    BY DEF Waiting
  <2> QED BY <1>1, <2>1, <2>2
<1> QED BY <1>2, <1>3

\* A thread that carries a result carries one that arrived.
LEMMA CarriesResult ==
    ASSUME TypeOK, PipeInv
    PROVE  /\ Carries("mqtt") => held["mqtt"] \in Results
           /\ Carries("solve") => held["solve"] \in Results
           /\ Carries("output") => held["output"] \in Results
<1>1. Elems(taken) \subseteq Results
  BY DEF TypeOK, Elems
<1>2. /\ Carried("mqtt") \subseteq Elems(taken) /\ Carried("solve") \subseteq Elems(taken)
      /\ Carried("output") \subseteq Elems(taken)
  <2>1. 2 \in Places /\ 4 \in Places /\ 6 \in Places
    BY DEF Places
  <2> QED BY PlaceIs, <2>1 DEF PipeInv
<1> QED BY <1>1, <1>2 DEF Carried

\* Nothing moves: queues as before, and no thread takes anything up.
LEMMA QuietStep ==
    ASSUME PipeInv, UNCHANGED <<published, mqttQ, solveQ, taken>>,
           \A t \in Threads : Carries(t)' => Carries(t) /\ held'[t] = held[t]
    PROVE  PipeInv'
<1>1. \A t \in Threads : Carried(t)' \subseteq Carried(t)
  BY DEF Carried
<1>2. ASSUME NEW n \in Places PROVE Place'[n] \subseteq Place[n]
  BY <1>1, PlaceIs DEF Threads, Elems
<1>3. Ordered(taken, Place')
  BY <1>2 DEF PipeInv, Ordered
<1> QED BY <1>2, <1>3 DEF PipeInv

\* A result x moves from place k + 1 to place k, or is dropped on the way.
LEMMA MoveStep ==
    ASSUME PipeInv, UNCHANGED taken, NEW k \in 1 .. 5, NEW x \in Place[k + 1],
           \A n \in Places : Place'[n] \subseteq Place[n] \/ (n = k /\ Place'[n] \subseteq Place[n] \cup {x}),
           \A b \in Place'[k + 1] : Before(taken, x, b),
           InOrder(taken, published'), InOrder(taken, mqttQ'), InOrder(taken, solveQ')
    PROVE  PipeInv'
<1>1. Ordered(taken, Place')
  BY MoveKeepsOrder DEF PipeInv
<1>2. k + 1 \in Places
  BY DEF Places
<1>3. \A n \in Places : Place'[n] \subseteq Elems(taken)
  BY <1>2 DEF PipeInv
<1> QED BY <1>1, <1>3 DEF PipeInv

-----------------------------------------------------------------------------
(* The steps *)

\* Nothing is in the outputter when it is constructed.
LEMMA OutputterInit == Init => OutputterInv
<1> SUFFICES ASSUME Init PROVE OutputterInv
  OBVIOUS
<1>1. TypeOK
  <2>1. pc \in [Threads -> States] /\ held \in [Threads -> Results \cup {0}]
    BY DEF Init, States
  <2>2. <<>> \in Seq(Results) /\ Len(<<>>) = 0
    OBVIOUS
  <2>3. 0 <= SixBound /\ 0 < SolveMax /\ 0 < MqttMax /\ 0 \in 0 .. ErrMax - 1 /\ 0 <= MaxHist
        /\ 0 \in 0 .. MaxWarnings
    BY OutputterAssumption
  <2>4. /\ qSix = <<>> /\ solveQ = <<>> /\ mqttQ = <<>> /\ hist = <<>> /\ taken = <<>>
        /\ published = <<>> /\ errLen = 0 /\ warnings = 0 /\ sent = {} /\ lost = {}
        /\ running = FALSE /\ workerRunning = TRUE /\ connected = FALSE /\ hasError = FALSE
        /\ hasTask = FALSE /\ sysState = "IDLE" /\ mainPc = "start"
    BY DEF Init
  <2> QED BY <2>1, <2>2, <2>3, <2>4 DEF TypeOK
<1>2. TakenInv
  BY DEF Init, TakenInv, NoRepeats, Elems
<1>3. \A n \in Places : Place[n] = {}
  BY PlaceIs DEF Init, Elems, Carried, Carries, Threads
<1>4. PipeInv
  BY <1>3 DEF Init, PipeInv, Ordered, InOrder
<1> QED BY <1>1, <1>2, <1>4 DEF OutputterInv

\* A result arrives.
LEMMA ArriveStep ==
    ASSUME OutputterInv, NEW r \in Results, SixEnqueue(r)
    PROVE  OutputterInv'
<1>1. /\ qSix' \in Seq(Results) /\ Len(qSix') <= SixBound
      /\ Elems(qSix') = Elems(qSix) \cup {r}
  BY AppendTo, OutputterAssumption DEF OutputterInv, TypeOK, SixEnqueue
<1>2. TypeOK'
  BY <1>1 DEF OutputterInv, TypeOK, SixEnqueue, flags, link
<1>3. r \notin Elems(qSix) /\ r \notin Elems(taken)
  BY DEF OutputterInv, TakenInv, SixEnqueue
<1>4. NoRepeats(qSix')
  BY <1>3, AppendNoRepeats DEF OutputterInv, TypeOK, TakenInv, SixEnqueue
<1>5. TakenInv'
  BY <1>1, <1>3, <1>4 DEF OutputterInv, TakenInv, SixEnqueue
<1>6. PipeInv'
  BY QuietStep DEF OutputterInv, SixEnqueue, Carries
<1> QED BY <1>2, <1>5, <1>6 DEF OutputterInv

\* A warning is reported, with or without the loss of the connection.
LEMMA WarnStep ==
    ASSUME OutputterInv, Warn, connected' \in BOOLEAN
    PROVE  OutputterInv'
<1>1. /\ pc' \in [Threads -> States]
      /\ \A t \in Threads : pc'[t] = pc[t] \/ pc'[t] = "test"
  <2>1. pc \in [Threads -> States] /\ "test" \in States
    BY DEF OutputterInv, TypeOK, States
  <2>2. CASE Waiting = {}
    BY <2>1, <2>2 DEF Warn
  <2>3. CASE Waiting # {}
    <3>1. PICK u \in Waiting : pc' = [pc EXCEPT ![u] = "test"]
      BY <2>3 DEF Warn
    <3> QED BY <2>1, <3>1 DEF Waiting
  <2> QED BY <2>2, <2>3
<1>2. errLen' \in 0 .. ErrMax - 1 /\ warnings' \in 0 .. MaxWarnings /\ hasError' \in BOOLEAN
  BY OutputterAssumption DEF OutputterInv, TypeOK, Warn, ReportWarning
<1>3. TypeOK'
  BY <1>1, <1>2 DEF OutputterInv, TypeOK, Warn, flags, source
<1>4. TakenInv'
  BY DEF OutputterInv, TakenInv, Warn, source
<1>5. PipeInv'
  BY <1>1, QuietStep DEF OutputterInv, Warn, Carries
<1> QED BY <1>3, <1>4, <1>5 DEF OutputterInv

\* A thread goes on without taking or passing on a result.
LEMMA IdleStep ==
    ASSUME OutputterInv, NEW t \in Threads,
           Test(t) \/ Block(t) \/ Timeout(t) \/ MqttPollErr \/ DbPoll
    PROVE  OutputterInv'
<1>1. /\ pc' \in [Threads -> States]
      /\ \A u \in Threads : pc'[u] = pc[u] \/ pc'[u] \in {"test", "poll", "block", "wait", "exited"}
  BY DEF OutputterInv, TypeOK, States, Threads, Test, Block, Timeout, MqttPollErr, DbPoll
<1>2. errLen' \in 0 .. ErrMax - 1 /\ hasTask' \in BOOLEAN
  <2>1. errLen \in 0 .. ErrMax - 1 /\ hasTask \in BOOLEAN
    BY DEF OutputterInv, TypeOK
  <2>2. CASE Test(t)
    BY <2>1, <2>2 DEF Test, link
  <2>3. CASE Block(t) \/ Timeout(t) \/ DbPoll
    BY <2>1, <2>3 DEF Block, Timeout, DbPoll, link
  <2>4. CASE MqttPollErr
    BY <2>1, <2>4, OutputterAssumption DEF MqttPollErr
  <2> QED BY <2>2, <2>3, <2>4
<1>3. /\ UNCHANGED <<flags, connected, hasError, warnings, source, solveQ, mqttQ, hist, held>>
      /\ UNCHANGED <<taken, published, lost>>
  BY DEF Test, Block, Timeout, MqttPollErr, DbPoll, link
<1>4. TypeOK'
  BY <1>1, <1>2, <1>3 DEF OutputterInv, TypeOK, flags, source
<1>5. TakenInv'
  BY <1>3 DEF OutputterInv, TakenInv, source
<1>6. PipeInv'
  BY <1>1, <1>3, QuietStep DEF OutputterInv, Carries
<1> QED BY <1>4, <1>5, <1>6 DEF OutputterInv

\* main starts and stops the threads.
LEMMA MainStep ==
    ASSUME OutputterInv, Start \/ Stop \/ Stopping
    PROVE  OutputterInv'
<1>1. /\ pc' \in [Threads -> States]
      /\ \A u \in Threads : pc'[u] = pc[u] \/ pc'[u] = "test"
  BY DEF OutputterInv, TypeOK, States, Threads, Start, Stop, Stopping, JoinOutput, StopWorkers,
         NotifyAll, JoinWorkers, StopMqtt
<1>2. /\ UNCHANGED <<qSix, sent, solveQ, mqttQ, hist>>
      /\ UNCHANGED <<held, hasTask, taken, published, lost>>
  BY DEF Start, Stop, Stopping, JoinOutput, StopWorkers, NotifyAll, JoinWorkers, StopMqtt,
         rest, work, source
<1>3. /\ running' \in BOOLEAN /\ workerRunning' \in BOOLEAN /\ sysState' \in {"IDLE", "RUNNING"}
      /\ mainPc' \in {"start", "run", "joinOutput", "stopped", "notify", "joinWorkers",
                     "stopMqtt", "done"}
  BY DEF OutputterInv, TypeOK, Start, Stop, Stopping, JoinOutput, StopWorkers, NotifyAll, JoinWorkers,
         StopMqtt
<1>4. /\ connected' \in BOOLEAN /\ hasError' \in BOOLEAN
      /\ errLen' \in 0 .. ErrMax - 1 /\ warnings' \in 0 .. MaxWarnings
  <2>1. CASE StopMqtt
    <3>1. errLen \in 0 .. ErrMax - 1 /\ ErrMax \in Nat \ {0} /\ warnings \in 0 .. MaxWarnings
      BY OutputterAssumption DEF OutputterInv, TypeOK
    <3>2. connected' = FALSE /\ hasError' = TRUE /\ warnings' = warnings
          /\ errLen' = IF errLen < ErrMax - 1 THEN errLen + 1 ELSE errLen
      BY <2>1 DEF StopMqtt, ReportWarning
    <3>3. errLen' \in 0 .. ErrMax - 1
      BY <3>1, <3>2
    <3> QED BY <3>1, <3>2, <3>3
  <2>2. CASE Start \/ Stop \/ JoinOutput \/ StopWorkers \/ NotifyAll \/ JoinWorkers
    <3>1. UNCHANGED <<connected, hasError, errLen, warnings>>
      BY <2>2 DEF Start, Stop, JoinOutput, StopWorkers, NotifyAll, JoinWorkers, rest, link
    <3> QED BY <3>1 DEF OutputterInv, TypeOK
  <2> QED BY <2>1, <2>2 DEF Stopping
<1>5. TypeOK'
  BY <1>1, <1>2, <1>3, <1>4 DEF OutputterInv, TypeOK
<1>6. TakenInv'
  BY <1>2 DEF OutputterInv, TakenInv
<1>7. PipeInv'
  BY <1>1, <1>2, QuietStep DEF OutputterInv, Carries
<1> QED BY <1>5, <1>6, <1>7 DEF OutputterInv

\* outputLoop takes a result from rq_six_dof, or finds it empty.
LEMMA OutputPollStep ==
    ASSUME OutputterInv, OutputPoll
    PROVE  OutputterInv'
<1> DEFINE x == Head(qSix)
<1>1. /\ pc' \in [Threads -> States] /\ "output" \in Threads
      /\ \A t \in Threads \ {"output"} : pc'[t] = pc[t]
  BY DEF OutputterInv, TypeOK, States, Threads, OutputPoll
<1>2. CASE qSix = <<>>
  <2>1. pc'["output"] = "block" /\ UNCHANGED <<qSix, held, taken>>
    BY <1>1, <1>2 DEF OutputPoll, OutputterInv, TypeOK
  <2>2. TypeOK'
    BY <1>1, <2>1 DEF OutputterInv, TypeOK, OutputPoll, flags, link
  <2>3. TakenInv'
    BY <2>1 DEF OutputterInv, TakenInv, OutputPoll
  <2>4. PipeInv'
    BY <1>1, <2>1, QuietStep DEF OutputterInv, OutputPoll, Carries
  <2> QED BY <2>2, <2>3, <2>4 DEF OutputterInv
<1>3. CASE qSix # <<>>
  <2>1. /\ pc'["output"] = "push" /\ held' = [held EXCEPT !["output"] = x]
        /\ qSix' = Tail(qSix) /\ taken' = Append(taken, x)
    BY <1>1, <1>3 DEF OutputPoll, OutputterInv, TypeOK
  <2>2. /\ x \in Results /\ qSix' \in Seq(Results) /\ Len(qSix') = Len(qSix) - 1
        /\ Elems(qSix) = Elems(qSix') \cup {x} /\ Len(qSix) \in Nat
    BY <1>3, <2>1, TailOf DEF OutputterInv, TypeOK
  <2>3. taken' \in Seq(Results) /\ Elems(taken') = Elems(taken) \cup {x}
    BY <2>1, <2>2, AppendTo DEF OutputterInv, TypeOK
  <2>4. held' \in [Threads -> Results \cup {0}] /\ held'["output"] = x
        /\ \A t \in Threads \ {"output"} : held'[t] = held[t]
    BY <1>1, <2>1, <2>2 DEF OutputterInv, TypeOK
  <2>5. TypeOK'
    <3>1. Len(qSix') <= SixBound
      BY <2>2, OutputterAssumption DEF OutputterInv, TypeOK
    <3> QED BY <1>1, <2>2, <2>3, <2>4, <3>1 DEF OutputterInv, TypeOK, OutputPoll, flags, link
  <2>6. TakenInv'
    <3>1. NoRepeats(qSix') /\ x \notin Elems(qSix')
      BY <1>3, <2>1, TailNoRepeats DEF OutputterInv, TypeOK, TakenInv
    <3>2. x \notin Elems(taken)
      BY <2>2 DEF OutputterInv, TakenInv
    <3>3. NoRepeats(taken')
      BY <2>1, <2>2, <3>2, AppendNoRepeats DEF OutputterInv, TypeOK, TakenInv
    <3> QED BY <2>2, <2>3, <3>1, <3>2, <3>3 DEF OutputterInv, TakenInv, OutputPoll
  <2>7. PipeInv'
    <3>1. /\ \A a, b : Before(taken, a, b) => Before(taken', a, b)
          /\ \A a \in Elems(taken) : Before(taken', a, x)
      BY <2>1, <2>2, TakeKeepsOrder DEF OutputterInv, TypeOK
    <3>2. /\ Place'[6] = {x}
          /\ \A n \in 1 .. 5 : Place'[n] = Place[n]
      <4>1. Carried("mqtt")' = Carried("mqtt") /\ Carried("solve")' = Carried("solve")
        BY <1>1, <2>4 DEF Carried, Carries, Threads
      <4>2. Carried("output")' = {x}
        BY <2>1, <2>4 DEF Carried, Carries
      <4>3. UNCHANGED <<published, mqttQ, solveQ>>
        BY DEF OutputPoll
      <4> QED BY <4>1, <4>2, <4>3, PlaceIs
    <3>3. \A n \in 1 .. 5 : Place[n] \subseteq Elems(taken) /\ n \in Places
      BY DEF OutputterInv, PipeInv, Places
    <3>4. Ordered(taken', Place')
      <4> SUFFICES ASSUME NEW m \in Places, NEW n \in Places, m < n,
                          NEW a \in Place'[m], NEW b \in Place'[n]
                   PROVE  Before(taken', a, b)
        BY DEF Ordered
      <4>1. m \in 1 .. 5 /\ a \in Place[m]
        BY <3>2 DEF Places
      <4>2. CASE n = 6
        BY <3>1, <3>2, <3>3, <4>1, <4>2
      <4>3. CASE n # 6
        <5>1. n \in 1 .. 5 /\ b \in Place[n]
          BY <3>2, <4>3 DEF Places
        <5>2. Before(taken, a, b)
          BY <4>1, <5>1 DEF OutputterInv, PipeInv, Ordered
        <5> QED BY <3>1, <5>2
      <4> QED BY <4>2, <4>3
    <3>5. \A n \in Places : Place'[n] \subseteq Elems(taken')
      <4>1. \A n \in Places : n = 6 \/ n \in 1 .. 5
        BY DEF Places
      <4> QED BY <2>3, <3>2, <3>3, <4>1
    <3>6. InOrder(taken', published') /\ InOrder(taken', mqttQ') /\ InOrder(taken', solveQ')
      BY <3>1 DEF OutputterInv, PipeInv, InOrder, OutputPoll
    <3> QED BY <3>4, <3>5, <3>6 DEF PipeInv
  <2> QED BY <2>5, <2>6, <2>7 DEF OutputterInv
<1> QED BY <1>2, <1>3

\* pushRealTimeData queues the result for the solve worker, or loses it.
LEMMA OutputPushStep ==
    ASSUME OutputterInv, OutputPush
    PROVE  OutputterInv'
<1> DEFINE x == held["output"]
<1>1. /\ pc' \in [Threads -> States] /\ pc'["output"] = "test" /\ "output" \in Threads
      /\ \A v \in Threads \ {"output"} : pc'[v] = pc[v] \/ (pc[v] = "wait" /\ pc'[v] = "test")
  BY NotifyWakes DEF OutputterInv, OutputPush, States, Threads
<1>2. /\ held' \in [Threads -> Results \cup {0}]
      /\ \A t \in Threads \ {"output"} : held'[t] = held[t]
  BY <1>1 DEF OutputterInv, TypeOK, OutputPush
<1>3. x \in Results /\ Carried("output") = {x}
  BY CarriesResult DEF OutputterInv, OutputPush, Carries, Carried
<1>4. /\ solveQ' \in Seq(Results) /\ Len(solveQ') < SolveMax
      /\ solveQ' = Append(solveQ, x) \/ solveQ' = solveQ
  BY <1>3, FullRefusesNewest, OutputterAssumption DEF OutputterInv, TypeOK, OutputPush
<1>5. TypeOK'
  BY <1>1, <1>2, <1>3, <1>4 DEF OutputterInv, TypeOK, OutputPush, flags, link, source
<1>6. TakenInv'
  BY DEF OutputterInv, TakenInv, OutputPush, source
<1>7. PipeInv'
  <2>1. \A n \in Places : Place'[n] \subseteq Place[n] \/ (n = 5 /\ Place'[n] \subseteq Place[n] \cup {x})
    <3>1. Carried("mqtt")' \subseteq Carried("mqtt") /\ Carried("solve")' \subseteq Carried("solve")
      BY <1>1, <1>2 DEF Carried, Carries, Threads
    <3>2. Carried("output")' = {}
      BY <1>1 DEF Carried, Carries
    <3>3. Elems(solveQ') \subseteq Elems(solveQ) \cup {x}
      <4>1. Elems(Append(solveQ, x)) = Elems(solveQ) \cup {x}
        BY <1>3, AppendTo DEF OutputterInv, TypeOK
      <4> QED BY <1>4, <4>1
    <3>4. UNCHANGED <<published, mqttQ>>
      BY DEF OutputPush
    <3> QED BY <3>1, <3>2, <3>3, <3>4, PlaceIs
  <2>2. x \in Place[6] /\ Place'[6] = {} /\ 5 \in 1 .. 5 /\ 5 + 1 = 6
    BY <1>1, <1>3, PlaceIs DEF Carried, Carries
  <2>3. \A a \in Elems(solveQ) : Before(taken, a, x)
    <3>1. 5 \in Places /\ 6 \in Places /\ 5 < 6
      BY DEF Places
    <3> QED BY <2>2, <3>1, PlaceIs DEF OutputterInv, PipeInv, Ordered
  <2>4. InOrder(taken, solveQ')
    BY <1>3, <1>4, <2>3, AppendInOrder DEF OutputterInv, PipeInv, TypeOK
  <2>5. InOrder(taken, published') /\ InOrder(taken, mqttQ') /\ UNCHANGED taken
    BY DEF OutputterInv, PipeInv, OutputPush
  <2> HIDE DEF x
  <2> QED BY <2>1, <2>2, <2>4, <2>5, MoveStep DEF OutputterInv
<1> QED BY <1>5, <1>6, <1>7 DEF OutputterInv

\* The solve worker takes a result, or finds none.
LEMMA SolvePollStep ==
    ASSUME OutputterInv, SolvePoll
    PROVE  OutputterInv'
<1> DEFINE x == Head(solveQ)
<1>1. /\ pc' \in [Threads -> States] /\ "solve" \in Threads
      /\ \A t \in Threads \ {"solve"} : pc'[t] = pc[t]
  BY DEF OutputterInv, TypeOK, States, Threads, SolvePoll
<1>2. TakenInv'
  BY DEF OutputterInv, TakenInv, SolvePoll, source
<1>3. CASE solveQ = <<>>
  <2>1. pc'["solve"] = "block" /\ UNCHANGED <<solveQ, held>>
    BY <1>1, <1>3 DEF SolvePoll, OutputterInv, TypeOK
  <2>2. TypeOK'
    BY <1>1, <2>1 DEF OutputterInv, TypeOK, SolvePoll, flags, link, source
  <2>3. PipeInv'
    BY <1>1, <2>1, QuietStep DEF OutputterInv, SolvePoll, Carries
  <2> QED BY <1>2, <2>2, <2>3 DEF OutputterInv
<1>4. CASE solveQ # <<>>
  <2>1. /\ pc'["solve"] = "push" /\ held' = [held EXCEPT !["solve"] = x]
        /\ solveQ' = Tail(solveQ)
    BY <1>1, <1>4 DEF SolvePoll, OutputterInv, TypeOK
  <2>2. /\ x \in Results /\ solveQ' \in Seq(Results) /\ Len(solveQ') = Len(solveQ) - 1
        /\ Elems(solveQ) = Elems(solveQ') \cup {x} /\ Len(solveQ) \in Nat
    BY <1>4, <2>1, TailOf DEF OutputterInv, TypeOK
  <2>3. held' \in [Threads -> Results \cup {0}] /\ held'["solve"] = x
        /\ \A t \in Threads \ {"solve"} : held'[t] = held[t]
    BY <1>1, <2>1, <2>2 DEF OutputterInv, TypeOK
  <2>4. TypeOK'
    <3>1. Len(solveQ') < SolveMax /\ hasTask' \in BOOLEAN
      BY <1>4, <2>2, OutputterAssumption DEF OutputterInv, TypeOK, SolvePoll
    <3> QED BY <1>1, <2>2, <2>3, <3>1 DEF OutputterInv, TypeOK, SolvePoll, flags, link, source
  <2>5. PipeInv'
    <3>1. \A n \in Places :
             Place'[n] \subseteq Place[n] \/ (n = 4 /\ Place'[n] \subseteq Place[n] \cup {x})
      <4>1. Carried("mqtt")' = Carried("mqtt") /\ Carried("output")' = Carried("output")
        BY <1>1, <2>3 DEF Carried, Carries, Threads
      <4>2. Carried("solve")' = {x}
        BY <2>1, <2>3 DEF Carried, Carries
      <4>3. UNCHANGED <<published, mqttQ>>
        BY DEF SolvePoll
      <4> QED BY <2>2, <4>1, <4>2, <4>3, PlaceIs
    <3>2. x \in Place[5] /\ Place'[5] = Elems(solveQ') /\ 4 \in 1 .. 5 /\ 4 + 1 = 5
      BY <2>2, PlaceIs
    <3>3. InOrder(taken, solveQ') /\ \A b \in Elems(solveQ') : Before(taken, x, b)
      BY <1>4, <2>1, TailInOrder DEF OutputterInv, TypeOK, PipeInv
    <3>4. InOrder(taken, published') /\ InOrder(taken, mqttQ') /\ UNCHANGED taken
      BY DEF OutputterInv, PipeInv, SolvePoll
    <3> HIDE DEF x
    <3> QED BY <3>1, <3>2, <3>3, <3>4, MoveStep DEF OutputterInv
  <2> QED BY <1>2, <2>4, <2>5 DEF OutputterInv
<1> QED BY <1>3, <1>4

\* pos_history_ keeps its limit: the oldest position makes room.
LEMMA RecordStep ==
    ASSUME NEW h \in Seq(Results), Len(h) <= MaxHist, NEW r \in Results
    PROVE  PushHistory(h, r) \in Seq(Results) /\ Len(PushHistory(h, r)) <= MaxHist
<1>1. CASE Len(h) < MaxHist
  <2>1. Append(h, r) \in Seq(Results) /\ Len(Append(h, r)) = Len(h) + 1 /\ Len(h) \in Nat
    BY AppendTo
  <2> QED BY <1>1, <2>1, OutputterAssumption DEF PushHistory
<1>2. CASE ~(Len(h) < MaxHist)
  <2>1. Len(h) = MaxHist /\ h # <<>>
    BY <1>2, OutputterAssumption
  <2>2. Tail(h) \in Seq(Results) /\ Len(Tail(h)) = MaxHist - 1
    BY <2>1, TailOf
  <2>3. Append(Tail(h), r) \in Seq(Results) /\ Len(Append(Tail(h), r)) = (MaxHist - 1) + 1
    BY <2>2, AppendTo
  <2> QED BY <1>2, <2>3, OutputterAssumption DEF PushHistory
<1> QED BY <1>1, <1>2

\* The solve worker queues the packet for the MQTT worker, or loses it.
LEMMA SolvePushStep ==
    ASSUME OutputterInv, SolvePush
    PROVE  OutputterInv'
<1> DEFINE x == held["solve"]
<1>1. /\ pc' \in [Threads -> States] /\ pc'["solve"] = "test" /\ "solve" \in Threads
      /\ \A v \in Threads \ {"solve"} : pc'[v] = pc[v] \/ (pc[v] = "wait" /\ pc'[v] = "test")
  BY NotifyWakes DEF OutputterInv, SolvePush, States, Threads
<1>2. /\ held' \in [Threads -> Results \cup {0}]
      /\ \A t \in Threads \ {"solve"} : held'[t] = held[t]
  BY <1>1 DEF OutputterInv, TypeOK, SolvePush
<1>3. x \in Results /\ Carried("solve") = {x}
  BY CarriesResult DEF OutputterInv, SolvePush, Carries, Carried
<1>4. /\ mqttQ' \in Seq(Results) /\ Len(mqttQ') < MqttMax
      /\ mqttQ' = Append(mqttQ, x) \/ mqttQ' = mqttQ
  BY <1>3, FullRefusesNewest, OutputterAssumption DEF OutputterInv, TypeOK, SolvePush
<1>5. TypeOK'
  <2>1. hist' \in Seq(Results) /\ Len(hist') <= MaxHist
    BY <1>3, RecordStep DEF OutputterInv, TypeOK, SolvePush
  <2> QED BY <1>1, <1>2, <1>3, <1>4, <2>1 DEF OutputterInv, TypeOK, SolvePush, flags, link, source
<1>6. TakenInv'
  BY DEF OutputterInv, TakenInv, SolvePush, source
<1>7. PipeInv'
  <2>1. \A n \in Places : Place'[n] \subseteq Place[n] \/ (n = 3 /\ Place'[n] \subseteq Place[n] \cup {x})
    <3>1. Carried("mqtt")' \subseteq Carried("mqtt") /\ Carried("output")' \subseteq Carried("output")
      BY <1>1, <1>2 DEF Carried, Carries, Threads
    <3>2. Carried("solve")' = {}
      BY <1>1 DEF Carried, Carries
    <3>3. Elems(mqttQ') \subseteq Elems(mqttQ) \cup {x}
      <4>1. Elems(Append(mqttQ, x)) = Elems(mqttQ) \cup {x}
        BY <1>3, AppendTo DEF OutputterInv, TypeOK
      <4> QED BY <1>4, <4>1
    <3>4. UNCHANGED <<published, solveQ>>
      BY DEF SolvePush
    <3> QED BY <3>1, <3>2, <3>3, <3>4, PlaceIs
  <2>2. x \in Place[4] /\ Place'[4] = {} /\ 3 \in 1 .. 5 /\ 3 + 1 = 4
    BY <1>1, <1>3, PlaceIs DEF Carried, Carries
  <2>3. \A a \in Elems(mqttQ) : Before(taken, a, x)
    <3>1. 3 \in Places /\ 4 \in Places /\ 3 < 4
      BY DEF Places
    <3> QED BY <2>2, <3>1, PlaceIs DEF OutputterInv, PipeInv, Ordered
  <2>4. InOrder(taken, mqttQ')
    BY <1>3, <1>4, <2>3, AppendInOrder DEF OutputterInv, PipeInv, TypeOK
  <2>5. InOrder(taken, published') /\ InOrder(taken, solveQ') /\ UNCHANGED taken
    BY DEF OutputterInv, PipeInv, SolvePush
  <2> HIDE DEF x
  <2> QED BY <2>1, <2>2, <2>4, <2>5, MoveStep DEF OutputterInv
<1> QED BY <1>5, <1>6, <1>7 DEF OutputterInv

\* The MQTT worker takes a packet, or finds none.
LEMMA MqttPollStep ==
    ASSUME OutputterInv, MqttPoll
    PROVE  OutputterInv'
<1> DEFINE x == Head(mqttQ)
<1>1. /\ pc' \in [Threads -> States] /\ "mqtt" \in Threads
      /\ \A t \in Threads \ {"mqtt"} : pc'[t] = pc[t]
  BY DEF OutputterInv, TypeOK, States, Threads, MqttPoll
<1>2. TakenInv'
  BY DEF OutputterInv, TakenInv, MqttPoll, source
<1>3. CASE mqttQ = <<>>
  <2>1. pc'["mqtt"] = "pollErr" /\ UNCHANGED <<mqttQ, held, hasTask>>
    BY <1>1, <1>3 DEF MqttPoll, OutputterInv, TypeOK
  <2>2. TypeOK'
    BY <1>1, <2>1 DEF OutputterInv, TypeOK, MqttPoll, flags, link, source
  <2>3. PipeInv'
    BY <1>1, <2>1, QuietStep DEF OutputterInv, MqttPoll, Carries
  <2> QED BY <1>2, <2>2, <2>3 DEF OutputterInv
<1>4. CASE mqttQ # <<>>
  <2>1. /\ pc'["mqtt"] = "send" /\ held' = [held EXCEPT !["mqtt"] = x]
        /\ mqttQ' = Tail(mqttQ)
    BY <1>1, <1>4 DEF MqttPoll, OutputterInv, TypeOK
  <2>2. /\ x \in Results /\ mqttQ' \in Seq(Results) /\ Len(mqttQ') = Len(mqttQ) - 1
        /\ Elems(mqttQ) = Elems(mqttQ') \cup {x} /\ Len(mqttQ) \in Nat
    BY <1>4, <2>1, TailOf DEF OutputterInv, TypeOK
  <2>3. held' \in [Threads -> Results \cup {0}] /\ held'["mqtt"] = x
        /\ \A t \in Threads \ {"mqtt"} : held'[t] = held[t]
    BY <1>1, <2>1, <2>2 DEF OutputterInv, TypeOK
  <2>4. TypeOK'
    <3>1. Len(mqttQ') < MqttMax /\ hasTask' \in BOOLEAN
      BY <1>4, <2>2, OutputterAssumption DEF OutputterInv, TypeOK, MqttPoll
    <3> QED BY <1>1, <2>2, <2>3, <3>1 DEF OutputterInv, TypeOK, MqttPoll, flags, link, source
  <2>5. PipeInv'
    <3>1. \A n \in Places :
             Place'[n] \subseteq Place[n] \/ (n = 2 /\ Place'[n] \subseteq Place[n] \cup {x})
      <4>1. Carried("solve")' = Carried("solve") /\ Carried("output")' = Carried("output")
        BY <1>1, <2>3 DEF Carried, Carries, Threads
      <4>2. Carried("mqtt")' = {x}
        BY <2>1, <2>3 DEF Carried, Carries
      <4>3. UNCHANGED <<published, solveQ>>
        BY DEF MqttPoll
      <4> QED BY <2>2, <4>1, <4>2, <4>3, PlaceIs
    <3>2. x \in Place[3] /\ Place'[3] = Elems(mqttQ') /\ 2 \in 1 .. 5 /\ 2 + 1 = 3
      BY <2>2, PlaceIs
    <3>3. InOrder(taken, mqttQ') /\ \A b \in Elems(mqttQ') : Before(taken, x, b)
      BY <1>4, <2>1, TailInOrder DEF OutputterInv, TypeOK, PipeInv
    <3>4. InOrder(taken, published') /\ InOrder(taken, solveQ') /\ UNCHANGED taken
      BY DEF OutputterInv, PipeInv, MqttPoll
    <3> HIDE DEF x
    <3> QED BY <3>1, <3>2, <3>3, <3>4, MoveStep DEF OutputterInv
  <2> QED BY <1>2, <2>4, <2>5 DEF OutputterInv
<1> QED BY <1>3, <1>4

\* The packet is published, or lost with the connection.
LEMMA MqttSendStep ==
    ASSUME OutputterInv, MqttSend
    PROVE  OutputterInv'
<1> DEFINE x == held["mqtt"]
<1>1. /\ pc' \in [Threads -> States] /\ pc'["mqtt"] = "pollErr" /\ "mqtt" \in Threads
      /\ \A v \in Threads \ {"mqtt"} : pc'[v] = pc[v]
  BY DEF OutputterInv, TypeOK, States, Threads, MqttSend
<1>2. /\ held' \in [Threads -> Results \cup {0}]
      /\ \A t \in Threads \ {"mqtt"} : held'[t] = held[t]
  BY <1>1 DEF OutputterInv, TypeOK, MqttSend
<1>3. x \in Results /\ Carried("mqtt") = {x}
  BY CarriesResult DEF OutputterInv, MqttSend, Carries, Carried
<1>4. published' = Append(published, x) \/ published' = published
  BY DEF MqttSend
<1>5. /\ Append(published, x) \in Seq(Results)
      /\ Elems(Append(published, x)) = Elems(published) \cup {x}
  BY <1>3, AppendTo DEF OutputterInv, TypeOK
<1>6. TypeOK'
  <2>1. published' \in Seq(Results) /\ lost' \subseteq Results
    BY <1>3, <1>4, <1>5 DEF OutputterInv, TypeOK, MqttSend
  <2> QED BY <1>1, <1>2, <2>1 DEF OutputterInv, TypeOK, MqttSend, flags, link, source
<1>7. TakenInv'
  BY DEF OutputterInv, TakenInv, MqttSend, source
<1>8. PipeInv'
  <2>1. \A n \in Places : Place'[n] \subseteq Place[n] \/ (n = 1 /\ Place'[n] \subseteq Place[n] \cup {x})
    <3>1. Carried("solve")' = Carried("solve") /\ Carried("output")' = Carried("output")
      BY <1>1, <1>2 DEF Carried, Carries, Threads
    <3>2. Carried("mqtt")' = {}
      BY <1>1 DEF Carried, Carries
    <3>3. UNCHANGED <<solveQ, mqttQ>>
      BY DEF MqttSend
    <3> QED BY <1>4, <1>5, <3>1, <3>2, <3>3, PlaceIs
  <2>2. x \in Place[2] /\ Place'[2] = {} /\ 1 \in 1 .. 5 /\ 1 + 1 = 2
    BY <1>1, <1>3, PlaceIs DEF Carried, Carries
  <2>3. \A a \in Elems(published) : Before(taken, a, x)
    <3>1. 1 \in Places /\ 2 \in Places /\ 1 < 2
      BY DEF Places
    <3> QED BY <2>2, <3>1, PlaceIs DEF OutputterInv, PipeInv, Ordered
  <2>4. InOrder(taken, published')
    BY <1>3, <1>4, <2>3, AppendInOrder DEF OutputterInv, PipeInv, TypeOK
  <2>5. InOrder(taken, mqttQ') /\ InOrder(taken, solveQ') /\ UNCHANGED taken
    BY DEF OutputterInv, PipeInv, MqttSend
  <2> HIDE DEF x
  <2> QED BY <2>1, <2>2, <2>4, <2>5, MoveStep DEF OutputterInv
<1> QED BY <1>6, <1>7, <1>8 DEF OutputterInv

\* No step breaks the invariant.
LEMMA OutputterStep == OutputterInv /\ [Next]_vars => OutputterInv'
<1> SUFFICES ASSUME OutputterInv, [Next]_vars PROVE OutputterInv'
  OBVIOUS
<1>1. ASSUME NEW r \in Results, SixEnqueue(r) PROVE OutputterInv'
  BY <1>1, ArriveStep
<1>2. CASE Connect
  <2>1. TypeOK'
    BY <1>2 DEF OutputterInv, TypeOK, Connect, flags, source
  <2>2. TakenInv'
    BY <1>2 DEF OutputterInv, TakenInv, Connect, source
  <2>3. PipeInv'
    BY <1>2, QuietStep DEF OutputterInv, Connect, Carries
  <2> QED BY <2>1, <2>2, <2>3 DEF OutputterInv
<1>3. CASE Disconnect
  BY <1>3, WarnStep DEF Disconnect
<1>4. CASE FuserWarns
  BY <1>4, WarnStep DEF FuserWarns, OutputterInv, TypeOK
<1>5. ASSUME NEW t \in Threads, Loop(t) PROVE OutputterInv'
  BY <1>5, IdleStep, OutputPollStep, OutputPushStep, SolvePollStep, SolvePushStep, MqttPollStep,
     MqttSendStep DEF Loop
<1>6. CASE Start \/ Stop \/ Stopping
  BY <1>6, MainStep
<1>7. CASE UNCHANGED vars
  <2>1. TypeOK'
    BY <1>7 DEF OutputterInv, TypeOK, vars
  <2>2. TakenInv'
    BY <1>7 DEF OutputterInv, TakenInv, vars
  <2>3. PipeInv'
    BY <1>7, QuietStep DEF OutputterInv, vars, Carries
  <2> QED BY <2>1, <2>2, <2>3 DEF OutputterInv
<1> QED BY <1>1, <1>2, <1>3, <1>4, <1>5, <1>6, <1>7 DEF Next

\* So it holds throughout.
LEMMA OutputterInvariant == Spec => []OutputterInv
  BY OutputterInit, OutputterStep, PTL DEF Spec

-----------------------------------------------------------------------------
(* The theorems about the outputter *)

\* The queues and the position history keep their limits, for all of them.
THEOREM OutputterTypeCorrect == Spec => []TypeOK
<1>1. OutputterInv => TypeOK
  BY DEF OutputterInv
<1> QED BY <1>1, OutputterInvariant, PTL

\* In a sequence without repetition an item has one index.
LEMMA IndexIs ==
    ASSUME NEW T, NoRepeats(T), NEW i \in DOMAIN T
    PROVE  Index(T, T[i]) = i
<1>1. Index(T, T[i]) \in DOMAIN T /\ T[Index(T, T[i])] = T[i]
  BY Zenon DEF Index
<1> QED BY <1>1 DEF NoRepeats

\* The broker receives packets in the order in which outputLoop took the
\* results, each at most once: for any queue sizes, any overflow and any loss.
THEOREM AlwaysPublishedInOrder == Spec => []PublishedInOrder
<1>1. OutputterInv => PublishedInOrder
  <2> SUFFICES ASSUME OutputterInv, NEW i \in DOMAIN published, NEW j \in DOMAIN published, i < j
               PROVE  Index(taken, published[i]) < Index(taken, published[j])
    BY DEF PublishedInOrder
  <2>1. Before(taken, published[i], published[j]) /\ NoRepeats(taken)
    BY DEF OutputterInv, PipeInv, TakenInv, InOrder
  <2>2. PICK k \in DOMAIN taken, l \in DOMAIN taken :
           k < l /\ taken[k] = published[i] /\ taken[l] = published[j]
    BY <2>1 DEF Before
  <2>3. Index(taken, taken[k]) = k /\ Index(taken, taken[l]) = l
    BY <2>1, IndexIs
  <2> QED BY <2>2, <2>3
<1> QED BY <1>1, OutputterInvariant, PTL

\* enqueueWithDropOld does not do what its name, its declaration and its comment
\* say ("drop the old data at the head"): its limit is one more than fits, so no
\* queue ever reaches it, and what a queue holds leaves it only to its worker.
\* A full queue refuses the newest result instead.
NothingOldDropped ==
    [][/\ \A r \in Elems(solveQ) \ Elems(solveQ') : held'["solve"] = r
       /\ \A r \in Elems(mqttQ) \ Elems(mqttQ') : held'["mqtt"] = r]_vars

\* The branch of enqueueWithDropOld that drops old items is dead, for queues of
\* any size and any interleaving of their workers with outputLoop.
THEOREM DropOldIsDead == Spec => NothingOldDropped
<1> DEFINE Kept == /\ \A r \in Elems(solveQ) \ Elems(solveQ') : held'["solve"] = r
                   /\ \A r \in Elems(mqttQ) \ Elems(mqttQ') : held'["mqtt"] = r
<1>1. OutputterInv /\ [Next]_vars => [Kept]_vars
  <2> SUFFICES ASSUME OutputterInv, Next PROVE Kept
    OBVIOUS
  <2>1. CASE UNCHANGED <<solveQ, mqttQ>>
    BY <2>1
  <2>2. CASE OutputPush
    <3>1. held["output"] \in Results
      BY <2>2, CarriesResult DEF OutputterInv, OutputPush, Carries
    <3>2. solveQ' = Append(solveQ, held["output"]) \/ solveQ' = solveQ
      BY <2>2, <3>1, FullRefusesNewest, OutputterAssumption DEF OutputterInv, TypeOK, OutputPush
    <3>3. Elems(Append(solveQ, held["output"])) = Elems(solveQ) \cup {held["output"]}
      BY <3>1, AppendTo DEF OutputterInv, TypeOK
    <3> QED BY <2>2, <3>2, <3>3 DEF OutputPush
  <2>3. CASE SolvePush
    <3>1. held["solve"] \in Results
      BY <2>3, CarriesResult DEF OutputterInv, SolvePush, Carries
    <3>2. mqttQ' = Append(mqttQ, held["solve"]) \/ mqttQ' = mqttQ
      BY <2>3, <3>1, FullRefusesNewest, OutputterAssumption DEF OutputterInv, TypeOK, SolvePush
    <3>3. Elems(Append(mqttQ, held["solve"])) = Elems(mqttQ) \cup {held["solve"]}
      BY <3>1, AppendTo DEF OutputterInv, TypeOK
    <3> QED BY <2>3, <3>2, <3>3 DEF SolvePush
  <2>4. CASE SolvePoll /\ solveQ # <<>>
    <3>1. Elems(solveQ) = Elems(Tail(solveQ)) \cup {Head(solveQ)}
      BY <2>4, TailOf DEF OutputterInv, TypeOK
    <3>2. solveQ' = Tail(solveQ) /\ held'["solve"] = Head(solveQ) /\ UNCHANGED mqttQ
      BY <2>4 DEF SolvePoll, OutputterInv, TypeOK, Threads
    <3> QED BY <3>1, <3>2
  <2>5. CASE MqttPoll /\ mqttQ # <<>>
    <3>1. Elems(mqttQ) = Elems(Tail(mqttQ)) \cup {Head(mqttQ)}
      BY <2>5, TailOf DEF OutputterInv, TypeOK
    <3>2. mqttQ' = Tail(mqttQ) /\ held'["mqtt"] = Head(mqttQ) /\ UNCHANGED solveQ
      BY <2>5 DEF MqttPoll, OutputterInv, TypeOK, Threads
    <3> QED BY <3>1, <3>2
  <2>6. UNCHANGED <<solveQ, mqttQ>> \/ OutputPush \/ SolvePush
        \/ (SolvePoll /\ solveQ # <<>>) \/ (MqttPoll /\ mqttQ # <<>>)
    <3>1. ASSUME NEW t \in Threads, Loop(t)
          PROVE  UNCHANGED <<solveQ, mqttQ>> \/ OutputPush \/ SolvePush
                 \/ (SolvePoll /\ solveQ # <<>>) \/ (MqttPoll /\ mqttQ # <<>>)
      BY <3>1 DEF Loop, Test, Block, Timeout, OutputPoll, SolvePoll, MqttPoll, MqttSend,
                  MqttPollErr, DbPoll
    <3>2. ASSUME ~\E t \in Threads : Loop(t) PROVE UNCHANGED <<solveQ, mqttQ>>
      BY <3>2 DEF Next, SixEnqueue, Connect, Disconnect, FuserWarns, Warn, Start, Stop, Stopping,
                  JoinOutput, StopWorkers, NotifyAll, JoinWorkers, StopMqtt, rest, work
    <3> QED BY <3>1, <3>2
  <2> QED BY <2>1, <2>2, <2>3, <2>4, <2>5, <2>6
<1> QED BY <1>1, OutputterInvariant, PTL DEF Spec, NothingOldDropped

-----------------------------------------------------------------------------
(* The outputter implements LossyPipe.  Flow is the concatenation of what  *)
(* the threads carry and what the queues hold; a result that moves from    *)
(* one to the next leaves it as it is.  Beyond OutputterInv this needs     *)
(* that lost results were taken, so that no result enters twice, and that  *)
(* start() finds no outputLoop, so that it cannot drop what one carries.   *)

FlowInv == /\ lost \subseteq Elems(taken)
           /\ mainPc = "start" => pc["output"] = "none"

\* Concatenation, as it is needed here.
LEMMA Concat ==
    ASSUME NEW s \in Seq(Results), NEW t \in Seq(Results), NEW u \in Seq(Results)
    PROVE  /\ s \o t \in Seq(Results) /\ (s \o t) \o u = s \o (t \o u)
           /\ s \o <<>> = s /\ <<>> \o s = s
           /\ Len(s \o t) = Len(s) + Len(t) /\ Len(s) \in Nat /\ Len(t) \in Nat
  BY ConcatProperties, ConcatAssociative, ConcatEmptySeq

\* Its items.
LEMMA ConcatAt ==
    ASSUME NEW s \in Seq(Results), NEW t \in Seq(Results), NEW i \in 1 .. Len(s) + Len(t)
    PROVE  (s \o t)[i] = IF i <= Len(s) THEN s[i] ELSE t[i - Len(s)]
  OBVIOUS

\* One result, as a sequence of its own.
LEMMA Single ==
    ASSUME NEW x \in Results
    PROVE  /\ <<x>> \in Seq(Results) /\ <<>> \in Seq(Results) /\ Len(<<x>>) = 1
           /\ \A s \in Seq(Results) : Append(s, x) = s \o <<x>>
<1>1. ASSUME NEW s \in Seq(Results) PROVE Append(s, x) = s \o <<x>>
  BY AppendIsConcat
<1>2. <<x>> \in Seq(Results) /\ <<>> \in Seq(Results) /\ Len(<<x>>) = 1
  OBVIOUS
<1> QED BY <1>1, <1>2

\* A non-empty queue is its head and its tail.
LEMMA Front ==
    ASSUME NEW s \in Seq(Results), s # <<>>
    PROVE  s = <<Head(s)>> \o Tail(s) /\ Head(s) \in Results /\ Tail(s) \in Seq(Results)
<1>1. /\ Head(s) \in Results /\ Tail(s) \in Seq(Results) /\ Len(Tail(s)) = Len(s) - 1
      /\ Len(s) \in Nat \ {0} /\ Head(s) = s[1]
      /\ \A i \in 1 .. Len(s) - 1 : Tail(s)[i] = s[i + 1]
  OBVIOUS
<1> DEFINE h == <<Head(s)>>
           t == Tail(s)
<1>2. h \in Seq(Results) /\ Len(h) = 1 /\ h[1] = s[1]
  BY <1>1
<1>3. t \in Seq(Results) /\ Len(t) = Len(s) - 1 /\ \A i \in 1 .. Len(s) - 1 : t[i] = s[i + 1]
  BY <1>1
<1> HIDE DEF h, t
<1>4. /\ h \o t \in Seq(Results) /\ Len(h \o t) = Len(h) + Len(t)
      /\ \A i \in 1 .. Len(h) + Len(t) :
            (h \o t)[i] = IF i <= Len(h) THEN h[i] ELSE t[i - Len(h)]
  <2>1. h \o t \in Seq(Results) /\ Len(h \o t) = Len(h) + Len(t)
    BY <1>2, <1>3, Concat
  <2>2. ASSUME NEW i \in 1 .. Len(h) + Len(t)
        PROVE  (h \o t)[i] = IF i <= Len(h) THEN h[i] ELSE t[i - Len(h)]
    BY <1>2, <1>3, ConcatAt
  <2> QED BY <2>1, <2>2
<1>5. Len(h \o t) = Len(s)
  BY <1>1, <1>2, <1>3, <1>4
<1>6. \A i \in 1 .. Len(s) : (h \o t)[i] = s[i]
  <2> SUFFICES ASSUME NEW i \in 1 .. Len(s) PROVE (h \o t)[i] = s[i]
    OBVIOUS
  <2>1. CASE i = 1
    BY <1>1, <1>2, <1>3, <1>4, <2>1
  <2>2. CASE i # 1
    <3>1. i - 1 \in 1 .. Len(s) - 1 /\ (i - 1) + 1 = i /\ ~(i <= 1) /\ i \in 1 .. Len(h) + Len(t)
      BY <1>1, <1>2, <1>3, <2>2
    <3> QED BY <1>2, <1>3, <1>4, <3>1
  <2> QED BY <2>1, <2>2
<1>7. h \o t = s
  BY <1>4, <1>5, <1>6, SeqEqual
<1> QED BY <1>1, <1>7 DEF h, t

\* The head and the tail of what begins with one result.
LEMMA FrontOfConcat ==
    ASSUME NEW x \in Results, NEW s \in Seq(Results)
    PROVE  /\ <<x>> \o s # <<>> /\ Head(<<x>> \o s) = x /\ Tail(<<x>> \o s) = s
<1> DEFINE p == <<x>> \o s
<1>1. /\ p \in Seq(Results) /\ Len(p) = 1 + Len(s) /\ Len(s) \in Nat
      /\ \A i \in 1 .. 1 + Len(s) : p[i] = IF i <= 1 THEN x ELSE s[i - 1]
  <2> DEFINE h == <<x>>
  <2>1. h \in Seq(Results) /\ Len(h) = 1 /\ h[1] = x
    OBVIOUS
  <2> HIDE DEF h
  <2>2. /\ h \o s \in Seq(Results) /\ Len(h \o s) = Len(h) + Len(s) /\ Len(s) \in Nat
        /\ \A i \in 1 .. Len(h) + Len(s) : (h \o s)[i] = IF i <= Len(h) THEN h[i] ELSE s[i - Len(h)]
    <3>1. h \o s \in Seq(Results) /\ Len(h \o s) = Len(h) + Len(s) /\ Len(s) \in Nat
      BY <2>1, Concat
    <3>2. ASSUME NEW i \in 1 .. Len(h) + Len(s)
          PROVE  (h \o s)[i] = IF i <= Len(h) THEN h[i] ELSE s[i - Len(h)]
      BY <2>1, ConcatAt
    <3> QED BY <3>1, <3>2
  <2>3. \A i \in 1 .. 1 + Len(s) : i <= 1 => i = 1
    BY <2>2
  <2>4. \A i \in 1 .. 1 + Len(s) : (h \o s)[i] = IF i <= 1 THEN x ELSE s[i - 1]
    BY <2>1, <2>2, <2>3
  <2> QED BY <2>1, <2>2, <2>4 DEF h
<1> HIDE DEF p
<1>2. p # <<>> /\ Head(p) = p[1] /\ p[1] = x
  BY <1>1
<1>3. /\ Tail(p) \in Seq(Results) /\ Len(Tail(p)) = Len(s)
      /\ \A i \in 1 .. Len(s) : Tail(p)[i] = p[i + 1]
  BY <1>1, <1>2
<1>4. \A i \in 1 .. Len(s) : p[i + 1] = s[i]
  <2> SUFFICES ASSUME NEW i \in 1 .. Len(s) PROVE p[i + 1] = s[i]
    OBVIOUS
  <2>1. i + 1 \in 1 .. 1 + Len(s) /\ ~(i + 1 <= 1) /\ (i + 1) - 1 = i
    BY <1>1
  <2> QED BY <1>1, <2>1
<1>5. Tail(p) = s
  BY <1>3, <1>4, SeqEqual
<1> QED BY <1>2, <1>5 DEF p

\* The items of a concatenation.
LEMMA ElemsConcat ==
    ASSUME NEW s \in Seq(Results), NEW t \in Seq(Results)
    PROVE  Elems(s \o t) \subseteq Elems(s) \cup Elems(t)
<1> SUFFICES ASSUME NEW x \in Elems(s \o t) PROVE x \in Elems(s) \cup Elems(t)
  OBVIOUS
<1>1. /\ s \o t \in Seq(Results) /\ Len(s \o t) = Len(s) + Len(t)
      /\ Len(s) \in Nat /\ Len(t) \in Nat
  BY Concat
<1>2. /\ DOMAIN (s \o t) = 1 .. Len(s) + Len(t)
      /\ DOMAIN s = 1 .. Len(s) /\ DOMAIN t = 1 .. Len(t)
  BY <1>1
<1>3. PICK i \in 1 .. Len(s) + Len(t) : x = (s \o t)[i]
  BY <1>2 DEF Elems
<1>4. x = IF i <= Len(s) THEN s[i] ELSE t[i - Len(s)]
  BY <1>3, ConcatAt
<1>5. CASE i <= Len(s)
  <2>1. i \in 1 .. Len(s)
    BY <1>1, <1>5
  <2> QED BY <1>2, <1>4, <1>5, <2>1 DEF Elems
<1>6. CASE ~(i <= Len(s))
  <2>1. i - Len(s) \in 1 .. Len(t)
    BY <1>1, <1>6
  <2> QED BY <1>2, <1>4, <1>6, <2>1 DEF Elems
<1> QED BY <1>5, <1>6

\* What the steps of the pipe do: x is put behind p; p is x and then p2; p2 is
\* p without one occurrence of x.
Enters(p, x, p2) == p2 = Append(p, x)
Leaves(p, x, p2) == p # <<>> /\ Head(p) = x /\ Tail(p) = p2
Loses(p, x, p2) == \E i \in DOMAIN p :
    /\ p[i] = x
    /\ p2 = SubSeq(p, 1, i - 1) \o SubSeq(p, i + 1, Len(p))

\* Taking one result out of the middle.
LEMMA CutOut ==
    ASSUME NEW s \in Seq(Results), NEW t \in Seq(Results), NEW x \in Results
    PROVE  Loses((s \o <<x>>) \o t, x, s \o t)
<1> DEFINE h == <<x>>
           a == s \o h
           p == a \o t
           n == Len(s)
           k == Len(t)
<1>1. h \in Seq(Results) /\ Len(h) = 1 /\ h[1] = x
  BY Single
<1> HIDE DEF h
<1>2. a \in Seq(Results) /\ Len(a) = n + 1 /\ n \in Nat /\ k \in Nat
  <2>1. s \o h \in Seq(Results) /\ Len(s \o h) = Len(s) + Len(h) /\ Len(s) \in Nat
    BY <1>1, Concat
  <2>2. Len(t) \in Nat
    BY LenProperties
  <2> QED BY <1>1, <2>1, <2>2
<1>3. \A i \in 1 .. n : a[i] = s[i]
  <2> SUFFICES ASSUME NEW i \in 1 .. n PROVE a[i] = s[i]
    OBVIOUS
  <2>1. i \in 1 .. Len(s) + Len(h) /\ i <= Len(s)
    BY <1>1, <1>2
  <2> QED BY <1>1, <2>1, ConcatAt
<1>4. a[n + 1] = x
  <2>1. n + 1 \in 1 .. Len(s) + Len(h) /\ ~(n + 1 <= Len(s)) /\ (n + 1) - Len(s) = 1
    BY <1>1, <1>2
  <2> QED BY <1>1, <2>1, ConcatAt
<1> HIDE DEF a
<1>5. p \in Seq(Results) /\ Len(p) = n + 1 + k
  BY <1>2, Concat
<1>6. \A i \in 1 .. n + 1 : p[i] = a[i]
  <2> SUFFICES ASSUME NEW i \in 1 .. n + 1 PROVE p[i] = a[i]
    OBVIOUS
  <2>1. i \in 1 .. Len(a) + Len(t) /\ i <= Len(a)
    BY <1>2
  <2> QED BY <1>2, <2>1, ConcatAt
<1>7. \A j \in 1 .. k : p[n + 1 + j] = t[j]
  <2> SUFFICES ASSUME NEW j \in 1 .. k PROVE p[n + 1 + j] = t[j]
    OBVIOUS
  <2>1. n + 1 + j \in 1 .. Len(a) + Len(t) /\ ~(n + 1 + j <= Len(a)) /\ (n + 1 + j) - Len(a) = j
    BY <1>2
  <2> QED BY <1>2, <2>1, ConcatAt
<1> HIDE DEF p, n, k
<1>a. \A i \in 1 .. Len(p) : p[i] \in Results
  BY <1>5
<1>b. DOMAIN p = 1 .. Len(p) /\ n + 1 \in 1 .. Len(p)
  BY <1>2, <1>5
<1>8. SubSeq(p, 1, n) = s
  <2>1. \A i \in 1 .. n : p[i] \in Results
    BY <1>2, <1>5, <1>a
  <2>2. /\ SubSeq(p, 1, n) \in Seq(Results)
        /\ Len(SubSeq(p, 1, n)) = IF 1 <= n THEN n - 1 + 1 ELSE 0
        /\ \A i \in 1 .. n - 1 + 1 : SubSeq(p, 1, n)[i] = p[1 + i - 1]
    BY <1>2, <2>1, SubSeqProperties
  <2>3. Len(SubSeq(p, 1, n)) = n
    BY <1>2, <2>2
  <2>4. \A i \in 1 .. n : i \in 1 .. n - 1 + 1 /\ 1 + i - 1 = i /\ i \in 1 .. n + 1
    BY <1>2
  <2>5. \A i \in 1 .. n : SubSeq(p, 1, n)[i] = s[i]
    BY <1>3, <1>6, <2>2, <2>4
  <2> QED BY <2>2, <2>3, <2>5, SeqEqual DEF n
<1>9. SubSeq(p, n + 2, Len(p)) = t
  <2>1. /\ n + 2 \in Int /\ Len(p) \in Int /\ \A i \in n + 2 .. Len(p) : p[i] \in Results
    BY <1>2, <1>5, <1>a
  <2>2. /\ SubSeq(p, n + 2, Len(p)) \in Seq(Results)
        /\ Len(SubSeq(p, n + 2, Len(p))) = IF n + 2 <= Len(p) THEN Len(p) - (n + 2) + 1 ELSE 0
        /\ \A i \in 1 .. Len(p) - (n + 2) + 1 : SubSeq(p, n + 2, Len(p))[i] = p[n + 2 + i - 1]
    BY <2>1, SubSeqProperties
  <2>3. Len(SubSeq(p, n + 2, Len(p))) = k
    BY <1>2, <1>5, <2>2
  <2>4. \A i \in 1 .. k : i \in 1 .. Len(p) - (n + 2) + 1 /\ n + 2 + i - 1 = n + 1 + i
    BY <1>2, <1>5
  <2>5. \A i \in 1 .. k : SubSeq(p, n + 2, Len(p))[i] = t[i]
    BY <1>7, <2>2, <2>4
  <2> QED BY <2>2, <2>3, <2>5, SeqEqual DEF k
<1>10. p[n + 1] = x /\ (n + 1) - 1 = n /\ (n + 1) + 1 = n + 2
  BY <1>2, <1>4, <1>6
<1>11. Loses(p, x, s \o t)
  BY <1>8, <1>9, <1>10, <1>b DEF Loses
<1> QED BY <1>11 DEF p, a, h

-----------------------------------------------------------------------------
(* The five parts of the flow: with the MQTT worker (m), in its queue (q), *)
(* with the solve worker (s), in its queue (t), with outputLoop (o).       *)

Line(m, q, s, t, o) == (((m \o q) \o s) \o t) \o o

\* Concatenation, one law at a time.
LEMMA ConcatIn ==
    ASSUME NEW s \in Seq(Results), NEW t \in Seq(Results)
    PROVE  s \o t \in Seq(Results)
  BY ConcatProperties

\* Appending nothing.
LEMMA ConcatNothing ==
    ASSUME NEW s \in Seq(Results)
    PROVE  s \o <<>> = s
  BY ConcatEmptySeq

\* Where the brackets are does not matter.
LEMMA Associative ==
    ASSUME NEW s \in Seq(Results), NEW t \in Seq(Results), NEW u \in Seq(Results)
    PROVE  (s \o t) \o u = s \o (t \o u)
  BY ConcatAssociative

\* What is before the last part is a sequence of results.
LEMMA LineFront ==
    ASSUME NEW m \in Seq(Results), NEW q \in Seq(Results), NEW s \in Seq(Results),
           NEW t \in Seq(Results)
    PROVE  (m \o q) \o s \in Seq(Results) /\ ((m \o q) \o s) \o t \in Seq(Results)
<1>1. m \o q \in Seq(Results)
  BY ConcatIn
<1>2. (m \o q) \o s \in Seq(Results)
  BY <1>1, ConcatIn
<1> QED BY <1>2, ConcatIn

\* At the end of the line a result enters.
LEMMA LineEnter ==
    ASSUME NEW m \in Seq(Results), NEW q \in Seq(Results), NEW s \in Seq(Results),
           NEW t \in Seq(Results), NEW x \in Results
    PROVE  Enters(Line(m, q, s, t, <<>>), x, Line(m, q, s, t, <<x>>))
<1>1. PICK b \in Seq(Results) : b = ((m \o q) \o s) \o t
  BY LineFront
<1>2. Append(b, x) = b \o <<x>>
  BY Single
<1>3. b \o <<>> = b
  BY ConcatNothing
<1> QED BY <1>1, <1>2, <1>3 DEF Line, Enters

\* It moves on into the queue of the solve worker.
LEMMA LinePass ==
    ASSUME NEW m \in Seq(Results), NEW q \in Seq(Results), NEW s \in Seq(Results),
           NEW t \in Seq(Results), NEW x \in Results
    PROVE  Line(m, q, s, Append(t, x), <<>>) = Line(m, q, s, t, <<x>>)
<1>1. PICK a \in Seq(Results) : a = (m \o q) \o s
  BY LineFront
<1>2. PICK h \in Seq(Results) : h = <<x>> /\ Append(t, x) = t \o h
  BY Single
<1>3. (a \o t) \o h = a \o (t \o h)
  BY Associative
<1>4. a \o t \in Seq(Results)
  BY ConcatIn
<1>5. (a \o t) \o h \in Seq(Results)
  BY <1>4, ConcatIn
<1>6. ((a \o t) \o h) \o <<>> = (a \o t) \o h
  BY <1>5, ConcatNothing
<1> QED BY <1>1, <1>2, <1>3, <1>6 DEF Line

\* Or it gets lost there.
LEMMA LineDrop ==
    ASSUME NEW m \in Seq(Results), NEW q \in Seq(Results), NEW s \in Seq(Results),
           NEW t \in Seq(Results), NEW x \in Results
    PROVE  Loses(Line(m, q, s, t, <<x>>), x, Line(m, q, s, t, <<>>))
<1>1. PICK b \in Seq(Results) : b = ((m \o q) \o s) \o t
  BY LineFront
<1>2. <<>> \in Seq(Results) /\ b \o <<x>> \in Seq(Results)
  BY Single, ConcatIn
<1>3. Loses((b \o <<x>>) \o <<>>, x, b \o <<>>)
  BY <1>2, CutOut
<1>4. (b \o <<x>>) \o <<>> = b \o <<x>>
  BY <1>2, ConcatNothing
<1> QED BY <1>1, <1>3, <1>4 DEF Line

\* The solve worker: takes the oldest of its queue, passes it on, or loses it.
LEMMA LineSolve ==
    ASSUME NEW m \in Seq(Results), NEW q \in Seq(Results), NEW t \in Seq(Results),
           NEW o \in Seq(Results), NEW x \in Results
    PROVE  /\ Line(m, q, <<x>>, t, o) = Line(m, q, <<>>, <<x>> \o t, o)
           /\ Line(m, Append(q, x), <<>>, t, o) = Line(m, q, <<x>>, t, o)
           /\ Loses(Line(m, q, <<x>>, t, o), x, Line(m, q, <<>>, t, o))
<1>1. ASSUME NEW h \in Seq(Results)
      PROVE  /\ Line(m, q, h, t, o) = ((m \o q) \o h) \o (t \o o)
             /\ Line(m, q, <<>>, t, o) = (m \o q) \o (t \o o)
             /\ Line(m, q, <<>>, h \o t, o) = Line(m, q, h, t, o)
             /\ Line(m, q \o h, <<>>, t, o) = Line(m, q, h, t, o)
             /\ m \o q \in Seq(Results) /\ t \o o \in Seq(Results)
  <2>1. m \o q \in Seq(Results)
    BY ConcatIn
  <2>2. t \o o \in Seq(Results)
    BY ConcatIn
  <2>3. (m \o q) \o h = m \o (q \o h)
    BY Associative
  <2>4. (m \o q) \o h \in Seq(Results)
    BY <2>1, ConcatIn
  <2>5. ((m \o q) \o h) \o t = (m \o q) \o (h \o t)
    BY <2>1, Associative
  <2>6. (((m \o q) \o h) \o t) \o o = ((m \o q) \o h) \o (t \o o)
    BY <2>4, Associative
  <2>7. ((m \o q) \o t) \o o = (m \o q) \o (t \o o)
    BY <2>1, Associative
  <2>8. (m \o q) \o <<>> = m \o q /\ ((m \o q) \o h) \o <<>> = (m \o q) \o h
    BY <2>1, <2>4, ConcatNothing
  <2> QED BY <2>1, <2>2, <2>3, <2>5, <2>6, <2>7, <2>8 DEF Line
<1>2. PICK h \in Seq(Results) : h = <<x>> /\ Append(q, x) = q \o h
  BY Single
<1>3. Loses(((m \o q) \o h) \o (t \o o), x, (m \o q) \o (t \o o))
  BY <1>1, <1>2, CutOut
<1> QED BY <1>1, <1>2, <1>3

\* What the MQTT worker carries stands in front of the line.
LEMMA LineHead ==
    ASSUME NEW q \in Seq(Results), NEW s \in Seq(Results), NEW t \in Seq(Results),
           NEW o \in Seq(Results), NEW h \in Seq(Results)
    PROVE  /\ Line(h, q, s, t, o) = h \o Line(<<>>, q, s, t, o)
           /\ Line(<<>>, q, s, t, o) \in Seq(Results)
<1>1. <<>> \o q = q
  BY Concat
<1>2. q \o s \in Seq(Results) /\ (q \o s) \o t \in Seq(Results)
  BY LineFront
<1>3. ((q \o s) \o t) \o o \in Seq(Results)
  BY <1>2, ConcatIn
<1>4. (h \o q) \o s = h \o (q \o s)
  BY Associative
<1>5. (h \o (q \o s)) \o t = h \o ((q \o s) \o t)
  BY <1>2, Associative
<1>6. (h \o ((q \o s) \o t)) \o o = h \o (((q \o s) \o t) \o o)
  BY <1>2, Associative
<1> QED BY <1>1, <1>3, <1>4, <1>5, <1>6 DEF Line

\* The MQTT worker takes the oldest of its queue.
LEMMA LineTake ==
    ASSUME NEW q \in Seq(Results), NEW s \in Seq(Results), NEW t \in Seq(Results),
           NEW o \in Seq(Results), NEW x \in Results
    PROVE  Line(<<x>>, q, s, t, o) = Line(<<>>, <<x>> \o q, s, t, o)
<1>1. PICK h \in Seq(Results) : h = <<x>>
  BY Single
<1>2. h \o q \in Seq(Results)
  BY ConcatIn
<1>3. <<>> \o (h \o q) = h \o q
  BY <1>2, Concat
<1> QED BY <1>1, <1>3 DEF Line

\* It publishes it, or loses it.
LEMMA LineLeave ==
    ASSUME NEW q \in Seq(Results), NEW s \in Seq(Results), NEW t \in Seq(Results),
           NEW o \in Seq(Results), NEW x \in Results
    PROVE  /\ Leaves(Line(<<x>>, q, s, t, o), x, Line(<<>>, q, s, t, o))
           /\ Loses(Line(<<x>>, q, s, t, o), x, Line(<<>>, q, s, t, o))
<1>1. PICK h \in Seq(Results) : h = <<x>>
  BY Single
<1>2. Line(h, q, s, t, o) = h \o Line(<<>>, q, s, t, o) /\ Line(<<>>, q, s, t, o) \in Seq(Results)
  BY LineHead
<1>3. PICK r \in Seq(Results) : r = Line(<<>>, q, s, t, o)
  BY <1>2
<1>4. Leaves(<<x>> \o r, x, r)
  BY FrontOfConcat DEF Leaves
<1>5. Loses((<<>> \o <<x>>) \o r, x, <<>> \o r)
  BY CutOut, Single
<1>6. <<>> \o h = h
  BY Concat
<1>7. <<>> \o r = r
  BY Concat
<1> QED BY <1>1, <1>2, <1>3, <1>4, <1>5, <1>6, <1>7

-----------------------------------------------------------------------------
(* The steps of the outputter as steps of the pipe *)

Stations == {"mqtt", "solve", "output"}

\* Flow, before and after a step.
LEMMA FlowIs ==
    /\ Flow = Line(InFlight("mqtt"), mqttQ, InFlight("solve"), solveQ, InFlight("output"))
    /\ Flow' = Line(InFlight("mqtt")', mqttQ', InFlight("solve")', solveQ', InFlight("output")')
<1>1. Flow = Line(InFlight("mqtt"), mqttQ, InFlight("solve"), solveQ, InFlight("output"))
  BY DEF Flow, Line
<1>2. Flow' = Line(InFlight("mqtt")', mqttQ', InFlight("solve")', solveQ', InFlight("output")')
  BY DEF Flow, Line
<1> QED BY <1>1, <1>2

\* What the threads carry are results, and they were taken.
LEMMA InFlightTaken ==
    ASSUME OutputterInv, NEW t \in Stations
    PROVE  /\ InFlight(t) \in Seq(Results) /\ Elems(InFlight(t)) \subseteq Elems(taken)
           /\ Carries(t) => held[t] \in Results /\ held[t] \in Elems(taken) /\ InFlight(t) = <<held[t]>>
           /\ ~Carries(t) => InFlight(t) = <<>>
<1>1. /\ Place[2] \subseteq Elems(taken) /\ Place[4] \subseteq Elems(taken)
      /\ Place[6] \subseteq Elems(taken)
  BY DEF OutputterInv, PipeInv, Places
<1>2. Carried(t) \subseteq Elems(taken)
  BY <1>1, PlaceIs DEF Stations
<1>3. Carries(t) => held[t] \in Elems(taken)
  BY <1>2 DEF Carried
<1>4. Elems(taken) \subseteq Results
  BY DEF OutputterInv, TypeOK, Elems
<1>5. (Carries(t) => InFlight(t) = <<held[t]>>) /\ (~Carries(t) => InFlight(t) = <<>>)
  BY DEF InFlight
<1>6. \A x \in Results : <<x>> \in Seq(Results) /\ Elems(<<x>>) = {x}
  BY DEF Elems
<1>7. <<>> \in Seq(Results) /\ Elems(<<>>) = {}
  BY DEF Elems
<1> QED BY <1>3, <1>4, <1>5, <1>6, <1>7

\* So was everything on its way.
LEMMA FlowTaken ==
    ASSUME OutputterInv
    PROVE  Elems(Flow) \subseteq Elems(taken)
<1> DEFINE m == InFlight("mqtt")
           s == InFlight("solve")
           o == InFlight("output")
<1>1. /\ m \in Seq(Results) /\ s \in Seq(Results) /\ o \in Seq(Results)
      /\ Elems(m) \subseteq Elems(taken) /\ Elems(s) \subseteq Elems(taken)
      /\ Elems(o) \subseteq Elems(taken)
  BY InFlightTaken DEF Stations
<1>2. mqttQ \in Seq(Results) /\ solveQ \in Seq(Results)
  BY DEF OutputterInv, TypeOK
<1>3. Elems(mqttQ) \subseteq Elems(taken) /\ Elems(solveQ) \subseteq Elems(taken)
  <2>1. 3 \in Places /\ 5 \in Places
    BY DEF Places
  <2> QED BY <2>1, PlaceIs DEF OutputterInv, PipeInv
<1> HIDE DEF m, s, o
<1>4. m \o mqttQ \in Seq(Results) /\ Elems(m \o mqttQ) \subseteq Elems(taken)
  <2>1. m \o mqttQ \in Seq(Results)
    BY <1>1, <1>2, ConcatIn
  <2>2. Elems(m \o mqttQ) \subseteq Elems(m) \cup Elems(mqttQ)
    BY <1>1, <1>2, ElemsConcat
  <2> QED BY <1>1, <1>3, <2>1, <2>2
<1>5. (m \o mqttQ) \o s \in Seq(Results) /\ Elems((m \o mqttQ) \o s) \subseteq Elems(taken)
  <2>1. (m \o mqttQ) \o s \in Seq(Results)
    BY <1>1, <1>4, ConcatIn
  <2>2. Elems((m \o mqttQ) \o s) \subseteq Elems(m \o mqttQ) \cup Elems(s)
    BY <1>1, <1>4, ElemsConcat
  <2> QED BY <1>1, <1>4, <2>1, <2>2
<1>6. /\ ((m \o mqttQ) \o s) \o solveQ \in Seq(Results)
      /\ Elems(((m \o mqttQ) \o s) \o solveQ) \subseteq Elems(taken)
  <2>1. ((m \o mqttQ) \o s) \o solveQ \in Seq(Results)
    BY <1>2, <1>5, ConcatIn
  <2>2. Elems(((m \o mqttQ) \o s) \o solveQ) \subseteq Elems((m \o mqttQ) \o s) \cup Elems(solveQ)
    BY <1>2, <1>5, ElemsConcat
  <2> QED BY <1>3, <1>5, <2>1, <2>2
<1>7. Elems((((m \o mqttQ) \o s) \o solveQ) \o o)
        \subseteq Elems(((m \o mqttQ) \o s) \o solveQ) \cup Elems(o)
  BY <1>1, <1>6, ElemsConcat
<1>8. Flow = (((m \o mqttQ) \o s) \o solveQ) \o o
  BY DEF Flow, m, s, o
<1> QED BY <1>1, <1>6, <1>7, <1>8

\* A thread that is left alone, or only woken, keeps what it carries.
LEMMA SameInFlight ==
    ASSUME NEW t \in Stations, held'[t] = held[t],
           pc'[t] = pc[t] \/ (pc[t] \notin {"push", "send"} /\ pc'[t] \notin {"push", "send"})
    PROVE  InFlight(t)' = InFlight(t)
  BY DEF InFlight, Carries

\* Nothing moves, nothing gets lost, nothing is published.
LEMMA QuietPipe ==
    ASSUME FlowInv, UNCHANGED <<mqttQ, solveQ, held, published, lost, taken>>,
           \A t \in Stations :
              pc'[t] = pc[t] \/ (pc[t] \notin {"push", "send"} /\ pc'[t] \notin {"push", "send"}),
           mainPc' = "start" => mainPc = "start" /\ (pc["output"] = "none" => pc'["output"] = "none")
    PROVE  UNCHANGED <<Flow, published, lost>> /\ FlowInv'
<1>1. InFlight("mqtt")' = InFlight("mqtt") /\ InFlight("solve")' = InFlight("solve")
      /\ InFlight("output")' = InFlight("output")
  BY SameInFlight DEF Stations
<1>2. Flow' = Flow
  BY <1>1, FlowIs
<1>3. FlowInv'
  BY DEF FlowInv, Elems
<1> QED BY <1>2, <1>3

\* Taking a result out of the flow and recording it is a step of the pipe.
LEMMA LosesIsLose ==
    ASSUME NEW x, Loses(Flow, x, Flow'), lost' = lost \cup {x}, UNCHANGED published
    PROVE  Pipe!PipeNext
<1>1. PICK i \in DOMAIN Flow :
         /\ Flow[i] = x
         /\ Flow' = SubSeq(Flow, 1, i - 1) \o SubSeq(Flow, i + 1, Len(Flow))
  BY DEF Loses
<1>2. Pipe!Lose(i)
  BY <1>1 DEF Pipe!Lose
<1> QED BY <1>2 DEF Pipe!PipeNext

PipeStep == (UNCHANGED <<Flow, published, lost>> \/ Pipe!PipeNext) /\ FlowInv'

\* outputLoop takes a result that was never in the pipe, or finds none.
LEMMA OutputPollPipe ==
    ASSUME OutputterInv, FlowInv, OutputPoll
    PROVE  PipeStep
<1> DEFINE x == Head(qSix)
<1>1. /\ "output" \in Threads /\ pc["output"] = "poll" /\ UNCHANGED <<mqttQ, solveQ, published, lost>>
      /\ \A t \in Stations \ {"output"} : pc'[t] = pc[t] /\ t \in Threads
      /\ mainPc' = mainPc /\ mainPc # "start"
  BY DEF OutputterInv, TypeOK, Stations, Threads, OutputPoll, flags, FlowInv
<1>2. CASE qSix = <<>>
  <2>1. pc'["output"] = "block" /\ UNCHANGED <<held, taken>>
    BY <1>1, <1>2 DEF OutputPoll, OutputterInv, TypeOK
  <2> QED BY <1>1, <2>1, QuietPipe DEF PipeStep
<1>3. CASE qSix # <<>>
  <2>1. /\ pc'["output"] = "push" /\ held'["output"] = x /\ taken' = Append(taken, x)
        /\ \A t \in Stations \ {"output"} : held'[t] = held[t]
    BY <1>1, <1>3 DEF OutputPoll, OutputterInv, TypeOK
  <2>2. x \in Results /\ x \in Elems(qSix)
    BY <1>3, TailOf DEF OutputterInv, TypeOK
  <2>3. Elems(taken') = Elems(taken) \cup {x}
    BY <2>1, <2>2, AppendTo DEF OutputterInv, TypeOK
  <2>4. x \notin Elems(taken)
    BY <2>2 DEF OutputterInv, TakenInv
  <2>5. x \notin Elems(Flow) \cup Elems(published) \cup lost
    <3>1. Elems(published) \subseteq Elems(taken)
      BY PlaceIs DEF OutputterInv, PipeInv, Places
    <3> QED BY <2>4, <3>1, FlowTaken DEF FlowInv
  <2>6. Flow' = Append(Flow, x)
    <3>1. InFlight("mqtt")' = InFlight("mqtt") /\ InFlight("solve")' = InFlight("solve")
      BY <1>1, <2>1, SameInFlight DEF Stations
    <3>2. InFlight("output") = <<>> /\ InFlight("output")' = <<x>>
      BY <1>1, <2>1 DEF InFlight, Carries
    <3> DEFINE m == InFlight("mqtt")
               s == InFlight("solve")
    <3>3. m \in Seq(Results) /\ s \in Seq(Results) /\ mqttQ \in Seq(Results) /\ solveQ \in Seq(Results)
      BY InFlightTaken DEF Stations, OutputterInv, TypeOK
    <3>a. x \in Results
      BY <2>2
    <3> HIDE DEF x, m, s
    <3>4. Enters(Line(m, mqttQ, s, solveQ, <<>>), x, Line(m, mqttQ, s, solveQ, <<x>>))
      BY <3>3, <3>a, LineEnter
    <3>5. Enters(Flow, x, Flow')
      BY <1>1, <3>1, <3>2, <3>4, FlowIs DEF m, s
    <3> QED BY <3>5 DEF Enters
  <2>7. Pipe!Enter(x)
    BY <1>1, <2>5, <2>6 DEF Pipe!Enter, Pipe!In, Elems
  <2>8. FlowInv'
    BY <1>1, <2>3 DEF FlowInv
  <2> QED BY <2>2, <2>7, <2>8 DEF PipeStep, Pipe!PipeNext
<1> QED BY <1>2, <1>3

\* pushRealTimeData moves the result into the next queue, or loses it.
LEMMA OutputPushPipe ==
    ASSUME OutputterInv, FlowInv, OutputPush
    PROVE  PipeStep
<1> DEFINE x == held["output"]
           m == InFlight("mqtt")
           s == InFlight("solve")
<1>1. /\ pc["output"] = "push" /\ pc'["output"] = "test"
      /\ \A t \in Stations \ {"output"} : pc'[t] = pc[t] \/ (pc[t] = "wait" /\ pc'[t] = "test")
  BY NotifyWakes DEF OutputterInv, OutputPush, States, Threads, Stations
<1>2. /\ \A t \in Stations \ {"output"} : held'[t] = held[t]
      /\ UNCHANGED <<mqttQ, published, taken>> /\ mainPc' = mainPc /\ mainPc # "start"
  BY <1>1 DEF OutputterInv, TypeOK, OutputPush, Stations, Threads, FlowInv, flags
<1>3. /\ x \in Results /\ x \in Elems(taken)
      /\ InFlight("output") = <<x>> /\ InFlight("output")' = <<>>
  <2>1. Carries("output") /\ ~Carries("output")'
    BY <1>1 DEF Carries
  <2> QED BY <2>1, InFlightTaken DEF Stations, InFlight
<1>4. InFlight("mqtt")' = m /\ InFlight("solve")' = s
  BY <1>1, <1>2, SameInFlight DEF Stations
<1>5. m \in Seq(Results) /\ s \in Seq(Results) /\ mqttQ \in Seq(Results) /\ solveQ \in Seq(Results)
  BY InFlightTaken DEF Stations, OutputterInv, TypeOK
<1>6. \/ solveQ' = Append(solveQ, x) /\ lost' = lost
      \/ solveQ' = solveQ /\ lost' = lost \cup {x}
  BY <1>3, FullRefusesNewest, OutputterAssumption DEF OutputterInv, TypeOK, OutputPush
<1>7. FlowInv'
  BY <1>2, <1>3, <1>6 DEF FlowInv, Elems
<1> HIDE DEF x, m, s
<1>8. /\ Line(m, mqttQ, s, Append(solveQ, x), <<>>) = Line(m, mqttQ, s, solveQ, <<x>>)
      /\ Loses(Line(m, mqttQ, s, solveQ, <<x>>), x, Line(m, mqttQ, s, solveQ, <<>>))
  BY <1>3, <1>5, LinePass, LineDrop
<1>9. /\ Flow = Line(m, mqttQ, s, solveQ, <<x>>)
      /\ Flow' = Line(m, mqttQ, s, solveQ', <<>>)
  BY <1>2, <1>3, <1>4, FlowIs DEF m, s
<1>10. CASE solveQ' = Append(solveQ, x) /\ lost' = lost
  BY <1>2, <1>7, <1>8, <1>9, <1>10 DEF PipeStep
<1>11. CASE solveQ' = solveQ /\ lost' = lost \cup {x}
  <2>1. Loses(Flow, x, Flow')
    BY <1>8, <1>9, <1>11
  <2> QED BY <1>2, <1>7, <1>11, <2>1, LosesIsLose DEF PipeStep
<1> QED BY <1>6, <1>10, <1>11

\* The solve worker takes the oldest result of its queue, or finds none.
LEMMA SolvePollPipe ==
    ASSUME OutputterInv, FlowInv, SolvePoll
    PROVE  PipeStep
<1> DEFINE x == Head(solveQ)
           t == Tail(solveQ)
           m == InFlight("mqtt")
           o == InFlight("output")
<1>1. /\ "solve" \in Threads /\ pc["solve"] = "poll"
      /\ UNCHANGED <<mqttQ, published, lost, taken, mainPc>>
      /\ \A u \in Stations \ {"solve"} : pc'[u] = pc[u] /\ u \in Threads
  BY DEF OutputterInv, TypeOK, Stations, Threads, SolvePoll, flags
<1>2. CASE solveQ = <<>>
  <2>1. pc'["solve"] = "block" /\ UNCHANGED <<held, solveQ>>
    BY <1>1, <1>2 DEF SolvePoll, OutputterInv, TypeOK
  <2> QED BY <1>1, <2>1, QuietPipe DEF PipeStep, Stations
<1>3. CASE solveQ # <<>>
  <2>1. /\ pc'["solve"] = "push" /\ held'["solve"] = x /\ solveQ' = t
        /\ \A u \in Stations \ {"solve"} : held'[u] = held[u]
    BY <1>1, <1>3 DEF SolvePoll, OutputterInv, TypeOK
  <2>2. InFlight("mqtt")' = m /\ InFlight("output")' = o
    BY <1>1, <2>1, SameInFlight DEF Stations
  <2>3. InFlight("solve") = <<>> /\ InFlight("solve")' = <<x>>
    BY <1>1, <2>1 DEF InFlight, Carries
  <2>4. /\ solveQ = <<x>> \o t /\ x \in Results /\ t \in Seq(Results)
    BY <1>3, Front DEF OutputterInv, TypeOK
  <2>5. m \in Seq(Results) /\ o \in Seq(Results) /\ mqttQ \in Seq(Results)
    BY InFlightTaken DEF Stations, OutputterInv, TypeOK
  <2> HIDE DEF x, t, m, o
  <2>6. Line(m, mqttQ, <<x>>, t, o) = Line(m, mqttQ, <<>>, <<x>> \o t, o)
    BY <2>4, <2>5, LineSolve
  <2>7. Flow = Line(m, mqttQ, <<>>, solveQ, o) /\ Flow' = Line(m, mqttQ, <<x>>, t, o)
    BY <1>1, <2>1, <2>2, <2>3, FlowIs DEF m, o
  <2>8. Flow' = Flow
    BY <2>4, <2>6, <2>7
  <2>9. FlowInv'
    BY <1>1 DEF FlowInv, Elems, Stations
  <2> QED BY <1>1, <2>8, <2>9 DEF PipeStep
<1> QED BY <1>2, <1>3

\* The solve worker passes the packet on, or loses it.
LEMMA SolvePushPipe ==
    ASSUME OutputterInv, FlowInv, SolvePush
    PROVE  PipeStep
<1> DEFINE x == held["solve"]
           m == InFlight("mqtt")
           o == InFlight("output")
<1>1. /\ pc["solve"] = "push" /\ pc'["solve"] = "test"
      /\ \A t \in Stations \ {"solve"} : pc'[t] = pc[t] \/ (pc[t] = "wait" /\ pc'[t] = "test")
  BY NotifyWakes DEF OutputterInv, SolvePush, States, Threads, Stations
<1>2. /\ \A t \in Stations \ {"solve"} : held'[t] = held[t]
      /\ UNCHANGED <<solveQ, published, taken, mainPc>>
  BY <1>1 DEF OutputterInv, TypeOK, SolvePush, Stations, Threads, flags
<1>3. /\ x \in Results /\ x \in Elems(taken)
      /\ InFlight("solve") = <<x>> /\ InFlight("solve")' = <<>>
  <2>1. Carries("solve") /\ ~Carries("solve")'
    BY <1>1 DEF Carries
  <2> QED BY <2>1, InFlightTaken DEF Stations, InFlight
<1>4. InFlight("mqtt")' = m /\ InFlight("output")' = o
  BY <1>1, <1>2, SameInFlight DEF Stations
<1>5. m \in Seq(Results) /\ o \in Seq(Results) /\ mqttQ \in Seq(Results) /\ solveQ \in Seq(Results)
  BY InFlightTaken DEF Stations, OutputterInv, TypeOK
<1>6. \/ mqttQ' = Append(mqttQ, x) /\ lost' = lost
      \/ mqttQ' = mqttQ /\ lost' = lost \cup {x}
  BY <1>3, FullRefusesNewest, OutputterAssumption DEF OutputterInv, TypeOK, SolvePush
<1>7. FlowInv'
  BY <1>1, <1>2, <1>3, <1>6 DEF FlowInv, Elems, Stations
<1> HIDE DEF x, m, o
<1>8. /\ Line(m, Append(mqttQ, x), <<>>, solveQ, o) = Line(m, mqttQ, <<x>>, solveQ, o)
      /\ Loses(Line(m, mqttQ, <<x>>, solveQ, o), x, Line(m, mqttQ, <<>>, solveQ, o))
  BY <1>3, <1>5, LineSolve
<1>9. /\ Flow = Line(m, mqttQ, <<x>>, solveQ, o)
      /\ Flow' = Line(m, mqttQ', <<>>, solveQ, o)
  BY <1>2, <1>3, <1>4, FlowIs DEF m, o
<1>10. CASE mqttQ' = Append(mqttQ, x) /\ lost' = lost
  BY <1>2, <1>7, <1>8, <1>9, <1>10 DEF PipeStep
<1>11. CASE mqttQ' = mqttQ /\ lost' = lost \cup {x}
  <2>1. Loses(Flow, x, Flow')
    BY <1>8, <1>9, <1>11
  <2> QED BY <1>2, <1>7, <1>11, <2>1, LosesIsLose DEF PipeStep
<1> QED BY <1>6, <1>10, <1>11

\* The MQTT worker takes the oldest packet, or finds none.
LEMMA MqttPollPipe ==
    ASSUME OutputterInv, FlowInv, MqttPoll
    PROVE  PipeStep
<1> DEFINE x == Head(mqttQ)
           q == Tail(mqttQ)
           s == InFlight("solve")
           o == InFlight("output")
<1>1. /\ "mqtt" \in Threads /\ pc["mqtt"] = "poll"
      /\ UNCHANGED <<solveQ, published, lost, taken, mainPc>>
      /\ \A u \in Stations \ {"mqtt"} : pc'[u] = pc[u] /\ u \in Threads
  BY DEF OutputterInv, TypeOK, Stations, Threads, MqttPoll, flags
<1>2. CASE mqttQ = <<>>
  <2>1. pc'["mqtt"] = "pollErr" /\ UNCHANGED <<held, mqttQ>>
    BY <1>1, <1>2 DEF MqttPoll, OutputterInv, TypeOK
  <2> QED BY <1>1, <2>1, QuietPipe DEF PipeStep, Stations
<1>3. CASE mqttQ # <<>>
  <2>1. /\ pc'["mqtt"] = "send" /\ held'["mqtt"] = x /\ mqttQ' = q
        /\ \A u \in Stations \ {"mqtt"} : held'[u] = held[u]
    BY <1>1, <1>3 DEF MqttPoll, OutputterInv, TypeOK
  <2>2. InFlight("solve")' = s /\ InFlight("output")' = o
    BY <1>1, <2>1, SameInFlight DEF Stations
  <2>3. InFlight("mqtt") = <<>> /\ InFlight("mqtt")' = <<x>>
    BY <1>1, <2>1 DEF InFlight, Carries
  <2>4. /\ mqttQ = <<x>> \o q /\ x \in Results /\ q \in Seq(Results)
    BY <1>3, Front DEF OutputterInv, TypeOK
  <2>5. s \in Seq(Results) /\ o \in Seq(Results) /\ solveQ \in Seq(Results)
    BY InFlightTaken DEF Stations, OutputterInv, TypeOK
  <2> HIDE DEF x, q, s, o
  <2>6. Line(<<x>>, q, s, solveQ, o) = Line(<<>>, <<x>> \o q, s, solveQ, o)
    BY <2>4, <2>5, LineTake
  <2>7. Flow = Line(<<>>, mqttQ, s, solveQ, o) /\ Flow' = Line(<<x>>, q, s, solveQ, o)
    BY <1>1, <2>1, <2>2, <2>3, FlowIs DEF s, o
  <2>8. Flow' = Flow
    BY <2>4, <2>6, <2>7
  <2>9. FlowInv'
    BY <1>1 DEF FlowInv, Elems, Stations
  <2> QED BY <1>1, <2>8, <2>9 DEF PipeStep
<1> QED BY <1>2, <1>3

\* The MQTT worker publishes the packet, or loses it.
LEMMA MqttSendPipe ==
    ASSUME OutputterInv, FlowInv, MqttSend
    PROVE  PipeStep
<1> DEFINE x == held["mqtt"]
           s == InFlight("solve")
           o == InFlight("output")
<1>1. /\ pc["mqtt"] = "send" /\ pc'["mqtt"] = "pollErr"
      /\ UNCHANGED <<mqttQ, solveQ, taken, mainPc>>
      /\ \A u \in Stations \ {"mqtt"} : pc'[u] = pc[u] /\ held'[u] = held[u]
  BY DEF OutputterInv, TypeOK, Stations, Threads, MqttSend, flags
<1>2. /\ x \in Results /\ x \in Elems(taken)
      /\ InFlight("mqtt") = <<x>> /\ InFlight("mqtt")' = <<>>
  <2>1. Carries("mqtt") /\ ~Carries("mqtt")'
    BY <1>1 DEF Carries
  <2> QED BY <2>1, InFlightTaken DEF Stations, InFlight
<1>3. InFlight("solve")' = s /\ InFlight("output")' = o
  BY <1>1, SameInFlight DEF Stations
<1>4. s \in Seq(Results) /\ o \in Seq(Results) /\ mqttQ \in Seq(Results) /\ solveQ \in Seq(Results)
  BY InFlightTaken DEF Stations, OutputterInv, TypeOK
<1>5. \/ published' = Append(published, x) /\ lost' = lost
      \/ published' = published /\ lost' = lost \cup {x}
  BY DEF MqttSend
<1>6. FlowInv'
  BY <1>1, <1>2, <1>5 DEF FlowInv, Elems, Stations
<1> HIDE DEF x, s, o
<1>7. /\ Leaves(Line(<<x>>, mqttQ, s, solveQ, o), x, Line(<<>>, mqttQ, s, solveQ, o))
      /\ Loses(Line(<<x>>, mqttQ, s, solveQ, o), x, Line(<<>>, mqttQ, s, solveQ, o))
  BY <1>2, <1>4, LineLeave
<1>8. Flow = Line(<<x>>, mqttQ, s, solveQ, o) /\ Flow' = Line(<<>>, mqttQ, s, solveQ, o)
  BY <1>1, <1>2, <1>3, FlowIs DEF s, o
<1>9. CASE published' = Append(published, x) /\ lost' = lost
  <2>1. Pipe!Deliver
    BY <1>7, <1>8, <1>9 DEF Pipe!Deliver, Leaves
  <2> QED BY <1>6, <2>1 DEF PipeStep, Pipe!PipeNext
<1>10. CASE published' = published /\ lost' = lost \cup {x}
  <2>1. Loses(Flow, x, Flow')
    BY <1>7, <1>8
  <2> QED BY <1>6, <1>10, <2>1, LosesIsLose DEF PipeStep
<1> QED BY <1>5, <1>9, <1>10

\* Whatever else happens in the threads moves no result.
LEMMA IdlePipe ==
    ASSUME OutputterInv, FlowInv, NEW t \in Threads,
           Test(t) \/ Block(t) \/ Timeout(t) \/ MqttPollErr \/ DbPoll
    PROVE  PipeStep
<1>1. /\ UNCHANGED <<mqttQ, solveQ, held, published, lost, taken, mainPc>>
  BY DEF Test, Block, Timeout, MqttPollErr, DbPoll, flags
<1>2. PICK u \in Threads : /\ pc[u] \in {"test", "block", "wait", "pollErr", "poll"}
                           /\ \E s \in States \ {"push", "send"} : pc' = [pc EXCEPT ![u] = s]
  BY DEF Test, Block, Timeout, MqttPollErr, DbPoll, Threads, States
<1>3. pc \in [Threads -> States] /\ Stations \subseteq Threads
  BY DEF OutputterInv, TypeOK, Stations, Threads
<1>4. \A v \in Stations :
         pc'[v] = pc[v] \/ (pc[v] \notin {"push", "send"} /\ pc'[v] \notin {"push", "send"})
  BY <1>2, <1>3
<1>5. pc["output"] = "none" => pc'["output"] = "none"
  BY <1>2, <1>3 DEF Stations
<1> QED BY <1>1, <1>4, <1>5, QuietPipe DEF PipeStep

\* Nor do arrivals, the connection or warnings.
LEMMA AroundPipe ==
    ASSUME OutputterInv, FlowInv,
           (\E r \in Results : SixEnqueue(r)) \/ Connect \/ Disconnect \/ FuserWarns
    PROVE  PipeStep
<1>1. UNCHANGED <<mqttQ, solveQ, held, published, lost, taken, mainPc>>
  BY DEF SixEnqueue, Connect, Disconnect, FuserWarns, Warn, flags
<1>2. pc' = pc \/ \E u \in Waiting : pc' = [pc EXCEPT ![u] = "test"]
  BY DEF SixEnqueue, Connect, Disconnect, FuserWarns, Warn
<1>3. pc \in [Threads -> States] /\ Stations \subseteq Threads
  BY DEF OutputterInv, TypeOK, Stations, Threads
<1>4. \A v \in Stations : pc'[v] = pc[v] \/ (pc[v] = "wait" /\ pc'[v] = "test")
  BY <1>2, <1>3 DEF Waiting
<1>5. "output" \in Stations
  BY DEF Stations
<1> QED BY <1>1, <1>4, <1>5, QuietPipe DEF PipeStep

\* Nor do start(), stop() and the destructor.
LEMMA MainPipe ==
    ASSUME OutputterInv, FlowInv, Start \/ Stop \/ Stopping
    PROVE  PipeStep
<1>1. UNCHANGED <<mqttQ, solveQ, held, published, lost, taken>> /\ mainPc' # "start"
  BY DEF Start, Stop, Stopping, JoinOutput, StopWorkers, NotifyAll, JoinWorkers, StopMqtt, rest, work
<1>2. pc \in [Threads -> States] /\ Stations \subseteq Threads
  BY DEF OutputterInv, TypeOK, Stations, Threads
<1>3. \A v \in Stations :
         pc'[v] = pc[v] \/ (pc[v] \notin {"push", "send"} /\ pc'[v] \notin {"push", "send"})
  <2>1. CASE Start
    <3>1. pc["output"] = "none" /\ pc' = [pc EXCEPT !["output"] = "test"]
      BY <2>1 DEF Start, FlowInv
    <3> QED BY <1>2, <3>1
  <2>2. CASE NotifyAll
    BY <1>2, <2>2 DEF NotifyAll, Waiting
  <2>3. CASE Stop \/ JoinOutput \/ StopWorkers \/ JoinWorkers \/ StopMqtt
    BY <2>3 DEF Stop, JoinOutput, StopWorkers, JoinWorkers, StopMqtt
  <2> QED BY <2>1, <2>2, <2>3 DEF Stopping
<1> QED BY <1>1, <1>3, QuietPipe DEF PipeStep

\* Every step of the outputter is a step of the pipe.
LEMMA EveryStepPipe ==
    ASSUME OutputterInv, FlowInv, [Next]_vars
    PROVE  PipeStep
<1>1. ASSUME NEW t \in Threads, Loop(t) PROVE PipeStep
  BY <1>1, IdlePipe, OutputPollPipe, OutputPushPipe, SolvePollPipe, SolvePushPipe, MqttPollPipe,
     MqttSendPipe DEF Loop
<1>2. CASE UNCHANGED vars
  BY <1>2, QuietPipe DEF PipeStep, vars
<1> QED BY <1>1, <1>2, AroundPipe, MainPipe DEF Next

\* The three threads and two queues of the outputter, for queues of any size
\* and whatever the scheduler and the network do, are one pipe: results leave
\* in the order in which they entered, at most once each, and one that does
\* not arrive is on its way or recorded as lost.
THEOREM OutputterImplementsPipe == Spec => ImplementsPipe
<1>1. Init => Pipe!PipeInit /\ FlowInv
  <2> SUFFICES ASSUME Init PROVE Pipe!PipeInit /\ FlowInv
    OBVIOUS
  <2>1. InFlight("mqtt") = <<>> /\ InFlight("solve") = <<>> /\ InFlight("output") = <<>>
    BY DEF Init, InFlight, Carries, Threads
  <2>2. mqttQ = <<>> /\ solveQ = <<>> /\ published = <<>> /\ lost = {} /\ pc["output"] = "none"
    BY DEF Init, Threads
  <2>3. Flow = (((<<>> \o <<>>) \o <<>>) \o <<>>) \o <<>>
    BY <2>1, <2>2 DEF Flow
  <2>4. <<>> \o <<>> = <<>>
    BY Single, ConcatNothing
  <2> QED BY <2>2, <2>3, <2>4 DEF Pipe!PipeInit, FlowInv
<1>2. OutputterInv /\ FlowInv /\ [Next]_vars => FlowInv'
  BY EveryStepPipe DEF PipeStep
<1>3. OutputterInv /\ FlowInv /\ [Next]_vars => [Pipe!PipeNext]_(Pipe!pipeVars)
  BY EveryStepPipe DEF PipeStep, Pipe!pipeVars
<1> QED BY <1>1, <1>2, <1>3, OutputterInvariant, PTL DEF Spec, ImplementsPipe, Pipe!PipeSpec

-----------------------------------------------------------------------------
(* The outputter's MQTT client                                             *)
(*                                                                         *)
(* ClientsBalanced is not inductive: mqtt_client_new overwrites mqtt_cli_, *)
(* so mqttWorkThread may only get there with no client.  stop() can only   *)
(* take a client away, so it suffices to say where the thread holds none,  *)
(* and that start() finds no thread that could hold one.  Publishing needs *)
(* that whoever frees a client leaves mqtt_cli_ null under the same lock:  *)
(* the pointer is never one to a freed client.                             *)

\* Where mqttWorkThread has no client, whatever stop() does meanwhile
Unconnected == {"none", "test", "new", "after", "reconnect", "exited"}

\* Before mqtt_client_new, and after the client was freed, mqtt_cli_ is null.
NoClientBeforeNew == wPc \in Unconnected => cli = "null"

\* start() creates mqttWorkThread; until then it is nowhere.
NotStarted == ownerPc = "init" => wPc = "none"

ClientInv == /\ cli \in {"null", "live"} /\ isRunning \in BOOLEAN
             /\ ClientsBalanced
             /\ NoClientBeforeNew
             /\ NotStarted
             /\ PublishUsesLiveClient

\* The constructor leaves no client.
LEMMA NoClientAtFirst == ClientInit => ClientInv
  BY DEF ClientInit, ClientInv, ClientsBalanced, NoClientBeforeNew, NotStarted,
         PublishUsesLiveClient

\* free(mqtt_cli_) under mqtt_mutex_ keeps the balance, with or without a client.
LEMMA FreeBalances ==
    ASSUME ClientInv, Free
    PROVE  cli' = "null" /\ allocated' = 0
  BY DEF ClientInv, ClientsBalanced, Free, Released

\* Steps that end with no client, and create no publisher's use of one.
LEMMA NoClientLeft ==
    ASSUME ClientInv, cli' = "null", allocated' = 0, isRunning' \in BOOLEAN, pubUsed' = pubUsed,
           ownerPc' # "init" \/ wPc' = "none"
    PROVE  ClientInv'
  BY DEF ClientInv, ClientsBalanced, NoClientBeforeNew, NotStarted,
         PublishUsesLiveClient

\* Steps that leave the client alone.
LEMMA ClientUntouched ==
    ASSUME ClientInv, UNCHANGED <<cli, allocated>>, isRunning' \in BOOLEAN, pubUsed' # "freed",
           wPc' \in Unconnected => wPc \in Unconnected, ownerPc' # "init" \/ wPc' = "none"
    PROVE  ClientInv'
  BY DEF ClientInv, ClientsBalanced, NoClientBeforeNew, NotStarted,
         PublishUsesLiveClient

\* No step of the owner, the work thread, a publisher or the broker breaks it.
LEMMA ClientStep == ClientInv /\ [ClientNext]_clientVars => ClientInv'
<1> SUFFICES ASSUME ClientInv, [ClientNext]_clientVars PROVE ClientInv'
  OBVIOUS
<1>0. /\ isRunning \in BOOLEAN /\ pubUsed # "freed" /\ (ownerPc = "init" => wPc = "none")
  BY DEF ClientInv, NotStarted, PublishUsesLiveClient
<1>1. CASE OwnerStart
  BY <1>0, <1>1, ClientUntouched DEF OwnerStart, Unconnected
<1>2. CASE OwnerStop
  <2>1. CASE isRunning
    <3>1. Free /\ isRunning' = FALSE
      BY <1>2, <2>1 DEF OwnerStop, StopClient
    <3> QED BY <1>2, <3>1, FreeBalances, NoClientLeft DEF OwnerStop
  <2>2. CASE ~isRunning
    BY <1>0, <1>2, <2>2, ClientUntouched DEF OwnerStop, client
  <2> QED BY <2>1, <2>2
<1>3. CASE Join \/ ThreadExitTest \/ AfterRun
  BY <1>0, <1>3, ClientUntouched
     DEF Join, ThreadExitTest, AfterRun, client, Unconnected
<1>4. CASE New
  <2>1. allocated = 0 /\ ownerPc # "init"
    BY <1>0, <1>4 DEF New, ClientInv, ClientsBalanced, NoClientBeforeNew, Unconnected
  <2> QED BY <1>0, <1>4, <2>1 DEF New, ClientInv, ClientsBalanced, NoClientBeforeNew,
             NotStarted, PublishUsesLiveClient, Unconnected
<1>5. CASE NewFails
  <2>1. allocated = 0
    BY <1>5 DEF NewFails, ClientInv, ClientsBalanced, NoClientBeforeNew, Unconnected
  <2> QED BY <1>0, <1>5, <2>1, NoClientLeft DEF NewFails
<1>6. CASE ClientConnect \/ ConnectOk \/ ConnectFails \/ RunReturns
  BY <1>0, <1>6, ClientUntouched DEF ClientConnect, ConnectOk, ConnectFails,
     RunReturns, client, Unconnected
<1>7. CASE FreeFailed \/ Cleanup
  BY <1>0, <1>7, FreeBalances, NoClientLeft DEF FreeFailed, Cleanup
<1>8. CASE Reconnect
  <2>1. CASE StopClient
    BY <1>0, <1>8, <2>1, FreeBalances, NoClientLeft DEF Reconnect, StopClient
  <2>2. CASE UNCHANGED <<cli, allocated, isRunning>>
    BY <1>0, <1>8, <2>2, ClientUntouched DEF Reconnect, Unconnected
  <2> QED BY <1>8, <2>1, <2>2 DEF Reconnect, client
<1>9. CASE Connack \/ Disconnected \/ PublishTest
  BY <1>0, <1>9, ClientUntouched DEF Connack, Disconnected, PublishTest, client, Unconnected
<1>10. CASE PublishInternal
  <2>1. cli # "freed"
    BY DEF ClientInv
  <2> QED BY <1>0, <1>10, <2>1, ClientUntouched DEF PublishInternal, client, Unconnected
<1>11. CASE UNCHANGED clientVars
  BY <1>0, <1>11, ClientUntouched DEF clientVars
<1> QED BY <1>1, <1>2, <1>3, <1>4, <1>5, <1>6, <1>7, <1>8, <1>9, <1>10, <1>11
       DEF ClientNext, MqttWorkThread

\* So it holds throughout.
LEMMA ClientInvariant == ClientSpec => []ClientInv
  BY NoClientAtFirst, ClientStep, PTL DEF ClientSpec

\* mqttWorkThread, reconnect() and stop() free every client exactly once:
\* mqtt_cli_ is the only one left whenever it is set, and none is when it is not.
THEOREM ClientFreedOnce == ClientSpec => []ClientsBalanced
<1>1. ClientInv => ClientsBalanced
  BY DEF ClientInv
<1> QED BY <1>1, ClientInvariant, PTL

\* publishInternal passes no freed client to mqtt_client_publish, although
\* publish() tested is_connected_ before it took mqtt_mutex_ and the thread or
\* stop() may free the client in between, for every limit of attempts.
THEOREM PublishIsSafe == ClientSpec => []PublishUsesLiveClient
<1>1. ClientInv => PublishUsesLiveClient
  BY DEF ClientInv
<1> QED BY <1>1, ClientInvariant, PTL
=============================================================================
