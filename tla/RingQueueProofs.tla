-------------------------- MODULE RingQueueProofs --------------------------
(***************************************************************************)
(* LockFreeRingQueue for every capacity and every set of items: with one   *)
(* producer and one consumer it is race free, loses and duplicates nothing *)
(* and implements a FIFO of Capacity - 1 items.                            *)
(***************************************************************************)
EXTENDS RingQueue, TLAPS

-----------------------------------------------------------------------------
(* Two sequences are equal when they agree on length and items; and index  *)
(* arithmetic without %.                                                   *)

\* Extensionality for sequences.
LEMMA SeqExt ==
    ASSUME NEW S, NEW s \in Seq(S), NEW u \in Seq(S), Len(s) = Len(u),
           \A i \in 1 .. Len(s) : s[i] = u[i]
    PROVE  s = u
  OBVIOUS

\* current_tail + 1 wraps to 0 exactly at the last slot.
LEMMA SuccValue ==
    ASSUME NEW i \in Slots
    PROVE  /\ Succ(i) = IF i = Capacity - 1 THEN 0 ELSE i + 1
           /\ Succ(i) \in Slots
<1>1. CASE i = Capacity - 1
  BY <1>1, CapacityAssumption DEF Succ, Slots
<1>2. CASE i # Capacity - 1
  BY <1>2, CapacityAssumption DEF Succ, Slots
<1> QED BY <1>1, <1>2

\* size() is the distance from head to tail around the ring.
LEMMA OccupiedValue ==
    ASSUME NEW h \in Slots, NEW t \in Slots
    PROVE  /\ Occupied(h, t) = IF h <= t THEN t - h ELSE t - h + Capacity
           /\ Occupied(h, t) \in Slots
<1>1. CASE h <= t
  BY <1>1, CapacityAssumption DEF Occupied, Slots
<1>2. CASE ~(h <= t)
  BY <1>2, CapacityAssumption DEF Occupied, Slots
<1> QED BY <1>1, <1>2

\* The slot i places after head.
LEMMA OffsetValue ==
    ASSUME NEW h \in Slots, NEW i \in Slots
    PROVE  /\ (h + i) % Capacity = IF h + i < Capacity THEN h + i ELSE h + i - Capacity
           /\ (h + i) % Capacity \in Slots
<1>1. (h + i) % Capacity = IF h + i < Capacity THEN h + i ELSE h + i - Capacity
  BY CapacityAssumption DEF Slots
<1> QED BY <1>1, CapacityAssumption DEF Slots

\* Storing tail_ + 1 when the ring is not full adds the slot tail_ to the live ones.
LEMMA LiveGrows ==
    ASSUME NEW h \in Slots, NEW t \in Slots, Succ(t) # h
    PROVE  /\ Live(h, Succ(t)) = Live(h, t) \cup {t}
           /\ t \notin Live(h, t)
           /\ Occupied(h, Succ(t)) = Occupied(h, t) + 1
<1>1. /\ Succ(t) = IF t = Capacity - 1 THEN 0 ELSE t + 1
      /\ Succ(t) \in Slots
  BY SuccValue
<1>2. Live(h, Succ(t)) = Live(h, t) \cup {t} /\ t \notin Live(h, t)
  BY <1>1, CapacityAssumption DEF Live, Slots
<1>3. Occupied(h, Succ(t)) = Occupied(h, t) + 1
  <2>1. Occupied(h, t) = IF h <= t THEN t - h ELSE t - h + Capacity
    BY OccupiedValue
  <2>2. Occupied(h, Succ(t)) = IF h <= Succ(t) THEN Succ(t) - h ELSE Succ(t) - h + Capacity
    BY <1>1, OccupiedValue
  <2> QED BY <1>1, <2>1, <2>2, CapacityAssumption DEF Slots
<1> QED BY <1>2, <1>3

\* Storing head_ + 1 when the ring is not empty removes the slot head_.
LEMMA LiveShrinks ==
    ASSUME NEW h \in Slots, NEW t \in Slots, h # t
    PROVE  /\ Live(Succ(h), t) = Live(h, t) \ {h}
           /\ h \in Live(h, t)
           /\ Occupied(Succ(h), t) = Occupied(h, t) - 1
<1>1. /\ Succ(h) = IF h = Capacity - 1 THEN 0 ELSE h + 1
      /\ Succ(h) \in Slots
  BY SuccValue
<1>2. Live(Succ(h), t) = Live(h, t) \ {h} /\ h \in Live(h, t)
  BY <1>1, CapacityAssumption DEF Live, Slots
<1>3. Occupied(Succ(h), t) = Occupied(h, t) - 1
  <2>1. Occupied(h, t) = IF h <= t THEN t - h ELSE t - h + Capacity
    BY OccupiedValue
  <2>2. Occupied(Succ(h), t) = IF Succ(h) <= t THEN t - Succ(h) ELSE t - Succ(h) + Capacity
    BY <1>1, OccupiedValue
  <2> QED BY <1>1, <2>1, <2>2, CapacityAssumption DEF Slots
<1> QED BY <1>2, <1>3

\* The full test of enqueue is exactly "Capacity - 1 items are queued", the
\* empty test of dequeue exactly "none are".
LEMMA FullAndEmpty ==
    ASSUME NEW h \in Slots, NEW t \in Slots
    PROVE  /\ IsFull(t, h) <=> Occupied(h, t) = Capacity - 1
           /\ h = t <=> Occupied(h, t) = 0
<1>1. Succ(t) = IF t = Capacity - 1 THEN 0 ELSE t + 1
  BY SuccValue
<1>2. Occupied(h, t) = IF h <= t THEN t - h ELSE t - h + Capacity
  BY OccupiedValue
<1> QED BY <1>1, <1>2, CapacityAssumption DEF IsFull, Slots

-----------------------------------------------------------------------------
(* Typing holds for any number of threads. *)

\* The initial state is well typed.
LEMMA TypeInit == Init => TypeOK
  BY CapacityAssumption DEF Init, TypeOK, Slots

\* Every step keeps the types.
LEMMA TypeNext == TypeOK /\ [Next]_vars => TypeOK'
<1> SUFFICES ASSUME TypeOK, [Next]_vars PROVE TypeOK'
  OBVIOUS
<1>1. ASSUME NEW p \in Producers, NEW v \in Items, LoadTail(p, v) PROVE TypeOK'
  BY <1>1 DEF TypeOK, LoadTail, ring, cVars, results
<1>2. ASSUME NEW p \in Producers, Enqueueing(p) PROVE TypeOK'
  <2>1. CASE EnqueueFull(p)
    BY <2>1 DEF TypeOK, EnqueueFull, ring, cVars
  <2>2. CASE EnqueueRoom(p)
    BY <2>2 DEF TypeOK, EnqueueRoom, ring, cVars, results
  <2>3. CASE WriteSlot(p)
    BY <2>3 DEF TypeOK, WriteSlot, cVars, results
  <2>4. CASE PublishTail(p)
    BY <2>4, SuccValue DEF TypeOK, PublishTail, cVars
  <2> QED BY <1>2, <2>1, <2>2, <2>3, <2>4 DEF Enqueueing
<1>3. ASSUME NEW p \in Producers, Sizing(p) PROVE TypeOK'
  <2>1. CASE SizeLoadHead(p)
    BY <2>1 DEF TypeOK, SizeLoadHead, ring, cVars, results
  <2>2. CASE SizeLoadTail(p)
    BY <2>2, OccupiedValue DEF TypeOK, SizeLoadTail, ring, cVars, results
  <2>3. CASE SizeReturn(p)
    BY <2>3, CapacityAssumption DEF TypeOK, SizeReturn, ring, cVars, results, Slots
  <2> QED BY <1>3, <2>1, <2>2, <2>3 DEF Sizing
<1>4. ASSUME NEW c \in Consumers, Dequeueing(c) PROVE TypeOK'
  <2>1. CASE LoadHead(c)
    BY <2>1 DEF TypeOK, LoadHead, ring, pVars, results
  <2>2. CASE DequeueEmpty(c)
    BY <2>2 DEF TypeOK, DequeueEmpty, ring, pVars
  <2>3. CASE DequeueSome(c)
    BY <2>3 DEF TypeOK, DequeueSome, ring, pVars, results
  <2>4. CASE ReadSlot(c)
    BY <2>4 DEF TypeOK, ReadSlot, ring, pVars, results
  <2>5. CASE AdvanceHead(c)
    BY <2>5, SuccValue DEF TypeOK, AdvanceHead, pVars
  <2> QED BY <1>4, <2>1, <2>2, <2>3, <2>4, <2>5 DEF Dequeueing
<1>5. CASE UNCHANGED vars
  BY <1>5 DEF TypeOK, vars, ring, pVars, cVars, results
<1> QED BY <1>1, <1>2, <1>3, <1>4, <1>5 DEF Next

\* Indices into buffer_ never leave it, whatever threads call the queue.
THEOREM TypeCorrect == Spec => []TypeOK
  BY TypeInit, TypeNext, PTL DEF Spec

-----------------------------------------------------------------------------
(* One producer, one consumer.  The invariant says which of the values a   *)
(* thread loaded earlier are still current: tail_ belongs to the producer  *)
(* and head_ to the consumer, so current_tail and current_head stay valid, *)
(* and room (or an item) once seen cannot go away.                         *)

ProducerInv == \A p \in Producers :
    /\ pPc[p] \in {"check", "write", "publish"} =>
           pTail[p] = tail /\ pItem[p] \in Items /\ pItem[p] \notin accepted
    /\ pPc[p] \in {"write", "publish"} => ~IsFull(tail, head)
    /\ pPc[p] = "publish" => buffer[tail] = pItem[p]

ConsumerInv == \A c \in Consumers :
    /\ cPc[c] # "idle" => cHead[c] = head
    /\ cPc[c] \in {"read", "advance"} => head # tail
    /\ cPc[c] = "advance" => cItem[c] = buffer[head]

SizeInv == \A p \in Producers :
    /\ pPc[p] = "size" => Occupied(pSize[p], tail) >= Occupied(head, tail)
    /\ pPc[p] = "sized" => pSize[p] >= Occupied(head, tail)

SpscInv == TypeOK /\ ProducerInv /\ ConsumerInv /\ SizeInv /\ ExactlyOnce

\* The empty ring satisfies the invariant.
LEMMA SpscInit == Init => SpscInv
<1> SUFFICES ASSUME Init PROVE SpscInv
  OBVIOUS
<1>1. TypeOK
  BY TypeInit
<1>2. ProducerInv /\ ConsumerInv /\ SizeInv
  BY DEF Init, ProducerInv, ConsumerInv, SizeInv
<1>3. ExactlyOnce
  <2>1. Live(head, tail) = {}
    BY CapacityAssumption DEF Init, Live, Slots
  <2> QED BY <2>1 DEF Init, ExactlyOnce, Queued
<1> QED BY <1>1, <1>2, <1>3 DEF SpscInv

\* Steps that leave the ring and the histories alone keep ExactlyOnce.
LEMMA ExactlyOnceFrame ==
    ExactlyOnce /\ UNCHANGED <<buffer, head, tail, accepted, delivered>> => ExactlyOnce'
  BY DEF ExactlyOnce, Queued, Live

\* enqueue, from its first load to its return.
LEMMA SpscEnqueue ==
    ASSUME OneEach, SpscInv, NEW p \in Producers,
           (\E v \in Items : LoadTail(p, v)) \/ Enqueueing(p)
    PROVE  SpscInv'
<1> USE DEF SpscInv
<1>0. \A r \in Producers : r = p
  BY DEF OneEach
<1>1. ASSUME NEW v \in Items, LoadTail(p, v) PROVE SpscInv'
  <2>1. TypeOK'
    BY <1>1, TypeNext DEF Next
  <2>2. ExactlyOnce'
    BY <1>1, ExactlyOnceFrame DEF LoadTail, ring, results
  <2>3. ProducerInv' /\ SizeInv' /\ ConsumerInv'
    BY <1>0, <1>1, <2>1
       DEF LoadTail, Offerable, TypeOK, ProducerInv, ConsumerInv, SizeInv, ring, cVars, results
  <2> QED BY <2>1, <2>2, <2>3
<1>2. CASE EnqueueFull(p)
  <2>1. TypeOK'
    BY <1>2, TypeNext DEF Next, Enqueueing
  <2>2. ExactlyOnce'
    BY <1>2, ExactlyOnceFrame DEF EnqueueFull, ring
  <2>3. ProducerInv' /\ SizeInv' /\ ConsumerInv'
    BY <1>0, <1>2, <2>1 DEF EnqueueFull, TypeOK, ProducerInv, ConsumerInv, SizeInv, ring, cVars
  <2> QED BY <2>1, <2>2, <2>3
<1>3. CASE EnqueueRoom(p)
  <2>1. TypeOK'
    BY <1>3, TypeNext DEF Next, Enqueueing
  <2>2. ExactlyOnce'
    BY <1>3, ExactlyOnceFrame DEF EnqueueRoom, ring, results
  <2>3. ProducerInv' /\ SizeInv' /\ ConsumerInv'
    BY <1>0, <1>3, <2>1
       DEF EnqueueRoom, TypeOK, ProducerInv, ConsumerInv, SizeInv, ring, cVars, results
  <2> QED BY <2>1, <2>2, <2>3
<1>4. CASE WriteSlot(p)
  <2>1. TypeOK'
    BY <1>4, TypeNext DEF Next, Enqueueing
  <2>2. pTail[p] = tail /\ Succ(tail) # head /\ tail \in Slots /\ head \in Slots
    BY <1>4 DEF WriteSlot, ProducerInv, TypeOK, IsFull
  <2>3. tail \notin Live(head, tail)
    BY <2>2, LiveGrows
  <2>4. \A s \in Live(head, tail) : buffer'[s] = buffer[s]
    BY <1>4, <2>2, <2>3 DEF WriteSlot, TypeOK, Live
  <2>5. Queued' = Queued
    BY <1>4, <2>4 DEF WriteSlot, Queued, Live
  <2>6. ExactlyOnce'
    BY <1>4, <2>4, <2>5 DEF WriteSlot, ExactlyOnce, results, Live
  <2>7. ProducerInv' /\ SizeInv'
    BY <1>0, <1>4, <2>1, <2>2 DEF WriteSlot, TypeOK, ProducerInv, SizeInv, cVars, results
  <2>8. ConsumerInv'
    BY <1>4, <2>2 DEF WriteSlot, TypeOK, ConsumerInv, cVars
  <2> QED BY <2>1, <2>6, <2>7, <2>8
<1>5. CASE PublishTail(p)
  <2>1. TypeOK'
    BY <1>5, TypeNext DEF Next, Enqueueing
  <2>2. /\ pTail[p] = tail /\ Succ(tail) # head /\ tail \in Slots /\ head \in Slots
        /\ buffer[tail] = pItem[p] /\ pItem[p] \notin accepted
    BY <1>5 DEF PublishTail, ProducerInv, TypeOK, IsFull
  <2>3. Live(head, tail)' = Live(head, tail) \cup {tail}
    BY <1>5, <2>2, LiveGrows DEF PublishTail
  <2>4. Queued' = Queued \cup {pItem[p]}
    BY <1>5, <2>2, <2>3 DEF PublishTail, Queued
  <2>5. \A s \in Live(head, tail) : buffer[s] # pItem[p]
    BY <2>2 DEF ExactlyOnce, Queued
  <2>6. ExactlyOnce'
    BY <1>5, <2>2, <2>3, <2>4, <2>5 DEF PublishTail, ExactlyOnce
  <2>7. ProducerInv' /\ SizeInv'
    BY <1>0, <1>5 DEF PublishTail, TypeOK, ProducerInv, SizeInv
  <2>8. ConsumerInv'
    BY <1>5, <2>2 DEF PublishTail, TypeOK, ConsumerInv, cVars
  <2> QED BY <2>1, <2>6, <2>7, <2>8
<1> QED BY <1>1, <1>2, <1>3, <1>4, <1>5 DEF Enqueueing

\* size(), called by the producer.
LEMMA SpscSize ==
    ASSUME OneEach, SpscInv, NEW p \in Producers, Sizing(p)
    PROVE  SpscInv'
<1> USE DEF SpscInv
<1>0. \A r \in Producers : r = p
  BY DEF OneEach
<1>1. TypeOK'
  BY TypeNext DEF Next
<1>2. UNCHANGED <<ring, results, cVars>>
  BY DEF Sizing, SizeLoadHead, SizeLoadTail, SizeReturn
<1>3. ExactlyOnce' /\ ConsumerInv'
  BY <1>2, ExactlyOnceFrame DEF ring, results, cVars, ConsumerInv
<1>4. ProducerInv' /\ SizeInv'
  <2>1. CASE SizeLoadHead(p)
    <3>1. Occupied(head, tail) \in Int
      BY OccupiedValue DEF TypeOK, Slots
    <3> QED BY <1>0, <1>1, <2>1, <3>1
            DEF SizeLoadHead, TypeOK, ProducerInv, SizeInv, ring, results
  <2>2. CASE SizeLoadTail(p)
    BY <1>0, <1>1, <2>2 DEF SizeLoadTail, TypeOK, ProducerInv, SizeInv, ring, results
  <2>3. CASE SizeReturn(p)
    BY <1>0, <1>1, <2>3 DEF SizeReturn, TypeOK, ProducerInv, SizeInv, ring, results
  <2> QED BY <2>1, <2>2, <2>3 DEF Sizing
<1> QED BY <1>1, <1>3, <1>4

\* dequeue, from its first load to its return.
LEMMA SpscDequeue ==
    ASSUME OneEach, SpscInv, NEW c \in Consumers, Dequeueing(c)
    PROVE  SpscInv'
<1> USE DEF SpscInv
<1>0. \A d \in Consumers : d = c
  BY DEF OneEach
<1>1. TypeOK'
  BY TypeNext DEF Next
<1>2. CASE ~AdvanceHead(c)
  <2>1. UNCHANGED <<ring, pVars, accepted, delivered>>
    BY <1>2 DEF Dequeueing, LoadHead, DequeueEmpty, DequeueSome, ReadSlot, results
  <2>2. ExactlyOnce' /\ ProducerInv' /\ SizeInv'
    BY <2>1, ExactlyOnceFrame DEF ring, pVars, ProducerInv, SizeInv
  <2>3. ConsumerInv'
    <3>1. CASE LoadHead(c)
      BY <1>0, <1>1, <3>1 DEF LoadHead, TypeOK, ConsumerInv, ring
    <3>2. CASE DequeueEmpty(c)
      BY <1>0, <1>1, <3>2 DEF DequeueEmpty, TypeOK, ConsumerInv, ring
    <3>3. CASE DequeueSome(c)
      BY <1>0, <1>1, <3>3 DEF DequeueSome, TypeOK, ConsumerInv, ring
    <3>4. CASE ReadSlot(c)
      BY <1>0, <1>1, <3>4 DEF ReadSlot, TypeOK, ConsumerInv, ring
    <3> QED BY <1>2, <3>1, <3>2, <3>3, <3>4 DEF Dequeueing
  <2> QED BY <1>1, <2>2, <2>3
<1>3. CASE AdvanceHead(c)
  <2>1. /\ cHead[c] = head /\ head # tail /\ cItem[c] = buffer[head]
        /\ head \in Slots /\ tail \in Slots
    BY <1>3 DEF AdvanceHead, ConsumerInv, TypeOK
  <2>2. /\ Live(head, tail)' = Live(head, tail) \ {head}
        /\ head \in Live(head, tail)
        /\ Occupied(head, tail)' = Occupied(head, tail) - 1
    BY <1>3, <2>1, LiveShrinks DEF AdvanceHead
  <2>3. Queued' = Queued \ {cItem[c]}
    BY <1>3, <2>1, <2>2 DEF AdvanceHead, Queued, ExactlyOnce
  <2>4. cItem[c] \in Queued
    BY <2>1, <2>2 DEF Queued
  <2>5. ExactlyOnce'
    BY <1>3, <2>2, <2>3, <2>4 DEF AdvanceHead, ExactlyOnce
  <2>6. Succ(tail) # head' \/ Succ(tail) = head
    BY <1>3, <2>1, SuccValue DEF AdvanceHead, Slots
  <2>7. ProducerInv'
    BY <1>3, <2>6 DEF AdvanceHead, TypeOK, ProducerInv, pVars, IsFull
  <2>8. Occupied(head, tail) \in Int
    BY <2>1, OccupiedValue DEF Slots
  <2>9. SizeInv'
    <3> SUFFICES ASSUME NEW p \in Producers
                 PROVE  /\ pPc'[p] = "size" => Occupied(pSize'[p], tail') >= Occupied(head', tail')
                        /\ pPc'[p] = "sized" => pSize'[p] >= Occupied(head', tail')
      BY DEF SizeInv
    <3>1. pSize[p] \in Slots
      BY DEF TypeOK
    <3>2. Occupied(pSize[p], tail) \in Slots
      BY <2>1, <3>1, OccupiedValue
    <3>3. pSize[p] \in Int /\ Occupied(pSize[p], tail) \in Int
      BY <3>1, <3>2, CapacityAssumption DEF Slots
    <3> QED BY <1>3, <2>2, <2>8, <3>3 DEF AdvanceHead, SizeInv, pVars
  <2>10. ConsumerInv'
    BY <1>0, <1>3, <1>1 DEF AdvanceHead, TypeOK, ConsumerInv
  <2> QED BY <1>1, <2>5, <2>7, <2>9, <2>10
<1> QED BY <1>2, <1>3

\* The invariant is inductive when each end of the ring has one thread.
LEMMA SpscNext == ASSUME OneEach PROVE SpscInv /\ [Next]_vars => SpscInv'
<1> SUFFICES ASSUME SpscInv, [Next]_vars PROVE SpscInv'
  OBVIOUS
<1>1. CASE Next
  BY <1>1, SpscEnqueue, SpscSize, SpscDequeue DEF Next
<1>2. CASE UNCHANGED vars
  <2>1. TypeOK'
    BY <1>2, TypeNext DEF SpscInv
  <2>2. ExactlyOnce'
    BY <1>2, ExactlyOnceFrame DEF SpscInv, vars, ring, results
  <2> QED BY <1>2, <2>1, <2>2
          DEF SpscInv, ProducerInv, ConsumerInv, SizeInv, vars, ring, pVars, cVars, results
<1> QED BY <1>1, <1>2

\* So it holds from the constructor on.
LEMMA SpscInvariant == ASSUME OneEach PROVE Spec => []SpscInv
<1>1. SpscInv /\ [Next]_vars => SpscInv'
  BY SpscNext
<1> QED BY <1>1, SpscInit, PTL DEF Spec

\* With one producer and one consumer enqueue and dequeue never access a slot
\* at once: for every capacity, the plain stores to the buffer are ordered by
\* the atomics alone.
THEOREM SpscNoSlotRace == ASSUME OneEach PROVE Spec => []NoSlotRace
<1>1. SpscInv => NoSlotRace
  BY DEF SpscInv, ProducerInv, ConsumerInv, NoSlotRace
<1> QED BY <1>1, SpscInvariant, PTL

\* With one producer and one consumer every frame enqueue accepted is in the
\* ring or was dequeued, exactly once: for every capacity.
THEOREM SpscExactlyOnce == ASSUME OneEach PROVE Spec => []ExactlyOnce
<1>1. SpscInv => ExactlyOnce
  BY DEF SpscInv
<1> QED BY <1>1, SpscInvariant, PTL

\* With one producer and one consumer size(), which reads head and tail one
\* after the other, never tells the producer less than the ring holds: the
\* acquirer's test for a full queue errs on the safe side.
THEOREM SpscSizeNeverUnderestimates == ASSUME OneEach PROVE Spec => []SizeNeverUnderestimates
<1>1. SpscInv => SizeNeverUnderestimates
  BY DEF SpscInv, SizeInv, SizeNeverUnderestimates
<1> QED BY <1>1, SpscInvariant, PTL

-----------------------------------------------------------------------------
(* Refinement: every step of the ring is a step of BoundedFifo or leaves   *)
(* its variables alone.                                                    *)

\* What a slot may hold
Values == Items \cup {NoItem}

\* The queue is a sequence as long as size() says; its i-th item is i - 1
\* slots after head.
LEMMA QueueValue ==
    ASSUME NEW b \in [Slots -> Values], NEW h \in Slots, NEW t \in Slots
    PROVE  /\ QueueOf(b, h, t) \in Seq(Values)
           /\ Len(QueueOf(b, h, t)) = Occupied(h, t)
           /\ Occupied(h, t) \in Nat
           /\ \A i \in 1 .. Occupied(h, t) :
                 QueueOf(b, h, t)[i] = b[(h + i - 1) % Capacity]
<1> DEFINE n == Occupied(h, t)
<1>1. n \in Slots
  BY OccupiedValue
<1> HIDE DEF n
<1>2. n \in Nat
  BY <1>1, CapacityAssumption DEF Slots
<1>3. ASSUME NEW i \in 1 .. n PROVE (h + i - 1) % Capacity \in Slots
  <2>1. i - 1 \in Slots /\ h + i - 1 = h + (i - 1)
    BY <1>1, CapacityAssumption DEF Slots
  <2> QED BY <2>1, OffsetValue
<1>4. \A i \in 1 .. n : b[(h + i - 1) % Capacity] \in Values
  BY <1>3
<1>5. QueueOf(b, h, t) = [i \in 1 .. n |-> b[(h + i - 1) % Capacity]]
  BY DEF QueueOf, n
<1>6. QueueOf(b, h, t) \in Seq(Values) /\ Len(QueueOf(b, h, t)) = n
  BY <1>2, <1>4, <1>5
<1> QED BY <1>2, <1>5, <1>6 DEF n

\* Publishing tail_ appends what the old tail slot holds.
LEMMA QueueAppend ==
    ASSUME NEW b \in [Slots -> Values], NEW h \in Slots, NEW t \in Slots, Succ(t) # h
    PROVE  QueueOf(b, h, Succ(t)) = Append(QueueOf(b, h, t), b[t])
<1> DEFINE n == Occupied(h, t)
           q0 == QueueOf(b, h, t)
           q1 == QueueOf(b, h, Succ(t))
<1>1. Succ(t) \in Slots /\ Occupied(h, Succ(t)) = n + 1
  BY SuccValue, LiveGrows
<1>2. /\ q0 \in Seq(Values) /\ Len(q0) = n /\ n \in Nat
      /\ \A i \in 1 .. n : q0[i] = b[(h + i - 1) % Capacity]
  BY QueueValue
<1>3. /\ q1 \in Seq(Values) /\ Len(q1) = Occupied(h, Succ(t))
      /\ \A i \in 1 .. Occupied(h, Succ(t)) : q1[i] = b[(h + i - 1) % Capacity]
  <2>1. ASSUME NEW u \in Slots
        PROVE  /\ QueueOf(b, h, u) \in Seq(Values) /\ Len(QueueOf(b, h, u)) = Occupied(h, u)
               /\ \A i \in 1 .. Occupied(h, u) : QueueOf(b, h, u)[i] = b[(h + i - 1) % Capacity]
    BY QueueValue, Zenon
  <2> QED BY <1>1, <2>1, Zenon
<1>4. b[(h + (n + 1) - 1) % Capacity] = b[t]
  <2>1. n \in Slots /\ n = IF h <= t THEN t - h ELSE t - h + Capacity
    BY OccupiedValue
  <2>2. h + (n + 1) - 1 = h + n
    BY <1>2 DEF Slots
  <2>3. (h + n) % Capacity = IF h + n < Capacity THEN h + n ELSE h + n - Capacity
    BY <2>1, OffsetValue
  <2> HIDE DEF n
  <2>4. (h + n) % Capacity = t
    BY <2>1, <2>3, CapacityAssumption DEF Slots
  <2> QED BY <2>2, <2>4
<1>5. b[t] \in Values
  OBVIOUS
<1> HIDE DEF n, q0, q1
<1>6. /\ Append(q0, b[t]) \in Seq(Values) /\ Len(Append(q0, b[t])) = n + 1
      /\ \A i \in 1 .. n + 1 : Append(q0, b[t])[i] = IF i = n + 1 THEN b[t] ELSE q0[i]
  BY <1>2, <1>5
<1>7. ASSUME NEW i \in 1 .. n + 1 PROVE q1[i] = Append(q0, b[t])[i]
  <2>1. q1[i] = b[(h + i - 1) % Capacity]
    BY <1>1, <1>3
  <2>2. CASE i = n + 1
    BY <1>4, <1>6, <2>1, <2>2
  <2>3. CASE i # n + 1
    <3>1. i \in 1 .. n
      BY <1>2, <2>3
    <3> QED BY <1>2, <1>6, <2>1, <2>3, <3>1
  <2> QED BY <2>2, <2>3
<1>8. q1 = Append(q0, b[t])
  BY <1>1, <1>2, <1>3, <1>6, <1>7, SeqExt
<1> QED BY <1>8 DEF q0, q1

\* Advancing head_ removes the item the old head slot holds.
LEMMA QueueTail ==
    ASSUME NEW b \in [Slots -> Values], NEW h \in Slots, NEW t \in Slots, h # t
    PROVE  /\ QueueOf(b, h, t) # <<>>
           /\ Head(QueueOf(b, h, t)) = b[h]
           /\ QueueOf(b, Succ(h), t) = Tail(QueueOf(b, h, t))
<1> DEFINE n == Occupied(h, t)
           g == Succ(h)
           q0 == QueueOf(b, h, t)
           q1 == QueueOf(b, g, t)
<1>1. g \in Slots /\ Occupied(g, t) = n - 1
  BY SuccValue, LiveShrinks
<1>2. /\ q0 \in Seq(Values) /\ Len(q0) = n /\ n \in Nat
      /\ \A i \in 1 .. n : q0[i] = b[(h + i - 1) % Capacity]
  BY QueueValue
<1>3. /\ q1 \in Seq(Values) /\ Len(q1) = Occupied(g, t)
      /\ \A i \in 1 .. Occupied(g, t) : q1[i] = b[(g + i - 1) % Capacity]
  <2>1. ASSUME NEW u \in Slots
        PROVE  /\ QueueOf(b, u, t) \in Seq(Values) /\ Len(QueueOf(b, u, t)) = Occupied(u, t)
               /\ \A i \in 1 .. Occupied(u, t) : QueueOf(b, u, t)[i] = b[(u + i - 1) % Capacity]
    BY QueueValue, Zenon
  <2> QED BY <1>1, <2>1, Zenon
<1>4. n # 0 /\ n \in Slots
  BY FullAndEmpty, OccupiedValue
<1>5. g = IF h = Capacity - 1 THEN 0 ELSE h + 1
  BY SuccValue
<1> HIDE DEF n, g, q0, q1
<1>6. q0 # <<>> /\ Head(q0) = q0[1]
  BY <1>2, <1>4
<1>7. q0[1] = b[h]
  <2>1. (h + 1 - 1) % Capacity = h
    <3>1. 0 \in Slots /\ h + 1 - 1 = h + 0 /\ h + 0 < Capacity /\ h + 0 = h
      BY CapacityAssumption DEF Slots
    <3> QED BY <3>1, OffsetValue
  <2>2. 1 \in 1 .. n
    BY <1>2, <1>4
  <2> QED BY <1>2, <2>1, <2>2
<1>8. /\ Tail(q0) \in Seq(Values) /\ Len(Tail(q0)) = n - 1
      /\ \A i \in 1 .. n - 1 : Tail(q0)[i] = q0[i + 1]
  BY <1>2, <1>4
<1>9. ASSUME NEW i \in 1 .. n - 1 PROVE q1[i] = Tail(q0)[i]
  <2>1. q1[i] = b[(g + i - 1) % Capacity]
    BY <1>1, <1>3
  <2>2. i + 1 \in 1 .. n
    BY <1>2
  <2>3. Tail(q0)[i] = b[(h + (i + 1) - 1) % Capacity]
    BY <1>2, <1>8, <2>2
  <2>4. (g + i - 1) % Capacity = (h + (i + 1) - 1) % Capacity
    <3>1. i \in Slots /\ i - 1 \in Slots
      BY <1>4, CapacityAssumption DEF Slots
    <3>2. g + i - 1 = g + (i - 1) /\ h + (i + 1) - 1 = h + i
      BY <1>1, CapacityAssumption DEF Slots
    <3>3. (h + i) % Capacity = IF h + i < Capacity THEN h + i ELSE h + i - Capacity
      BY <3>1, OffsetValue
    <3>4. (g + (i - 1)) % Capacity
            = IF g + (i - 1) < Capacity THEN g + (i - 1) ELSE g + (i - 1) - Capacity
      BY <1>1, <3>1, OffsetValue
    <3>5. (g + (i - 1)) % Capacity = (h + i) % Capacity
      BY <1>5, <3>1, <3>3, <3>4, CapacityAssumption DEF Slots
    <3> QED BY <3>2, <3>5
  <2> QED BY <2>1, <2>3, <2>4
<1>10. q1 = Tail(q0)
  BY <1>1, <1>3, <1>8, <1>9, SeqExt
<1> QED BY <1>6, <1>7, <1>10 DEF q0, q1, g

\* Writing the slot at tail_ does not touch the queue.
LEMMA QueueFrame ==
    ASSUME NEW b \in [Slots -> Values], NEW h \in Slots, NEW t \in Slots, NEW v \in Values
    PROVE  QueueOf([b EXCEPT ![t] = v], h, t) = QueueOf(b, h, t)
<1> DEFINE n == Occupied(h, t)
<1>1. n \in Slots /\ n = IF h <= t THEN t - h ELSE t - h + Capacity
  BY OccupiedValue
<1> HIDE DEF n
<1>2. ASSUME NEW i \in 1 .. n
      PROVE  [b EXCEPT ![t] = v][(h + i - 1) % Capacity] = b[(h + i - 1) % Capacity]
  <2>1. i - 1 \in Slots /\ h + i - 1 = h + (i - 1)
    BY <1>1, CapacityAssumption DEF Slots
  <2>2. /\ (h + (i - 1)) % Capacity
             = IF h + (i - 1) < Capacity THEN h + (i - 1) ELSE h + (i - 1) - Capacity
        /\ (h + (i - 1)) % Capacity \in Slots
    BY <2>1, OffsetValue
  <2>3. (h + (i - 1)) % Capacity # t
    BY <1>1, <2>1, <2>2, CapacityAssumption DEF Slots
  <2> QED BY <2>1, <2>2, <2>3
<1> QED BY <1>2 DEF QueueOf, n

\* A ring that the invariant describes steps only as the FIFO may.
LEMMA StepRefines ==
    ASSUME SpscInv, TypeOK', Next
    PROVE  Fifo!FifoNext \/ UNCHANGED Fifo!fifoVars
<1> USE DEF SpscInv
<1>0. /\ buffer \in [Slots -> Values] /\ head \in Slots /\ tail \in Slots
      /\ Len(Contents) = Occupied(head, tail) /\ Occupied(head, tail) \in Nat
      /\ Occupied(head, tail) \in Slots
      /\ (Contents = <<>>) <=> Occupied(head, tail) = 0
  <2>1. buffer \in [Slots -> Values] /\ head \in Slots /\ tail \in Slots
    BY DEF TypeOK, Values
  <2>2. /\ Contents \in Seq(Values) /\ Len(Contents) = Occupied(head, tail)
        /\ Occupied(head, tail) \in Nat
    BY <2>1, QueueValue DEF Contents
  <2> QED BY <2>1, <2>2, OccupiedValue
<1>1. ASSUME NEW p \in Producers, NEW v \in Items, LoadTail(p, v)
      PROVE  UNCHANGED Fifo!fifoVars
  BY <1>1 DEF LoadTail, ring, results, Contents, Fifo!fifoVars
<1>2. ASSUME NEW p \in Producers, EnqueueFull(p) PROVE Fifo!PutFull(pItem[p]) /\ pItem[p] \in Items
  <2>1. pTail[p] = tail /\ pItem[p] \in Items
    BY <1>2 DEF EnqueueFull, ProducerInv
  <2>2. Len(Contents) = Capacity - 1
    BY <1>0, <1>2, <2>1, FullAndEmpty DEF EnqueueFull
  <2> QED BY <1>2, <2>1, <2>2 DEF EnqueueFull, ring, Contents, Fifo!PutFull
<1>3. ASSUME NEW p \in Producers, EnqueueRoom(p) PROVE UNCHANGED Fifo!fifoVars
  BY <1>3 DEF EnqueueRoom, ring, results, Contents, Fifo!fifoVars
<1>4. ASSUME NEW p \in Producers, WriteSlot(p) PROVE UNCHANGED Fifo!fifoVars
  <2>1. pTail[p] = tail /\ pItem[p] \in Values
    BY <1>4 DEF WriteSlot, ProducerInv, Values
  <2>2. Contents' = Contents
    <3>1. Contents' = QueueOf([buffer EXCEPT ![tail] = pItem[p]], head, tail)
      BY <1>4, <2>1 DEF WriteSlot, Contents
    <3> QED BY <1>0, <2>1, <3>1, QueueFrame, Zenon DEF Contents
  <2> QED BY <1>4, <2>2 DEF WriteSlot, results, Fifo!fifoVars
<1>5. ASSUME NEW p \in Producers, PublishTail(p) PROVE Fifo!Put(pItem[p]) /\ pItem[p] \in Items
  <2>1. /\ pTail[p] = tail /\ pItem[p] \in Items /\ ~IsFull(tail, head)
        /\ buffer[tail] = pItem[p]
    BY <1>5 DEF PublishTail, ProducerInv
  <2>2. Occupied(head, tail) # Capacity - 1
    BY <1>0, <2>1, FullAndEmpty
  <2>3. Len(Contents) < Capacity - 1
    BY <1>0, <2>2, CapacityAssumption DEF Slots
  <2>4. Contents' = Append(Contents, pItem[p])
    <3>1. Contents' = QueueOf(buffer, head, Succ(tail)) /\ Succ(tail) # head
      BY <1>5, <2>1 DEF PublishTail, Contents, IsFull
    <3>2. QueueOf(buffer, head, Succ(tail)) = Append(QueueOf(buffer, head, tail), buffer[tail])
      BY <1>0, <3>1, QueueAppend
    <3> QED BY <2>1, <3>1, <3>2 DEF Contents
  <2> QED BY <1>5, <2>1, <2>3, <2>4 DEF PublishTail, Fifo!Put
<1>6. ASSUME NEW p \in Producers, Sizing(p) PROVE UNCHANGED Fifo!fifoVars
  BY <1>6 DEF Sizing, SizeLoadHead, SizeLoadTail, SizeReturn, ring, results, Contents, Fifo!fifoVars
<1>7. ASSUME NEW c \in Consumers, LoadHead(c) \/ DequeueSome(c) \/ ReadSlot(c)
      PROVE  UNCHANGED Fifo!fifoVars
  BY <1>7 DEF LoadHead, DequeueSome, ReadSlot, ring, results, Contents, Fifo!fifoVars
<1>8. ASSUME NEW c \in Consumers, DequeueEmpty(c) PROVE Fifo!GetEmpty
  <2>1. cHead[c] = head
    BY <1>8 DEF DequeueEmpty, ConsumerInv
  <2>2. Contents = <<>>
    BY <1>0, <1>8, <2>1, FullAndEmpty DEF DequeueEmpty
  <2> QED BY <1>8, <2>2 DEF DequeueEmpty, ring, Contents, Fifo!GetEmpty
<1>9. ASSUME NEW c \in Consumers, AdvanceHead(c) PROVE Fifo!Get
  <2>1. cHead[c] = head /\ head # tail /\ cItem[c] = buffer[head]
    BY <1>9 DEF AdvanceHead, ConsumerInv
  <2>2. Contents # <<>> /\ Head(Contents) = cItem[c] /\ Contents' = Tail(Contents)
    BY <1>0, <1>9, <2>1, QueueTail DEF AdvanceHead, Contents
  <2> QED BY <1>9, <2>2 DEF AdvanceHead, Fifo!Get
<1> QED BY <1>1, <1>2, <1>3, <1>4, <1>5, <1>6, <1>7, <1>8, <1>9
        DEF Next, Enqueueing, Dequeueing, Fifo!FifoNext

\* With one producer and one consumer, LockFreeRingQueue is a FIFO of
\* Capacity - 1 items: dequeue returns the oldest item, and enqueue and
\* dequeue return false only when the queue is full, respectively empty.
THEOREM SpscImplementsFifo == ASSUME OneEach PROVE Spec => ImplementsFifo
<1>1. Init => Fifo!FifoInit
  <2> SUFFICES ASSUME Init PROVE Fifo!FifoInit
    OBVIOUS
  <2>1. Occupied(head, tail) = 0
    BY OccupiedValue, CapacityAssumption DEF Init, Slots
  <2> QED BY <2>1 DEF Init, Contents, QueueOf, Fifo!FifoInit
<1>2. SpscInv /\ [Next]_vars => SpscInv' /\ [Fifo!FifoNext]_(Fifo!fifoVars)
  <2> SUFFICES ASSUME SpscInv, [Next]_vars
               PROVE  SpscInv' /\ [Fifo!FifoNext]_(Fifo!fifoVars)
    OBVIOUS
  <2>1. SpscInv'
    BY SpscNext
  <2>2. CASE Next
    BY <2>1, <2>2, StepRefines DEF SpscInv
  <2>3. CASE UNCHANGED vars
    BY <2>1, <2>3 DEF vars, ring, results, Contents, Fifo!fifoVars
  <2> QED BY <2>1, <2>2, <2>3
<1> QED BY <1>1, <1>2, SpscInit, PTL DEF Spec, ImplementsFifo, Fifo!FifoSpec
=============================================================================
