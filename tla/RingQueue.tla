----------------------------- MODULE RingQueue -----------------------------
(***************************************************************************)
(* LockFreeRingQueue (include/lock_free_queue.h), one step per access to   *)
(* shared memory.  head_ and tail_ are std::atomic, the slots of buffer_   *)
(* are not.  Every acquire load pairs with the release store it reads, so  *)
(* steps interleave as if memory were sequentially consistent; two threads *)
(* inside the same slot are a data race and NoSlotRace rules that out.     *)
(*                                                                         *)
(* Producers and Consumers are the threads that call enqueue and dequeue.  *)
(* Most queues of the pipeline have one of each; rq_six_dof is filled by   *)
(* six pool workers and err_task_queue_ by every thread that reports.      *)
(***************************************************************************)
EXTENDS Integers, Sequences

CONSTANTS Capacity, Producers, Consumers,
          Items,    \* the objects that are queued: each is a distinct frame
          NoItem    \* a default-constructed T

\* The constructor throws std::invalid_argument on capacity 0.
ASSUME CapacityAssumption == Capacity \in Nat \ {0}
ASSUME NoItemAssumption == NoItem \notin Items

VARIABLES
    buffer, head, tail,        \* buffer_, head_, tail_
    pPc, pTail, pItem, pSize,  \* enqueue/size in progress: where, current_tail, data, size()
    cPc, cHead, cItem,         \* dequeue in progress: where, current_head, data
    putRes, getRes,            \* what the last enqueue / dequeue returned
    accepted, delivered        \* items enqueue took (true) and dequeue handed out

ring == <<buffer, head, tail>>
pVars == <<pPc, pTail, pItem, pSize>>
cVars == <<cPc, cHead, cItem>>
results == <<putRes, getRes, accepted, delivered>>
vars == <<ring, pVars, cVars, results>>

Slots == 0 .. Capacity - 1

Succ(i) == (i + 1) % Capacity

\* (tail - head + capacity) % capacity: what size() computes from two loads
Occupied(h, t) == (t - h + Capacity) % Capacity

\* The queue that a ring stands for, oldest item first
QueueOf(b, h, t) == [i \in 1 .. Occupied(h, t) |-> b[(h + i - 1) % Capacity]]
Contents == QueueOf(buffer, head, tail)

Init == /\ buffer = [s \in Slots |-> NoItem] /\ head = 0 /\ tail = 0
        /\ pPc = [p \in Producers |-> "idle"]
        /\ pTail = [p \in Producers |-> 0]
        /\ pItem = [p \in Producers |-> NoItem]
        /\ pSize = [p \in Producers |-> 0]
        /\ cPc = [c \in Consumers |-> "idle"]
        /\ cHead = [c \in Consumers |-> 0]
        /\ cItem = [c \in Consumers |-> NoItem]
        /\ putRes = [ok |-> TRUE, item |-> NoItem] /\ getRes = NoItem
        /\ accepted = {} /\ delivered = {}

-----------------------------------------------------------------------------
(* bool enqueue(const T& data).  A frame is queued once; after a false     *)
(* return its owner may try again, as the fuser and the pool workers do.   *)

\* Only idle threads call, and each frame has one owner at a time.
Offerable(v) == v \notin accepted /\ \A p \in Producers : pPc[p] = "idle" \/ pItem[p] # v

LoadTail(p, v) == /\ pPc[p] = "idle" /\ Offerable(v)
                  /\ pPc' = [pPc EXCEPT ![p] = "check"]
                  /\ pTail' = [pTail EXCEPT ![p] = tail]
                  /\ pItem' = [pItem EXCEPT ![p] = v]
                  /\ UNCHANGED <<ring, pSize, cVars, results>>

\* Mutant: no slot is kept free, so a full ring looks empty
MIsFull(t, h) == FALSE

\* Mutant: enqueue refuses one frame too early
MIsFullEarly(t, h) == Succ(Succ(t)) = h

IsFull(t, h) == Succ(t) = h

EnqueueFull(p) == /\ pPc[p] = "check" /\ IsFull(pTail[p], head)
                  /\ pPc' = [pPc EXCEPT ![p] = "idle"]
                  /\ putRes' = [ok |-> FALSE, item |-> pItem[p]]
                  /\ UNCHANGED <<ring, pTail, pItem, pSize, cVars, getRes, accepted, delivered>>

EnqueueRoom(p) == /\ pPc[p] = "check" /\ ~IsFull(pTail[p], head)
                  /\ pPc' = [pPc EXCEPT ![p] = "write"]
                  /\ UNCHANGED <<ring, pTail, pItem, pSize, cVars, results>>

WriteSlot(p) == /\ pPc[p] = "write"
                /\ buffer' = [buffer EXCEPT ![pTail[p]] = pItem[p]]
                /\ pPc' = [pPc EXCEPT ![p] = "publish"]
                /\ UNCHANGED <<head, tail, pTail, pItem, pSize, cVars, results>>

\* Mutant: the tail is published past a slot that was never written
MPublishTail(p) == /\ pPc[p] = "publish"
                   /\ tail' = Succ(Succ(pTail[p]))
                   /\ pPc' = [pPc EXCEPT ![p] = "idle"]
                   /\ putRes' = [ok |-> TRUE, item |-> pItem[p]]
                   /\ accepted' = accepted \cup {pItem[p]}
                   /\ UNCHANGED <<buffer, head, pTail, pItem, pSize, cVars, getRes, delivered>>

PublishTail(p) == /\ pPc[p] = "publish"
                  /\ tail' = Succ(pTail[p])
                  /\ pPc' = [pPc EXCEPT ![p] = "idle"]
                  /\ putRes' = [ok |-> TRUE, item |-> pItem[p]]
                  /\ accepted' = accepted \cup {pItem[p]}
                  /\ UNCHANGED <<buffer, head, pTail, pItem, pSize, cVars, getRes, delivered>>

-----------------------------------------------------------------------------
(* size_t size() const, which only enqueueWithDropOld calls, and so only   *)
(* from the producing side: it loads head_ first and tail_ afterwards.     *)

SizeLoadHead(p) == /\ pPc[p] = "idle"
                   /\ pPc' = [pPc EXCEPT ![p] = "size"]
                   /\ pSize' = [pSize EXCEPT ![p] = head]
                   /\ UNCHANGED <<ring, pTail, pItem, cVars, results>>

\* Mutant: a wrapped ring counts as empty
MSizeLoadTail(p) == /\ pPc[p] = "size"
                    /\ pPc' = [pPc EXCEPT ![p] = "sized"]
                    /\ pSize' = [pSize EXCEPT ![p] = IF @ <= tail THEN tail - @ ELSE 0]
                    /\ UNCHANGED <<ring, pTail, pItem, cVars, results>>

SizeLoadTail(p) == /\ pPc[p] = "size"
                   /\ pPc' = [pPc EXCEPT ![p] = "sized"]
                   /\ pSize' = [pSize EXCEPT ![p] = Occupied(pSize[p], tail)]
                   /\ UNCHANGED <<ring, pTail, pItem, cVars, results>>

SizeReturn(p) == /\ pPc[p] = "sized"
                 /\ pPc' = [pPc EXCEPT ![p] = "idle"]
                 /\ pSize' = [pSize EXCEPT ![p] = 0]
                 /\ UNCHANGED <<ring, pTail, pItem, cVars, results>>

-----------------------------------------------------------------------------
(* bool dequeue(T& data) *)

LoadHead(c) == /\ cPc[c] = "idle"
               /\ cPc' = [cPc EXCEPT ![c] = "check"]
               /\ cHead' = [cHead EXCEPT ![c] = head]
               /\ UNCHANGED <<ring, pVars, cItem, results>>

DequeueEmpty(c) == /\ cPc[c] = "check" /\ cHead[c] = tail
                   /\ cPc' = [cPc EXCEPT ![c] = "idle"]
                   /\ getRes' = NoItem
                   /\ UNCHANGED <<ring, pVars, cHead, cItem, putRes, accepted, delivered>>

\* Mutant: dequeue goes on to read although the queue is empty
MDequeueSome(c) == /\ cPc[c] = "check"
                   /\ cPc' = [cPc EXCEPT ![c] = "read"]
                   /\ UNCHANGED <<ring, pVars, cHead, cItem, results>>

DequeueSome(c) == /\ cPc[c] = "check" /\ cHead[c] # tail
                  /\ cPc' = [cPc EXCEPT ![c] = "read"]
                  /\ UNCHANGED <<ring, pVars, cHead, cItem, results>>

ReadSlot(c) == /\ cPc[c] = "read"
               /\ cItem' = [cItem EXCEPT ![c] = buffer[cHead[c]]]
               /\ cPc' = [cPc EXCEPT ![c] = "advance"]
               /\ UNCHANGED <<ring, pVars, cHead, results>>

AdvanceHead(c) == /\ cPc[c] = "advance"
                  /\ head' = Succ(cHead[c])
                  /\ cPc' = [cPc EXCEPT ![c] = "idle"]
                  /\ getRes' = cItem[c]
                  /\ delivered' = delivered \cup {cItem[c]}
                  /\ UNCHANGED <<buffer, tail, pVars, cHead, cItem, putRes, accepted>>

-----------------------------------------------------------------------------
Enqueueing(p) == EnqueueFull(p) \/ EnqueueRoom(p) \/ WriteSlot(p) \/ PublishTail(p)
Sizing(p) == SizeLoadHead(p) \/ SizeLoadTail(p) \/ SizeReturn(p)
Dequeueing(c) == LoadHead(c) \/ DequeueEmpty(c) \/ DequeueSome(c) \/ ReadSlot(c) \/ AdvanceHead(c)

Next == \/ \E p \in Producers : (\E v \in Items : LoadTail(p, v)) \/ Enqueueing(p) \/ Sizing(p)
        \/ \E c \in Consumers : Dequeueing(c)

Spec == Init /\ [][Next]_vars

-----------------------------------------------------------------------------
(* Properties.  All but the last hold with one producer and one consumer.  *)

OneEach == /\ \A p, r \in Producers : p = r
           /\ \A c, d \in Consumers : c = d

\* Every variable has its type; current_tail and current_head index buffer_.
TypeOK == /\ buffer \in [Slots -> Items \cup {NoItem}] /\ head \in Slots /\ tail \in Slots
          /\ pPc \in [Producers -> {"idle", "check", "write", "publish", "size", "sized"}]
          /\ pTail \in [Producers -> Slots] /\ pSize \in [Producers -> Slots]
          /\ pItem \in [Producers -> Items \cup {NoItem}]
          /\ cPc \in [Consumers -> {"idle", "check", "read", "advance"}]
          /\ cHead \in [Consumers -> Slots]
          /\ cItem \in [Consumers -> Items \cup {NoItem}]
          /\ putRes \in [ok : BOOLEAN, item : Items \cup {NoItem}]
          /\ getRes \in Items \cup {NoItem}
          /\ accepted \in SUBSET (Items \cup {NoItem})
          /\ delivered \in SUBSET (Items \cup {NoItem})

\* The slots of buffer_ are plain objects (RawPointCloud, SixDofResult, ...):
\* enqueue's copy into a slot never overlaps dequeue's copy out of it.
NoSlotRace == \A p \in Producers, c \in Consumers :
                 ~(pPc[p] = "write" /\ cPc[c] = "read" /\ pTail[p] = cHead[c])

\* The slots dequeue has still to hand out: from head_ up to, not including, tail_
Live(h, t) == {s \in Slots : IF h <= t THEN h <= s /\ s < t ELSE h <= s \/ s < t}
Queued == {buffer[s] : s \in Live(head, tail)}

\* Each frame for which enqueue returned true is in the ring or was handed
\* out by dequeue, never both and never twice, and nothing else ever is.
ExactlyOnce == /\ accepted = delivered \cup Queued
               /\ delivered \cap Queued = {}
               /\ \A s, u \in Live(head, tail) : buffer[s] = buffer[u] => s = u

\* size() loads head_ before tail_.  Called by the producer it can only be
\* too large when it returns, never too small: a caller that saw room has it.
SizeNeverUnderestimates == \A p \in Producers :
                 pPc[p] = "sized" => pSize[p] >= Occupied(head, tail)

\* enqueue and dequeue behave as the operations of a FIFO of Capacity - 1
\* items; in particular a false return means the queue was full (or empty).
Fifo == INSTANCE BoundedFifo WITH q <- Contents, Bound <- Capacity - 1
ImplementsFifo == Fifo!FifoSpec

\* A true return from enqueue means the frame is not lost.  The pool workers
\* of SixDofCalculator stop retrying, and report no loss, on a true return.
NoAcceptedItemLost == accepted \subseteq delivered \cup Queued
=============================================================================
