---------------------------- MODULE BoundedFifo ----------------------------
(***************************************************************************)
(* What a LockFreeRingQueue promises its callers: a bounded FIFO whose     *)
(* calls take effect at one instant.  A put is refused only when the queue *)
(* is full, a get is refused only when it is empty, and a get that         *)
(* succeeds returns the oldest item.                                       *)
(***************************************************************************)
EXTENDS Integers, Sequences

CONSTANTS Items,   \* what may be queued
          NoItem,  \* "dequeue returned false"
          Bound    \* how many items fit

VARIABLES q,       \* the items in the queue, oldest first
          putRes,  \* outcome of the last completed put
          getRes   \* outcome of the last completed get

fifoVars == <<q, putRes, getRes>>

FifoInit == q = <<>> /\ putRes = [ok |-> TRUE, item |-> NoItem] /\ getRes = NoItem

Put(v) == /\ Len(q) < Bound
          /\ q' = Append(q, v)
          /\ putRes' = [ok |-> TRUE, item |-> v]
          /\ UNCHANGED getRes

PutFull(v) == /\ Len(q) = Bound
              /\ putRes' = [ok |-> FALSE, item |-> v]
              /\ UNCHANGED <<q, getRes>>

Get == /\ q # <<>>
       /\ getRes' = Head(q)
       /\ q' = Tail(q)
       /\ UNCHANGED putRes

GetEmpty == /\ q = <<>>
            /\ getRes' = NoItem
            /\ UNCHANGED <<q, putRes>>

FifoNext == (\E v \in Items : Put(v) \/ PutFull(v)) \/ Get \/ GetEmpty

FifoSpec == FifoInit /\ [][FifoNext]_fifoVars
=============================================================================
