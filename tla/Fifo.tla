-------------------------------- MODULE Fifo --------------------------------
(***************************************************************************)
(* What the users of cs/ring.c expect of it: a bounded first-in first-out  *)
(* queue, read one element at a time, that can be emptied at once.         *)
(***************************************************************************)
EXTENDS Naturals, Sequences

CONSTANTS Data,      \* what can be queued
          Capacity,  \* how many elements there is room for
          NoData     \* nothing has been popped yet

VARIABLES queue,     \* the queued elements, oldest first
          popped     \* the element popped last

fifoVars == <<queue, popped>>

FifoInit == queue = <<>> /\ popped = NoData

Enqueue(d) == /\ Len(queue) < Capacity
              /\ queue' = Append(queue, d)
              /\ UNCHANGED popped

Dequeue == /\ queue # <<>>
           /\ popped' = Head(queue)
           /\ queue' = Tail(queue)

Discard == queue' = <<>> /\ UNCHANGED popped

FifoNext == (\E d \in Data : Enqueue(d)) \/ Dequeue \/ Discard

FifoSpec == FifoInit /\ [][FifoNext]_fifoVars

=============================================================================
