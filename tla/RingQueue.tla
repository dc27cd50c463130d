------------------------------ MODULE RingQueue ------------------------------
(***************************************************************************)
(* One ring of cs/ring.c under a client that keeps the rules ring.c leaves *)
(* to it: it pops only what is there and pushes only when there is room.   *)
(* The transmit queue and the address ring of the command station are such *)
(* clients (module Station says why); the receive ring of io.c is not.     *)
(***************************************************************************)
EXTENDS Ring

CONSTANTS Data, Size, NoData

ASSUME SizeAssumption == Size \in Nat \ {0}

VARIABLES ring, popped

ringVars == <<ring, popped>>

RingInit == /\ \E buf \in [0 .. Size - 1 -> Data] : ring = Ring_create(Size, buf)
            /\ popped = NoData

Push(d) == /\ ring.count < ring.size
           /\ ring' = Ring_push(ring, d)
           /\ UNCHANGED popped

Pop == /\ ring.count > 0
       /\ popped' = Ring_front(ring)
       /\ ring' = Ring_pop(ring)

Reset == /\ ring' = Ring_reset(ring)
         /\ UNCHANGED popped

RingNext == (\E d \in Data : Push(d)) \/ Pop \/ Reset

RingSpec == RingInit /\ [][RingNext]_ringVars

-----------------------------------------------------------------------------
(* TYPE: the indices stay inside the buffer and the count within its size. *)
RingTypeOK == /\ ring \in RingOf(Data, Size)
              /\ popped \in Data \cup {NoData}

(* The elements come out in the order they went in, none lost and none     *)
(* twice, across every wrap of start and of the push index: the ring of    *)
(* ring.c implements a bounded queue.                                      *)
Queue == INSTANCE Fifo WITH queue <- RingSeq(ring), Capacity <- Size

ImplementsFifo == Queue!FifoSpec

=============================================================================
