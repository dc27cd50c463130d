----------------------------- MODULE RingProofs -----------------------------
(***************************************************************************)
(* The ring of cs/ring.c under a client that keeps its rules is a bounded  *)
(* queue, for any size and any data.                                       *)
(***************************************************************************)
EXTENDS RingQueue, DataLemmas

(* TYPE: whatever the client does, the indices of the ring stay inside its *)
(* buffer, for a ring of any size.                                         *)
THEOREM RingTypeCorrect == RingSpec => []RingTypeOK
  <1>1. RingInit => RingTypeOK
    <2> SUFFICES ASSUME RingInit PROVE RingTypeOK
      OBVIOUS
    <2>1. PICK buf \in [0 .. Size - 1 -> Data] : ring = Ring_create(Size, buf)
      BY DEF RingInit
    <2>2. ring \in RingOf(Data, Size)
      BY <2>1, SizeAssumption DEF Ring_create, Ring_reset, RingOf
    <2> QED  BY <2>2 DEF RingInit, RingTypeOK
  <1>2. RingTypeOK /\ [RingNext]_ringVars => RingTypeOK'
    <2> SUFFICES ASSUME RingTypeOK, [RingNext]_ringVars
                 PROVE  RingTypeOK'
      OBVIOUS
    <2>1. /\ ring \in RingOf(Data, Size) /\ ring.size = Size
          /\ ring.buf \in [0 .. Size - 1 -> Data]
          /\ popped \in Data \cup {NoData}
      BY RingFields, SizeAssumption DEF RingTypeOK
    <2>2. ASSUME NEW d \in Data, Push(d)  PROVE RingTypeOK'
      <3>1. ring.count < Size  BY <2>1, <2>2 DEF Push
      <3>2. Ring_push(ring, d) \in RingOf(Data, Size)
        BY <2>1, <3>1, PushAppends, SizeAssumption
      <3> QED  BY <2>1, <2>2, <3>2 DEF Push, RingTypeOK
    <2>3. CASE Pop
      <3>1. ring.count > 0  BY <2>3 DEF Pop
      <3>2. Ring_pop(ring) \in RingOf(Data, Size) /\ Ring_front(ring) \in Data
        BY <2>1, <3>1, PopTakesHead, SizeAssumption
      <3> QED  BY <2>3, <3>2 DEF Pop, RingTypeOK
    <2>4. CASE Reset
      <3>1. Ring_reset(ring) \in RingOf(Data, Size)
        BY <2>1, ResetEmpties, SizeAssumption
      <3> QED  BY <2>1, <2>4, <3>1 DEF Reset, RingTypeOK
    <2>5. CASE UNCHANGED ringVars
      BY <2>5 DEF ringVars, RingTypeOK
    <2> QED  BY <2>2, <2>3, <2>4, <2>5 DEF RingNext
  <1> QED  BY <1>1, <1>2, PTL DEF RingSpec

(* The elements leave the ring of ring.c in the order they entered it,     *)
(* none lost, none twice, for a ring of any size over any data.            *)
THEOREM RingIsFifo == RingSpec => ImplementsFifo
  <1>1. RingInit => Queue!FifoInit
    <2> SUFFICES ASSUME RingInit PROVE Queue!FifoInit
      OBVIOUS
    <2>1. PICK buf \in [0 .. Size - 1 -> Data] : ring = Ring_create(Size, buf)
      BY DEF RingInit
    <2> DEFINE r == [buf |-> buf, size |-> Size, count |-> 0, start |-> 0]
    <2>2. r.buf \in [0 .. Size - 1 -> Data] /\ r.size = Size
          /\ ring = Ring_reset(r)
      BY <2>1 DEF Ring_create
    <2> HIDE DEF r
    <2>3. RingSeq(ring) = <<>>  BY <2>2, ResetEmpties, SizeAssumption
    <2> QED  BY <2>3 DEF RingInit, Queue!FifoInit
  <1>2. RingTypeOK /\ [RingNext]_ringVars => [Queue!FifoNext]_Queue!fifoVars
    <2> SUFFICES ASSUME RingTypeOK, [RingNext]_ringVars
                 PROVE  [Queue!FifoNext]_Queue!fifoVars
      OBVIOUS
    <2>1. /\ ring \in RingOf(Data, Size) /\ ring.size = Size
          /\ ring.buf \in [0 .. Size - 1 -> Data] /\ ring.count \in 0 .. Size
      BY RingFields, SizeAssumption DEF RingTypeOK
    <2>2. Len(RingSeq(ring)) = ring.count
      BY <2>1, RingSeqType, SizeAssumption
    <2>3. ASSUME NEW d \in Data, Push(d)  PROVE Queue!Enqueue(d)
      <3>1. ring.count < Size  BY <2>1, <2>3 DEF Push
      <3>2. RingSeq(Ring_push(ring, d)) = Append(RingSeq(ring), d)
        BY <2>1, <3>1, PushAppends, SizeAssumption
      <3>3. RingSeq(ring)' = Append(RingSeq(ring), d)
        BY <2>3, <3>2 DEF Push, RingSeq, RingSlot
      <3> QED  BY <2>2, <2>3, <3>1, <3>3 DEF Push, Queue!Enqueue
    <2>4. ASSUME Pop  PROVE Queue!Dequeue
      <3>1. ring.count > 0  BY <2>4 DEF Pop
      <3>2. /\ RingSeq(ring) # <<>> /\ Ring_front(ring) = Head(RingSeq(ring))
            /\ RingSeq(Ring_pop(ring)) = Tail(RingSeq(ring))
        BY <2>1, <3>1, PopTakesHead, SizeAssumption
      <3>3. RingSeq(ring)' = Tail(RingSeq(ring))
        BY <2>4, <3>2 DEF Pop, RingSeq, RingSlot
      <3> QED  BY <2>4, <3>2, <3>3 DEF Pop, Queue!Dequeue
    <2>5. ASSUME Reset  PROVE Queue!Discard
      <3>1. RingSeq(Ring_reset(ring)) = <<>>
        BY <2>1, ResetEmpties, SizeAssumption
      <3>2. RingSeq(ring)' = <<>>
        BY <2>5, <3>1 DEF Reset, RingSeq, RingSlot
      <3> QED  BY <2>5, <3>2 DEF Reset, Queue!Discard
    <2>6. CASE UNCHANGED ringVars
      BY <2>6 DEF ringVars, Queue!fifoVars, RingSeq, RingSlot
    <2> QED  BY <2>3, <2>4, <2>5, <2>6 DEF RingNext, Queue!FifoNext
  <1> QED  BY <1>1, <1>2, RingTypeCorrect, PTL
    DEF RingSpec, ImplementsFifo, Queue!FifoSpec

=============================================================================
