--------------------------- MODULE StationProofs ----------------------------
(***************************************************************************)
(* The command station, for any number of locos, entries and blocks and    *)
(* any blink of a tick or more. Why it may leave interrupts on: the blink  *)
(* drains the transmit queue, so an interrupt that finds the queue empty   *)
(* only reads what the main loop is working on. Who owns each allocated    *)
(* packet, how long a stop stays on the track, what the two system         *)
(* commands do to the cache, and that main and the interrupt together do   *)
(* what RefreshPolicy says, if the locos fit the cache.                    *)
(***************************************************************************)
EXTENDS Station, DataLemmas

(* WHO OWNS WHAT *)

(* What a tick does to the transmit queue: it takes one packet from it, or *)
(* there is none.                                                          *)
LEMMA TickDrains ==
  ASSUME txQueue.count \in {0, 1}, Timer0
  PROVE  txQueue.count' = 0
  <1>1. CASE TransmitStop
    <2>1. txQueue' = Ring_pop(txQueue) /\ txQueue.count = 1
      BY <1>1 DEF TransmitStop
    <2> QED  BY <2>1 DEF Ring_pop
  <1>2. CASE TransmitLoco
    <2>1. txQueue' = Ring_pop(txQueue) /\ txQueue.count = 1
      BY <1>2 DEF TransmitLoco
    <2> QED  BY <2>1 DEF Ring_pop
  <1>3. CASE ResendStop  BY <1>3 DEF ResendStop
  <1>4. CASE RefreshLoco  BY <1>4 DEF RefreshLoco
  <1>5. CASE SendIdle  BY <1>5 DEF SendIdle
  <1> QED  BY <1>1, <1>2, <1>3, <1>4, <1>5 DEF Timer0

(* The inductive form of QueueShort: a blink of which a tick has passed    *)
(* has an empty queue.                                                     *)
Drained == /\ QueueShort
           /\ ticks \in Nat
           /\ pc = "blink" /\ ticks > 0 => txQueue.count = 0

(* The queue is empty when the station is switched on. *)
LEMMA InitDrained == StationInit => Drained
  BY DEF StationInit, Scheduler_module_init, Ring_create, Ring_reset, Drained,
         QueueShort, SysPhases

(* It is drained during every blink: the invariant is inductive. *)
LEMMA StepDrained == Drained /\ [StationNext]_vars => Drained'
  <1> SUFFICES ASSUME Drained, [StationNext]_vars PROVE Drained'
    OBVIOUS
  <1> USE DEF SysPhases
  <1>1. ASSUME NEW m \in Message, ReadPacket(m)  PROVE Drained'
    BY <1>1 DEF ReadPacket, Drained, QueueShort
  <1>2. CASE ReadRefused
    BY <1>2 DEF ReadRefused, Drained, QueueShort, mainVars
  <1>3. CASE ReadClear
    BY <1>3 DEF ReadClear, Drained, QueueShort, schedulerVars
  <1>4. ASSUME NEW l \in Loco, ReadShow(l)  PROVE Drained'
    BY <1>4 DEF ReadShow, Drained, QueueShort, schedulerVars
  <1>5. CASE BlinkDone
    <2>1. pc = "blink" /\ ticks > 0 /\ txQueue' = txQueue /\ ticks' = 0
      BY <1>5, BlinkAssumption DEF BlinkDone, schedulerVars
    <2> QED  BY <2>1 DEF Drained, QueueShort
  <1>6. CASE AddPacket
    <2>1. /\ pc = "add" /\ pc' = "read" /\ ticks' = ticks
          /\ txQueue' = Ring_push(txQueue, packet)
      BY <1>6 DEF AddPacket, Scheduler_add_packet
    <2>2. txQueue.count = 0  BY <2>1 DEF Drained, QueueShort
    <2>3. txQueue.count' = 1  BY <2>1, <2>2 DEF Ring_push
    <2> QED  BY <2>1, <2>3 DEF Drained, QueueShort
  <1>7. CASE Purge
    <2>1. /\ pc \in SysPhases /\ pc' \in SysPhases \cup {"read"}
          /\ txQueue' = txQueue /\ ticks' = ticks
      BY <1>7 DEF Purge, ReportSize, ResetCount, ResetStart, DestroyEntry,
                  NullifyEntry, PrintPurged, schedulerVars
    <2> QED  BY <2>1 DEF Drained, QueueShort
  <1>8. CASE LookUp \/ Dump
    <2>1. /\ pc \in SysPhases /\ pc' \in SysPhases \cup {"read"}
          /\ txQueue' = txQueue /\ ticks' = ticks
      BY <1>8 DEF LookUp, Dump, schedulerVars
    <2> QED  BY <2>1 DEF Drained, QueueShort
  <1>9. CASE Tick
    <2>1. txQueue.count' = 0
      BY <1>9, TickDrains DEF Tick, Drained, QueueShort
    <2>2. ticks' \in Nat
      BY <1>9 DEF Tick, Drained
    <2> QED  BY <2>1, <2>2 DEF Drained, QueueShort
  <1>10. CASE UNCHANGED vars
    BY <1>10 DEF vars, schedulerVars, mainVars, Drained, QueueShort
  <1> QED
    BY <1>1, <1>3, <1>4, <1>5, <1>6, <1>7, <1>8, <1>9, <1>10, <1>2
    DEF StationNext, ReadCommand, MainStep

(* Two packets never meet in the transmit queue, and none is in it while   *)
(* main works on the cache: scheduler.c needs no check for room.           *)
THEOREM QueueStaysShort == StationSpec => []QueueShort
  <1>1. Drained => QueueShort  BY DEF Drained
  <1> QED  BY <1>1, InitDrained, StepDrained, PTL DEF StationSpec

(* An interrupt that finds the queue empty leaves heap and table alone. *)
LEMMA EmptyQueueTick ==
  ASSUME txQueue.count = 0, Timer0
  PROVE  heap' = heap /\ cache.packets' = cache.packets /\ stopPacket' = stopPacket
  <1>1. ~ TransmitStop /\ ~ TransmitLoco
    BY DEF TransmitStop, TransmitLoco
  <1>2. CASE ResendStop  BY <1>2 DEF ResendStop
  <1>3. CASE RefreshLoco  BY <1>3 DEF RefreshLoco, Cache_rotated
  <1>4. CASE SendIdle  BY <1>4 DEF SendIdle, Cache_rotated
  <1> QED  BY <1>1, <1>2, <1>3, <1>4 DEF Timer0

(* cache clear and cache show have the heap and the table to themselves,   *)
(* although interrupts are on while they run.                              *)
THEOREM SysCommandsRunAlone == StationSpec => SysCommandsAlone
  <1>1. Drained /\ [StationNext]_vars
          => (pc \in SysPhases /\ pc' = pc
                => heap' = heap /\ cache.packets' = cache.packets)
    <2> SUFFICES ASSUME Drained, [StationNext]_vars, pc \in SysPhases, pc' = pc
                 PROVE  heap' = heap /\ cache.packets' = cache.packets
      OBVIOUS
    <2>1. txQueue.count = 0  BY DEF Drained, QueueShort
    <2>2. ~ ReadCommand
      BY DEF ReadCommand, ReadPacket, ReadRefused, ReadClear, ReadShow, SysPhases
    <2>3. ~ MainStep
      BY DEF MainStep, BlinkDone, AddPacket, Purge, ReportSize, ResetCount,
             ResetStart, DestroyEntry, NullifyEntry, PrintPurged, LookUp, Dump,
             SysPhases
    <2>4. CASE Tick  BY <2>1, <2>4, EmptyQueueTick DEF Tick
    <2>5. CASE UNCHANGED vars  BY <2>5 DEF vars, schedulerVars
    <2> QED  BY <2>2, <2>3, <2>4, <2>5 DEF StationNext
  <1> QED
    BY <1>1, InitDrained, StepDrained, PTL DEF StationSpec, SysCommandsAlone

-----------------------------------------------------------------------------
(* Who owns the packets of heap h: the entries e[j], j in K, the queue with *)
(* q, the stop packet s and main with p, a pointer being NULL if it has    *)
(* none.                                                                   *)
Owned(h, e, K, q, s, p) ==
  /\ \A j \in K : e[j].v \in Block /\ h[e[j].v] \in LocoMessage
  /\ \A j, k \in K : e[j].v = e[k].v => j = k
  /\ \A j \in K : e[j].v \notin {q, s, p}
  /\ q # NULL => q \in Block /\ h[q] \in Message /\ q \notin {s, p}
  /\ s # NULL => s \in Block /\ h[s] \in Stop /\ s # p /\ K = {}
  /\ p # NULL => p \in Block /\ h[p] \in Message
  /\ \A b \in Block : h[b] \notin {Free, Lost}
                     => b \in {q, s, p} \/ \E j \in K : e[j].v = b

Heap == [Block -> Message \cup {Free, Lost}]

(* A packet is a stop or a loco's; a free block and a lost one hold        *)
(* neither.                                                                *)
LEMMA MessageNotFree ==
  /\ Free \notin Message /\ Free \notin LocoMessage /\ Free \notin Stop
  /\ Lost \notin Message /\ Lost \notin LocoMessage /\ Lost \notin Stop
  /\ Lost # Free
  /\ \A m \in Message : m \in Stop \/ m \in LocoMessage
  /\ \A m \in LocoMessage : m \notin Stop /\ m \in Message
  BY MessageAssumption, LostAssumption DEF Message

(* Neither no packet nor the idle packet is a message. *)
LEMMA NullIsNoMessage ==
  NULL \notin Message /\ Idle \notin Message /\ NULL \notin Stop /\ Idle \notin Stop
  BY NullAssumption DEF Message

(* A block keeps what it holds, or is lost without having been used. *)
Forgets(h, g, c) == g[c] = h[c] \/ (h[c] = Free /\ g[c] = Lost)

(* What the parser does to the heap over a line it understands ...         *)
LEMMA ReadPacketHeap ==
  ASSUME heap \in Heap, NEW m \in Message, ReadPacket(m)
  PROVE  /\ heap' \in Heap
         /\ \E b \in Block : /\ heap[b] = Free /\ packet' = b /\ heap'[b] = m
                             /\ \A c \in Block \ {b} : Forgets(heap, heap', c)
  <1>1. PICK b \in FreeBlocks, L \in SUBSET FreeBlocks :
          b \notin L /\ packet' = b /\ heap' = CreatePacket(Forget(heap, L), b, m)
    BY DEF ReadPacket
  <1>2. b \in Block /\ heap[b] = Free /\ \A c \in L : c \in Block /\ heap[c] = Free
    BY <1>1 DEF FreeBlocks, Allocated
  <1>3. Forget(heap, L) = [c \in Block |-> IF c \in L THEN Lost ELSE heap[c]]
    BY DEF Forget
  <1>4. heap' = [Forget(heap, L) EXCEPT ![b] = m]
    BY <1>1 DEF CreatePacket
  <1>5. heap' = [c \in Block |-> IF c = b THEN m ELSE IF c \in L THEN Lost ELSE heap[c]]
    BY <1>3, <1>4
  <1> QED  BY <1>1, <1>2, <1>5 DEF Heap, Forgets

(* ... and over one that it refuses.                                       *)
LEMMA ReadRefusedHeap ==
  ASSUME heap \in Heap, ReadRefused
  PROVE  heap' \in Heap /\ \A c \in Block : Forgets(heap, heap', c)
  <1>1. PICK b \in FreeBlocks : heap' = Forget(heap, {b})
    BY DEF ReadRefused
  <1>2. b \in Block /\ heap[b] = Free
    BY DEF FreeBlocks, Allocated
  <1>3. heap' = [c \in Block |-> IF c \in {b} THEN Lost ELSE heap[c]]
    BY <1>1 DEF Forget
  <1> QED  BY <1>2, <1>3 DEF Heap, Forgets

(* The parser fills a free block, and loses others. *)
LEMMA OwnedCreate ==
  ASSUME NEW h \in Heap, NEW g \in Heap, NEW e, NEW K, NEW q, NEW s,
         Owned(h, e, K, q, s, NULL),
         NEW b \in Block, h[b] = Free, g[b] \in Message,
         \A c \in Block \ {b} : Forgets(h, g, c)
  PROVE  Owned(g, e, K, q, s, b)
  <1>1. \A c \in Block : h[c] # Free => c # b /\ g[c] = h[c]
    BY DEF Forgets
  <1>2. /\ b # NULL /\ (q # NULL => b # q) /\ (s # NULL => b # s)
        /\ \A j \in K : e[j].v # b
    BY MessageNotFree, NullAssumption DEF Owned
  <1>3. \A j \in K : e[j].v \in Block /\ g[e[j].v] \in LocoMessage
    BY <1>1, MessageNotFree DEF Owned
  <1>4. /\ q # NULL => q \in Block /\ g[q] \in Message /\ q \notin {s, b}
        /\ s # NULL => s \in Block /\ g[s] \in Stop /\ s # b /\ K = {}
    BY <1>1, <1>2, MessageNotFree DEF Owned
  <1>5. ASSUME NEW c \in Block, g[c] \notin {Free, Lost}
        PROVE  c \in {q, s, b} \/ \E j \in K : e[j].v = c
    <2>1. CASE c # b
      <3>1. h[c] \notin {Free, Lost} /\ c # NULL
        BY <1>5, <2>1, NullAssumption DEF Forgets
      <3> QED  BY <3>1 DEF Owned
    <2> QED  BY <2>1
  <1> QED  BY <1>2, <1>3, <1>4, <1>5 DEF Owned

(* A block that is lost without having been used was nobody's. *)
LEMMA OwnedForget ==
  ASSUME NEW h \in Heap, NEW g \in Heap, NEW e, NEW K, NEW q, NEW s, NEW p,
         Owned(h, e, K, q, s, p), \A c \in Block : Forgets(h, g, c)
  PROVE  Owned(g, e, K, q, s, p)
  <1>1. \A c \in Block : h[c] # Free => g[c] = h[c]
    BY DEF Forgets
  <1>2. \A j \in K : e[j].v \in Block /\ g[e[j].v] \in LocoMessage
    BY <1>1, MessageNotFree DEF Owned
  <1>3. /\ q # NULL => q \in Block /\ g[q] \in Message /\ q \notin {s, p}
        /\ s # NULL => s \in Block /\ g[s] \in Stop /\ s # p /\ K = {}
        /\ p # NULL => p \in Block /\ g[p] \in Message
    BY <1>1, MessageNotFree DEF Owned
  <1>4. \A c \in Block : g[c] \notin {Free, Lost} => h[c] \notin {Free, Lost}
    BY DEF Forgets
  <1> QED  BY <1>2, <1>3, <1>4 DEF Owned

(* main hands its packet to an empty queue. *)
LEMMA OwnedAdd ==
  ASSUME NEW h, NEW e, NEW K, NEW s, NEW p, Owned(h, e, K, NULL, s, p)
  PROVE  Owned(h, e, K, p, s, NULL)
  BY NullAssumption DEF Owned

(* A broadcast stop leaves the queue: all packets but it and main's go. *)
LEMMA OwnedStop ==
  ASSUME NEW h \in Heap, NEW e, NEW K, NEW q, NEW s, NEW p, NEW f, NEW gone,
         Owned(h, e, K, q, s, p), q # NULL, h[q] \in Stop,
         gone = ({s} \ {NULL}) \cup {e[j].v : j \in K}
  PROVE  /\ DCC_packet_destroy(h, gone) \in Heap
         /\ DCC_packet_destroy(h, gone)[q] = h[q]
         /\ Owned(DCC_packet_destroy(h, gone), f, {}, NULL, q, p)
  <1> DEFINE g == DCC_packet_destroy(h, gone)
  <1>1. g = [b \in Block |-> IF b \in gone THEN Free ELSE h[b]]
    BY DEF DCC_packet_destroy
  <1>2. q \in Block /\ q \notin gone /\ (p # NULL => p \notin gone)
    BY DEF Owned
  <1>3. \A b \in Block : h[b] \notin {Free, Lost} => b \in {q, p} \/ b \in gone
    BY NullAssumption DEF Owned
  <1>4. g \in Heap /\ g[q] = h[q] /\ (p # NULL => g[p] = h[p])
    BY <1>1, <1>2 DEF Heap, Owned
  <1>5. q # p /\ (p # NULL => p \in Block /\ h[p] \in Message)
    BY DEF Owned
  <1>6. \A b \in Block : g[b] \notin {Free, Lost} => b \in {q, p}
    BY <1>1, <1>3
  <1> HIDE DEF g
  <1>7. Owned(g, f, {}, NULL, q, p)
    BY <1>2, <1>4, <1>5, <1>6 DEF Owned
  <1> QED  BY <1>4, <1>7 DEF g

(* The purge frees the packet of entry i and will forget the entry. *)
LEMMA OwnedDestroy ==
  ASSUME NEW h \in Heap, NEW e, NEW K, NEW x, NEW q, NEW s, NEW p, NEW gone,
         Owned(h, e, K, q, s, p), gone = IF x \in K THEN {e[x].v} ELSE {}
  PROVE  /\ DCC_packet_destroy(h, gone) \in Heap
         /\ s # NULL => DCC_packet_destroy(h, gone)[s] = h[s]
         /\ Owned(DCC_packet_destroy(h, gone), e, K \ {x}, q, s, p)
  <1> DEFINE g == DCC_packet_destroy(h, gone)
  <1>1. /\ g \in Heap
        /\ \A b \in Block : g[b] = IF b \in gone THEN Free ELSE h[b]
    BY DEF DCC_packet_destroy, Heap
  <1> HIDE DEF g
  <1>2. /\ (q # NULL => q \notin gone) /\ (s # NULL => s \notin gone)
        /\ (p # NULL => p \notin gone)
    BY DEF Owned
  <1>3. \A j \in K \ {x} : e[j].v \in Block /\ e[j].v \notin gone
    BY DEF Owned
  <1>4. ASSUME NEW b \in Block, g[b] \notin {Free, Lost}
        PROVE  b \in {q, s, p} \/ \E j \in K \ {x} : e[j].v = b
    <2>1. h[b] \notin {Free, Lost} /\ b \notin gone  BY <1>1, <1>4
    <2>2. b \in {q, s, p} \/ \E j \in K : e[j].v = b  BY <2>1 DEF Owned
    <2> QED  BY <2>1, <2>2
  <1>5. \A j \in K \ {x} : e[j].v \in Block /\ g[e[j].v] \in LocoMessage
    BY <1>1, <1>3 DEF Owned
  <1>6. /\ q # NULL => q \in Block /\ g[q] \in Message /\ q \notin {s, p}
        /\ s # NULL => s \in Block /\ g[s] \in Stop /\ s # p /\ K \ {x} = {}
                       /\ g[s] = h[s]
        /\ p # NULL => p \in Block /\ g[p] \in Message
    BY <1>1, <1>2 DEF Owned
  <1> QED  BY <1>1, <1>4, <1>5, <1>6 DEF Owned, g

(* The owners do not change. *)
LEMMA OwnedSame ==
  ASSUME NEW h, NEW e, NEW f, NEW K, NEW q, NEW s, NEW p,
         Owned(h, e, K, q, s, p), \A j \in K : f[j] = e[j]
  PROVE  Owned(h, f, K, q, s, p)
  BY DEF Owned

-----------------------------------------------------------------------------
(* The packet in the queue, if there is one. *)
QueueHead == IF txQueue.count = 0 THEN NULL ELSE Ring_front(txQueue)

(* The address ring holds numbers, and none while the table is emptied. *)
AddressesOK ==
  /\ cache.addresses.buf \in [0 .. CacheSize - 1 -> Nat]
  /\ cache.addresses.size = CacheSize
  /\ cache.addresses.start \in 0 .. CacheSize - 1
  /\ pc \in {"resetStart", "destroy", "nullify", "print"}
       => cache.addresses.count = 0

(* What the variables hold, as far as ownership depends on it. *)
MemoryTypeOK ==
  /\ cache.packets \in HashOf(Loco, Block, CacheSize)
  /\ AddressesOK
  /\ heap \in Heap
  /\ txQueue \in RingOf(Block \cup {NULL}, TxLen)
  /\ pc \in Phases
  /\ pc \in {"destroy", "nullify"} => i \in 0 .. CacheSize - 1

(* main has a packet exactly from reading it until queueing it, and queues *)
(* packets only.                                                           *)
HandTypeOK ==
  /\ pc = "blink" => command.type \in {"packet", "clear", "show"}
  /\ packet # NULL <=> pc = "add" \/ (pc = "blink" /\ command.type = "packet")
  /\ txQueue.count # 0 => Ring_front(txQueue) # NULL

(* A stop on the track is the stop packet's. *)
TrackStop == track \in Stop => stopPacket # NULL /\ heap[stopPacket] = track

MemoryInv ==
  /\ Drained
  /\ MemoryTypeOK
  /\ HandTypeOK
  /\ Owned(heap, cache.packets.entries, KeptEntries, QueueHead, stopPacket, packet)
  /\ TrackStop

(* The invariant says what OwnedOnce says. *)
LEMMA QueuedIsHead ==
  ASSUME MemoryTypeOK, QueueShort
  PROVE  Queued = IF txQueue.count = 0 THEN {} ELSE {QueueHead}
  <1>1. txQueue \in RingOf(Block \cup {NULL}, TxLen)  BY DEF MemoryTypeOK
  <1>2. CASE txQueue.count = 0  BY <1>2 DEF Queued
  <1>3. CASE txQueue.count = 1
    <2>1. /\ RingSeq(txQueue) \in Seq(Block \cup {NULL})
          /\ Len(RingSeq(txQueue)) = 1
      BY <1>1, <1>3, RingSeqType, SizesAssumption
    <2>2. txQueue.count > 0 /\ TxLen \in Nat \ {0}
      BY <1>3, SizesAssumption
    <2>3. RingSeq(txQueue) # <<>> /\ Ring_front(txQueue) = Head(RingSeq(txQueue))
      BY <1>1, <2>2, PopTakesHead
    <2>4. Queued = {RingSeq(txQueue)[1]}  BY <1>3 DEF Queued
    <2>5. Head(RingSeq(txQueue)) = RingSeq(txQueue)[1]  BY <2>1, <2>3
    <2> QED  BY <1>3, <2>4, <2>3, <2>5 DEF QueueHead
  <1> QED  BY <1>2, <1>3 DEF QueueShort

(* The invariant implies that every packet is owned once. *)
LEMMA MemoryInvOwnedOnce == MemoryInv => OwnedOnce
  <1> SUFFICES ASSUME MemoryInv PROVE OwnedOnce
    OBVIOUS
  <1> DEFINE e == cache.packets.entries
  <1>1. heap \in Heap /\ Owned(heap, e, KeptEntries, QueueHead, stopPacket, packet)
    BY DEF MemoryInv, MemoryTypeOK
  <1>2. Queued = Single(QueueHead)
    <2>1. Queued = IF txQueue.count = 0 THEN {} ELSE {QueueHead}
      BY QueuedIsHead DEF MemoryInv, Drained
    <2>2. txQueue.count # 0 => QueueHead # NULL
      BY DEF MemoryInv, HandTypeOK, QueueHead
    <2> QED  BY <2>1, <2>2 DEF Single, QueueHead
  <1> USE DEF InUse, LostBlocks
  <1>3. InUse = Kept \cup Single(QueueHead) \cup Single(stopPacket) \cup Single(packet)
    <2>1. ASSUME NEW b \in InUse
          PROVE  b \in Kept \cup Single(QueueHead) \cup Single(stopPacket)
                            \cup Single(packet)
      <3>1. b \in Block /\ heap[b] \notin {Free, Lost} /\ b # NULL
        BY NullAssumption DEF Allocated
      <3>2. b \in {QueueHead, stopPacket, packet} \/ \E j \in KeptEntries : e[j].v = b
        BY <1>1, <3>1 DEF Owned
      <3> QED  BY <3>1, <3>2 DEF Kept, EntryPacket, Single
    <2>2. Kept \subseteq InUse
      BY <1>1, MessageNotFree DEF Kept, EntryPacket, Owned, Allocated
    <2>3. /\ Single(QueueHead) \subseteq InUse
          /\ Single(stopPacket) \subseteq InUse
          /\ Single(packet) \subseteq InUse
      BY <1>1, MessageNotFree DEF Owned, Single, Allocated
    <2> QED  BY <2>1, <2>2, <2>3
  <1>4. \A j, k \in KeptEntries : EntryPacket(j) = EntryPacket(k) => j = k
    BY <1>1 DEF Owned, EntryPacket
  <1>5. /\ Kept \cap Single(QueueHead) = {}
        /\ Kept \cap Single(stopPacket) = {}
        /\ Kept \cap Single(packet) = {}
    BY <1>1 DEF Owned, Kept, EntryPacket, Single
  <1>6. /\ Single(QueueHead) \cap Single(stopPacket) = {}
        /\ Single(QueueHead) \cap Single(packet) = {}
        /\ Single(stopPacket) \cap Single(packet) = {}
    BY <1>1 DEF Owned, Single
  <1> QED  BY <1>2, <1>3, <1>4, <1>5, <1>6 DEF OwnedOnce

-----------------------------------------------------------------------------
(* The invariant holds when the station is switched on. *)
LEMMA InitMemory == StationInit => MemoryInv
  <1> SUFFICES ASSUME StationInit PROVE MemoryInv
    OBVIOUS
  <1>1. /\ cache.packets = Hash_create(CacheSize) /\ pc = "read" /\ packet = NULL
        /\ cache.addresses = Ring_create(CacheSize, [j \in 0 .. CacheSize - 1 |-> 0])
        /\ txQueue = Ring_create(TxLen, [j \in 0 .. TxLen - 1 |-> NULL])
        /\ heap = [b \in Block |-> Free] /\ stopPacket = NULL /\ track = NULL
    BY DEF StationInit, Scheduler_module_init, Cache_module_init
  <1>2. /\ cache.packets \in HashOf(Loco, Block, CacheSize)
        /\ HashUsed(cache.packets) = {}
    BY <1>1, ResetType, SizesAssumption
  <1>3. /\ cache.addresses.buf \in [0 .. CacheSize - 1 -> Nat]
        /\ cache.addresses.size = CacheSize /\ cache.addresses.start = 0
    BY <1>1 DEF Ring_create, Ring_reset
  <1>4. txQueue \in RingOf(Block \cup {NULL}, TxLen) /\ txQueue.count = 0
    BY <1>1, SizesAssumption DEF Ring_create, Ring_reset, RingOf
  <1>5. MemoryTypeOK
    <2>1. heap \in Heap  BY <1>1 DEF Heap
    <2>2. 0 \in 0 .. CacheSize - 1  BY SizesAssumption
    <2> QED  BY <1>1, <1>2, <1>3, <1>4, <2>1, <2>2
         DEF MemoryTypeOK, AddressesOK, Phases
  <1>6. HandTypeOK  BY <1>1, <1>4 DEF HandTypeOK
  <1>7. KeptEntries = {}  BY <1>2 DEF KeptEntries
  <1>8. QueueHead = NULL  BY <1>4 DEF QueueHead
  <1>9. Owned(heap, cache.packets.entries, {}, NULL, NULL, NULL)
    BY <1>1 DEF Owned
  <1>10. TrackStop  BY <1>1, NullIsNoMessage DEF TrackStop
  <1> QED
    BY <1>1, <1>5, <1>6, <1>7, <1>8, <1>9, <1>10, InitDrained DEF MemoryInv

(* A step that neither changes packets nor hands them on. *)
MemoryUnchanged == UNCHANGED <<cache.packets, heap, txQueue, stopPacket, packet>>

(* What leaves packets and pointers alone leaves their owners alone. *)
LEMMA StepUnchanged ==
  ASSUME MemoryInv, MemoryUnchanged, pc' = "nullify" => pc = "nullify" /\ i' = i,
         pc = "nullify" => pc' = "nullify", pc' \in Phases, AddressesOK',
         pc' \in {"destroy", "nullify"} => i' \in 0 .. CacheSize - 1
  PROVE  MemoryTypeOK'
         /\ Owned(heap, cache.packets.entries, KeptEntries, QueueHead, stopPacket,
                  packet)'
  <1>1. KeptEntries' = KeptEntries
    BY DEF MemoryUnchanged, KeptEntries, Dangling, HashUsed
  <1>2. QueueHead' = QueueHead
    BY DEF MemoryUnchanged, QueueHead, Ring_front
  <1>3. Owned(heap, cache.packets.entries, KeptEntries, QueueHead, stopPacket,
              packet)'
    BY <1>1, <1>2 DEF MemoryInv, MemoryUnchanged, Owned
  <1> QED
    BY <1>3 DEF MemoryInv, MemoryUnchanged, MemoryTypeOK

(* What remains to be shown of a step, StepDrained apart. *)
MemoryRest ==
  /\ MemoryTypeOK
  /\ HandTypeOK
  /\ Owned(heap, cache.packets.entries, KeptEntries, QueueHead, stopPacket, packet)
  /\ TrackStop

(* The parser has a packet ready, in a block that nobody owns. *)
LEMMA StepReadPacket ==
  ASSUME MemoryInv, NEW m \in Message, ReadPacket(m)
  PROVE  MemoryRest'
  <1> DEFINE e == cache.packets.entries
  <1>1. /\ pc = "read" /\ pc' = "blink" /\ command'.type = "packet"
        /\ UNCHANGED <<cache, txQueue, stopPacket, track>>
    BY DEF ReadPacket
  <1>2. PICK b \in Block : /\ heap[b] = Free /\ packet' = b /\ heap'[b] = m
                           /\ \A c \in Block \ {b} : Forgets(heap, heap', c)
    BY ReadPacketHeap DEF MemoryInv, MemoryTypeOK
  <1>3. packet = NULL  BY <1>1 DEF MemoryInv, HandTypeOK
  <1>4. heap \in Heap /\ Owned(heap, e, KeptEntries, QueueHead, stopPacket, NULL)
    BY <1>3 DEF MemoryInv, MemoryTypeOK
  <1>5. heap' \in Heap /\ Owned(heap', e, KeptEntries, QueueHead, stopPacket, b)
    BY <1>2, <1>4, OwnedCreate, ReadPacketHeap
  <1>6. KeptEntries' = KeptEntries /\ QueueHead' = QueueHead
    BY <1>1 DEF KeptEntries, Dangling, HashUsed, QueueHead, Ring_front
  <1>7. Owned(heap, e, KeptEntries, QueueHead, stopPacket, packet)'
    BY <1>1, <1>2, <1>5, <1>6
  <1>8. b # NULL  BY NullAssumption
  <1>9. MemoryTypeOK'
    BY <1>1, <1>5 DEF MemoryInv, MemoryTypeOK, AddressesOK, Phases
  <1>10. HandTypeOK'
    BY <1>1, <1>2, <1>8 DEF MemoryInv, HandTypeOK, Ring_front
  <1>11. TrackStop'
    <2> SUFFICES ASSUME track' \in Stop
                 PROVE  stopPacket' # NULL /\ heap'[stopPacket'] = track'
      BY DEF TrackStop
    <2>1. stopPacket # NULL /\ heap[stopPacket] = track
      BY <1>1 DEF MemoryInv, TrackStop
    <2>2. stopPacket \in Block /\ heap[stopPacket] \in Stop
      BY <1>4, <2>1 DEF Owned
    <2>3. stopPacket # b  BY <1>2, <2>2, MessageNotFree
    <2> QED  BY <1>1, <1>2, <2>1, <2>2, <2>3, MessageNotFree DEF Forgets
  <1> QED  BY <1>7, <1>9, <1>10, <1>11 DEF MemoryRest

(* The parser has lost a packet, in a block that nobody owns. *)
LEMMA StepReadRefused ==
  ASSUME MemoryInv, ReadRefused
  PROVE  MemoryRest'
  <1> DEFINE e == cache.packets.entries
  <1>1. UNCHANGED <<pc, command, i, cache, txQueue, stopPacket, track, packet>>
    BY DEF ReadRefused, mainVars
  <1>2. heap \in Heap /\ Owned(heap, e, KeptEntries, QueueHead, stopPacket, packet)
    BY DEF MemoryInv, MemoryTypeOK
  <1>3. heap' \in Heap /\ \A c \in Block : Forgets(heap, heap', c)
    BY <1>2, ReadRefusedHeap
  <1>4. Owned(heap', e, KeptEntries, QueueHead, stopPacket, packet)
    BY <1>2, <1>3, OwnedForget
  <1>5. KeptEntries' = KeptEntries /\ QueueHead' = QueueHead
    BY <1>1 DEF KeptEntries, Dangling, HashUsed, QueueHead, Ring_front
  <1>6. Owned(heap, e, KeptEntries, QueueHead, stopPacket, packet)'
    BY <1>1, <1>4, <1>5
  <1>7. MemoryTypeOK'
    BY <1>1, <1>3 DEF MemoryInv, MemoryTypeOK, AddressesOK
  <1>8. HandTypeOK'
    BY <1>1 DEF MemoryInv, HandTypeOK, Ring_front
  <1>9. TrackStop'
    <2> SUFFICES ASSUME track' \in Stop
                 PROVE  stopPacket' # NULL /\ heap'[stopPacket'] = track'
      BY DEF TrackStop
    <2>1. stopPacket # NULL /\ heap[stopPacket] = track
      BY <1>1 DEF MemoryInv, TrackStop
    <2>2. stopPacket \in Block /\ heap[stopPacket] \in Stop
      BY <1>2, <2>1 DEF Owned
    <2> QED  BY <1>1, <1>3, <2>1, <2>2, MessageNotFree DEF Forgets
  <1> QED  BY <1>6, <1>7, <1>8, <1>9 DEF MemoryRest

(* main's packet goes to the queue, which is empty. *)
LEMMA StepAddPacket ==
  ASSUME MemoryInv, AddPacket
  PROVE  MemoryRest'
  <1> DEFINE e == cache.packets.entries
             r == Ring_push(txQueue, packet)
  <1>1. /\ pc = "add" /\ pc' = "read" /\ packet' = NULL /\ txQueue' = r
        /\ UNCHANGED <<cache, heap, stopPacket, track>>
    BY DEF AddPacket, Scheduler_add_packet
  <1>2. txQueue.count = 0 /\ QueueHead = NULL
    BY <1>1 DEF MemoryInv, Drained, QueueShort, QueueHead
  <1>3. packet # NULL  BY <1>1 DEF MemoryInv, HandTypeOK
  <1>4. heap \in Heap /\ Owned(heap, e, KeptEntries, NULL, stopPacket, packet)
    BY <1>2 DEF MemoryInv, MemoryTypeOK
  <1>5. Owned(heap, e, KeptEntries, packet, stopPacket, NULL)
    BY <1>4, OwnedAdd
  <1>6. packet \in Block \cup {NULL}  BY <1>3, <1>4 DEF Owned
  <1>7. txQueue \in RingOf(Block \cup {NULL}, TxLen) /\ txQueue.count < TxLen
    BY <1>2, SizesAssumption DEF MemoryInv, MemoryTypeOK
  <1>8. /\ r \in RingOf(Block \cup {NULL}, TxLen)
        /\ RingSeq(r) = Append(RingSeq(txQueue), packet)
    BY <1>6, <1>7, PushAppends, SizesAssumption
  <1>9. r.count = 1  BY <1>2 DEF Ring_push
  <1>10. Ring_front(r) = packet
    <2>1. RingSeq(txQueue) = <<>>
      <3>1. Len(RingSeq(txQueue)) = 0
            /\ RingSeq(txQueue) \in Seq(Block \cup {NULL})
        BY <1>2, <1>7, RingSeqType, SizesAssumption
      <3> QED  BY <3>1
    <2>2. Head(RingSeq(r)) = packet  BY <1>8, <2>1
    <2> HIDE DEF r
    <2>3. r.count > 0 /\ TxLen \in Nat \ {0}  BY <1>9, SizesAssumption
    <2>4. Ring_front(r) = Head(RingSeq(r))  BY <1>8, <2>3, PopTakesHead
    <2> QED  BY <2>2, <2>4
  <1> HIDE DEF r
  <1>11. QueueHead' = packet  BY <1>1, <1>9, <1>10 DEF QueueHead, Ring_front
  <1>12. KeptEntries' = KeptEntries
    BY <1>1 DEF KeptEntries, Dangling, HashUsed
  <1>13. Owned(heap, e, KeptEntries, QueueHead, stopPacket, packet)'
    BY <1>1, <1>5, <1>11, <1>12
  <1>14. MemoryTypeOK'
    BY <1>1, <1>8 DEF MemoryInv, MemoryTypeOK, AddressesOK, Phases
  <1>15. HandTypeOK'
    BY <1>1, <1>3, <1>10 DEF HandTypeOK, Ring_front
  <1>16. TrackStop'  BY <1>1 DEF MemoryInv, TrackStop
  <1> QED  BY <1>13, <1>14, <1>15, <1>16 DEF MemoryRest

(* The two steps of Hash_reset's loop. *)
LEMMA StepDestroyEntry ==
  ASSUME MemoryInv, DestroyEntry
  PROVE  MemoryRest'
  <1> DEFINE e == cache.packets.entries
             gone == IF i \in KeptEntries THEN {e[i].v} ELSE {}
  <1>1. /\ pc = "destroy" /\ pc' = "nullify"
        /\ UNCHANGED <<cache, txQueue, stopPacket, track, command, packet, i>>
        /\ heap' = DCC_packet_destroy(heap, IF e[i] = NULL THEN {} ELSE {e[i].v})
    BY DEF DestroyEntry
  <1>2. KeptEntries = HashUsed(cache.packets)
    BY <1>1 DEF KeptEntries, Dangling
  <1>3. i \in 0 .. CacheSize - 1 /\ DOMAIN e = 0 .. CacheSize - 1
    BY <1>1 DEF MemoryInv, MemoryTypeOK, HashOf
  <1>4. heap' = DCC_packet_destroy(heap, gone)
    BY <1>1, <1>2, <1>3 DEF HashUsed
  <1>5. KeptEntries' = KeptEntries \ {i}
    BY <1>1, <1>2, <1>3 DEF KeptEntries, Dangling, HashUsed
  <1>6. QueueHead' = QueueHead
    BY <1>1 DEF QueueHead, Ring_front
  <1>7. heap \in Heap /\ Owned(heap, e, KeptEntries, QueueHead, stopPacket, packet)
    BY DEF MemoryInv, MemoryTypeOK
  <1>8. gone = IF i \in KeptEntries THEN {e[i].v} ELSE {}  OBVIOUS
  <1> HIDE DEF gone, e
  <1>9. /\ DCC_packet_destroy(heap, gone) \in Heap
        /\ stopPacket # NULL
             => DCC_packet_destroy(heap, gone)[stopPacket] = heap[stopPacket]
        /\ Owned(DCC_packet_destroy(heap, gone), e, KeptEntries \ {i}, QueueHead,
                 stopPacket, packet)
    BY <1>7, <1>8, OwnedDestroy
  <1> USE DEF e
  <1>10. Owned(heap, e, KeptEntries, QueueHead, stopPacket, packet)'
    BY <1>1, <1>4, <1>5, <1>6, <1>9
  <1>11. MemoryTypeOK'
    BY <1>1, <1>3, <1>4, <1>9 DEF MemoryInv, MemoryTypeOK, AddressesOK, Phases, SysPhases
  <1>12. HandTypeOK'
    BY <1>1 DEF MemoryInv, HandTypeOK, Ring_front
  <1>13. TrackStop'
    BY <1>1, <1>4, <1>9 DEF MemoryInv, TrackStop
  <1> QED  BY <1>10, <1>11, <1>12, <1>13 DEF MemoryRest

(* The entry no longer points at the packet that was freed. *)
LEMMA StepNullifyEntry ==
  ASSUME MemoryInv, NullifyEntry
  PROVE  MemoryRest'
  <1> DEFINE e == cache.packets.entries
             h == Hash_reset_entry(cache.packets, i)
  <1>1. /\ pc = "nullify" /\ i' = i + 1
        /\ pc' = IF i + 1 < cache.packets.size THEN "destroy" ELSE "print"
        /\ UNCHANGED <<heap, txQueue, stopPacket, track, command, packet>>
        /\ cache' = [addresses |-> cache.addresses, packets |-> h]
    BY DEF NullifyEntry, SetPackets
  <1>2. cache.packets \in HashOf(Loco, Block, CacheSize) /\ cache.packets.size = CacheSize
    BY DEF MemoryInv, MemoryTypeOK, HashOf
  <1>3. /\ h \in HashOf(Loco, Block, CacheSize)
        /\ HashUsed(h) = HashUsed(cache.packets) \ {i}
        /\ \A j \in HashUsed(cache.packets) \ {i} : h.entries[j] = e[j]
    BY <1>2, ResetEntryType, SizesAssumption
  <1> HIDE DEF h
  <1>4. pc' # "nullify" /\ pc' \in Phases
    BY <1>1 DEF Phases, SysPhases
  <1>5. KeptEntries = HashUsed(cache.packets) \ {i}
    BY <1>1 DEF KeptEntries, Dangling
  <1>6. KeptEntries' = KeptEntries
    BY <1>1, <1>3, <1>4, <1>5 DEF KeptEntries, Dangling
  <1>7. QueueHead' = QueueHead  BY <1>1 DEF QueueHead, Ring_front
  <1>8. Owned(heap, h.entries, KeptEntries, QueueHead, stopPacket, packet)
    <2>1. Owned(heap, e, KeptEntries, QueueHead, stopPacket, packet)
      BY DEF MemoryInv
    <2> HIDE DEF e
    <2>2. \A j \in KeptEntries : h.entries[j] = e[j]  BY <1>3, <1>5
    <2> QED  BY <2>1, <2>2, OwnedSame
  <1>9. Owned(heap, cache.packets.entries, KeptEntries, QueueHead, stopPacket,
              packet)'
    BY <1>1, <1>6, <1>7, <1>8
  <1>10. MemoryTypeOK'
    <2>1. i \in 0 .. CacheSize - 1  BY <1>1 DEF MemoryInv, MemoryTypeOK
    <2>2. pc' \in {"destroy", "nullify"} => i' \in 0 .. CacheSize - 1
      BY <1>1, <1>2, <2>1, SizesAssumption
    <2> QED
      BY <1>1, <1>3, <1>4, <2>2 DEF MemoryInv, MemoryTypeOK, AddressesOK
  <1>11. HandTypeOK'
    BY <1>1, <1>4 DEF MemoryInv, HandTypeOK, Ring_front
  <1>12. TrackStop'
    BY <1>1 DEF MemoryInv, TrackStop
  <1> QED  BY <1>9, <1>10, <1>11, <1>12 DEF MemoryRest

(* The steps of main that leave packets and their owners alone. *)
LEMMA StepQuiet ==
  ASSUME MemoryInv,
         \/ ReadClear \/ BlinkDone \/ LookUp \/ Dump
         \/ ReportSize \/ ResetCount \/ ResetStart \/ PrintPurged
         \/ \E l \in Loco : ReadShow(l)
  PROVE  MemoryRest'
  <1> USE DEF SysPhases, Phases
  <1>1. MemoryUnchanged /\ track' = track
    BY DEF ReadClear, BlinkDone, LookUp, Dump, ReportSize, ResetCount, ResetStart,
           PrintPurged, ReadShow, schedulerVars, SetAddresses, MemoryUnchanged
  <1>2. TrackStop'
    BY <1>1 DEF MemoryInv, TrackStop, MemoryUnchanged
  <1>3. pc # "nullify" /\ pc' # "nullify"
    <2>1. CASE BlinkDone
      BY <2>1 DEF BlinkDone, Handler, MemoryInv, HandTypeOK
    <2> QED
      BY <2>1 DEF ReadClear, LookUp, Dump, ReportSize, ResetCount, ResetStart,
                  PrintPurged, ReadShow
  <1>4. pc' \in Phases /\ HandTypeOK'
    <2>1. CASE BlinkDone
      BY <1>1, <2>1 DEF BlinkDone, Handler, MemoryInv, HandTypeOK, MemoryUnchanged,
                        Ring_front
    <2>2. CASE ReadClear \/ \E l \in Loco : ReadShow(l)
      BY <1>1, <2>2 DEF ReadClear, ReadShow, MemoryInv, HandTypeOK, MemoryUnchanged,
                        Ring_front
    <2>3. CASE LookUp \/ Dump \/ ReportSize \/ ResetCount \/ ResetStart \/ PrintPurged
      BY <1>1, <2>3 DEF LookUp, Dump, ReportSize, ResetCount, ResetStart,
                        PrintPurged, MemoryInv, HandTypeOK, MemoryUnchanged,
                        Ring_front
    <2> QED  BY <2>1, <2>2, <2>3
  <1>5. AddressesOK' /\ (pc' = "destroy" => i' \in 0 .. CacheSize - 1)
    <2>1. AddressesOK  BY DEF MemoryInv, MemoryTypeOK
    <2>2. CASE ResetCount
      BY <2>1, <2>2 DEF ResetCount, SetAddresses, AddressesOK
    <2>3. CASE ResetStart
      <3>1. 0 \in 0 .. CacheSize - 1  BY SizesAssumption
      <3> QED  BY <2>1, <2>3, <3>1 DEF ResetStart, SetAddresses, AddressesOK
    <2>4. CASE BlinkDone
      <3>1. cache' = cache /\ pc' \in {"add", "report", "lookup"}
        BY <2>4 DEF BlinkDone, Handler, schedulerVars, MemoryInv, HandTypeOK
      <3> QED  BY <2>1, <3>1 DEF AddressesOK
    <2>5. CASE \/ ReadClear \/ LookUp \/ Dump \/ ReportSize \/ PrintPurged
               \/ \E l \in Loco : ReadShow(l)
      <3>1. cache' = cache /\ pc' \in {"blink", "dump", "read", "resetCount"}
        BY <2>5 DEF ReadClear, ReadShow, LookUp, Dump, ReportSize, PrintPurged,
                    schedulerVars
      <3> QED  BY <2>1, <3>1 DEF AddressesOK
    <2> QED  BY <2>2, <2>3, <2>4, <2>5
  <1> QED
    BY <1>1, <1>2, <1>3, <1>4, <1>5, StepUnchanged DEF MemoryRest

-----------------------------------------------------------------------------
(* A packet leaves the queue only while main reads, blinks or queues, so   *)
(* no entry of the cache is half destroyed.                                *)
LEMMA TransmitContext ==
  ASSUME MemoryInv, txQueue.count > 0
  PROVE  /\ pc \in {"read", "blink", "add"} /\ txQueue.count = 1
         /\ KeptEntries = HashUsed(cache.packets)
         /\ QueueHead = Ring_front(txQueue) /\ QueueHead # NULL
         /\ QueueHead \in Block /\ heap[QueueHead] \in Message
         /\ Ring_pop(txQueue) \in RingOf(Block \cup {NULL}, TxLen)
         /\ Ring_pop(txQueue).count = 0
  <1>1. txQueue.count = 1 /\ pc \notin SysPhases /\ pc \in Phases
    BY DEF MemoryInv, Drained, QueueShort, MemoryTypeOK
  <1>2. pc \in {"read", "blink", "add"} /\ pc # "nullify"
    BY <1>1 DEF Phases, SysPhases
  <1>3. KeptEntries = HashUsed(cache.packets)
    BY <1>2 DEF KeptEntries, Dangling
  <1>4. QueueHead = Ring_front(txQueue) /\ QueueHead # NULL
    BY <1>1 DEF QueueHead, MemoryInv, HandTypeOK
  <1>5. QueueHead \in Block /\ heap[QueueHead] \in Message
    BY <1>4 DEF MemoryInv, Owned
  <1>6. txQueue \in RingOf(Block \cup {NULL}, TxLen) /\ TxLen \in Nat \ {0}
    BY SizesAssumption DEF MemoryInv, MemoryTypeOK
  <1>7. Ring_pop(txQueue) \in RingOf(Block \cup {NULL}, TxLen)
    BY <1>6, PopTakesHead
  <1>8. Ring_pop(txQueue).count = 0  BY <1>1 DEF Ring_pop
  <1> QED  BY <1>1, <1>2, <1>3, <1>4, <1>5, <1>7, <1>8

(* A broadcast stop leaves the queue: the cache and the last stop are      *)
(* freed.                                                                  *)
LEMMA StepTransmitStop ==
  ASSUME MemoryInv, TransmitStop,
         UNCHANGED <<pc, command, packet, i>>
  PROVE  MemoryRest'
  <1> DEFINE e == cache.packets.entries
             q == QueueHead
             gone == ({stopPacket} \ {NULL}) \cup {e[j].v : j \in KeptEntries}
  <1>1. txQueue.count > 0  BY DEF TransmitStop
  <1>2. /\ pc \in {"read", "blink", "add"} /\ q = Ring_front(txQueue) /\ q # NULL
        /\ KeptEntries = HashUsed(cache.packets)
        /\ Ring_pop(txQueue) \in RingOf(Block \cup {NULL}, TxLen)
        /\ Ring_pop(txQueue).count = 0
    BY <1>1, TransmitContext
  <1>3. /\ heap[q] \in Stop /\ track' = heap[q] /\ txQueue' = Ring_pop(txQueue)
        /\ stopPacket' = q /\ cache' = Cache_clear(cache)
        /\ heap' = DCC_packet_destroy(heap, gone)
    BY <1>2 DEF TransmitStop, DCC_is_broadcast_stop, StopPacketFreed,
                Cache_clear_frees, Cached
  <1>4. cache.packets.size = CacheSize
    BY DEF MemoryInv, MemoryTypeOK, HashOf
  <1>5. /\ cache'.packets = Hash_create(CacheSize)
        /\ cache'.addresses = Ring_reset(cache.addresses)
    BY <1>3, <1>4 DEF Cache_clear, Hash_reset
  <1>6. /\ cache'.packets \in HashOf(Loco, Block, CacheSize)
        /\ HashUsed(cache'.packets) = {}
    BY <1>5, ResetType, SizesAssumption
  <1>7. KeptEntries' = {} /\ QueueHead' = NULL
    BY <1>2, <1>3, <1>6 DEF KeptEntries, QueueHead
  <1>8. /\ heap' \in Heap /\ heap'[q] = heap[q]
        /\ Owned(heap', cache'.packets.entries, {}, NULL, q, packet)
    <2>1. heap \in Heap /\ Owned(heap, e, KeptEntries, q, stopPacket, packet)
      BY DEF MemoryInv, MemoryTypeOK
    <2> DEFINE f == cache'.packets.entries
    <2>2. gone = ({stopPacket} \ {NULL}) \cup {e[j].v : j \in KeptEntries}
      OBVIOUS
    <2> HIDE DEF e, q, f, gone
    <2>3. /\ DCC_packet_destroy(heap, gone) \in Heap
          /\ DCC_packet_destroy(heap, gone)[q] = heap[q]
          /\ Owned(DCC_packet_destroy(heap, gone), f, {}, NULL, q, packet)
      BY <1>2, <1>3, <2>1, <2>2, OwnedStop
    <2> QED  BY <1>3, <2>3 DEF f
  <1>9. Owned(heap, cache.packets.entries, KeptEntries, QueueHead, stopPacket,
              packet)'
    BY <1>3, <1>7, <1>8
  <1>10. MemoryTypeOK'
    <2>1. AddressesOK'
      <3>1. 0 \in 0 .. CacheSize - 1  BY SizesAssumption
      <3> QED
        BY <1>2, <1>5, <3>1 DEF MemoryInv, MemoryTypeOK, AddressesOK, Ring_reset
    <2> QED  BY <1>2, <1>3, <1>6, <1>8, <2>1 DEF MemoryInv, MemoryTypeOK
  <1>11. HandTypeOK'
    BY <1>2, <1>3 DEF MemoryInv, HandTypeOK
  <1>12. TrackStop'
    BY <1>2, <1>3, <1>8 DEF TrackStop
  <1> QED  BY <1>9, <1>10, <1>11, <1>12 DEF MemoryRest

(* A cached loco's packet takes the entry found for it. *)
LEMMA InsertedEntry ==
  ASSUME MemoryInv, NEW l \in Loco, NEW v \in Block
  PROVE  LET x == Hash_find_entry(cache.packets, l)
             g == Hash_insert(cache.packets, l, v)
         IN  /\ g \in HashOf(Loco, Block, CacheSize)
             /\ HashUsed(g) = HashUsed(cache.packets) \cup {x}
             /\ g.entries[x].v = v
             /\ \A j \in HashUsed(cache.packets) \ {x} :
                  g.entries[j] = cache.packets.entries[j]
  <1> DEFINE h == cache.packets
             x == Hash_find_entry(h, l)
             g == Hash_insert(h, l, v)
             new == [k |-> l, v |-> v]
             n == CacheSize
  <1>1. /\ h.size = n /\ h.entries \in [0 .. n - 1 -> {NULL} \cup [k : Loco, v : Block]]
        /\ l \in Nat /\ n \in Nat \ {0}
    BY LocoAssumption, SizesAssumption DEF MemoryInv, MemoryTypeOK, HashOf
  <1>2. x \in 0 .. n - 1
    <2> HIDE DEF h
    <2> QED  BY <1>1, FindEntryType
  <1>3. new \in [k : Loco, v : Block] /\ new # NULL /\ new.v = v
    BY NullAssumption
  <1>4. g.size = n /\ g.entries = [h.entries EXCEPT ![x] = new]
        /\ g = [size |-> g.size, entries |-> g.entries]
    BY <1>1 DEF Hash_insert
  <1> HIDE DEF g, new, x, h
  <1>5. g.entries \in [0 .. n - 1 -> {NULL} \cup [k : Loco, v : Block]]
    BY <1>1, <1>2, <1>3, <1>4
  <1>6. g \in HashOf(Loco, Block, CacheSize)
    BY <1>4, <1>5 DEF HashOf
  <1>7. g.entries[x] = new /\ \A j \in (0 .. n - 1) \ {x} : g.entries[j] = h.entries[j]
    BY <1>1, <1>2, <1>4
  <1>8. DOMAIN g.entries = 0 .. n - 1 /\ DOMAIN h.entries = 0 .. n - 1
    BY <1>1, <1>5
  <1>9. HashUsed(g) = HashUsed(h) \cup {x}
    BY <1>2, <1>3, <1>7, <1>8 DEF HashUsed
  <1>10. \A j \in HashUsed(h) \ {x} : g.entries[j] = h.entries[j]
    BY <1>7, <1>8 DEF HashUsed
  <1> QED  BY <1>3, <1>6, <1>7, <1>9, <1>10 DEF g, x, h

(* A loco's packet leaves the queue for entry x: the stop packet and what  *)
(* the entry held go.                                                      *)
LEMMA OwnedCache ==
  ASSUME MemoryInv, QueueHead # NULL, heap[QueueHead] \in LocoMessage,
         NEW f, NEW x, f[x].v = QueueHead,
         \A j \in KeptEntries \ {x} : f[j].v = EntryPacket(j)
  PROVE  LET gone == ({stopPacket} \ {NULL})
                       \cup (IF x \in KeptEntries THEN {EntryPacket(x)} ELSE {})
         IN  /\ DCC_packet_destroy(heap, gone) \in Heap
             /\ DCC_packet_destroy(heap, gone)[QueueHead] = heap[QueueHead]
             /\ Owned(DCC_packet_destroy(heap, gone), f, KeptEntries \cup {x}, NULL,
                      NULL, packet)
  <1> DEFINE h == heap
             e == cache.packets.entries
             K == KeptEntries
             q == QueueHead
             s == stopPacket
             p == packet
             gone == ({s} \ {NULL}) \cup (IF x \in K THEN {e[x].v} ELSE {})
  <1>1. /\ h \in Heap /\ Owned(h, e, K, q, s, p) /\ q # NULL /\ h[q] \in LocoMessage
        /\ f[x].v = q /\ \A j \in K \ {x} : f[j].v = e[j].v
        /\ gone = ({s} \ {NULL}) \cup (IF x \in K THEN {e[x].v} ELSE {})
    BY DEF MemoryInv, MemoryTypeOK, EntryPacket
  <1> HIDE DEF h, e, K, q, s, p, gone
  <1> DEFINE g == DCC_packet_destroy(h, gone)
  <1>2. /\ g \in Heap
        /\ \A b \in Block : g[b] = IF b \in gone THEN Free ELSE h[b]
    BY <1>1 DEF DCC_packet_destroy, Heap
  <1> HIDE DEF g
  <1>3. q \in Block /\ q \notin gone /\ (p # NULL => p \notin gone /\ p # q)
    BY <1>1 DEF Owned
  <1>4. \A j \in K \ {x} : e[j].v \in Block /\ e[j].v \notin gone /\ e[j].v # q
    BY <1>1 DEF Owned
  <1>5. \A j \in K \cup {x} : f[j].v \in Block /\ g[f[j].v] \in LocoMessage
    BY <1>1, <1>2, <1>3, <1>4 DEF Owned
  <1>6. \A j, k \in K \cup {x} : f[j].v = f[k].v => j = k
    BY <1>1, <1>4 DEF Owned
  <1>7. \A j \in K \cup {x} : f[j].v \notin {NULL, p}
    BY <1>1, <1>3, <1>4, <1>5, NullAssumption DEF Owned
  <1>8. p # NULL => p \in Block /\ g[p] \in Message
    BY <1>1, <1>2, <1>3 DEF Owned
  <1>9. ASSUME NEW b \in Block, g[b] \notin {Free, Lost}
        PROVE  b \in {NULL, NULL, p} \/ \E j \in K \cup {x} : f[j].v = b
    <2>1. h[b] \notin {Free, Lost} /\ b \notin gone  BY <1>2, <1>9
    <2>2. b \in {q, s, p} \/ \E j \in K : e[j].v = b  BY <1>1, <2>1 DEF Owned
    <2>3. b # s  BY <1>1, <2>1, NullAssumption
    <2> QED  BY <1>1, <2>1, <2>2, <2>3
  <1>10. Owned(g, f, K \cup {x}, NULL, NULL, p)
    BY <1>2, <1>3, <1>5, <1>6, <1>7, <1>8, <1>9 DEF Owned
  <1>11. g \in Heap /\ g[q] = h[q]
    BY <1>2, <1>3
  <1> QED  BY <1>10, <1>11 DEF g, h, e, K, q, s, p, gone, EntryPacket

(* The interrupt caches the packet of a loco. *)
LEMMA StepTransmitLoco ==
  ASSUME MemoryInv, TransmitLoco,
         UNCHANGED <<pc, command, packet, i>>
  PROVE  MemoryRest'
  <1> DEFINE h == cache.packets
             q == QueueHead
             l == heap[q].loco
             x == Hash_find_entry(h, l)
             gone == ({stopPacket} \ {NULL})
                       \cup (IF x \in KeptEntries THEN {h.entries[x].v} ELSE {})
  <1>1. txQueue.count > 0  BY DEF TransmitLoco
  <1>2. /\ pc \in {"read", "blink", "add"} /\ q = Ring_front(txQueue) /\ q # NULL
        /\ KeptEntries = HashUsed(h) /\ q \in Block /\ heap[q] \in Message
        /\ Ring_pop(txQueue) \in RingOf(Block \cup {NULL}, TxLen)
        /\ Ring_pop(txQueue).count = 0
    BY <1>1, TransmitContext
  <1>3. /\ heap[q] \notin Stop /\ track' = heap[q]
        /\ txQueue' = Ring_pop(txQueue) /\ stopPacket' = NULL
        /\ cache' = Cache_update(cache, l, q)
        /\ heap' = DCC_packet_destroy(heap,
                     StopPacketFreed \cup Cache_update_frees(cache, l))
    BY <1>2 DEF TransmitLoco, DCC_is_broadcast_stop
  <1>4. heap[q] \in LocoMessage /\ l \in Loco /\ l \in Nat
    BY <1>2, <1>3, MessageNotFree, LocoAssumption DEF LocoMessage
  <1>5. /\ h \in HashOf(Loco, Block, CacheSize)
        /\ h.entries \in [0 .. CacheSize - 1 -> {NULL} \cup [k : Loco, v : Block]]
    BY DEF MemoryInv, MemoryTypeOK, HashOf
  <1>6. /\ x \in 0 .. CacheSize - 1
        /\ h.entries[x] = NULL => Hash_get(h, l) = NULL
        /\ h.entries[x] # NULL => x \in HashUsed(h) /\ Hash_get(h, l) = h.entries[x].v
    <2>1. CacheSize \in Nat \ {0} /\ l \in Nat /\ h \in HashOf(Loco, Block, CacheSize)
      BY <1>4, <1>5, SizesAssumption
    <2> HIDE DEF h, l
    <2> QED  BY <2>1, GetType
  <1>7. cache'.packets = Hash_insert(h, l, q)
    BY <1>3 DEF Cache_update
  <1>8. cache'.addresses \in {cache.addresses, Ring_push(cache.addresses, l)}
    BY <1>3 DEF Cache_update
  <1>9. StopPacketFreed \cup Cache_update_frees(cache, l) = gone
    <2>1. Cache_update_frees(cache, l) = {Hash_get(h, l)} \ {NULL}
      BY DEF Cache_update_frees
    <2>2. CASE h.entries[x] = NULL
      <3>1. x \notin HashUsed(h)  BY <2>2 DEF HashUsed
      <3>2. Hash_get(h, l) = NULL  BY <1>6, <2>2
      <3>3. gone = {stopPacket} \ {NULL}  BY <1>2, <3>1
      <3> HIDE DEF gone
      <3> QED  BY <2>1, <3>2, <3>3 DEF StopPacketFreed
    <2>3. CASE h.entries[x] # NULL
      <3>1. x \in KeptEntries /\ Hash_get(h, l) = h.entries[x].v
        BY <1>2, <1>6, <2>3
      <3>2. h.entries[x].v # NULL
        <4>1. h.entries[x] \in [k : Loco, v : Block]  BY <1>5, <1>6, <2>3
        <4> QED  BY <4>1, NullAssumption
      <3>3. gone = ({stopPacket} \ {NULL}) \cup {h.entries[x].v}
        BY <3>1
      <3> HIDE DEF gone
      <3> QED  BY <2>1, <3>1, <3>2, <3>3 DEF StopPacketFreed
    <2> QED  BY <2>2, <2>3
  <1> DEFINE f == cache'.packets.entries
  <1>10. /\ cache'.packets \in HashOf(Loco, Block, CacheSize)
         /\ HashUsed(cache'.packets) = KeptEntries \cup {x}
         /\ f[x].v = q
         /\ \A j \in KeptEntries \ {x} : f[j] = h.entries[j]
    <2> HIDE DEF l, q
    <2> QED  BY <1>2, <1>4, <1>7, InsertedEntry
  <1>11. KeptEntries' = KeptEntries \cup {x} /\ QueueHead' = NULL
    BY <1>2, <1>3, <1>10 DEF KeptEntries, Dangling, QueueHead
  <1>12. /\ heap' \in Heap /\ heap'[q] = heap[q]
         /\ Owned(heap', f, KeptEntries \cup {x}, NULL, NULL, packet)
    <2>1. heap' = DCC_packet_destroy(heap, gone)  BY <1>3, <1>9
    <2>2. /\ f[x].v = QueueHead
          /\ \A j \in KeptEntries \ {x} : f[j].v = EntryPacket(j)
          /\ QueueHead # NULL /\ heap[QueueHead] \in LocoMessage
      BY <1>2, <1>4, <1>10 DEF EntryPacket
    <2>3. gone = ({stopPacket} \ {NULL})
                   \cup (IF x \in KeptEntries THEN {EntryPacket(x)} ELSE {})
      BY DEF EntryPacket
    <2>4. q = QueueHead  OBVIOUS
    <2> HIDE DEF f, x, gone, q
    <2> QED  BY <2>1, <2>2, <2>3, <2>4, OwnedCache
  <1>13. Owned(heap, cache.packets.entries, KeptEntries, QueueHead, stopPacket,
               packet)'
    BY <1>3, <1>11, <1>12
  <1>14. MemoryTypeOK'
    <2>1. AddressesOK'
      <3>1. AddressesOK  BY DEF MemoryInv, MemoryTypeOK
      <3>2. /\ cache'.addresses.buf \in [0 .. CacheSize - 1 -> Nat]
            /\ cache'.addresses.size = CacheSize
            /\ cache'.addresses.start \in 0 .. CacheSize - 1
        <4>1. cache.addresses.buf \in [0 .. CacheSize - 1 -> Nat]
          BY <3>1 DEF AddressesOK
        <4>2. /\ Ring_push(cache.addresses, l).buf \in [0 .. CacheSize - 1 -> Nat]
              /\ Ring_push(cache.addresses, l).size = cache.addresses.size
              /\ Ring_push(cache.addresses, l).start = cache.addresses.start
          <5> DEFINE a == cache.addresses
                     y == RingSlot(a, a.count)
          <5>1. /\ l \in Nat /\ Ring_push(a, l).buf = [a.buf EXCEPT ![y] = l]
                /\ Ring_push(a, l).size = a.size /\ Ring_push(a, l).start = a.start
            BY <1>4 DEF Ring_push
          <5> HIDE DEF a, y, l
          <5>2. a.buf \in [0 .. CacheSize - 1 -> Nat]  BY <4>1 DEF a
          <5>3. [a.buf EXCEPT ![y] = l] \in [0 .. CacheSize - 1 -> Nat]
            BY <5>1, <5>2
          <5> QED  BY <5>1, <5>3 DEF a
        <4> QED  BY <1>8, <3>1, <4>2 DEF AddressesOK
      <3> QED  BY <1>2, <3>2 DEF AddressesOK
    <2>2. cache'.packets \in HashOf(Loco, Block, CacheSize)
      BY <1>10
    <2> QED  BY <1>2, <1>3, <1>12, <2>1, <2>2 DEF MemoryInv, MemoryTypeOK
  <1>15. HandTypeOK'
    BY <1>2, <1>3 DEF MemoryInv, HandTypeOK
  <1>16. TrackStop'
    BY <1>3 DEF TrackStop
  <1> QED  BY <1>13, <1>14, <1>16, <1>15 DEF MemoryRest

(* Serving a loco leaves the address ring in order. *)
LEMMA RotatedAddresses ==
  ASSUME AddressesOK
  PROVE  LET r == Cache_rotated(cache).addresses
         IN  /\ r.buf \in [0 .. CacheSize - 1 -> Nat]
             /\ r.size = CacheSize
             /\ r.start \in 0 .. CacheSize - 1
             /\ cache.addresses.count = 0 => r.count = 0
  <1> DEFINE a == cache.addresses
             y == a.start + 1
  <1>1. CASE a.count <= 0
    BY <1>1 DEF AddressesOK, Cache_rotated
  <1>2. CASE ~ (a.count <= 0)
    <2>1. y \in Nat /\ CacheSize \in Nat \ {0}
      BY SizesAssumption DEF AddressesOK
    <2>2. y % CacheSize \in 0 .. CacheSize - 1
      <3> HIDE DEF y
      <3> QED  BY <2>1, ModRange
    <2>3. Ring_front(a) \in Nat  BY DEF AddressesOK, Ring_front
    <2>4. Cache_rotated(cache).addresses = Ring_push(Ring_pop(a), Ring_front(a))
      BY <1>2 DEF Cache_rotated
    <2>5. /\ Ring_pop(a).buf = a.buf /\ Ring_pop(a).size = CacheSize
          /\ Ring_pop(a).start = y % CacheSize
      BY DEF Ring_pop, RingSlot, AddressesOK
    <2> DEFINE z == Ring_pop(a)
               d == Ring_front(a)
    <2> HIDE DEF z, d
    <2>6. /\ Ring_push(z, d).buf = [z.buf EXCEPT ![RingSlot(z, z.count)] = d]
          /\ Ring_push(z, d).size = z.size /\ Ring_push(z, d).start = z.start
      BY DEF Ring_push
    <2>7. a.count # 0  BY <1>2
    <2> DEFINE r == Ring_push(z, d)
    <2>8. z.buf \in [0 .. CacheSize - 1 -> Nat]  BY <2>5 DEF AddressesOK, z
    <2>9. r.buf \in [0 .. CacheSize - 1 -> Nat]
      <3>1. d \in Nat  BY <2>3 DEF d
      <3>2. r.buf = [z.buf EXCEPT ![RingSlot(z, z.count)] = d]  BY <2>6
      <3> HIDE DEF r
      <3> QED  BY <2>8, <3>1, <3>2
    <2>10. r.size = CacheSize /\ r.start \in 0 .. CacheSize - 1  BY <2>2, <2>5, <2>6 DEF z
    <2>11. Cache_rotated(cache).addresses = r  BY <2>4 DEF r, z, d
    <2> HIDE DEF r
    <2> QED  BY <2>7, <2>9, <2>10, <2>11
  <1> QED  BY <1>1, <1>2

(* What is refreshed is a loco's packet, never a stop. *)
LEMMA RefreshedIsLocos ==
  ASSUME MemoryInv, RefreshLoco
  PROVE  track' \in LocoMessage
  <1> DEFINE h == cache.packets
             a == Ring_front(cache.addresses)
             x == Hash_find_entry(h, a)
  <1>1. /\ ~ (cache.addresses.count <= 0) /\ Hash_get(h, a) # NULL
        /\ track' = heap[Hash_get(h, a)]
    BY DEF RefreshLoco, Cache_get_next_packet
  <1>2. a \in Nat /\ h \in HashOf(Loco, Block, CacheSize)
    BY DEF MemoryInv, MemoryTypeOK, AddressesOK, Ring_front
  <1>3. pc # "nullify"
    BY <1>1 DEF MemoryInv, MemoryTypeOK, AddressesOK
  <1>4. KeptEntries = HashUsed(h)
    BY <1>3 DEF KeptEntries, Dangling
  <1>5. x \in HashUsed(h) /\ Hash_get(h, a) = h.entries[x].v
    <2> HIDE DEF a, h
    <2> QED  BY <1>1, <1>2, GetType, SizesAssumption
  <1> HIDE DEF x, a
  <1> QED  BY <1>1, <1>4, <1>5 DEF MemoryInv, Owned

(* The queue is empty: something is sent again. *)
LEMMA StepIdle ==
  ASSUME MemoryInv, RefreshLoco \/ SendIdle \/ ResendStop,
         UNCHANGED <<pc, command, packet, i>>
  PROVE  MemoryRest'
  <1>1. MemoryUnchanged
    <2>1. Cache_rotated(cache).packets = cache.packets
      BY DEF Cache_rotated
    <2> QED
      BY <2>1 DEF RefreshLoco, SendIdle, ResendStop, MemoryUnchanged
  <1>2. AddressesOK'
    <2>1. cache' \in {cache, Cache_rotated(cache)}
      BY DEF RefreshLoco, SendIdle, ResendStop
    <2>2. AddressesOK  BY DEF MemoryInv, MemoryTypeOK
    <2> QED  BY <2>1, <2>2, RotatedAddresses DEF AddressesOK
  <1>3. TrackStop'
    <2>1. CASE ResendStop
      BY <1>1, <2>1 DEF ResendStop, MemoryUnchanged, TrackStop
    <2>2. CASE SendIdle
      BY <2>2, NullIsNoMessage DEF SendIdle, TrackStop
    <2>3. CASE RefreshLoco
      BY <2>3, RefreshedIsLocos, MessageNotFree DEF TrackStop
    <2> QED  BY <2>1, <2>2, <2>3
  <1>4. HandTypeOK'
    BY <1>1 DEF MemoryInv, HandTypeOK, MemoryUnchanged, Ring_front
  <1>5. MemoryTypeOK'
        /\ Owned(heap, cache.packets.entries, KeptEntries, QueueHead, stopPacket,
                 packet)'
    BY <1>1, <1>2, StepUnchanged DEF MemoryInv, MemoryTypeOK
  <1> QED  BY <1>3, <1>4, <1>5 DEF MemoryRest

-----------------------------------------------------------------------------
(* The invariant is inductive. *)
LEMMA StepMemory == MemoryInv /\ [StationNext]_vars => MemoryInv'
  <1> SUFFICES ASSUME MemoryInv, [StationNext]_vars PROVE MemoryInv'
    OBVIOUS
  <1>1. Drained'  BY StepDrained DEF MemoryInv
  <1>2. MemoryRest'
    <2>1. ASSUME NEW m \in Message, ReadPacket(m)  PROVE MemoryRest'
      BY <2>1, StepReadPacket
    <2>2. CASE ReadRefused  BY <2>2, StepReadRefused
    <2>3. CASE AddPacket  BY <2>3, StepAddPacket
    <2>4. CASE DestroyEntry  BY <2>4, StepDestroyEntry
    <2>5. CASE NullifyEntry  BY <2>5, StepNullifyEntry
    <2>6. CASE \/ ReadClear \/ BlinkDone \/ LookUp \/ Dump
               \/ ReportSize \/ ResetCount \/ ResetStart \/ PrintPurged
               \/ \E l \in Loco : ReadShow(l)
      BY <2>6, StepQuiet
    <2>7. CASE Tick
      <3>1. Timer0 /\ UNCHANGED <<pc, command, packet, i>>  BY <2>7 DEF Tick
      <3> QED
        BY <3>1, StepTransmitStop, StepTransmitLoco, StepIdle DEF Timer0
    <2>8. CASE UNCHANGED vars
      <3>1. MemoryUnchanged /\ UNCHANGED <<cache, track, pc, command, i>>
        BY <2>8 DEF vars, schedulerVars, mainVars, MemoryUnchanged
      <3>2. AddressesOK'
        BY <3>1 DEF MemoryInv, MemoryTypeOK, AddressesOK
      <3>3. HandTypeOK' /\ TrackStop'
        BY <3>1 DEF MemoryInv, HandTypeOK, TrackStop, MemoryUnchanged, Ring_front
      <3> QED
        BY <3>1, <3>2, <3>3, StepUnchanged DEF MemoryInv, MemoryTypeOK, MemoryRest
    <2> QED
      BY <2>1, <2>3, <2>4, <2>5, <2>6, <2>7, <2>8, <2>2
      DEF StationNext, ReadCommand, MainStep, Purge
  <1> QED  BY <1>1, <1>2 DEF MemoryInv, MemoryRest

(* Once a stop is on the track, only what is in the queue replaces it: an  *)
(* interrupt with an empty queue resends the stop packet.                  *)
LEMMA StepStopHolds ==
  ASSUME MemoryInv, [StationNext]_vars, track \in Stop, txQueue.count = 0
  PROVE  track' = track
  <1>1. stopPacket # NULL /\ heap[stopPacket] = track
    BY DEF MemoryInv, TrackStop
  <1>2. CASE Tick
    <2>1. Timer0  BY <1>2 DEF Tick
    <2>2. ~ TransmitStop /\ ~ TransmitLoco
      BY DEF TransmitStop, TransmitLoco
    <2>3. ~ RefreshLoco /\ ~ SendIdle
      BY <1>1 DEF RefreshLoco, SendIdle
    <2>4. ResendStop  BY <2>1, <2>2, <2>3 DEF Timer0
    <2> QED  BY <1>1, <2>4 DEF ResendStop
  <1>3. CASE ~ Tick
    BY <1>3 DEF StationNext, ReadCommand, MainStep, Purge, ReadPacket, ReadRefused,
                ReadClear, ReadShow, BlinkDone, AddPacket, ReportSize, ResetCount, ResetStart,
                DestroyEntry, NullifyEntry, PrintPurged, LookUp, Dump, vars,
                schedulerVars
  <1> QED  BY <1>2, <1>3

(* The invariant holds in every state of the command station. *)
LEMMA MemoryInvariant == StationSpec => []MemoryInv
  BY InitMemory, StepMemory, PTL DEF StationSpec

(* No packet is freed twice, used after it was freed, or lost: whatever    *)
(* the scheduler (scheduler.c:103-120) and cache clear (sys.c:151-158)     *)
(* destroy has exactly one owner, and main and the interrupt never hold    *)
(* the same packet.                                                        *)
THEOREM PacketsOwnedOnce == StationSpec => []OwnedOnce
  BY MemoryInvariant, MemoryInvOwnedOnce, PTL

(* A broadcast stop (scheduler.c:110-115) is what every interrupt sends    *)
(* (scheduler.c:129-132) until main queues another packet: no refresh and  *)
(* no idle packet takes its place, and cache clear does not end it.        *)
THEOREM StopStaysOnTrack == StationSpec => StopHolds
  <1>1. MemoryInv /\ [StationNext]_vars
          => [(track \in Stop /\ txQueue.count = 0) => track' = track]_vars
    BY StepStopHolds
  <1> QED  BY <1>1, MemoryInvariant, PTL DEF StationSpec, StopHolds

-----------------------------------------------------------------------------
(* THE SYSTEM COMMANDS *)

(* While cache clear empties the cache, ring and table do not agree. *)
Emptying == {"resetStart", "destroy", "nullify", "print"}

CacheOK ==
  /\ cache \in CacheOf(Loco, Block, CacheSize)
  /\ pc \notin Emptying => CacheSound(cache, Loco, Block, CacheSize)
  /\ pc \in {"destroy", "nullify", "print"}
       => \A j \in 0 .. i - 1 : cache.packets.entries[j] = NULL
  /\ pc = "print" => i = CacheSize

(* What a packet says to a loco is kept under that loco's address. *)
KeyedOK ==
  \A j \in KeptEntries : heap[EntryPacket(j)].loco = cache.packets.entries[j].k

(* What main works on, and what it has read for it. *)
MainOK ==
  /\ command \in [type : CommandTypes, loco : Loco \cup {NULL}]
  /\ pc = "blink" /\ command.type = "show" => command.loco \in Loco
  /\ pc \in {"lookup", "dump"} => command.loco \in Loco
  /\ ticks \in 0 .. BlinkTicks
  /\ curr \in 0 .. CacheSize
  /\ i \in 0 .. CacheSize
  /\ packet \in Block \cup {NULL}
  /\ cached \in Block \cup {NULL}
  /\ pc = "resetCount" => curr = Cardinality(HashUsed(cache.packets))
  /\ pc = "dump" => cached = Cache_get(cache, command.loco)

TrackOK == track \in Message \cup {Idle, NULL}

CommandRest == CacheOK /\ KeyedOK /\ MainOK /\ TrackOK

CommandInv == MemoryInv /\ CommandRest

(* What the lemmas on caches ask for. *)
LEMMA Sizes ==
  /\ Loco \in SUBSET Nat /\ CacheSize \in Nat \ {0}
  /\ NULL \notin Block /\ NULL \notin [k : Loco, v : Block]
  BY LocoAssumption, SizesAssumption, NullAssumption

(* The parts of the invariant that the lemmas on caches ask for. *)
LEMMA InvCache ==
  ASSUME CommandInv
  PROVE  /\ cache \in CacheOf(Loco, Block, CacheSize)
         /\ cache.packets \in HashOf(Loco, Block, CacheSize)
         /\ cache.addresses \in RingOf(Loco \cup {0}, CacheSize)
         /\ heap \in Heap
         /\ pc \notin Emptying
              => CacheSound(cache, Loco, Block, CacheSize) /\ Reached(cache.packets)
         /\ pc \in Emptying => cache.addresses.count = 0
  <1>1. cache \in CacheOf(Loco, Block, CacheSize)
    BY DEF CommandInv, CommandRest, CacheOK
  <1>2. /\ cache.packets \in HashOf(Loco, Block, CacheSize)
        /\ cache.addresses \in RingOf(Loco \cup {0}, CacheSize)
    BY <1>1, Sizes, CacheFields
  <1>3. pc \notin Emptying
          => CacheSound(cache, Loco, Block, CacheSize) /\ Reached(cache.packets)
    BY DEF CommandInv, CommandRest, CacheOK, CacheSound
  <1>4. pc \in Emptying => cache.addresses.count = 0
    BY DEF CommandInv, MemoryInv, MemoryTypeOK, AddressesOK, Emptying
  <1>5. heap \in Heap  BY DEF CommandInv, MemoryInv, MemoryTypeOK
  <1> QED  BY <1>1, <1>2, <1>3, <1>4, <1>5

(* Each entry that is not half destroyed owns a loco's packet. *)
LEMMA InvKept ==
  ASSUME CommandInv, NEW j \in KeptEntries
  PROVE  /\ j \in HashUsed(cache.packets)
         /\ EntryPacket(j) = cache.packets.entries[j].v
         /\ EntryPacket(j) \in Block /\ heap[EntryPacket(j)] \in LocoMessage
         /\ heap[EntryPacket(j)].loco = cache.packets.entries[j].k
         /\ \A k \in KeptEntries : EntryPacket(k) = EntryPacket(j) => k = j
         /\ EntryPacket(j) # QueueHead /\ EntryPacket(j) # stopPacket
         /\ EntryPacket(j) # packet
  BY DEF CommandInv, CommandRest, MemoryInv, Owned, KeyedOK, EntryPacket, KeptEntries

(* A step that keeps the entries it keeps as they are keeps KeyedOK. *)
LEMMA KeyedSame ==
  ASSUME CommandInv, KeptEntries' \subseteq KeptEntries,
         \A j \in KeptEntries' :
           /\ cache'.packets.entries[j] = cache.packets.entries[j]
           /\ heap'[EntryPacket(j)] = heap[EntryPacket(j)]
  PROVE  KeyedOK'
  BY InvKept DEF KeyedOK, EntryPacket

(* Only between the two halves of an entry's destruction does one dangle. *)
LEMMA NotNullifying ==
  ASSUME pc # "nullify"
  PROVE  KeptEntries = HashUsed(cache.packets)
  BY DEF KeptEntries, Dangling

-----------------------------------------------------------------------------
(* The invariant holds when the station is switched on. *)
LEMMA InitCommand == StationInit => CommandInv
  <1> SUFFICES ASSUME StationInit PROVE CommandInv
    OBVIOUS
  <1>1. CacheSound(cache, Loco, Block, CacheSize) /\ HashUsed(cache.packets) = {}
    BY Sizes, CreateSound DEF StationInit, Scheduler_module_init
  <1>2. pc = "read"  BY DEF StationInit
  <1>3. CacheOK  BY <1>1, <1>2 DEF CacheOK, CacheSound, Emptying
  <1>4. KeyedOK  BY <1>1 DEF KeyedOK, KeptEntries
  <1>5. MainOK
    <2>1. 0 \in 0 .. BlinkTicks /\ 0 \in 0 .. CacheSize
      BY Sizes, BlinkAssumption
    <2> QED  BY <2>1 DEF StationInit, MainOK, NoCommand, CommandTypes
  <1>6. TrackOK  BY DEF StationInit, Scheduler_module_init, TrackOK
  <1> QED  BY <1>3, <1>4, <1>5, <1>6, InitMemory DEF CommandInv, CommandRest

(* The parser has built a packet. *)
LEMMA CommandReadPacket ==
  ASSUME CommandInv, NEW m \in Message, ReadPacket(m)
  PROVE  CommandRest'
  <1>1. PICK b \in Block : /\ heap[b] = Free /\ packet' = b /\ heap'[b] = m
                           /\ \A c \in Block \ {b} : Forgets(heap, heap', c)
    BY ReadPacketHeap, InvCache
  <1>2. /\ pc = "read" /\ pc' = "blink" /\ cache' = cache /\ track' = track
        /\ command' = [type |-> "packet", loco |-> NULL]
        /\ ticks' = 0 /\ curr' = curr /\ i' = i /\ cached' = cached
    BY DEF ReadPacket
  <1>3. CacheOK'
    BY <1>2 DEF CommandInv, CommandRest, CacheOK, Emptying
  <1>4. KeptEntries' = KeptEntries
    BY <1>2 DEF KeptEntries, Dangling, HashUsed
  <1>5. ASSUME NEW j \in KeptEntries PROVE heap'[EntryPacket(j)] = heap[EntryPacket(j)]
    <2>1. EntryPacket(j) \in Block /\ heap[EntryPacket(j)] \in LocoMessage
      BY InvKept
    <2>2. EntryPacket(j) # b  BY <1>1, <2>1, MessageNotFree
    <2> QED  BY <1>1, <2>1, <2>2, MessageNotFree DEF Forgets
  <1>6. KeyedOK'  BY <1>2, <1>4, <1>5, KeyedSame
  <1>7. MainOK'
    <2>1. 0 \in 0 .. BlinkTicks  BY BlinkAssumption
    <2> QED  BY <1>1, <1>2, <2>1 DEF CommandInv, CommandRest, MainOK, CommandTypes
  <1> QED  BY <1>2, <1>3, <1>6, <1>7 DEF CommandInv, CommandRest, TrackOK

(* The parser has lost a packet. *)
LEMMA CommandReadRefused ==
  ASSUME CommandInv, ReadRefused
  PROVE  CommandRest'
  <1>1. UNCHANGED <<pc, cache, track, command, packet, ticks, curr, i, cached>>
    BY DEF ReadRefused, mainVars
  <1>2. \A c \in Block : Forgets(heap, heap', c)
    BY ReadRefusedHeap, InvCache
  <1>3. KeptEntries' = KeptEntries
    BY <1>1 DEF KeptEntries, Dangling, HashUsed
  <1>4. ASSUME NEW j \in KeptEntries PROVE heap'[EntryPacket(j)] = heap[EntryPacket(j)]
    <2>1. EntryPacket(j) \in Block /\ heap[EntryPacket(j)] \in LocoMessage
      BY InvKept
    <2> QED  BY <1>2, <2>1, MessageNotFree DEF Forgets
  <1>5. KeyedOK'  BY <1>1, <1>3, <1>4, KeyedSame
  <1> QED
    BY <1>1, <1>5 DEF CommandInv, CommandRest, CacheOK, MainOK, TrackOK

(* The steps of main that leave the cache and the heap alone. *)
LEMMA CommandQuiet ==
  ASSUME CommandInv,
         \/ ReadClear \/ BlinkDone \/ AddPacket \/ ReportSize \/ LookUp \/ Dump
         \/ \E l \in Loco : ReadShow(l)
  PROVE  CommandRest'
  <1>1. /\ cache' = cache /\ heap' = heap /\ track' = track
        /\ pc \in {"read", "blink", "add", "report", "lookup", "dump"}
        /\ pc' \in {"read", "blink", "add", "report", "resetCount", "lookup", "dump"}
    <2>1. CASE BlinkDone
      BY <2>1 DEF BlinkDone, Handler, schedulerVars, CommandInv, MemoryInv, HandTypeOK
    <2> QED
      BY <2>1 DEF ReadClear, AddPacket, ReportSize, LookUp, Dump, ReadShow, schedulerVars
  <1>2. CacheOK'  BY <1>1 DEF CommandInv, CommandRest, CacheOK, Emptying
  <1>3. KeptEntries' = KeptEntries
    BY <1>1 DEF KeptEntries, Dangling, HashUsed
  <1>4. KeyedOK'  BY <1>1, <1>3, KeyedSame
  <1>5. 0 \in 0 .. BlinkTicks  BY BlinkAssumption
  <1>6. MainOK  BY DEF CommandInv, CommandRest
  <1>7. MainOK'
    <2>1. CASE ReadClear
      BY <1>5, <1>6, <2>1 DEF ReadClear, MainOK, CommandTypes
    <2>2. ASSUME NEW l \in Loco, ReadShow(l)  PROVE MainOK'
      BY <1>5, <1>6, <2>2 DEF ReadShow, MainOK, CommandTypes
    <2>3. CASE BlinkDone
      <3>1. command.type \in {"packet", "clear", "show"}
        BY <2>3 DEF BlinkDone, CommandInv, MemoryInv, HandTypeOK
      <3>2. pc' = "lookup" => command.type = "show"
        BY <2>3, <3>1 DEF BlinkDone, Handler
      <3>3. pc' \in {"add", "report", "lookup"}
        BY <2>3, <3>1 DEF BlinkDone, Handler
      <3> QED  BY <1>5, <1>6, <2>3, <3>2, <3>3 DEF BlinkDone, MainOK
    <2>4. CASE AddPacket
      BY <1>6, <2>4 DEF AddPacket, MainOK, NoCommand, CommandTypes
    <2>5. CASE Dump
      BY <1>6, <2>5 DEF Dump, MainOK, NoCommand, CommandTypes
    <2>6. CASE ReportSize
      <3>1. pc = "report" /\ curr' = cache.addresses.count
        BY <2>6 DEF ReportSize, Cache_report_current_size
      <3>2. CacheSound(cache, Loco, Block, CacheSize)
        BY <3>1, InvCache DEF Emptying
      <3>3. cache.addresses.count = Len(Rota(cache))
        BY InvCache, Sizes, CacheFields
      <3>4. curr' = Cardinality(HashUsed(cache.packets))
        BY <3>1, <3>2, <3>3 DEF CacheSound, RotaCounts
      <3>5. curr' \in 0 .. CacheSize  BY <3>1, InvCache DEF RingOf
      <3>6. curr' = Cardinality(HashUsed(cache'.packets))  BY <1>1, <3>4
      <3> QED  BY <1>6, <2>6, <3>5, <3>6 DEF ReportSize, MainOK
    <2>7. CASE LookUp
      <3>1. /\ pc = "lookup" /\ pc' = "dump" /\ cached' = Cache_get(cache, command.loco)
            /\ command.loco \in Loco /\ cache' = cache /\ command' = command
        BY <1>1, <1>6, <2>7 DEF LookUp, MainOK
      <3>2. cached' \in Block \cup {NULL}
        BY <3>1, InvCache, Sizes, CacheGets, CacheMisses
      <3>3. cached' = Cache_get(cache', command'.loco)  BY <3>1
      <3> QED  BY <1>6, <2>7, <3>1, <3>2, <3>3 DEF LookUp, MainOK
    <2> QED  BY <2>1, <2>2, <2>3, <2>4, <2>5, <2>6, <2>7
  <1> QED  BY <1>1, <1>2, <1>4, <1>7 DEF CommandInv, CommandRest, TrackOK

-----------------------------------------------------------------------------
(* cache clear, write by write. *)
LEMMA CommandReset ==
  ASSUME CommandInv, ResetCount \/ ResetStart
  PROVE  CommandRest'
  <1> DEFINE a == cache.addresses
             b == cache'.addresses
  <1>1. /\ heap' = heap /\ track' = track /\ pc \in {"resetCount", "resetStart"}
        /\ pc' \in {"resetStart", "destroy"}
        /\ cache' = [addresses |-> b, packets |-> cache.packets]
        /\ b.buf = a.buf /\ b.size = a.size /\ b.count \in {0, a.count}
        /\ b.start \in {0, a.start}
        /\ b = [buf |-> b.buf, size |-> b.size, count |-> b.count, start |-> b.start]
        /\ UNCHANGED <<command, packet, ticks, curr, cached>>
        /\ i' \in {0, i} /\ (pc' = "destroy" => i' = 0)
    BY DEF ResetCount, ResetStart, SetAddresses
  <1>2. /\ a.buf \in [0 .. CacheSize - 1 -> Loco \cup {0}] /\ a.size = CacheSize
        /\ a.count \in 0 .. CacheSize /\ a.start \in 0 .. CacheSize - 1
        /\ cache.packets \in HashOf(Loco, Block, CacheSize)
        /\ 0 \in 0 .. CacheSize /\ 0 \in 0 .. CacheSize - 1
    BY InvCache, Sizes DEF RingOf
  <1> HIDE DEF a, b
  <1>3. b \in RingOf(Loco \cup {0}, CacheSize)
    BY <1>1, <1>2 DEF RingOf
  <1>4. cache' \in CacheOf(Loco, Block, CacheSize)
    BY <1>1, <1>2, <1>3 DEF CacheOf
  <1>5. CacheOK'
    BY <1>1, <1>4 DEF CacheOK, Emptying
  <1>6. cache'.packets = cache.packets  BY <1>1
  <1>7. KeptEntries' = KeptEntries
    BY <1>1, <1>6 DEF KeptEntries, Dangling, HashUsed
  <1>8. KeyedOK'  BY <1>1, <1>6, <1>7, KeyedSame
  <1>9. MainOK'
    BY <1>1, <1>2 DEF CommandInv, CommandRest, MainOK
  <1> QED  BY <1>1, <1>5, <1>8, <1>9 DEF CommandInv, CommandRest, TrackOK

(* Hash_reset frees the packet of an entry: the others stay. *)
LEMMA CommandDestroy ==
  ASSUME CommandInv, DestroyEntry
  PROVE  CommandRest'
  <1> DEFINE e == cache.packets.entries[i]
             gone == IF e = NULL THEN {} ELSE {e.v}
  <1>1. /\ heap' = DCC_packet_destroy(heap, gone)
        /\ pc = "destroy" /\ pc' = "nullify" /\ cache' = cache /\ track' = track
        /\ UNCHANGED <<command, packet, ticks, curr, i, cached>>
    BY DEF DestroyEntry
  <1>2. CacheOK'  BY <1>1 DEF CommandInv, CommandRest, CacheOK, Emptying
  <1>3. /\ KeptEntries = HashUsed(cache.packets)
        /\ KeptEntries' = HashUsed(cache.packets) \ {i}
    BY <1>1 DEF KeptEntries, Dangling
  <1>4. ASSUME NEW j \in KeptEntries'
        PROVE  heap'[EntryPacket(j)] = heap[EntryPacket(j)]
    <2>1. j \in KeptEntries /\ j # i /\ EntryPacket(j) \in Block
      BY <1>3, InvKept
    <2>2. EntryPacket(j) \notin gone
      <3>1. CASE e = NULL  BY <3>1
      <3>2. CASE e # NULL
        <4>1. i \in 0 .. CacheSize - 1
          BY <1>1 DEF CommandInv, MemoryInv, MemoryTypeOK
        <4>2. i \in KeptEntries
          BY <1>3, <3>2, <4>1, InvCache, Sizes, HashFields DEF HashUsed
        <4>3. EntryPacket(i) = e.v  BY <4>2, InvKept
        <4> QED  BY <2>1, <3>2, <4>2, <4>3, InvKept
      <3> QED  BY <3>1, <3>2
    <2> HIDE DEF gone
    <2> QED  BY <1>1, <2>1, <2>2 DEF DCC_packet_destroy
  <1>5. KeyedOK'  BY <1>1, <1>3, <1>4, KeyedSame
  <1>6. MainOK'
    BY <1>1 DEF CommandInv, CommandRest, MainOK
  <1> QED  BY <1>1, <1>2, <1>5, <1>6 DEF CommandInv, CommandRest, TrackOK

(* ... and forgets the entry. *)
LEMMA CommandNullify ==
  ASSUME CommandInv, NullifyEntry
  PROVE  CommandRest'
  <1> DEFINE h == cache.packets
             g == Hash_reset_entry(h, i)
  <1>1. /\ heap' = heap /\ track' = track /\ pc = "nullify"
        /\ cache' = [addresses |-> cache.addresses, packets |-> g]
        /\ i' = i + 1 /\ pc' = IF i + 1 < h.size THEN "destroy" ELSE "print"
        /\ UNCHANGED <<command, packet, ticks, curr, cached>>
    BY DEF NullifyEntry, SetPackets
  <1>2. /\ h \in HashOf(Loco, Block, CacheSize) /\ h.size = CacheSize
        /\ cache.addresses \in RingOf(Loco \cup {0}, CacheSize)
        /\ h.entries \in [0 .. CacheSize - 1 -> {NULL} \cup [k : Loco, v : Block]]
    BY InvCache DEF HashOf
  <1>3. i \in 0 .. CacheSize - 1
    BY <1>1 DEF CommandInv, MemoryInv, MemoryTypeOK
  <1>4. /\ g \in HashOf(Loco, Block, CacheSize)
        /\ HashUsed(g) = HashUsed(h) \ {i}
        /\ \A j \in HashUsed(h) \ {i} : g.entries[j] = h.entries[j]
    <2> HIDE DEF h
    <2> QED  BY <1>2, <1>3, Sizes, ResetEntryType
  <1>5. /\ g.entries[i] = NULL
        /\ \A j \in 0 .. CacheSize - 1 : j # i => g.entries[j] = h.entries[j]
    <2> HIDE DEF h
    <2> QED  BY <1>2, <1>3 DEF Hash_reset_entry
  <1> HIDE DEF g, h
  <1>6. CacheOK'
    <2>1. cache' \in CacheOf(Loco, Block, CacheSize)
      BY <1>1, <1>2, <1>4 DEF CacheOf
    <2>2. \A j \in 0 .. i - 1 : h.entries[j] = NULL
      BY <1>1 DEF CommandInv, CommandRest, CacheOK, h
    <2>3. ASSUME NEW j \in 0 .. i PROVE g.entries[j] = NULL
      <3>1. j \in 0 .. CacheSize - 1 /\ (j # i => j \in 0 .. i - 1)
        BY <1>3, Sizes
      <3>2. CASE j = i  BY <1>5, <3>2
      <3>3. CASE j # i  BY <1>5, <2>2, <3>1, <3>3
      <3> QED  BY <3>2, <3>3
    <2>4. 0 .. i' - 1 = 0 .. i /\ cache'.packets = g  BY <1>1, <1>3
    <2>5. pc' = "print" => i' = CacheSize
      BY <1>1, <1>2, <1>3, Sizes
    <2>6. pc' \in Emptying  BY <1>1 DEF Emptying
    <2> QED  BY <2>1, <2>3, <2>4, <2>5, <2>6 DEF CacheOK
  <1>7. /\ KeptEntries = HashUsed(h) \ {i} /\ KeptEntries' = HashUsed(h) \ {i}
        /\ cache'.packets = g
    BY <1>1, <1>4 DEF KeptEntries, Dangling, h
  <1>8. KeyedOK'
    BY <1>1, <1>4, <1>7, KeyedSame DEF h
  <1>9. MainOK'
    <2>1. i' \in 0 .. CacheSize  BY <1>1, <1>3, Sizes
    <2> QED  BY <1>1, <2>1 DEF CommandInv, CommandRest, MainOK
  <1> QED  BY <1>1, <1>6, <1>8, <1>9 DEF CommandInv, CommandRest, TrackOK

(* Once every entry has been visited the table is empty. *)
LEMMA PurgedEmpty ==
  ASSUME CommandInv, pc = "print"
  PROVE  HashUsed(cache.packets) = {} /\ cache.addresses.count = 0
         /\ CacheSound(cache, Loco, Block, CacheSize) /\ Rota(cache) = <<>>
  <1>1. \A j \in 0 .. CacheSize - 1 : cache.packets.entries[j] = NULL
    BY DEF CommandInv, CommandRest, CacheOK
  <1>2. HashUsed(cache.packets) \subseteq 0 .. CacheSize - 1
    BY InvCache, Sizes, HashFields
  <1>3. HashUsed(cache.packets) = {}  BY <1>1, <1>2 DEF HashUsed
  <1>4. cache.addresses.count = 0  BY InvCache DEF Emptying
  <1>5. cache = [addresses |-> cache.addresses, packets |-> cache.packets]
    BY InvCache DEF CacheOf
  <1>6. CacheSound(cache, Loco, Block, CacheSize) /\ Rota(cache) = <<>>
    BY <1>3, <1>4, <1>5, InvCache, Sizes, EmptySound
  <1> QED  BY <1>3, <1>4, <1>6

(* After the purge, empty as it is, the cache is sound again. *)
LEMMA CommandPrint ==
  ASSUME CommandInv, PrintPurged
  PROVE  CommandRest'
  <1>1. /\ pc = "print" /\ pc' = "read" /\ command' = NoCommand
        /\ curr' = 0 /\ i' = 0 /\ cache' = cache /\ heap' = heap /\ track' = track
        /\ UNCHANGED <<packet, ticks, cached>>
    BY DEF PrintPurged, schedulerVars
  <1>2. CacheSound(cache, Loco, Block, CacheSize) /\ HashUsed(cache.packets) = {}
    BY <1>1, PurgedEmpty
  <1>3. CacheOK'  BY <1>1, <1>2 DEF CacheOK, CacheSound
  <1>4. KeyedOK'  BY <1>1, <1>2 DEF KeyedOK, KeptEntries
  <1>5. MainOK'
    <2>1. 0 \in 0 .. CacheSize  BY Sizes
    <2> QED  BY <1>1, <2>1 DEF CommandInv, CommandRest, MainOK, NoCommand, CommandTypes
  <1> QED  BY <1>1, <1>3, <1>4, <1>5 DEF CommandInv, CommandRest, TrackOK

-----------------------------------------------------------------------------
(* What an interrupt does to main: it counts. *)
MainWaits ==
  /\ UNCHANGED <<pc, command, packet, curr, i, cached>>
  /\ ticks' = IF pc = "blink" /\ ticks < BlinkTicks THEN ticks + 1 ELSE ticks

(* What main has read stays true as long as the table does not change. *)
LEMMA WaitingOK ==
  ASSUME CommandInv, MainWaits,
         pc \in {"resetCount", "dump"} => cache'.packets = cache.packets
  PROVE  MainOK'
  <1>1. MainOK  BY DEF CommandInv, CommandRest
  <1>2. ticks' \in 0 .. BlinkTicks
    BY <1>1, BlinkAssumption DEF MainOK, MainWaits
  <1>3. pc = "dump" => Cache_get(cache', command.loco) = Cache_get(cache, command.loco)
    BY DEF Cache_get
  <1>4. pc' = "dump" => cached' = Cache_get(cache', command'.loco)
    BY <1>1, <1>3 DEF MainOK, MainWaits
  <1>5. pc' = "resetCount" => curr' = Cardinality(HashUsed(cache'.packets))
    BY <1>1 DEF MainOK, MainWaits
  <1> QED  BY <1>1, <1>2, <1>4, <1>5 DEF MainOK, MainWaits

(* An interrupt that finds the queue empty changes at most whose turn it   *)
(* is; while main empties the cache nobody has a turn.                     *)
LEMMA IdleCache ==
  ASSUME CommandInv, RefreshLoco \/ SendIdle \/ ResendStop
  PROVE  /\ cache'.packets = cache.packets /\ heap' = heap
         /\ cache' = cache \/ (pc \notin Emptying /\ cache' = Cache_rotated(cache))
  <1>1. heap' = heap /\ cache' \in {cache, Cache_rotated(cache)}
    BY DEF RefreshLoco, SendIdle, ResendStop
  <1>2. Cache_rotated(cache).packets = cache.packets  BY DEF Cache_rotated
  <1>3. ASSUME pc \in Emptying  PROVE Cache_rotated(cache) = cache
    <2>1. cache.addresses.count = 0  BY <1>3, InvCache
    <2>2. cache = [addresses |-> cache.addresses, packets |-> cache.packets]
      BY InvCache DEF CacheOf
    <2> QED  BY <2>1, <2>2 DEF Cache_rotated
  <1> QED  BY <1>1, <1>2, <1>3

(* An interrupt that finds the queue empty keeps the invariant. *)
LEMMA CommandIdle ==
  ASSUME CommandInv, RefreshLoco \/ SendIdle \/ ResendStop, MainWaits
  PROVE  CommandRest'
  <1>1. /\ cache'.packets = cache.packets /\ heap' = heap
        /\ cache' = cache \/ (pc \notin Emptying /\ cache' = Cache_rotated(cache))
    BY IdleCache
  <1>2. CacheOK'
    <2>1. CASE cache' = cache
      BY <2>1 DEF CommandInv, CommandRest, CacheOK, MainWaits
    <2>2. CASE pc \notin Emptying /\ cache' = Cache_rotated(cache)
      <3>1. CacheSound(cache, Loco, Block, CacheSize)  BY <2>2, InvCache
      <3>2. CacheSound(Cache_rotated(cache), Loco, Block, CacheSize)
        BY <3>1, Sizes, RotateSound
      <3>3. cache' \in CacheOf(Loco, Block, CacheSize)
        BY <2>2, <3>2 DEF CacheSound
      <3>4. pc' = pc  BY DEF MainWaits
      <3> QED  BY <2>2, <3>2, <3>3, <3>4 DEF CacheOK, Emptying
    <2> QED  BY <1>1, <2>1, <2>2
  <1>3. KeptEntries' = KeptEntries
    BY <1>1 DEF KeptEntries, Dangling, HashUsed, MainWaits
  <1>4. KeyedOK'  BY <1>1, <1>3, KeyedSame
  <1>5. MainOK'  BY <1>1, WaitingOK
  <1>6. TrackOK'
    <2>1. CASE RefreshLoco
      BY <2>1, RefreshedIsLocos, MessageNotFree DEF CommandInv, TrackOK
    <2>2. CASE SendIdle  BY <2>2 DEF SendIdle, TrackOK
    <2>3. CASE ResendStop
      <3>1. stopPacket # NULL /\ track' = heap[stopPacket]
        BY <2>3 DEF ResendStop
      <3>2. heap[stopPacket] \in Stop
        BY <3>1 DEF CommandInv, MemoryInv, Owned
      <3> QED  BY <3>1, <3>2 DEF TrackOK, Message
    <2> QED  BY <2>1, <2>2, <2>3
  <1> QED  BY <1>2, <1>4, <1>5, <1>6 DEF CommandRest

(* A broadcast stop leaves an empty cache. *)
LEMMA StopEmpties ==
  ASSUME CommandInv, TransmitStop
  PROVE  /\ CacheSound(cache', Loco, Block, CacheSize)
         /\ Rota(cache') = <<>> /\ HashUsed(cache'.packets) = {}
         /\ pc \in {"read", "blink", "add"} /\ KeptEntries = HashUsed(cache.packets)
         /\ QueueHead # NULL /\ QueueHead \in Block /\ heap[QueueHead] \in Stop
         /\ track' = heap[QueueHead] /\ stopPacket' = QueueHead
  <1>1. txQueue.count > 0  BY DEF TransmitStop
  <1>2. /\ pc \in {"read", "blink", "add"} /\ KeptEntries = HashUsed(cache.packets)
        /\ QueueHead = Ring_front(txQueue) /\ QueueHead # NULL /\ QueueHead \in Block
    BY <1>1, TransmitContext DEF CommandInv
  <1>3. /\ heap[QueueHead] \in Stop /\ track' = heap[QueueHead]
        /\ stopPacket' = QueueHead /\ cache' = Cache_clear(cache)
    BY <1>2 DEF TransmitStop, DCC_is_broadcast_stop
  <1>4. /\ cache.addresses.buf \in [0 .. CacheSize - 1 -> Loco \cup {0}]
        /\ cache.addresses.size = CacheSize /\ cache.packets.size = CacheSize
    BY InvCache DEF RingOf, HashOf
  <1>5. /\ CacheSound(Cache_clear(cache), Loco, Block, CacheSize)
        /\ Rota(Cache_clear(cache)) = <<>>
        /\ HashUsed(Cache_clear(cache).packets) = {}
    BY <1>4, Sizes, ClearSound
  <1> QED  BY <1>2, <1>3, <1>5

(* So does one that sends a broadcast stop. *)
LEMMA CommandTransmitStop ==
  ASSUME CommandInv, TransmitStop, MainWaits
  PROVE  CommandRest'
  <1>1. /\ CacheSound(cache', Loco, Block, CacheSize) /\ HashUsed(cache'.packets) = {}
        /\ pc \in {"read", "blink", "add"} /\ heap[QueueHead] \in Stop
        /\ track' = heap[QueueHead]
    BY StopEmpties
  <1>2. pc' = pc  BY DEF MainWaits
  <1>3. CacheOK'  BY <1>1, <1>2 DEF CacheOK, CacheSound
  <1>4. KeyedOK'  BY <1>1 DEF KeyedOK, KeptEntries
  <1>5. MainOK'  BY <1>1, WaitingOK
  <1>6. TrackOK'  BY <1>1 DEF TrackOK, Message
  <1> QED  BY <1>3, <1>4, <1>5, <1>6 DEF CommandRest

-----------------------------------------------------------------------------
(* A loco's packet is cached: a loco that had none joins the turns. *)
LEMMA UpdatedTurns ==
  ASSUME CacheSound(cache, Loco, Block, CacheSize), NEW l \in Loco, NEW p \in Block,
         NEW x, x = Hash_find_entry(cache.packets, l),
         NEW d, d = Cache_update(cache, l, p)
  PROVE  /\ CacheSound(d, Loco, Block, CacheSize)
         /\ TurnGiven(cache, d, x, l)
  <1>1. /\ Loco \in SUBSET Nat /\ CacheSize \in Nat \ {0}
        /\ NULL \notin Block /\ NULL \notin [k : Loco, v : Block]
    BY Sizes
  <1>2. CacheSound(d, Loco, Block, CacheSize)  BY <1>1, UpdateSound
  <1>3. TurnGiven(cache, d, x, l)  BY <1>1, UpdateSound
  <1> QED  BY <1>2, <1>3

(* A loco's packet leaves the queue: its entry x now owns it, and no other *)
(* entry and no other packet changes.                                      *)
LEMMA LocoCached ==
  ASSUME CommandInv, TransmitLoco, NEW l, l = heap[QueueHead].loco,
         NEW x, x = Hash_find_entry(cache.packets, l)
  PROVE  /\ pc \in {"read", "blink", "add"} /\ KeptEntries = HashUsed(cache.packets)
         /\ QueueHead # NULL /\ QueueHead \in Block
         /\ heap[QueueHead] \in LocoMessage /\ l \in Loco
         /\ track' = heap[QueueHead] /\ stopPacket' = NULL
         /\ CacheSound(cache', Loco, Block, CacheSize)
         /\ Rota(cache') = IF x \in HashUsed(cache.packets) THEN Rota(cache)
                           ELSE Append(Rota(cache), l)
         /\ HashUsed(cache'.packets) = HashUsed(cache.packets) \cup {x}
         /\ cache'.packets.entries[x].k = l
         /\ cache'.packets.entries[x].v = QueueHead
         /\ heap'[QueueHead] = heap[QueueHead]
         /\ \A j \in HashUsed(cache.packets) :
              j # x => /\ cache'.packets.entries[j] = cache.packets.entries[j]
                       /\ cache.packets.entries[j].k # l
                       /\ heap'[EntryPacket(j)] = heap[EntryPacket(j)]
  <1>1. txQueue.count > 0  BY DEF TransmitLoco
  <1>2. /\ pc \in {"read", "blink", "add"} /\ KeptEntries = HashUsed(cache.packets)
        /\ QueueHead = Ring_front(txQueue) /\ QueueHead # NULL /\ QueueHead \in Block
        /\ heap[QueueHead] \in Message
    BY <1>1, TransmitContext DEF CommandInv
  <1>3. /\ heap[QueueHead] \notin Stop /\ track' = heap[QueueHead]
        /\ stopPacket' = NULL /\ cache' = Cache_update(cache, l, QueueHead)
        /\ heap' = DCC_packet_destroy(heap,
                     StopPacketFreed \cup Cache_update_frees(cache, l))
    BY <1>2 DEF TransmitLoco, DCC_is_broadcast_stop
  <1>4. heap[QueueHead] \in LocoMessage /\ l \in Loco
    BY <1>2, <1>3, MessageNotFree DEF LocoMessage
  <1>5. CacheSound(cache, Loco, Block, CacheSize) /\ Reached(cache.packets)
    BY <1>2, InvCache DEF Emptying
  <1>6. cache \in CacheOf(Loco, Block, CacheSize)  BY InvCache
  <1> DEFINE d == cache'
             g == cache'.packets
             q == QueueHead
  <1>7. g = Cache_update(cache, l, q).packets /\ d = Cache_update(cache, l, q)
    BY <1>3
  <1> HIDE DEF d, g, q
  <1>8. q \in Block  BY <1>2 DEF q
  <1>9. /\ CacheSound(d, Loco, Block, CacheSize)
        /\ Rota(d) = IF x \in HashUsed(cache.packets) THEN Rota(cache)
                     ELSE Append(Rota(cache), l)
    <2>1. l \in Loco /\ q \in Block /\ d = Cache_update(cache, l, q)
          /\ CacheSound(cache, Loco, Block, CacheSize)
      BY <1>4, <1>5, <1>7, <1>8
    <2>2. CacheSound(d, Loco, Block, CacheSize) /\ TurnGiven(cache, d, x, l)
      BY <2>1, UpdatedTurns
    <2> QED  BY <2>2 DEF TurnGiven
  <1>10. /\ x \in 0 .. CacheSize - 1
         /\ g.entries[x].k = l /\ g.entries[x].v = q
         /\ HashUsed(g) = HashUsed(cache.packets) \cup {x}
         /\ \A j \in HashUsed(cache.packets) :
              j # x => /\ g.entries[j] = cache.packets.entries[j]
                       /\ cache.packets.entries[j].k # l
    BY <1>4, <1>5, <1>6, <1>7, <1>8, Sizes, UpdateEntries
  <1>11. ASSUME NEW b \in Block, b \in StopPacketFreed \cup Cache_update_frees(cache, l)
         PROVE  \/ b = stopPacket /\ stopPacket # NULL
                \/ x \in HashUsed(cache.packets) /\ b = EntryPacket(x)
    <2>1. CASE b \in StopPacketFreed  BY <2>1 DEF StopPacketFreed
    <2>2. CASE b \in Cache_update_frees(cache, l)
      <3>1. x \in HashUsed(cache.packets) /\ b = cache.packets.entries[x].v
        BY <1>4, <1>6, <2>2, Sizes, UpdateFrees
      <3> QED  BY <3>1 DEF EntryPacket
    <2> QED  BY <1>11, <2>1, <2>2
  <1>12. heap'[QueueHead] = heap[QueueHead]
    <2>1. QueueHead # stopPacket
      BY <1>2 DEF CommandInv, MemoryInv, Owned
    <2>2. x \in HashUsed(cache.packets) => EntryPacket(x) # QueueHead
      BY <1>2, InvKept
    <2>3. QueueHead \notin StopPacketFreed \cup Cache_update_frees(cache, l)
      BY <1>2, <1>11, <2>1, <2>2
    <2> QED  BY <1>2, <1>3, <2>3 DEF DCC_packet_destroy
  <1>13. ASSUME NEW j \in HashUsed(cache.packets), j # x
         PROVE  heap'[EntryPacket(j)] = heap[EntryPacket(j)]
    <2>1. /\ EntryPacket(j) \in Block /\ EntryPacket(j) # stopPacket
          /\ x \in HashUsed(cache.packets) => EntryPacket(x) # EntryPacket(j)
      BY <1>2, <1>13, InvKept
    <2>2. EntryPacket(j) \notin StopPacketFreed \cup Cache_update_frees(cache, l)
      BY <1>11, <2>1
    <2> QED  BY <1>3, <2>1, <2>2 DEF DCC_packet_destroy
  <1> QED
    BY <1>2, <1>3, <1>4, <1>9, <1>10, <1>12, <1>13 DEF d, g, q

(* What the loco's entry and the others own is still theirs. *)
LEMMA CommandTransmitLoco ==
  ASSUME CommandInv, TransmitLoco, MainWaits
  PROVE  CommandRest'
  <1> DEFINE l == heap[QueueHead].loco
             x == Hash_find_entry(cache.packets, l)
             u == HashUsed(cache.packets)
  <1>1. /\ pc \in {"read", "blink", "add"} /\ KeptEntries = u
        /\ heap[QueueHead] \in LocoMessage /\ track' = heap[QueueHead]
        /\ CacheSound(cache', Loco, Block, CacheSize)
        /\ HashUsed(cache'.packets) = u \cup {x}
        /\ cache'.packets.entries[x].k = l
        /\ cache'.packets.entries[x].v = QueueHead
        /\ heap'[QueueHead] = heap[QueueHead]
        /\ \A j \in u :
              j # x => /\ cache'.packets.entries[j] = cache.packets.entries[j]
                       /\ heap'[EntryPacket(j)] = heap[EntryPacket(j)]
    BY LocoCached
  <1>2. pc' = pc  BY DEF MainWaits
  <1>3. CacheOK'  BY <1>1, <1>2 DEF CacheOK, CacheSound
  <1> HIDE DEF x
  <1>4. ASSUME NEW j \in KeptEntries'
        PROVE  heap'[EntryPacket(j)'].loco = cache'.packets.entries[j].k
    <2>1. j \in u \cup {x}
      BY <1>1, <1>2 DEF KeptEntries
    <2>2. EntryPacket(j)' = cache'.packets.entries[j].v
      BY DEF EntryPacket
    <2>3. CASE j = x  BY <1>1, <2>2, <2>3
    <2>4. CASE j # x /\ j \in u
      <3>1. /\ heap[EntryPacket(j)].loco = cache.packets.entries[j].k
            /\ EntryPacket(j) = cache.packets.entries[j].v
        BY <1>1, <2>4, InvKept
      <3> QED  BY <1>1, <2>2, <2>4, <3>1
    <2> QED  BY <2>1, <2>3, <2>4
  <1>5. KeyedOK'  BY <1>4 DEF KeyedOK
  <1>6. MainOK'  BY <1>1, WaitingOK
  <1>7. TrackOK'  BY <1>1, MessageNotFree DEF TrackOK
  <1> QED  BY <1>3, <1>5, <1>6, <1>7 DEF CommandRest

-----------------------------------------------------------------------------
(* One lemma per step above: the invariant is inductive. *)
LEMMA StepCommand == CommandInv /\ [StationNext]_vars => CommandInv'
  <1> SUFFICES ASSUME CommandInv, [StationNext]_vars PROVE CommandInv'
    OBVIOUS
  <1>1. MemoryInv'  BY StepMemory DEF CommandInv
  <1>2. CommandRest'
    <2>1. ASSUME NEW m \in Message, ReadPacket(m)  PROVE CommandRest'
      BY <2>1, CommandReadPacket
    <2>2. CASE ReadRefused  BY <2>2, CommandReadRefused
    <2>3. CASE \/ ReadClear \/ BlinkDone \/ AddPacket \/ ReportSize \/ LookUp \/ Dump
               \/ \E l \in Loco : ReadShow(l)
      BY <2>3, CommandQuiet
    <2>4. CASE ResetCount \/ ResetStart  BY <2>4, CommandReset
    <2>5. CASE DestroyEntry  BY <2>5, CommandDestroy
    <2>6. CASE NullifyEntry  BY <2>6, CommandNullify
    <2>7. CASE PrintPurged  BY <2>7, CommandPrint
    <2>8. CASE Tick
      <3>1. MainWaits  BY <2>8 DEF Tick, MainWaits
      <3>2. CASE TransmitStop  BY <3>1, <3>2, CommandTransmitStop
      <3>3. CASE TransmitLoco  BY <3>1, <3>3, CommandTransmitLoco
      <3>4. CASE RefreshLoco \/ SendIdle \/ ResendStop  BY <3>1, <3>4, CommandIdle
      <3> QED  BY <2>8, <3>2, <3>3, <3>4 DEF Tick, Timer0
    <2>9. CASE UNCHANGED vars
      <3>1. /\ cache' = cache /\ heap' = heap /\ track' = track /\ pc' = pc
            /\ command' = command /\ packet' = packet /\ ticks' = ticks
            /\ curr' = curr /\ i' = i /\ cached' = cached
        BY <2>9 DEF vars, schedulerVars, mainVars
      <3>2. KeptEntries' = KeptEntries
        BY <3>1 DEF KeptEntries, Dangling, HashUsed
      <3>3. KeyedOK'  BY <3>1, <3>2, KeyedSame
      <3> QED
        BY <3>1, <3>3 DEF CommandInv, CommandRest, CacheOK, MainOK, TrackOK
    <2> QED
      BY <2>1, <2>3, <2>4, <2>5, <2>6, <2>7, <2>8, <2>9, <2>2
         DEF StationNext, ReadCommand, MainStep, Purge
  <1> QED  BY <1>1, <1>2 DEF CommandInv

(* The invariant holds in every state of the command station. *)
LEMMA CommandInvariant == StationSpec => []CommandInv
  BY InitCommand, StepCommand, PTL DEF StationSpec

-----------------------------------------------------------------------------
(* TYPE: every variable holds what its C declaration and use allow, in     *)
(* particular the cache's ring and table, updated from both sides.         *)
THEOREM StationTypes == StationSpec => []StationTypeOK
  <1>1. ASSUME CommandInv  PROVE StationTypeOK
    <2>1. /\ cache \in CacheOf(Loco, Block, CacheSize)
          /\ heap \in [Block -> Message \cup {Free, Lost}]
          /\ track \in Message \cup {Idle, NULL}
      BY <1>1, InvCache DEF Heap, CommandInv, CommandRest, TrackOK
    <2>2. txQueue \in RingOf(Block \cup {NULL}, TxLen) /\ pc \in Phases
      BY <1>1 DEF CommandInv, MemoryInv, MemoryTypeOK
    <2>3. stopPacket \in Block \cup {NULL}
      BY <1>1 DEF CommandInv, MemoryInv, Owned
    <2>4. MainOK  BY <1>1 DEF CommandInv, CommandRest
    <2> QED  BY <2>1, <2>2, <2>3, <2>4 DEF MainOK, StationTypeOK
  <1> QED  BY <1>1, CommandInvariant, PTL

(* No turns are left when no packets are, and none while main empties the  *)
(* cache.                                                                  *)
LEMMA NoTurns ==
  ASSUME CommandInv, pc \in Emptying \/ HashUsed(cache.packets) = {}
  PROVE  Rota(cache) = <<>>
  <1>1. /\ Rota(cache) \in Seq(Loco \cup {0})
        /\ Len(Rota(cache)) = cache.addresses.count
    BY InvCache, Sizes, CacheFields
  <1>2. CASE pc \in Emptying
    BY <1>1, <1>2, InvCache
  <1>3. CASE pc \notin Emptying /\ HashUsed(cache.packets) = {}
    <2>1. RotaCounts(cache)  BY <1>3, InvCache DEF CacheSound
    <2>2. Cardinality(HashUsed(cache.packets)) = 0  BY <1>3, FS_EmptySet
    <2>3. Len(Rota(cache)) = 0  BY <2>1, <2>2 DEF RotaCounts
    <2> QED  BY <1>1, <2>3
  <1> QED  BY <1>2, <1>3

(* While a broadcast stop is in force no command from before it is kept,   *)
(* whatever main was doing when the interrupt sent the stop.               *)
THEOREM StopsForget == StationSpec => []StopForgets
  <1>1. ASSUME CommandInv, stopPacket # NULL  PROVE Kept = {} /\ Rota(cache) = <<>>
    <2>1. KeptEntries = {}
      BY <1>1 DEF CommandInv, MemoryInv, Owned
    <2>2. pc \notin Emptying => HashUsed(cache.packets) = {}
      BY <2>1 DEF KeptEntries, Dangling, Emptying
    <2> QED  BY <1>1, <2>1, <2>2, NoTurns DEF Kept
  <1>2. CommandInv => StopForgets  BY <1>1 DEF StopForgets
  <1> QED  BY <1>2, CommandInvariant, PTL

(* cache clear prints the number of packets it destroys, although it runs  *)
(* with interrupts on, and leaves an empty cache.                          *)
THEOREM PurgesAreExact == StationSpec => []PurgeIsExact
  <1>1. ASSUME CommandInv  PROVE PurgeIsExact
    <2>1. pc = "resetCount" => curr = Cardinality(HashUsed(cache.packets))
      BY <1>1 DEF CommandInv, CommandRest, MainOK
    <2>2. pc = "print" => HashUsed(cache.packets) = {} /\ Rota(cache) = <<>>
      BY <1>1, PurgedEmpty
    <2> QED  BY <2>1, <2>2 DEF PurgeIsExact
  <1> QED  BY <1>1, CommandInvariant, PTL

(* The packets kept are at most as many as the entries that keep them. *)
LEMMA KeptCount ==
  ASSUME CommandInv
  PROVE  IsFiniteSet(Kept) /\ Cardinality(Kept) <= CacheSize
  <1> DEFINE u == KeptEntries
             m == CacheSize - 1
  <1>1. u \subseteq 0 .. m
    BY InvCache, Sizes, HashFields DEF KeptEntries
  <1>2. IsFiniteSet(0 .. m) /\ Cardinality(0 .. m) = CacheSize
    <2>1. m \in Int /\ 0 \in Int  BY Sizes
    <2> HIDE DEF m
    <2>2. IsFiniteSet(0 .. m) /\ Cardinality(0 .. m) = IF 0 > m THEN 0 ELSE m - 0 + 1
      BY <2>1, FS_Interval
    <2> QED  BY <2>2, Sizes DEF m
  <1>3. IsFiniteSet(u) /\ Cardinality(u) <= CacheSize
    <2> HIDE DEF u, m
    <2> QED  BY <1>1, <1>2, FS_Subset
  <1> DEFINE f == [j \in u |-> EntryPacket(j)]
  <1>4. f \in Surjection(u, Kept)
    BY DEF Surjection, Kept
  <1>5. IsFiniteSet(Kept) /\ Cardinality(Kept) <= Cardinality(u)
    <2> HIDE DEF u, f
    <2> QED  BY <1>3, <1>4, FS_Surjection
  <1>6. Cardinality(Kept) \in Nat /\ Cardinality(u) \in Nat
    <2> HIDE DEF u
    <2> QED  BY <1>3, <1>5, FS_CardinalityType
  <1> QED  BY <1>3, <1>5, <1>6, Sizes

(* Whenever the parser starts, what is in use is at most a packet per      *)
(* entry of the cache and one in the queue, or the stop packet and one in  *)
(* the queue: CacheSize + 2 blocks are enough for it and a line with one   *)
(* command.  What the parser has lost over other lines is not counted.     *)
THEOREM InUseIsBounded == StationSpec => []InUseBounded
  <1>1. ASSUME CommandInv, pc = "read"  PROVE Cardinality(InUse) <= CacheSize + 1
    <2> DEFINE old == IF stopPacket = NULL THEN Kept ELSE {stopPacket}
    <2>1. packet = NULL
      BY <1>1 DEF CommandInv, MemoryInv, HandTypeOK
    <2>2. stopPacket # NULL => Kept = {}
      BY <1>1 DEF CommandInv, MemoryInv, Owned, Kept
    <2>3. IsFiniteSet(Kept) /\ Cardinality(Kept) \in 0 .. CacheSize
      BY <1>1, KeptCount, FS_CardinalityType, Sizes
    <2>4. IsFiniteSet(old) /\ Cardinality(old) \in 0 .. CacheSize
      <3>1. IsFiniteSet({stopPacket}) /\ Cardinality({stopPacket}) = 1
        BY FS_Singleton
      <3> QED  BY <2>3, <3>1, Sizes
    <2>5. ASSUME NEW b \in InUse  PROVE b \in old \cup {QueueHead}
      <3>1. b \in Block /\ heap[b] \notin {Free, Lost} /\ b # NULL
        BY Sizes DEF Allocated, InUse, LostBlocks
      <3>2. b \in {QueueHead, stopPacket, packet}
              \/ \E j \in KeptEntries : EntryPacket(j) = b
        BY <1>1, <3>1 DEF CommandInv, MemoryInv, Owned, EntryPacket
      <3> QED  BY <2>1, <2>2, <3>1, <3>2 DEF Kept
    <2> HIDE DEF old
    <2>6. /\ IsFiniteSet(old \cup {QueueHead})
          /\ Cardinality(old \cup {QueueHead}) \in 0 .. CacheSize + 1
      <3>1. IsFiniteSet(old \cup {QueueHead})
            /\ Cardinality(old \cup {QueueHead})
                 = IF QueueHead \in old THEN Cardinality(old) ELSE Cardinality(old) + 1
        BY <2>4, FS_AddElement
      <3> QED  BY <2>4, <3>1, Sizes
    <2>7. IsFiniteSet(InUse) /\ Cardinality(InUse) <= Cardinality(old \cup {QueueHead})
      BY <2>5, <2>6, FS_Subset
    <2>8. Cardinality(InUse) \in Nat
      BY <2>7, FS_CardinalityType
    <2> QED  BY <2>6, <2>7, <2>8, Sizes
  <1>2. CommandInv => InUseBounded  BY <1>1 DEF InUseBounded
  <1> QED  BY <1>2, CommandInvariant, PTL

-----------------------------------------------------------------------------
(* No more locos than entries: no loco's packet displaces another's. *)
LocosFit == IsFiniteSet(Loco) /\ Cardinality(Loco) <= CacheSize

(* What cache show prints is the loco's own packet, and stays allocated    *)
(* and cached until it is printed.                                         *)
THEOREM DumpsAreStable ==
  ASSUME LocosFit
  PROVE  StationSpec => []DumpIsStable
  <1>1. ASSUME CommandInv, pc = "dump"
        PROVE  /\ cached = Cache_get(cache, command.loco)
               /\ cached # NULL => heap[cached] \notin {Free, Lost}
                                   /\ heap[cached].loco = command.loco
    <2>1. cached = Cache_get(cache, command.loco) /\ command.loco \in Loco
      BY <1>1 DEF CommandInv, CommandRest, MainOK
    <2> DEFINE l == command.loco
               x == Hash_find_entry(cache.packets, l)
    <2>2. /\ cache \in CacheOf(Loco, Block, CacheSize)
          /\ cache.packets \in HashOf(Loco, Block, CacheSize)
          /\ Reached(cache.packets) /\ KeptEntries = HashUsed(cache.packets)
      BY <1>1, InvCache, NotNullifying DEF Emptying
    <2>3. l \in Loco /\ x = Hash_find_entry(cache.packets, l)  BY <2>1
    <2> HIDE DEF l, x
    <2>4. x \in HashUsed(cache.packets) => cache.packets.entries[x].k = l
      BY <2>2, <2>3, Sizes, FitFinds DEF LocosFit
    <2>5. CASE x \in HashUsed(cache.packets)
      <3>1. Cache_get(cache, l) = EntryPacket(x)
        BY <2>2, <2>3, <2>5, Sizes, CacheHits DEF EntryPacket
      <3>2. heap[EntryPacket(x)] \in LocoMessage /\ heap[EntryPacket(x)].loco = l
        BY <1>1, <2>2, <2>4, <2>5, InvKept
      <3> QED  BY <2>1, <3>1, <3>2, MessageNotFree DEF l
    <2>6. CASE x \notin HashUsed(cache.packets)
      <3>1. Cache_get(cache, l) = NULL
        BY <2>2, <2>3, <2>6, Sizes, CacheMisses
      <3> QED  BY <2>1, <3>1 DEF l
    <2> QED  BY <2>5, <2>6
  <1>2. CommandInv => DumpIsStable  BY <1>1 DEF DumpIsStable
  <1> QED  BY <1>2, CommandInvariant, PTL

-----------------------------------------------------------------------------
(* THE POLICY *)

(* The variables of the policy, as ImplementsPolicy reads them. *)
LastSaid == [l \in Loco |-> IF InRota(l) THEN CmdOf(l) ELSE NULL]
ServedNow == IF track = Idle THEN NULL ELSE track
PendingNow == IF txQueue.count = 0 THEN NULL ELSE Content(Ring_front(txQueue))
HaltedNow == Content(stopPacket)

policyNow == <<LastSaid, Rota(cache), ServedNow, PendingNow, HaltedNow>>

(* What the policy remembers of a loco is what its entry points at. *)
LastKept ==
  /\ Rota(cache) = <<>> => LastSaid = [l \in Loco |-> NULL]
  /\ pc \notin Emptying
       => \A j \in HashUsed(cache.packets) :
            /\ cache.packets.entries[j].k \in Loco
            /\ LastSaid[cache.packets.entries[j].k] = heap[EntryPacket(j)].cmd
            /\ LastSaid[cache.packets.entries[j].k] # NULL
  /\ pc \notin Emptying
       => \A l \in Loco : l \notin Keys(cache) => LastSaid[l] = NULL

(* If the locos fit, the invariant says what the policy remembers. *)
LEMMA LastIs ==
  ASSUME LocosFit
  PROVE  CommandInv => LastKept
  <1> SUFFICES ASSUME CommandInv PROVE LastKept
    OBVIOUS
  <1>1. ASSUME Rota(cache) = <<>>  PROVE LastSaid = [l \in Loco |-> NULL]
    BY <1>1 DEF LastSaid, InRota
  <1>2. ASSUME NEW l \in Loco  PROVE InRota(l) <=> l \in Turns(cache)
    BY DEF InRota, Turns
  <1>3. ASSUME pc \notin Emptying
        PROVE  /\ Turns(cache) = Keys(cache) /\ Reached(cache.packets)
               /\ KeptEntries = HashUsed(cache.packets)
    <2>1. CacheSound(cache, Loco, Block, CacheSize) /\ Reached(cache.packets)
      BY <1>3, InvCache
    <2>2. Turns(cache) = Keys(cache)
      BY <2>1, Sizes, FitListed DEF LocosFit
    <2> QED  BY <1>3, <2>1, <2>2, NotNullifying DEF Emptying
  <1>4. ASSUME pc \notin Emptying, NEW j \in HashUsed(cache.packets)
        PROVE  /\ cache.packets.entries[j].k \in Loco
               /\ LastSaid[cache.packets.entries[j].k] = heap[EntryPacket(j)].cmd
               /\ LastSaid[cache.packets.entries[j].k] # NULL
    <2> DEFINE l == cache.packets.entries[j].k
    <2>1. l \in Loco  BY InvCache, Sizes, HashFields
    <2>2. l \in Turns(cache)  BY <1>3, <1>4 DEF Keys
    <2>3. Cache_get(cache, cache.packets.entries[j].k) = cache.packets.entries[j].v
      BY <1>3, <1>4, InvCache, Sizes, GetsKept
    <2>4. CmdOf(l) = heap[EntryPacket(j)].cmd
      BY <2>3 DEF CmdOf, EntryPacket
    <2>5. heap[EntryPacket(j)].cmd \in Cmd
      BY <1>3, <1>4, InvKept DEF LocoMessage
    <2>6. LastSaid[l] = CmdOf(l)
      BY <1>2, <2>1, <2>2 DEF LastSaid
    <2> QED  BY <2>1, <2>4, <2>5, <2>6, NullAssumption
  <1>5. ASSUME pc \notin Emptying, NEW l \in Loco, l \notin Keys(cache)
        PROVE  LastSaid[l] = NULL
    BY <1>2, <1>3, <1>5 DEF LastSaid
  <1> QED  BY <1>1, <1>4, <1>5 DEF LastKept

(* The same after a step. *)
LEMMA LastIsNext ==
  ASSUME LocosFit
  PROVE  CommandInv' => LastKept'
  BY LastIs, PTL

(* Nothing is forgotten or learnt while the packets kept stay. *)
LEMMA LastSame ==
  ASSUME LocosFit, CommandInv, CommandInv', pc \notin Emptying, pc' \notin Emptying,
         cache'.packets = cache.packets,
         \A j \in HashUsed(cache.packets) : heap'[EntryPacket(j)] = heap[EntryPacket(j)]
  PROVE  LastSaid' = LastSaid
  <1> DEFINE h == cache.packets
  <1>1. LastKept /\ LastKept'  BY LastIs, LastIsNext
  <1>2. Keys(cache)' = Keys(cache)  BY DEF Keys, HashUsed
  <1>3. ASSUME NEW l \in Loco  PROVE LastSaid'[l] = LastSaid[l]
    <2>1. CASE l \in Keys(cache)
      <3>1. PICK j \in HashUsed(h) : h.entries[j].k = l  BY <2>1 DEF Keys
      <3>2. LastSaid[l] = heap[EntryPacket(j)].cmd
        BY <1>1, <3>1 DEF LastKept
      <3>3. EntryPacket(j)' = EntryPacket(j)  BY DEF EntryPacket
      <3>4. LastSaid'[l] = heap'[EntryPacket(j)].cmd
        BY <1>1, <3>1, <3>3 DEF LastKept, HashUsed
      <3> QED  BY <3>1, <3>2, <3>4
    <2>2. CASE l \notin Keys(cache)
      BY <1>1, <1>2, <2>2 DEF LastKept
    <2> QED  BY <2>1, <2>2
  <1> QED  BY <1>3 DEF LastSaid

-----------------------------------------------------------------------------
(* The parser has taken free blocks: the track and the cache do not know.  *)
LEMMA ReadHides ==
  ASSUME LocosFit, CommandInv, CommandInv', pc = "read",
         UNCHANGED <<cache, txQueue, stopPacket, track>>, pc' \in {"read", "blink"},
         \A b \in Block : heap[b] # Free => heap'[b] = heap[b]
  PROVE  UNCHANGED policyNow
  <1>1. LastSaid' = LastSaid
    <2>1. KeptEntries = HashUsed(cache.packets)  BY NotNullifying
    <2>2. \A j \in HashUsed(cache.packets) :
             heap'[EntryPacket(j)] = heap[EntryPacket(j)]
      BY <2>1, InvKept, MessageNotFree
    <2>3. cache'.packets = cache.packets  OBVIOUS
    <2> QED  BY <2>2, <2>3, LastSame DEF Emptying
  <1>2. PendingNow' = PendingNow
    <2>1. CASE txQueue.count = 0  BY <2>1 DEF PendingNow
    <2>2. CASE txQueue.count # 0
      <3>1. QueueHead # NULL /\ QueueHead = Ring_front(txQueue)
        BY <2>2 DEF QueueHead, CommandInv, MemoryInv, HandTypeOK
      <3>2. Ring_front(txQueue) \in Block /\ heap[Ring_front(txQueue)] # Free
        BY <3>1, MessageNotFree DEF CommandInv, MemoryInv, Owned
      <3>3. Ring_front(txQueue)' = Ring_front(txQueue)
        BY DEF Ring_front
      <3> QED  BY <2>2, <3>1, <3>2, <3>3 DEF PendingNow, Content
    <2> QED  BY <2>1, <2>2
  <1>3. HaltedNow' = HaltedNow
    <2>1. stopPacket # NULL => stopPacket \in Block /\ heap[stopPacket] # Free
      BY MessageNotFree DEF CommandInv, MemoryInv, Owned
    <2> QED  BY <2>1 DEF HaltedNow, Content
  <1>4. Rota(cache)' = Rota(cache) /\ ServedNow' = ServedNow
    BY DEF Rota, RingSeq, RingSlot, ServedNow
  <1> QED  BY <1>1, <1>2, <1>3, <1>4 DEF policyNow

(* So neither line the parser allocates for is a step of the policy.       *)
LEMMA ReadPacketHides ==
  ASSUME LocosFit, CommandInv, CommandInv', NEW m \in Message, ReadPacket(m)
  PROVE  UNCHANGED policyNow
  <1>1. \A b \in Block : heap[b] # Free => heap'[b] = heap[b]
    BY ReadPacketHeap, InvCache DEF Forgets
  <1>2. /\ pc = "read" /\ pc' = "blink"
        /\ UNCHANGED <<cache, txQueue, stopPacket, track>>
    BY DEF ReadPacket
  <1> QED  BY <1>1, <1>2, ReadHides

LEMMA ReadRefusedHides ==
  ASSUME LocosFit, CommandInv, CommandInv', ReadRefused
  PROVE  UNCHANGED policyNow
  <1>1. \A b \in Block : heap[b] # Free => heap'[b] = heap[b]
    BY ReadRefusedHeap, InvCache DEF Forgets
  <1>2. /\ pc = "read" /\ pc' = "read"
        /\ UNCHANGED <<cache, txQueue, stopPacket, track>>
    BY DEF ReadRefused, mainVars
  <1> QED  BY <1>1, <1>2, ReadHides

(* A step that changes neither the cache nor a packet changes nothing the  *)
(* policy knows about the locos.                                           *)
LEMMA LastUntouched ==
  ASSUME cache' = cache, heap' = heap
  PROVE  LastSaid' = LastSaid /\ Rota(cache)' = Rota(cache)
  BY DEF LastSaid, InRota, CmdOf, Cache_get, Hash_get, Hash_find_entry, FirstStop,
         HashStops, HashProbe, Rota, RingSeq, RingSlot

(* A step of main that touches nothing shared is no step of the policy. *)
LEMMA QuietHides ==
  ASSUME cache' = cache, heap' = heap, txQueue' = txQueue,
         stopPacket' = stopPacket, track' = track
  PROVE  UNCHANGED policyNow
  BY LastUntouched DEF policyNow, ServedNow, PendingNow, HaltedNow, Content, Ring_front

(* main hands its packet over: the policy accepts a command. *)
LEMMA AddAccepts ==
  ASSUME CommandInv, AddPacket
  PROVE  /\ packet \in Block /\ heap[packet] \in Message
         /\ PendingNow = NULL /\ PendingNow' = heap[packet]
         /\ UNCHANGED <<LastSaid, Rota(cache), ServedNow, HaltedNow>>
  <1>1. /\ pc = "add" /\ txQueue' = Ring_push(txQueue, packet)
        /\ cache' = cache /\ heap' = heap /\ stopPacket' = stopPacket
        /\ track' = track
    BY DEF AddPacket, Scheduler_add_packet
  <1>2. txQueue.count = 0 /\ txQueue \in RingOf(Block \cup {NULL}, TxLen)
    BY <1>1 DEF CommandInv, MemoryInv, Drained, QueueShort, MemoryTypeOK
  <1>3. packet # NULL /\ packet \in Block /\ heap[packet] \in Message
    BY <1>1 DEF CommandInv, MemoryInv, HandTypeOK, Owned
  <1>4. txQueue'.count # 0 /\ Ring_front(txQueue') = packet
    <2>1. /\ txQueue'.buf = [txQueue.buf EXCEPT ![RingSlot(txQueue, 0)] = packet]
          /\ txQueue'.start = txQueue.start /\ txQueue'.size = txQueue.size
          /\ txQueue'.count # 0
      BY <1>1, <1>2, SizesAssumption DEF Ring_push, RingOf
    <2>2. /\ txQueue.start \in 0 .. TxLen - 1 /\ txQueue.size = TxLen
          /\ txQueue.buf \in [0 .. TxLen - 1 -> Block \cup {NULL}]
      BY <1>2 DEF RingOf
    <2>3. RingSlot(txQueue, 0) = txQueue.start
      BY <2>2, SizesAssumption DEF RingSlot
    <2> QED  BY <1>3, <2>1, <2>2, <2>3 DEF Ring_front
  <1>5. Ring_front(txQueue)' = Ring_front(txQueue')  BY DEF Ring_front
  <1>6. PendingNow = NULL /\ PendingNow' = heap[packet]
    BY <1>1, <1>2, <1>3, <1>4, <1>5 DEF PendingNow, Content
  <1>7. UNCHANGED <<LastSaid, Rota(cache), ServedNow, HaltedNow>>
    BY <1>1, LastUntouched DEF ServedNow, HaltedNow, Content
  <1> QED  BY <1>3, <1>6, <1>7

(* While main empties the cache nobody has a turn; no turns, nothing said. *)
EmptySaid ==
  /\ pc \in Emptying => Rota(cache) = <<>>
  /\ Rota(cache) = <<>> => LastSaid = [l \in Loco |-> NULL]

(* The invariant implies it. *)
LEMMA EmptyIs == CommandInv => EmptySaid
  BY NoTurns DEF EmptySaid, LastSaid, InRota

(* The same after a step. *)
LEMMA EmptyIsNext == CommandInv' => EmptySaid'
  BY EmptyIs, PTL

(* Ring_reset zeroes the count: for the track the cache is empty now, and  *)
(* the rest of the purge changes nothing.                                  *)
LEMMA PurgeForgets ==
  ASSUME CommandInv, CommandInv',
         ResetCount \/ ResetStart \/ DestroyEntry \/ NullifyEntry
  PROVE  /\ Rota(cache)' = <<>> /\ LastSaid' = [l \in Loco |-> NULL]
         /\ ~ ResetCount => Rota(cache) = <<>> /\ LastSaid = [l \in Loco |-> NULL]
         /\ UNCHANGED <<ServedNow, PendingNow, HaltedNow>>
  <1>1. /\ pc \in SysPhases /\ pc' \in Emptying /\ (~ ResetCount => pc \in Emptying)
        /\ txQueue' = txQueue /\ stopPacket' = stopPacket /\ track' = track
    BY DEF ResetCount, ResetStart, DestroyEntry, NullifyEntry, Emptying, SysPhases
  <1>2. EmptySaid /\ EmptySaid'  BY EmptyIs, EmptyIsNext
  <1>3. ~ ResetCount => Rota(cache) = <<>> /\ LastSaid = [l \in Loco |-> NULL]
    BY <1>1, <1>2 DEF EmptySaid
  <1>4. Rota(cache)' = <<>> /\ LastSaid' = [l \in Loco |-> NULL]
    BY <1>1, <1>2 DEF EmptySaid
  <1>5. PendingNow' = PendingNow
    BY <1>1 DEF PendingNow, CommandInv, MemoryInv, Drained, QueueShort
  <1>6. HaltedNow' = HaltedNow
    <2>1. CASE stopPacket = NULL  BY <1>1, <2>1 DEF HaltedNow, Content
    <2>2. CASE stopPacket # NULL
      <3>1. stopPacket \in Block /\ KeptEntries = {}
        BY <2>2 DEF CommandInv, MemoryInv, Owned
      <3>2. CASE DestroyEntry
        <4> DEFINE e == cache.packets.entries[i]
        <4>1. /\ pc = "destroy"
              /\ heap' = DCC_packet_destroy(heap, IF e = NULL THEN {} ELSE {e.v})
          BY <3>2 DEF DestroyEntry
        <4>2. i \in 0 .. CacheSize - 1
          BY <4>1 DEF CommandInv, MemoryInv, MemoryTypeOK
        <4>3. HashUsed(cache.packets) = {}  BY <3>1, <4>1, NotNullifying
        <4>4. e = NULL
          BY <4>2, <4>3, InvCache, Sizes, HashFields DEF HashUsed
        <4>5. heap'[stopPacket] = heap[stopPacket]
          BY <3>1, <4>1, <4>4 DEF DCC_packet_destroy
        <4> QED  BY <1>1, <4>5 DEF HaltedNow, Content
      <3>3. CASE ResetCount \/ ResetStart \/ NullifyEntry
        <4>1. heap' = heap  BY <3>3 DEF ResetCount, ResetStart, NullifyEntry
        <4> QED  BY <1>1, <4>1 DEF HaltedNow, Content
      <3> QED  BY <3>2, <3>3
    <2> QED  BY <2>1, <2>2
  <1>7. ServedNow' = ServedNow  BY <1>1 DEF ServedNow
  <1> QED  BY <1>3, <1>4, <1>5, <1>6, <1>7

-----------------------------------------------------------------------------
(* The interrupt with a packet in the queue: what it finds there. *)
LEMMA PendingIsHead ==
  ASSUME CommandInv, TransmitStop \/ TransmitLoco
  PROVE  /\ PendingNow = heap[QueueHead] /\ QueueHead # NULL /\ QueueHead \in Block
         /\ heap[QueueHead] \in Message
         /\ PendingNow' = NULL
         /\ track' = heap[QueueHead] /\ ServedNow' = heap[QueueHead]
  <1>1. txQueue.count > 0  BY DEF TransmitStop, TransmitLoco
  <1>2. /\ QueueHead = Ring_front(txQueue) /\ QueueHead # NULL /\ QueueHead \in Block
        /\ heap[QueueHead] \in Message /\ Ring_pop(txQueue).count = 0
    BY <1>1, TransmitContext DEF CommandInv
  <1>3. txQueue' = Ring_pop(txQueue) /\ track' = heap[Ring_front(txQueue)]
    BY DEF TransmitStop, TransmitLoco
  <1>4. PendingNow = heap[QueueHead]
    BY <1>1, <1>2 DEF PendingNow, Content
  <1>5. PendingNow' = NULL  BY <1>2, <1>3 DEF PendingNow
  <1>6. ServedNow' = heap[QueueHead]
    BY <1>2, <1>3, NullIsNoMessage DEF ServedNow
  <1> QED  BY <1>2, <1>3, <1>4, <1>5, <1>6

(* A broadcast stop from the queue: the policy sends it and forgets. *)
LEMMA TransmitStopSends ==
  ASSUME CommandInv, CommandInv', TransmitStop
  PROVE  Policy!SendStop
  <1>1. /\ PendingNow = heap[QueueHead] /\ QueueHead # NULL /\ QueueHead \in Block
        /\ PendingNow' = NULL /\ ServedNow' = heap[QueueHead]
    BY PendingIsHead
  <1>2. /\ Rota(cache') = <<>> /\ heap[QueueHead] \in Stop
        /\ stopPacket' = QueueHead /\ KeptEntries = HashUsed(cache.packets)
    BY StopEmpties
  <1>3. Rota(cache)' = Rota(cache')  BY DEF Rota, RingSeq, RingSlot
  <1>4. LastSaid' = [l \in Loco |-> NULL]
    BY <1>2, <1>3, EmptyIsNext DEF EmptySaid
  <1>5. heap'[QueueHead] = heap[QueueHead]
    <2>1. heap' = DCC_packet_destroy(heap,
                    StopPacketFreed \cup Cache_clear_frees(cache))
      BY DEF TransmitStop
    <2>2. QueueHead \notin StopPacketFreed
      BY <1>1 DEF StopPacketFreed, CommandInv, MemoryInv, Owned
    <2>3. QueueHead \notin Cache_clear_frees(cache)
      BY <1>2, InvKept DEF Cache_clear_frees, Cached, EntryPacket
    <2> QED  BY <1>1, <2>1, <2>2, <2>3 DEF DCC_packet_destroy
  <1>6. HaltedNow' = heap[QueueHead]
    BY <1>1, <1>2, <1>5 DEF HaltedNow, Content
  <1> QED
    BY <1>1, <1>2, <1>3, <1>4, <1>6
       DEF Policy!SendStop, Policy!Forget, LastSaid, ServedNow, PendingNow, HaltedNow

(* The loco of the packet sent is told it, and the others what they were   *)
(* told before.                                                            *)
LEMMA TransmitLocoTells ==
  ASSUME LocosFit, CommandInv, CommandInv', TransmitLoco, pc' = pc,
         NEW l, l = heap[QueueHead].loco
  PROVE  /\ l \in Loco
         /\ LastSaid' = [LastSaid EXCEPT ![l] = heap[QueueHead].cmd]
         /\ Rota(cache)' = IF LastSaid[l] = NULL THEN Append(Rota(cache), l)
                           ELSE Rota(cache)
  <1> DEFINE x == Hash_find_entry(cache.packets, l)
             u == HashUsed(cache.packets)
             e == cache.packets.entries
             f == cache'.packets.entries
  <1>1. /\ pc \in {"read", "blink", "add"} /\ l \in Loco
        /\ Rota(cache') = IF x \in u THEN Rota(cache) ELSE Append(Rota(cache), l)
        /\ HashUsed(cache'.packets) = u \cup {x}
        /\ f[x].k = l /\ f[x].v = QueueHead
        /\ heap'[QueueHead] = heap[QueueHead]
        /\ \A j \in u : j # x => /\ f[j] = e[j] /\ e[j].k # l
                                 /\ heap'[EntryPacket(j)] = heap[EntryPacket(j)]
    BY LocoCached
  <1>2. x \in u => e[x].k = l
    <2>1. cache.packets \in HashOf(Loco, Block, CacheSize) /\ Reached(cache.packets)
      BY <1>1, InvCache DEF Emptying
    <2> QED  BY <1>1, <2>1, Sizes, FitFinds DEF LocosFit
  <1> HIDE DEF x
  <1>3. LastKept /\ LastKept'  BY LastIs, LastIsNext
  <1>4. /\ \A j \in u : /\ LastSaid[e[j].k] = heap[EntryPacket(j)].cmd
                        /\ LastSaid[e[j].k] # NULL
        /\ \A m \in Loco : m \notin Keys(cache) => LastSaid[m] = NULL
    BY <1>1, <1>3 DEF LastKept, Emptying
  <1>5. /\ \A j \in u \cup {x} : LastSaid'[f[j].k] = heap'[f[j].v].cmd
        /\ \A m \in Loco : m \notin Keys(cache)' => LastSaid'[m] = NULL
    BY <1>1, <1>3 DEF LastKept, Emptying, EntryPacket
  <1>6. /\ \A m \in Loco : m \notin Keys(cache) <=> \A j \in u : e[j].k # m
        /\ \A m \in Loco : m \notin Keys(cache)' <=> \A j \in u \cup {x} : f[j].k # m
    BY <1>1 DEF Keys
  <1>7. \A j \in u : EntryPacket(j) = e[j].v  BY DEF EntryPacket
  <1>8. LastSaid[l] = NULL <=> x \notin u
    BY <1>1, <1>2, <1>4, <1>6
  <1> HIDE DEF u, e, f
  <1>9. ASSUME NEW m \in Loco
        PROVE  LastSaid'[m] = IF m = l THEN heap[QueueHead].cmd ELSE LastSaid[m]
    <2>1. CASE m = l  BY <1>1, <1>5, <2>1
    <2>2. ASSUME m # l, NEW j \in u, e[j].k = m
          PROVE  LastSaid'[m] = LastSaid[m]
      <3>1. j # x  BY <1>2, <2>2
      <3>2. f[j] = e[j] /\ heap'[e[j].v] = heap[e[j].v]
        BY <1>1, <1>7, <3>1
      <3> QED  BY <1>4, <1>5, <1>7, <2>2, <3>2
    <2>3. ASSUME m # l, \A j \in u : e[j].k # m
          PROVE  LastSaid'[m] = LastSaid[m]
      <3>1. \A j \in u \cup {x} : f[j].k # m  BY <1>1, <2>3
      <3> QED  BY <1>4, <1>5, <1>6, <2>3, <3>1
    <2> QED  BY <2>1, <2>2, <2>3
  <1>10. LastSaid' = [LastSaid EXCEPT ![l] = heap[QueueHead].cmd]
    BY <1>1, <1>9 DEF LastSaid
  <1>11. Rota(cache)' = Rota(cache')  BY DEF Rota, RingSeq, RingSlot
  <1> QED  BY <1>1, <1>8, <1>10, <1>11

(* A loco's packet from the queue: the policy sends and records it. *)
LEMMA TransmitLocoSends ==
  ASSUME LocosFit, CommandInv, CommandInv', TransmitLoco, pc' = pc
  PROVE  \E l \in Loco, c \in Cmd : Policy!SendCommand(l, c)
  <1> DEFINE l == heap[QueueHead].loco
             c == heap[QueueHead].cmd
  <1>1. /\ PendingNow = heap[QueueHead] /\ PendingNow' = NULL
        /\ ServedNow' = heap[QueueHead]
    BY PendingIsHead
  <1>2. heap[QueueHead] \in LocoMessage /\ stopPacket' = NULL
    BY LocoCached
  <1>3. l \in Loco /\ c \in Cmd /\ heap[QueueHead] = [loco |-> l, cmd |-> c]
    BY <1>2 DEF LocoMessage
  <1>4. HaltedNow' = NULL  BY <1>2 DEF HaltedNow, Content
  <1>5. /\ LastSaid' = [LastSaid EXCEPT ![l] = c]
        /\ Rota(cache)' = IF LastSaid[l] = NULL THEN Append(Rota(cache), l)
                          ELSE Rota(cache)
    BY TransmitLocoTells
  <1> HIDE DEF l, c
  <1>6. Policy!SendCommand(l, c)
    BY <1>1, <1>3, <1>4, <1>5
       DEF Policy!SendCommand, Policy!Record, LastSaid, ServedNow, PendingNow, HaltedNow
  <1> QED  BY <1>3, <1>6

(* The stop packet is resent. *)
LEMMA ResendRepeats ==
  ASSUME CommandInv, ResendStop
  PROVE  Policy!RepeatStop
  <1>1. /\ txQueue.count <= 0 /\ stopPacket # NULL /\ track' = heap[stopPacket]
        /\ cache' = cache /\ heap' = heap /\ txQueue' = txQueue
        /\ stopPacket' = stopPacket
    BY DEF ResendStop
  <1>2. txQueue.count = 0
    BY <1>1 DEF CommandInv, MemoryInv, Drained, QueueShort
  <1>3. heap[stopPacket] \in Stop
    BY <1>1 DEF CommandInv, MemoryInv, Owned
  <1>4. heap[stopPacket] # NULL /\ heap[stopPacket] # Idle
    BY <1>3, NullIsNoMessage
  <1>5. LastSaid' = LastSaid /\ Rota(cache)' = Rota(cache)
    BY <1>1, LastUntouched
  <1>6. /\ PendingNow = NULL /\ PendingNow' = NULL
        /\ HaltedNow = heap[stopPacket] /\ HaltedNow' = heap[stopPacket]
        /\ ServedNow' = heap[stopPacket]
    BY <1>1, <1>2, <1>4 DEF PendingNow, HaltedNow, ServedNow, Content
  <1> QED
    BY <1>4, <1>5, <1>6
       DEF Policy!RepeatStop, LastSaid, ServedNow, PendingNow, HaltedNow

(* Whose turn it is moves on; what the locos were told stays. *)
LEMMA IdleRotates ==
  ASSUME LocosFit, CommandInv, CommandInv', RefreshLoco \/ SendIdle, pc' = pc
  PROVE  /\ LastSaid' = LastSaid
         /\ PendingNow = NULL /\ PendingNow' = NULL
         /\ HaltedNow = NULL /\ HaltedNow' = NULL
         /\ Rota(cache) = <<>> => Rota(cache)' = <<>>
         /\ Rota(cache) # <<>>
              => /\ pc \notin Emptying
                 /\ Rota(cache)' = Append(Tail(Rota(cache)), Head(Rota(cache)))
  <1>1. /\ txQueue.count <= 0 /\ stopPacket = NULL /\ txQueue' = txQueue
        /\ stopPacket' = stopPacket /\ cache' = Cache_rotated(cache)
    BY DEF RefreshLoco, SendIdle
  <1>2. txQueue.count = 0
    BY <1>1 DEF CommandInv, MemoryInv, Drained, QueueShort
  <1>3. PendingNow = NULL /\ PendingNow' = NULL /\ HaltedNow = NULL /\ HaltedNow' = NULL
    BY <1>1, <1>2 DEF PendingNow, HaltedNow, Content
  <1>4. cache'.packets = cache.packets /\ heap' = heap
    BY IdleCache
  <1>5. EmptySaid /\ EmptySaid'  BY EmptyIs, EmptyIsNext
  <1>6. CASE pc \in Emptying
    <2>1. /\ Rota(cache) = <<>> /\ LastSaid = [l \in Loco |-> NULL]
          /\ Rota(cache)' = <<>> /\ LastSaid' = [l \in Loco |-> NULL]
      BY <1>5, <1>6 DEF EmptySaid
    <2> QED  BY <1>3, <2>1
  <1>7. CASE pc \notin Emptying
    <2>1. LastSaid' = LastSaid  BY <1>4, <1>7, LastSame
    <2>2. CacheSound(cache, Loco, Block, CacheSize)  BY <1>7, InvCache
    <2>3. /\ Rota(cache) = <<>> => Rota(Cache_rotated(cache)) = <<>>
          /\ Rota(cache) # <<>>
               => Rota(Cache_rotated(cache)) = Append(Tail(Rota(cache)), Head(Rota(cache)))
      BY <2>2, Sizes, RotateSound
    <2>4. Rota(cache)' = Rota(cache')  BY DEF Rota, RingSeq, RingSlot
    <2> QED  BY <1>1, <1>3, <1>7, <2>1, <2>3, <2>4
  <1> QED  BY <1>6, <1>7

(* If somebody has a turn, the packet of the next one is what it was told. *)
LEMMA NextIsTold ==
  ASSUME LocosFit, CommandInv, Rota(cache) # <<>>
  PROVE  LET a == Head(Rota(cache))
             p == Cache_get_next_packet(cache)
         IN  /\ a \in Loco /\ p # NULL
             /\ heap[p] = [loco |-> a, cmd |-> LastSaid[a]]
             /\ heap[p] \in LocoMessage
  <1> DEFINE a == Head(Rota(cache))
             p == Cache_get_next_packet(cache)
  <1>1. pc \notin Emptying  BY NoTurns
  <1>2. /\ CacheSound(cache, Loco, Block, CacheSize)
        /\ Reached(cache.packets) /\ KeptEntries = HashUsed(cache.packets)
    BY <1>1, InvCache, NotNullifying DEF Emptying
  <1>3. a \in Loco /\ p = Cache_get(cache, a)
    BY <1>2, Sizes, NextPacket
  <1>4. a \in Keys(cache)
    <2>1. Rota(cache) \in Seq(Loco \cup {0})  BY InvCache, Sizes, CacheFields
    <2>2. a = Rota(cache)[1] /\ 1 \in 1 .. Len(Rota(cache))  BY <2>1
    <2>3. a \in Turns(cache)  BY <2>2 DEF Turns
    <2>4. Turns(cache) = Keys(cache)  BY <1>2, Sizes, FitListed DEF LocosFit
    <2> QED  BY <2>3, <2>4
  <1>5. PICK j \in HashUsed(cache.packets) : cache.packets.entries[j].k = a
    BY <1>4 DEF Keys
  <1>6. Cache_get(cache, cache.packets.entries[j].k) = cache.packets.entries[j].v
    <2>1. /\ Loco \in SUBSET Nat /\ CacheSize \in Nat \ {0} /\ NULL \notin Block
          /\ cache \in CacheOf(Loco, Block, CacheSize) /\ Reached(cache.packets)
      BY <1>2, InvCache, Sizes
    <2>2. j \in HashUsed(cache.packets)  OBVIOUS
    <2> HIDE DEF a, p
    <2> QED  BY <2>1, <2>2, GetsKept
  <1>7. p = EntryPacket(j)  BY <1>3, <1>5, <1>6 DEF EntryPacket
  <1>8. heap[p] \in LocoMessage /\ heap[p].loco = a /\ p \in Block
    BY <1>2, <1>5, <1>7, InvKept
  <1>9. LastSaid[a] = heap[p].cmd
    BY <1>1, <1>5, <1>7, LastIs DEF LastKept
  <1>10. heap[p] = [loco |-> a, cmd |-> LastSaid[a]]
    BY <1>8, <1>9 DEF LocoMessage
  <1> QED  BY <1>3, <1>8, <1>10, Sizes

(* Nothing new and no stop: the next loco is told again, or nobody is. *)
LEMMA RefreshRepeats ==
  ASSUME LocosFit, CommandInv, CommandInv', RefreshLoco \/ SendIdle, pc' = pc
  PROVE  Policy!RepeatCommand
  <1>1. /\ LastSaid' = LastSaid
        /\ PendingNow = NULL /\ PendingNow' = NULL
        /\ HaltedNow = NULL /\ HaltedNow' = NULL
    BY IdleRotates
  <1>2. CASE Rota(cache) # <<>>
    <2> DEFINE a == Head(Rota(cache))
               p == Cache_get_next_packet(cache)
    <2>1. /\ p # NULL /\ heap[p] = [loco |-> a, cmd |-> LastSaid[a]]
          /\ heap[p] \in LocoMessage
      BY <1>2, NextIsTold
    <2>2. track' = heap[p]  BY <2>1 DEF RefreshLoco, SendIdle
    <2>3. ServedNow' = [loco |-> a, cmd |-> LastSaid[a]]
      BY <2>1, <2>2, NullIsNoMessage, MessageNotFree DEF ServedNow
    <2>4. Rota(cache)' = Append(Tail(Rota(cache)), Head(Rota(cache)))
      BY <1>2, IdleRotates
    <2> QED
      BY <1>1, <1>2, <2>3, <2>4
         DEF Policy!RepeatCommand, Policy!Serve, LastSaid, ServedNow, PendingNow,
             HaltedNow
  <1>3. CASE Rota(cache) = <<>>
    <2>1. Cache_get_next_packet(cache) = NULL
      <3>1. Len(Rota(cache)) = cache.addresses.count
        BY InvCache, Sizes, CacheFields
      <3> QED  BY <1>3, <3>1 DEF Cache_get_next_packet
    <2>2. track' = Idle  BY <2>1 DEF RefreshLoco, SendIdle
    <2>3. ServedNow' = NULL  BY <2>2 DEF ServedNow
    <2>4. Rota(cache)' = <<>>  BY <1>3, IdleRotates
    <2> QED
      BY <1>1, <1>3, <2>3, <2>4
         DEF Policy!RepeatCommand, Policy!ServeNothing, LastSaid, ServedNow,
             PendingNow, HaltedNow
  <1> QED  BY <1>2, <1>3

-----------------------------------------------------------------------------
(* Each step is one of the policy's, or changes nothing the policy knows. *)
LEMMA StepPolicy ==
  ASSUME LocosFit, CommandInv, CommandInv', [StationNext]_vars
  PROVE  [Policy!PolicyNext]_(Policy!policyVars)
  <1>1. UNCHANGED policyNow => UNCHANGED Policy!policyVars
    BY DEF policyNow, LastSaid, ServedNow, PendingNow, HaltedNow, Policy!policyVars,
           Policy!registerVars
  <1>2. ASSUME NEW m \in Message, ReadPacket(m)  PROVE UNCHANGED policyNow
    BY <1>2, ReadPacketHides
  <1>3. CASE ReadRefused  BY <1>1, <1>3, ReadRefusedHides
  <1>4. CASE \/ ReadClear \/ BlinkDone \/ ReportSize \/ PrintPurged \/ LookUp \/ Dump
             \/ UNCHANGED vars \/ \E l \in Loco : ReadShow(l)
    <2>1. /\ cache' = cache /\ heap' = heap /\ txQueue' = txQueue
          /\ stopPacket' = stopPacket /\ track' = track
      BY <1>4 DEF ReadClear, BlinkDone, ReportSize, PrintPurged, LookUp, Dump,
                  ReadShow, vars, schedulerVars
    <2> QED  BY <1>1, <2>1, QuietHides
  <1>5. CASE AddPacket
    <2>1. /\ heap[packet] \in Message
          /\ PendingNow = NULL /\ PendingNow' = heap[packet]
          /\ UNCHANGED <<LastSaid, Rota(cache), ServedNow, HaltedNow>>
      BY <1>5, AddAccepts
    <2>2. Policy!Accept(heap[packet])
      BY <2>1 DEF Policy!Accept, Policy!registerVars, LastSaid, ServedNow, PendingNow,
                  HaltedNow
    <2> QED  BY <2>1, <2>2 DEF Policy!PolicyNext, Message, LocoMessage
  <1>6. CASE ResetCount \/ ResetStart \/ DestroyEntry \/ NullifyEntry
    <2>1. /\ Rota(cache)' = <<>> /\ LastSaid' = [l \in Loco |-> NULL]
          /\ UNCHANGED <<ServedNow, PendingNow, HaltedNow>>
      BY <1>6, PurgeForgets
    <2>2. Policy!Purge
      BY <2>1 DEF Policy!Purge, Policy!Empty, Policy!Forget, LastSaid, ServedNow,
                  PendingNow, HaltedNow
    <2> QED  BY <2>2 DEF Policy!PolicyNext
  <1>7. CASE Tick
    <2>1. pc' = pc  BY <1>7 DEF Tick
    <2>2. CASE TransmitStop
      BY <2>2, TransmitStopSends DEF Policy!PolicyNext
    <2>3. CASE TransmitLoco
      BY <2>1, <2>3, TransmitLocoSends DEF Policy!PolicyNext
    <2>4. CASE ResendStop
      BY <2>4, ResendRepeats DEF Policy!PolicyNext
    <2>5. CASE RefreshLoco \/ SendIdle
      BY <2>1, <2>5, RefreshRepeats DEF Policy!PolicyNext
    <2> QED  BY <1>7, <2>2, <2>3, <2>4, <2>5 DEF Tick, Timer0
  <1> QED
    BY <1>1, <1>2, <1>4, <1>5, <1>6, <1>7, <1>3
       DEF StationNext, ReadCommand, MainStep, Purge

(* Switched on, the station knows nothing and has sent nothing. *)
LEMMA InitPolicy ==
  ASSUME StationInit
  PROVE  Policy!PolicyInit
  <1>1. Rota(cache) = <<>>
    BY Sizes, CreateSound DEF StationInit, Scheduler_module_init
  <1>2. LastSaid = [l \in Loco |-> NULL]
    BY <1>1 DEF LastSaid, InRota
  <1>3. /\ track = NULL /\ stopPacket = NULL /\ txQueue.count = 0
    BY DEF StationInit, Scheduler_module_init, Ring_create, Ring_reset
  <1>4. ServedNow = NULL /\ PendingNow = NULL /\ HaltedNow = NULL
    BY <1>3 DEF ServedNow, PendingNow, HaltedNow, Content
  <1> QED
    BY <1>1, <1>2, <1>4
       DEF Policy!PolicyInit, Policy!RegisterInit, LastSaid, ServedNow, PendingNow,
           HaltedNow

(* If the locos fit the cache, the track sees what RefreshPolicy says,     *)
(* interrupts and system commands interleaved as they may: a new command   *)
(* first, a stop until a loco is commanded, else the locos in turns.       *)
THEOREM StationIsPolicy ==
  ASSUME LocosFit
  PROVE  StationSpec => ImplementsPolicy
  <1>1. StationInit => Policy!PolicyInit  BY InitPolicy
  <1>2. CommandInv /\ CommandInv' /\ [StationNext]_vars
          => [Policy!PolicyNext]_(Policy!policyVars)
    BY StepPolicy
  <1> QED  BY <1>1, <1>2, CommandInvariant, PTL
    DEF StationSpec, ImplementsPolicy, Policy!PolicySpec

=============================================================================
