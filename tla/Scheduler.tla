------------------------------ MODULE Scheduler ------------------------------
(***************************************************************************)
(* The packet scheduler of cs/scheduler.c: the queue main pushes new       *)
(* packets into, and the Timer0 interrupt that decides 115 times a second  *)
(* what goes to the track.  An interrupt handler is one step: nothing runs *)
(* while it does.                                                          *)
(***************************************************************************)
EXTENDS Cache, Packets

CONSTANTS CacheSize,   \* CACHE_ADDR_SIZE
          TxLen,       \* SCHEDULER_TX_QUEUE_LEN
          Idle         \* Scheduler_idle_packet

ASSUME SizesAssumption == CacheSize \in Nat \ {0} /\ TxLen \in Nat \ {0}
ASSUME NullAssumption == /\ NULL \notin Block \cup Cmd /\ {NULL, Idle} \cap Message = {}
                         /\ NULL \notin [k : Loco, v : Block]

VARIABLES cache,       \* Cache_addresses and Cache_packets
          heap,        \* what each block holds
          txQueue,     \* Scheduler_tx_queue
          stopPacket,  \* Scheduler_stop_packet
          track        \* what Signal_send was given last, NULL before that

schedulerVars == <<cache, heap, txQueue, stopPacket, track>>

Scheduler_module_init ==
  /\ cache = Cache_module_init(CacheSize)
  /\ heap = [b \in Block |-> Free]
  /\ txQueue = Ring_create(TxLen, [i \in 0 .. TxLen - 1 |-> NULL])
  /\ stopPacket = NULL
  /\ track = NULL

(* Mutant: nothing is queued while a stop is in force. *)
AddUnlessStopped(p) ==
  txQueue' = IF stopPacket = NULL THEN Ring_push(txQueue, p) ELSE txQueue

(* The push runs with interrupts off.  It does not look for room. *)
Scheduler_add_packet(p) == txQueue' = Ring_push(txQueue, p)

-----------------------------------------------------------------------------
(* Mutant: the old stop packet is not destroyed. *)
StopPacketKept == {}

(* The stop packet the arrival of a new packet destroys. *)
StopPacketFreed == {stopPacket} \ {NULL}

(* Mutant: a stop leaves the cache as it was. *)
TransmitStopOnly ==
  LET p == Ring_front(txQueue)
  IN  /\ txQueue.count > 0
      /\ DCC_is_broadcast_stop(heap[p])
      /\ track' = heap[p]
      /\ txQueue' = Ring_pop(txQueue)
      /\ stopPacket' = p
      /\ heap' = DCC_packet_destroy(heap, StopPacketFreed)
      /\ UNCHANGED cache

(* ISR(TIMER0_COMPA_vect) by case.  A new broadcast stop: it is kept, and  *)
(* the cache is emptied.                                                   *)
TransmitStop ==
  LET p == Ring_front(txQueue)
  IN  /\ txQueue.count > 0
      /\ DCC_is_broadcast_stop(heap[p])
      /\ track' = heap[p]
      /\ txQueue' = Ring_pop(txQueue)
      /\ stopPacket' = p
      /\ cache' = Cache_clear(cache)
      /\ heap' = DCC_packet_destroy(heap,
                   StopPacketFreed \cup Cache_clear_frees(cache))

(* Any other new packet: it ends a stop, and is cached. *)
TransmitLoco ==
  LET p == Ring_front(txQueue)
  IN  /\ txQueue.count > 0
      /\ ~ DCC_is_broadcast_stop(heap[p])
      /\ track' = heap[p]
      /\ txQueue' = Ring_pop(txQueue)
      /\ stopPacket' = NULL
      /\ cache' = Cache_update(cache, heap[p].loco, p)
      /\ heap' = DCC_packet_destroy(heap,
                   StopPacketFreed \cup Cache_update_frees(cache, heap[p].loco))

(* Nothing new, and a stop is in force. *)
ResendStop ==
  /\ txQueue.count <= 0
  /\ stopPacket # NULL
  /\ track' = heap[stopPacket]
  /\ UNCHANGED <<cache, heap, txQueue, stopPacket>>

(* Nothing new: the next loco of the cache is told again. *)
RefreshLoco ==
  LET p == Cache_get_next_packet(cache)
  IN  /\ txQueue.count <= 0
      /\ stopPacket = NULL
      /\ p # NULL
      /\ track' = heap[p]
      /\ cache' = Cache_rotated(cache)
      /\ UNCHANGED <<heap, txQueue, stopPacket>>

(* Mutant: the idle packet does not ask whether a stop is in force. *)
IdleAnyway ==
  /\ txQueue.count <= 0
  /\ Cache_get_next_packet(cache) = NULL
  /\ track' = Idle
  /\ cache' = Cache_rotated(cache)
  /\ UNCHANGED <<heap, txQueue, stopPacket>>

(* Nothing new and nothing cached. *)
SendIdle ==
  /\ txQueue.count <= 0
  /\ stopPacket = NULL
  /\ Cache_get_next_packet(cache) = NULL
  /\ track' = Idle
  /\ cache' = Cache_rotated(cache)
  /\ UNCHANGED <<heap, txQueue, stopPacket>>

Timer0 == TransmitStop \/ TransmitLoco \/ ResendStop \/ RefreshLoco \/ SendIdle

=============================================================================
