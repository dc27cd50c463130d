------------------------------- MODULE Packets -------------------------------
(***************************************************************************)
(* The packets of cs/dcc.c and the heap they live in, as far as the cache  *)
(* and the scheduler look into them: a packet is a broadcast stop or says  *)
(* one thing to one loco.  A pointer is a block; a block that holds no     *)
(* packet is Free.                                                         *)
(***************************************************************************)
EXTENDS Integers

CONSTANTS Loco,       \* the addresses in use, as DCC_get_address returns them
          Cmd,        \* what can be said to a loco
          Stop,       \* the packets DCC_is_broadcast_stop recognises
          Block,      \* the heap
          Free        \* what a block holds that is not allocated

ASSUME LocoAssumption == Loco \subseteq Nat

LocoMessage == [loco : Loco, cmd : Cmd]
Message == LocoMessage \cup Stop

ASSUME MessageAssumption == LocoMessage \cap Stop = {} /\ Free \notin Message

DCC_is_broadcast_stop(m) == m \in Stop

(* DCC_packet_create: a block of malloc's choice, filled by the parser. *)
CreatePacket(heap, b, m) == [heap EXCEPT ![b] = m]

DCC_packet_destroy(heap, blocks) ==
  [b \in Block |-> IF b \in blocks THEN Free ELSE heap[b]]

Allocated(heap) == {b \in Block : heap[b] # Free}

=============================================================================
