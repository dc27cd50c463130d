------------------------------ MODULE LocoCache ------------------------------
(***************************************************************************)
(* The refresh cache under the calls the scheduler and the system commands *)
(* make: a packet fresh from the parser is stored, the next packet to      *)
(* refresh is fetched and sent, the cache is emptied.  Each call is one    *)
(* step here; module Station takes the emptying apart.                     *)
(***************************************************************************)
EXTENDS Cache, Packets

CONSTANT CacheSize    \* CACHE_ADDR_SIZE

ASSUME CacheSizeAssumption == CacheSize \in Nat \ {0}
ASSUME CacheNullAssumption == /\ NULL \notin Block \cup Cmd
                              /\ NULL \notin [k : Loco, v : Block]

VARIABLES cache,      \* Cache_addresses and Cache_packets
          heap,       \* what each block holds
          served,     \* what Cache_get_next_packet's result held, or NULL
          given       \* the last command each loco was given (auxiliary)

cacheVars == <<cache, heap, served, given>>

CacheInit == /\ cache = Cache_module_init(CacheSize)
             /\ heap = [b \in Block |-> Free]
             /\ served = NULL
             /\ given = [l \in Loco |-> NULL]

Update(l, c) ==
  \E b \in Block :
    /\ heap[b] = Free
    /\ heap' = CreatePacket(
                 DCC_packet_destroy(heap, Cache_update_frees(cache, l)),
                 b, [loco |-> l, cmd |-> c])
    /\ cache' = Cache_update(cache, l, b)
    /\ given' = [given EXCEPT ![l] = c]
    /\ UNCHANGED served

GetNext ==
  LET p == Cache_get_next_packet(cache)
  IN  /\ served' = IF p = NULL THEN NULL ELSE heap[p]
      /\ cache' = Cache_rotated(cache)
      /\ UNCHANGED <<heap, given>>

Clear == /\ heap' = DCC_packet_destroy(heap, Cache_clear_frees(cache))
         /\ cache' = Cache_clear(cache)
         /\ UNCHANGED <<served, given>>

CacheNext == \/ \E l \in Loco, c \in Cmd : Update(l, c)
             \/ GetNext
             \/ Clear

CacheSpec == CacheInit /\ [][CacheNext]_cacheVars

-----------------------------------------------------------------------------
LastMessage(l) == [loco |-> l, cmd |-> given[l]]

(* TYPE: the rings, the table and the heap hold what they should. *)
CacheTypeOK == /\ cache \in CacheOf(Loco, Block, CacheSize)
               /\ heap \in [Block -> Message \cup {Free}]
               /\ served \in [loco : Loco, cmd : Cmd] \cup {NULL}
               /\ given \in [Loco -> Cmd \cup {NULL}]

(* However many locos there are, the address ring never holds more turns   *)
(* than there are packets nor two for one loco: Cache_update pushes into a *)
(* ring that does not check for room, on the word of the hash table alone. *)
RotaBounded == RotaCounts(cache)

(* A loco whose packet is in the table is found there by Hash_find_entry,  *)
(* after any history of collisions and evictions.                          *)
ProbingFinds == EntriesFound(cache)

(* Exactly the packets the table points at are allocated, each from one    *)
(* entry: nothing leaks, nothing is freed twice, nothing dangles.          *)
NothingLeaks ==
  /\ Allocated(heap) = Cached(cache)
  /\ Cardinality(HashUsed(cache.packets)) = Cardinality(Cached(cache))

(* What is kept for a loco is its last command, and nothing else is ever   *)
(* kept: more locos than entries make the cache forget, never remember     *)
(* an older command.                                                       *)
KeptIsLast ==
  \A i \in HashUsed(cache.packets) :
    LET e == cache.packets.entries[i] IN heap[e.v] = LastMessage(e.k)

(* While the locos fit, the cache is the register cache.h describes. *)
CmdOf(l) == LET p == Cache_get(cache, l) IN IF p = NULL THEN NULL ELSE heap[p].cmd

Register == INSTANCE LocoRegister
              WITH last <- [l \in Loco |-> CmdOf(l)], rota <- Rota(cache),
                   None <- NULL

ImplementsRegister == Register!RegisterSpec

-----------------------------------------------------------------------------
(* cache.h:9, "Store a list of active locos": the locos whose packets are  *)
(* kept are the ones that get turns.                                       *)
ListsActiveLocos ==
  {cache.packets.entries[i].k : i \in HashUsed(cache.packets)}
    = {Rota(cache)[i] : i \in 1 .. Len(Rota(cache))}

(* sys.c:169, "no cached packet for loco with address": the packet         *)
(* Cache_get returns for a loco is that loco's.                            *)
GetFindsOwnPacket ==
  \A l \in Loco : LET p == Cache_get(cache, l)
                  IN  p # NULL => heap[p].loco = l

=============================================================================
