-------------------------------- MODULE Cache --------------------------------
(***************************************************************************)
(* The refresh cache of cs/cache.c, as operators on a record: addresses,   *)
(* the ring of the locos whose turn it will be, and packets, the hash      *)
(* table from a loco's address to the packet it was sent last (a pointer). *)
(* The operators named ..._frees are the packets a call destroys.          *)
(***************************************************************************)
EXTENDS Ring, Hash

(* The slots of the ring hold the integers malloc left there; 0 stands for *)
(* them, and is never an address where a run depends on the difference.    *)
Cache_module_init(n) ==
  [addresses |-> Ring_create(n, [i \in 0 .. n - 1 |-> 0]),
   packets   |-> Hash_create(n)]

(* Mutant: a loco that is known joins the ring again. *)
UpdatePushesAlways(c, address, packet) ==
  [addresses |-> Ring_push(c.addresses, address),
   packets   |-> Hash_insert(c.packets, address, packet)]

(* Mutant: the new packet of a known loco is dropped. *)
UpdateKeepsOld(c, address, packet) ==
  IF Hash_get(c.packets, address) # NULL THEN c
  ELSE UpdatePushesAlways(c, address, packet)

(* Mutant: no loco joins the ring. *)
UpdateWithoutPush(c, address, packet) ==
  [addresses |-> c.addresses,
   packets   |-> Hash_insert(c.packets, address, packet)]

(* address is what DCC_get_address reads in packet. *)
Cache_update(c, address, packet) ==
  [addresses |-> IF Hash_get(c.packets, address) = NULL
                 THEN Ring_push(c.addresses, address)
                 ELSE c.addresses,
   packets   |-> Hash_insert(c.packets, address, packet)]

(* Mutant: the packet an insertion overwrites is never freed. *)
UpdateFreesNothing(c, address) == {}

Cache_update_frees(c, address) == {Hash_get(c.packets, address)} \ {NULL}

Cache_clear(c) == [addresses |-> Ring_reset(c.addresses),
                   packets   |-> Hash_reset(c.packets)]

(* The packets the table points at. *)
Cached(c) == {c.packets.entries[i].v : i \in HashUsed(c.packets)}

(* Mutant: the purge forgets to free. *)
ClearFreesNothing(c) == {}

Cache_clear_frees(c) == Cached(c)

(* What Cache_get_next_packet returns, ... *)
Cache_get_next_packet(c) ==
  IF c.addresses.count <= 0 THEN NULL
  ELSE Hash_get(c.packets, Ring_front(c.addresses))

(* Mutant: the loco served leaves the ring. *)
PopOnly(c) == [addresses |-> IF c.addresses.count <= 0 THEN c.addresses
                             ELSE Ring_pop(c.addresses),
               packets   |-> c.packets]

(* ... and what it leaves: the loco served goes to the end of the ring. *)
Cache_rotated(c) ==
  [addresses |-> IF c.addresses.count <= 0 THEN c.addresses
                 ELSE Ring_push(Ring_pop(c.addresses), Ring_front(c.addresses)),
   packets   |-> c.packets]

Cache_get(c, address) == Hash_get(c.packets, address)

Cache_report_current_size(c) == c.addresses.count

-----------------------------------------------------------------------------
(* The caches of n entries for the locos L and the packets P. *)
CacheOf(L, P, n) ==
  [addresses : RingOf(L \cup {0}, n), packets : HashOf(L, P, n)]

(* The locos that wait for their turn, the next one first. *)
Rota(c) == RingSeq(c.addresses)

(* No loco has two turns, and there are as many turns as packets. *)
RotaCounts(c) ==
  /\ \A i, j \in 1 .. Len(Rota(c)) : Rota(c)[i] = Rota(c)[j] => i = j
  /\ Len(Rota(c)) = Cardinality(HashUsed(c.packets))

(* The search for the loco of an entry ends at that entry. *)
EntriesFound(c) ==
  \A i \in HashUsed(c.packets) :
    Hash_find_entry(c.packets, c.packets.entries[i].k) = i

=============================================================================
