--------------------------- MODULE LocoCacheProofs ---------------------------
(***************************************************************************)
(* The refresh cache, for any number of locos and entries: nothing leaks,  *)
(* no loco has two turns, and a loco's packet is its last command.  If the *)
(* locos fit, the cache is the register cache.h describes.                 *)
(***************************************************************************)
EXTENDS LocoCache, DataLemmas

(* The entries e[j], j in K, are all that points into heap h: each has a   *)
(* block of its own, which holds the last command its loco was given.      *)
Held(h, e, K, g) ==
  /\ \A j \in K : /\ e[j].k \in Loco /\ e[j].v \in Block
                  /\ g[e[j].k] \in Cmd
                  /\ h[e[j].v] = [loco |-> e[j].k, cmd |-> g[e[j].k]]
  /\ \A j, k \in K : e[j].v = e[k].v => j = k
  /\ \A b \in Block : h[b] # Free => \E j \in K : e[j].v = b

CacheInv ==
  /\ CacheSound(cache, Loco, Block, CacheSize)
  /\ heap \in [Block -> LocoMessage \cup {Free}]
  /\ served \in LocoMessage \cup {NULL}
  /\ given \in [Loco -> Cmd \cup {NULL}]
  /\ Held(heap, cache.packets.entries, HashUsed(cache.packets), given)

CacheHeap == [Block -> LocoMessage \cup {Free}]

(* A free block holds no loco's packet. *)
LEMMA FreeIsNoMessage == Free \notin LocoMessage
  BY MessageAssumption DEF Message

(* Every entry points at a loco's packet. *)
LEMMA HeldMessage ==
  ASSUME NEW h, NEW e, NEW K, NEW g, Held(h, e, K, g), NEW j \in K
  PROVE  e[j].v \in Block /\ h[e[j].v] \in LocoMessage
  <1>1. /\ e[j].k \in Loco /\ e[j].v \in Block /\ g[e[j].k] \in Cmd
        /\ h[e[j].v] = [loco |-> e[j].k, cmd |-> g[e[j].k]]
    BY DEF Held
  <1> QED  BY <1>1 DEF LocoMessage

(* The null pointer is none of the things that are compared with it. *)
LEMMA NullFits ==
  NULL \notin Block /\ NULL \notin Cmd /\ NULL \notin [k : Loco, v : Block]
  BY CacheNullAssumption

(* The parts of the invariant that the lemmas on caches ask for. *)
LEMMA InvCache ==
  ASSUME CacheInv
  PROVE  /\ cache \in CacheOf(Loco, Block, CacheSize)
         /\ Reached(cache.packets) /\ RotaCounts(cache)
         /\ cache.packets \in HashOf(Loco, Block, CacheSize)
         /\ Loco \in SUBSET Nat /\ CacheSize \in Nat \ {0}
         /\ heap \in CacheHeap /\ given \in [Loco -> Cmd \cup {NULL}]
  <1>1. Loco \in SUBSET Nat /\ CacheSize \in Nat \ {0}
    BY LocoAssumption, CacheSizeAssumption
  <1>2. /\ cache \in CacheOf(Loco, Block, CacheSize)
        /\ Reached(cache.packets) /\ RotaCounts(cache)
    BY DEF CacheInv, CacheSound
  <1>3. cache.packets \in HashOf(Loco, Block, CacheSize)
    BY <1>1, <1>2, CacheFields
  <1> QED  BY <1>1, <1>2, <1>3 DEF CacheInv, CacheHeap

(* The invariant holds of the empty cache. *)
LEMMA InitCache == CacheInit => CacheInv
  <1> SUFFICES ASSUME CacheInit PROVE CacheInv
    OBVIOUS
  <1>1. CacheSound(cache, Loco, Block, CacheSize) /\ HashUsed(cache.packets) = {}
    BY CreateSound, LocoAssumption, CacheSizeAssumption DEF CacheInit
  <1>2. Held(heap, cache.packets.entries, {}, given)  BY DEF CacheInit, Held
  <1> QED  BY <1>1, <1>2 DEF CacheInit, CacheInv

(* A loco is given a command: the packet takes a free block, and the one   *)
(* of the entry it overwrites is freed.                                    *)
LEMMA StepUpdate ==
  ASSUME CacheInv, NEW l \in Loco, NEW c \in Cmd, Update(l, c)
  PROVE  CacheInv'
  <1>1. PICK b \in Block :
          /\ heap[b] = Free
          /\ heap' = CreatePacket(
                       DCC_packet_destroy(heap, Cache_update_frees(cache, l)),
                       b, [loco |-> l, cmd |-> c])
          /\ cache' = Cache_update(cache, l, b)
    BY DEF Update
  <1>2. given' = [given EXCEPT ![l] = c] /\ served' = served  BY DEF Update
  <1> DEFINE x == Hash_find_entry(cache.packets, l)
             e == cache.packets.entries
             f == cache'.packets.entries
             K == HashUsed(cache.packets)
             gone == Cache_update_frees(cache, l)
             h == heap
             m == heap'
             g == given
             y == given'
  <1>3. CacheSound(cache', Loco, Block, CacheSize)
    BY <1>1, InvCache, NullFits, UpdateSound DEF CacheInv
  <1>4. /\ f[x].k = l /\ f[x].v = b
        /\ HashUsed(cache'.packets) = K \cup {x}
        /\ \A j \in K : j # x => f[j] = e[j] /\ e[j].k # l
    <2> DEFINE d == Cache_update(cache, l, b).packets
    <2>1. d = cache'.packets  BY <1>1
    <2>2. d = Cache_update(cache, l, b).packets
          /\ x = Hash_find_entry(cache.packets, l)
      OBVIOUS
    <2>4. /\ cache \in CacheOf(Loco, Block, CacheSize) /\ Reached(cache.packets)
          /\ Loco \in SUBSET Nat /\ CacheSize \in Nat \ {0}
      BY InvCache
    <2>5. NULL \notin Block /\ NULL \notin [k : Loco, v : Block]  BY NullFits
    <2> HIDE DEF d, x, e, f, K, gone, h, m, g, y
    <2>6. /\ d.entries[x].k = l /\ d.entries[x].v = b
          /\ HashUsed(d) = HashUsed(cache.packets) \cup {x}
          /\ \A j \in HashUsed(cache.packets) :
               j # x => /\ d.entries[j] = cache.packets.entries[j]
                        /\ cache.packets.entries[j].k # l
      BY <2>2, <2>4, <2>5, UpdateEntries
    <2> USE DEF e, K, f
    <2>3. /\ d.entries[x].k = l /\ d.entries[x].v = b
          /\ HashUsed(d) = K \cup {x}
          /\ \A j \in K : j # x => d.entries[j] = e[j] /\ e[j].k # l
      BY <2>6
    <2> QED  BY <2>1, <2>3
  <1>5. \A a : a \in gone <=> x \in K /\ a = e[x].v
    BY InvCache, NullFits, UpdateFrees
  <1>6. h \in CacheHeap /\ g \in [Loco -> Cmd \cup {NULL}] /\ Held(h, e, K, g)
    BY InvCache DEF CacheInv
  <1>7. /\ y \in [Loco -> Cmd \cup {NULL}] /\ y[l] = c
        /\ \A k \in Loco : k # l => y[k] = g[k]
    BY <1>2, <1>6
  <1>8. /\ m \in CacheHeap /\ m[b] = [loco |-> l, cmd |-> c]
        /\ \A a \in Block \ {b} : m[a] = IF a \in gone THEN Free ELSE h[a]
    BY <1>1, <1>6 DEF CreatePacket, DCC_packet_destroy, CacheHeap, LocoMessage
  <1>9. h[b] = Free  BY <1>1
  <1> HIDE DEF x, e, f, K, gone, h, m, g, y
  <1>10. \A j \in K : /\ e[j].k \in Loco /\ e[j].v \in Block
                       /\ g[e[j].k] \in Cmd
                       /\ h[e[j].v] = [loco |-> e[j].k, cmd |-> g[e[j].k]]
    BY <1>6 DEF Held
  <1>11. ASSUME NEW j \in K PROVE e[j].v # b
    <2>1. h[e[j].v] \in LocoMessage  BY <1>6, HeldMessage
    <2> QED  BY <1>9, <2>1, FreeIsNoMessage
  <1>12. \A j \in K : j # x => e[j].v \notin gone
    BY <1>5, <1>6 DEF Held
  <1>13. ASSUME NEW j \in K \cup {x}
         PROVE  /\ f[j].k \in Loco /\ f[j].v \in Block
                /\ y[f[j].k] \in Cmd
                /\ m[f[j].v] = [loco |-> f[j].k, cmd |-> y[f[j].k]]
    <2>1. CASE j = x
      BY <1>4, <1>7, <1>8, <2>1
    <2>2. CASE j # x
      <3>1. j \in K /\ f[j] = e[j] /\ e[j].k # l  BY <1>4, <1>13, <2>2
      <3>2. m[e[j].v] = h[e[j].v]  BY <1>8, <1>10, <1>11, <1>12, <2>2, <3>1
      <3>3. y[e[j].k] = g[e[j].k]  BY <1>7, <1>10, <3>1
      <3> QED  BY <1>10, <3>1, <3>2, <3>3
    <2> QED  BY <2>1, <2>2
  <1>14. \A j, k \in K \cup {x} : f[j].v = f[k].v => j = k
    BY <1>4, <1>6, <1>11 DEF Held
  <1>15. ASSUME NEW a \in Block, m[a] # Free
         PROVE  \E j \in K \cup {x} : f[j].v = a
    <2>1. CASE a = b  BY <1>4, <2>1
    <2>2. CASE a # b
      <3>1. a \notin gone /\ h[a] # Free  BY <1>8, <1>15, <2>2
      <3>2. PICK j \in K : e[j].v = a  BY <1>6, <3>1 DEF Held
      <3>3. j # x  BY <1>5, <3>1, <3>2
      <3> QED  BY <1>4, <3>2, <3>3
    <2> QED  BY <2>1, <2>2
  <1>16. Held(m, f, K \cup {x}, y)  BY <1>13, <1>14, <1>15 DEF Held
  <1>17. Held(heap, cache.packets.entries, HashUsed(cache.packets), given)'
    BY <1>4, <1>16 DEF m, f, y
  <1> QED  BY <1>2, <1>3, <1>7, <1>8, <1>17 DEF CacheInv, CacheHeap, m, y

(* What is served is what is kept for the loco whose turn it is. *)
LEMMA ServedIsKept ==
  ASSUME CacheInv, NEW p, p = Cache_get_next_packet(cache), p # NULL
  PROVE  p \in Block /\ heap[p] \in LocoMessage
  <1>1. PICK j \in HashUsed(cache.packets) : p = cache.packets.entries[j].v
    BY InvCache, NullFits, NextPacket DEF CacheInv
  <1> QED  BY <1>1, HeldMessage DEF CacheInv

(* Fetching the next packet moves a turn and nothing else. *)
LEMMA StepGetNext ==
  ASSUME CacheInv, GetNext
  PROVE  CacheInv'
  <1>1. cache' = Cache_rotated(cache) /\ heap' = heap /\ given' = given
    BY DEF GetNext
  <1>2. CacheSound(cache', Loco, Block, CacheSize) /\ cache'.packets = cache.packets
    BY <1>1, InvCache, RotateSound DEF CacheInv
  <1>3. served' \in LocoMessage \cup {NULL}
    BY ServedIsKept DEF GetNext
  <1>4. Held(heap, cache.packets.entries, HashUsed(cache.packets), given)'
    BY <1>1, <1>2 DEF CacheInv
  <1> QED  BY <1>1, <1>2, <1>3, <1>4 DEF CacheInv

(* Clearing the cache frees what it points at and nothing else. *)
LEMMA StepClear ==
  ASSUME CacheInv, Clear
  PROVE  CacheInv'
  <1>1. /\ cache' = Cache_clear(cache) /\ served' = served /\ given' = given
        /\ heap' = DCC_packet_destroy(heap, Cache_clear_frees(cache))
    BY DEF Clear
  <1>2. /\ cache.addresses.buf \in [0 .. CacheSize - 1 -> Loco \cup {0}]
        /\ cache.addresses.size = CacheSize /\ cache.packets.size = CacheSize
    BY InvCache DEF CacheOf, RingOf, HashOf
  <1>3. CacheSound(cache', Loco, Block, CacheSize) /\ HashUsed(cache'.packets) = {}
    BY <1>1, <1>2, InvCache, ClearSound
  <1>4. \A b \in Block : heap'[b] = Free
    BY <1>1 DEF CacheInv, Held, DCC_packet_destroy, Cache_clear_frees, Cached
  <1>5. heap' \in CacheHeap
    BY <1>1, InvCache DEF CacheHeap, DCC_packet_destroy
  <1>6. Held(heap', cache'.packets.entries, {}, given')  BY <1>4 DEF Held
  <1> QED  BY <1>1, <1>3, <1>5, <1>6 DEF CacheInv, CacheHeap

(* The invariant is inductive. *)
LEMMA StepCache == CacheInv /\ [CacheNext]_cacheVars => CacheInv'
  <1> SUFFICES ASSUME CacheInv, [CacheNext]_cacheVars PROVE CacheInv'
    OBVIOUS
  <1>1. ASSUME NEW l \in Loco, NEW c \in Cmd, Update(l, c)  PROVE CacheInv'
    BY <1>1, StepUpdate
  <1>2. CASE GetNext  BY <1>2, StepGetNext
  <1>3. CASE Clear  BY <1>3, StepClear
  <1>4. CASE UNCHANGED cacheVars  BY <1>4 DEF cacheVars, CacheInv
  <1> QED  BY <1>1, <1>2, <1>3, <1>4 DEF CacheNext

(* The invariant holds after any calls. *)
LEMMA CacheInvariant == CacheSpec => []CacheInv
  BY InitCache, StepCache, PTL DEF CacheSpec

-----------------------------------------------------------------------------
(* Every packet the table points at is pointed at by one entry. *)
LEMMA InvNothingLeaks == CacheInv => NothingLeaks
  <1> SUFFICES ASSUME CacheInv PROVE NothingLeaks
    OBVIOUS
  <1> DEFINE e == cache.packets.entries
             K == HashUsed(cache.packets)
             f == [j \in K |-> e[j].v]
  <1>1. Held(heap, e, K, given)  BY DEF CacheInv
  <1>2. IsFiniteSet(K)  BY InvCache, CacheFields
  <1>3. Cached(cache) = {e[j].v : j \in K}  BY DEF Cached
  <1>4. f \in Surjection(K, Cached(cache)) /\ f \in Injection(K, Cached(cache))
    <2>1. f \in [K -> Cached(cache)]  BY <1>3
    <2>2. \A a \in Cached(cache) : \E j \in K : f[j] = a  BY <1>3
    <2>3. \A j, k \in K : f[j] = f[k] => j = k  BY <1>1 DEF Held
    <2> QED  BY <2>1, <2>2, <2>3 DEF Surjection, Injection, IsInjective
  <1>5. Cardinality(Cached(cache)) = Cardinality(K)
    <2> HIDE DEF f, K
    <2> QED  BY <1>2, <1>4, FS_Surjection
  <1>6. Allocated(heap) = Cached(cache)
    <2>1. \A b \in Allocated(heap) : b \in Cached(cache)
      BY <1>1, <1>3 DEF Held, Allocated
    <2>2. ASSUME NEW j \in K PROVE e[j].v \in Allocated(heap)
      <3>1. e[j].v \in Block /\ heap[e[j].v] \in LocoMessage
        BY <1>1, HeldMessage
      <3> QED  BY <3>1, FreeIsNoMessage DEF Allocated
    <2> QED  BY <1>3, <2>1, <2>2
  <1> QED  BY <1>5, <1>6 DEF NothingLeaks

(* The rings, the table and the heap hold what cache.c declares, and the   *)
(* cache never hands out a block that holds no loco's packet               *)
(* (Cache_get_next_packet, cache.c:72-92).                                 *)
THEOREM CacheTypes == CacheSpec => []CacheTypeOK
  <1>1. CacheInv => CacheTypeOK
    <2> SUFFICES ASSUME CacheInv PROVE CacheTypeOK
      OBVIOUS
    <2>1. cache \in CacheOf(Loco, Block, CacheSize)  BY InvCache
    <2> QED  BY <2>1 DEF CacheInv, CacheTypeOK, LocoMessage, Message
  <1> QED  BY <1>1, CacheInvariant, PTL

(* However many locos there are, the push of Cache_update (cache.c:65)     *)
(* finds room: the ring has as many turns as the table has packets, and no *)
(* loco has two.                                                           *)
THEOREM RotaIsBounded == CacheSpec => []RotaBounded
  <1>1. CacheInv => RotaBounded  BY InvCache DEF RotaBounded
  <1> QED  BY <1>1, CacheInvariant, PTL

(* After any history of collisions and evictions Hash_find_entry           *)
(* (hash.c:106) finds every entry in use under its own key.                 *)
THEOREM ProbingAlwaysFinds == CacheSpec => []ProbingFinds
  <1>1. CacheInv => ProbingFinds
    <2> SUFFICES ASSUME CacheInv, NEW j \in HashUsed(cache.packets)
                 PROVE  Hash_find_entry(cache.packets, cache.packets.entries[j].k) = j
      BY DEF ProbingFinds, EntriesFound
    <2>1. Reached(cache.packets) /\ cache.packets.size \in Nat \ {0}
      BY InvCache, HashFields
    <2> QED  BY <2>1, ReachedFound
  <1> QED  BY <1>1, CacheInvariant, PTL

(* Cache_hash_entry_destroy frees each packet once, and every packet that  *)
(* is cached and then overwritten or purged is freed.                      *)
THEOREM CacheLeaksNothing == CacheSpec => []NothingLeaks
  BY InvNothingLeaks, CacheInvariant, PTL

(* However many locos there are, an entry holds the last command its loco  *)
(* was given: the cache forgets, but never remembers an older command.     *)
THEOREM CacheKeepsLast == CacheSpec => []KeptIsLast
  <1>1. CacheInv => KeptIsLast
    BY DEF CacheInv, Held, KeptIsLast, LastMessage
  <1> QED  BY <1>1, CacheInvariant, PTL

-----------------------------------------------------------------------------
(* There are no more locos than the cache has entries. *)
LocosFit == IsFiniteSet(Loco) /\ Cardinality(Loco) <= CacheSize

(* Then the cache says of each loco what it was told last, or that it has  *)
(* nothing for it, and lists those it has something for.                   *)
LEMMA FitTells ==
  ASSUME LocosFit, CacheInv, NEW l \in Loco
  PROVE  /\ l \in Keys(cache)
              => /\ Cache_get(cache, l) # NULL
                 /\ heap[Cache_get(cache, l)] = [loco |-> l, cmd |-> given[l]]
                 /\ CmdOf(l) = given[l] /\ given[l] # NULL
         /\ l \notin Keys(cache) => Cache_get(cache, l) = NULL /\ CmdOf(l) = NULL
  <1>1. CASE l \in Keys(cache)
    <2>1. PICK j \in HashUsed(cache.packets) : cache.packets.entries[j].k = l
      BY <1>1 DEF Keys
    <2> DEFINE p == cache.packets.entries[j].v
    <2>2. /\ p \in Block /\ heap[p] = [loco |-> l, cmd |-> given[l]]
          /\ given[l] \in Cmd
      BY <2>1 DEF CacheInv, Held
    <2>3. Cache_get(cache, l) = p
      <3>1. Cache_get(cache, cache.packets.entries[j].k) = cache.packets.entries[j].v
        BY InvCache, NullFits, GetsKept
      <3> QED  BY <2>1, <3>1
    <2> HIDE DEF p
    <2>4. p # NULL /\ given[l] # NULL /\ heap[p].cmd = given[l]
      BY <2>2, NullFits
    <2>5. CmdOf(l) = given[l]  BY <2>3, <2>4 DEF CmdOf
    <2> QED  BY <1>1, <2>2, <2>3, <2>4, <2>5
  <1>2. CASE l \notin Keys(cache)
    <2>1. Cache_get(cache, l) = NULL
      BY <1>2, InvCache, NullFits, FitGets DEF CacheInv, LocosFit
    <2> QED  BY <1>2, <2>1 DEF CmdOf
  <1> QED  BY <1>1, <1>2

(* If the locos fit, turns and packets belong to the same locos. *)
LEMMA FitLists ==
  ASSUME LocosFit, CacheInv
  PROVE  Turns(cache) = Keys(cache)
  BY InvCache, FitListed DEF CacheInv, LocosFit

(* If the locos fit, those that get turns are those whose packets are      *)
(* kept: the list of active locos of cache.h:9.                            *)
THEOREM LocosListed ==
  ASSUME LocosFit
  PROVE  CacheSpec => []ListsActiveLocos
  <1>1. CacheInv => ListsActiveLocos
    BY FitLists DEF ListsActiveLocos, Turns, Keys
  <1> QED  BY <1>1, CacheInvariant, PTL

(* If the locos fit, Cache_get (cache.c:95) returns the packet of the loco *)
(* asked for or nothing, never that of the entry a full table ends at.     *)
THEOREM GetsOwnPacket ==
  ASSUME LocosFit
  PROVE  CacheSpec => []GetFindsOwnPacket
  <1>1. CacheInv => GetFindsOwnPacket
    <2> SUFFICES ASSUME CacheInv, NEW l \in Loco, Cache_get(cache, l) # NULL
                 PROVE  heap[Cache_get(cache, l)].loco = l
      BY DEF GetFindsOwnPacket
    <2>1. l \in Keys(cache)  BY FitTells
    <2>2. heap[Cache_get(cache, l)] = [loco |-> l, cmd |-> given[l]]
      BY <2>1, FitTells
    <2> QED  BY <2>2
  <1> QED  BY <1>1, CacheInvariant, PTL

(* What the register knows, in terms of the cache. *)
LastKept ==
  \A l \in Loco : CmdOf(l) = IF l \in Keys(cache) THEN given[l] ELSE NULL

(* If the locos fit, what Cache_get finds is what the loco was told last. *)
LEMMA LastIs ==
  ASSUME LocosFit
  PROVE  CacheInv => LastKept
  BY FitTells DEF LastKept

(* The same after a step. *)
LEMMA LastIsNext ==
  ASSUME LocosFit
  PROVE  CacheInv' => LastKept'
  BY LastIs, PTL

(* A command for a loco that has one takes its place; a loco that had none *)
(* joins the list.                                                         *)
LEMMA UpdateStores ==
  ASSUME LocosFit, CacheInv, CacheInv', NEW l \in Loco, NEW c \in Cmd, Update(l, c)
  PROVE  /\ Keys(cache)' = Keys(cache) \cup {l}
         /\ Rota(cache)' = IF l \in Keys(cache) THEN Rota(cache)
                           ELSE Append(Rota(cache), l)
  <1>1. PICK b \in Block : cache' = Cache_update(cache, l, b)
    BY DEF Update
  <1> DEFINE x == Hash_find_entry(cache.packets, l)
             used == HashUsed(cache.packets)
  <1>2. /\ x \in used => Rota(cache') = Rota(cache)
        /\ x \notin used => Rota(cache') = Append(Rota(cache), l)
    <2>1. x = Hash_find_entry(cache.packets, l)  OBVIOUS
    <2>2. /\ CacheSound(cache, Loco, Block, CacheSize)
          /\ Loco \in SUBSET Nat /\ CacheSize \in Nat \ {0}
      BY InvCache DEF CacheInv
    <2>3. NULL \notin Block /\ NULL \notin [k : Loco, v : Block]  BY NullFits
    <2> HIDE DEF x
    <2> HIDE DEF used
    <2>4. Rota(cache') = IF x \in HashUsed(cache.packets) THEN Rota(cache)
                         ELSE Append(Rota(cache), l)
      BY <1>1, <2>1, <2>2, <2>3, UpdateSound DEF TurnGiven
    <2> QED  BY <2>4 DEF used
  <1>3. x \in used => l \in Keys(cache)
    <2>1. x \in HashUsed(cache.packets) => cache.packets.entries[x].k = l
      BY InvCache, FitFinds DEF LocosFit
    <2> QED  BY <2>1 DEF Keys
  <1>4. ASSUME x \notin used PROVE l \notin Keys(cache)
    <2>1. Cache_get(cache, l) = NULL
      <3>1. Hash_find_entry(cache.packets, l) \notin HashUsed(cache.packets)
        BY <1>4
      <3> QED  BY <3>1, InvCache, CacheMisses
    <2> QED  BY <2>1, FitTells
  <1>5. Rota(cache') = IF l \in Keys(cache) THEN Rota(cache)
                       ELSE Append(Rota(cache), l)
    <2> HIDE DEF x, used
    <2> QED  BY <1>2, <1>3, <1>4
  <1>6. Turns(cache') = Turns(cache) \cup {l}
    <2>1. CASE l \in Keys(cache)
      BY <1>5, <2>1, FitLists DEF Turns
    <2>2. CASE l \notin Keys(cache)
      <3> DEFINE s == Rota(cache)
                 t == Rota(cache')
      <3>1. s \in Seq(Loco \cup {0})  BY InvCache, CacheFields
      <3>2. t = Append(s, l)  BY <1>5, <2>2
      <3>3. Turns(cache) = {s[i] : i \in 1 .. Len(s)}  BY DEF Turns
      <3>4. Turns(cache') = {t[i] : i \in 1 .. Len(t)}  BY DEF Turns
      <3> HIDE DEF s, t
      <3>5. /\ Len(t) = Len(s) + 1 /\ t[Len(s) + 1] = l /\ Len(s) \in Nat
            /\ \A i \in 1 .. Len(s) : t[i] = s[i]
        BY <3>1, <3>2
      <3>6. 1 .. Len(t) = (1 .. Len(s)) \cup {Len(s) + 1}  BY <3>5
      <3> QED  BY <3>3, <3>4, <3>5, <3>6
    <2> QED  BY <2>1, <2>2
  <1>7. Turns(cache') = Keys(cache')
    <2>1. CacheSound(cache', Loco, Block, CacheSize)  BY DEF CacheInv
    <2>2. Loco \in SUBSET Nat /\ CacheSize \in Nat \ {0}  BY InvCache
    <2> QED  BY <2>1, <2>2, FitListed DEF LocosFit
  <1>8. Keys(cache') = Keys(cache) \cup {l}  BY <1>6, <1>7, FitLists
  <1>9. Rota(cache)' = Rota(cache') /\ Keys(cache)' = Keys(cache')
    BY DEF Rota, RingSeq, RingSlot, Keys, HashUsed
  <1> QED  BY <1>5, <1>8, <1>9

(* The loco whose turn it is, is told its last command; without one there  *)
(* is nothing to tell.                                                     *)
LEMMA GetNextServes ==
  ASSUME LocosFit, CacheInv, GetNext
  PROVE  /\ Keys(cache)' = Keys(cache)
         /\ Rota(cache) = <<>> => served' = NULL /\ Rota(cache)' = <<>>
         /\ Rota(cache) # <<>>
              => /\ served' = [loco |-> Head(Rota(cache)),
                               cmd |-> CmdOf(Head(Rota(cache)))]
                 /\ Rota(cache)' = Append(Tail(Rota(cache)), Head(Rota(cache)))
                 /\ Head(Rota(cache)) \in Loco
  <1> DEFINE p == Cache_get_next_packet(cache)
             a == Head(Rota(cache))
  <1>1. /\ cache' = Cache_rotated(cache)
        /\ served' = IF p = NULL THEN NULL ELSE heap[p]
    BY DEF GetNext
  <1>2. Rota(cache)' = Rota(cache') /\ Keys(cache)' = Keys(cache')
    BY DEF Rota, RingSeq, RingSlot, Keys, HashUsed
  <1>3. /\ CacheSound(cache, Loco, Block, CacheSize)
        /\ Loco \in SUBSET Nat /\ CacheSize \in Nat \ {0} /\ NULL \notin Block
    BY InvCache, NullFits DEF CacheInv
  <1>4. /\ Cache_rotated(cache).packets = cache.packets
        /\ Rota(cache) = <<>> => Rota(Cache_rotated(cache)) = <<>>
        /\ Rota(cache) # <<>>
             => Rota(Cache_rotated(cache)) = Append(Tail(Rota(cache)), a)
    BY <1>3, RotateSound
  <1>5. Keys(cache)' = Keys(cache)  BY <1>1, <1>2, <1>4 DEF Keys
  <1>6. CASE Rota(cache) = <<>>
    <2>1. p = NULL  BY <1>3, <1>6, NextPacket
    <2> QED  BY <1>1, <1>2, <1>4, <1>5, <1>6, <2>1
  <1>7. CASE Rota(cache) # <<>>
    <2>1. a \in Loco /\ p = Cache_get(cache, a)  BY <1>3, <1>7, NextPacket
    <2>2. a \in Keys(cache)
      <3>1. Rota(cache) \in Seq(Loco \cup {0})  BY InvCache, CacheFields
      <3>2. a = Rota(cache)[1] /\ 1 \in 1 .. Len(Rota(cache))  BY <1>7, <3>1
      <3>3. a \in Turns(cache)  BY <3>2 DEF Turns
      <3> QED  BY <3>3, FitLists
    <2> HIDE DEF a, p
    <2>3. p # NULL /\ heap[p] = [loco |-> a, cmd |-> CmdOf(a)]
      BY <2>1, <2>2, FitTells
    <2>4. served' = [loco |-> a, cmd |-> CmdOf(a)]  BY <1>1, <2>3
    <2> QED  BY <1>1, <1>2, <1>4, <1>5, <1>7, <2>1, <2>4 DEF a
  <1> QED  BY <1>6, <1>7

(* Clearing leaves neither packets nor turns. *)
LEMMA ClearEmpties ==
  ASSUME CacheInv, Clear
  PROVE  Keys(cache)' = {} /\ Rota(cache)' = <<>>
  <1>1. cache' = Cache_clear(cache)  BY DEF Clear
  <1>2. /\ cache.addresses.buf \in [0 .. CacheSize - 1 -> Loco \cup {0}]
        /\ cache.addresses.size = CacheSize /\ cache.packets.size = CacheSize
    BY InvCache DEF CacheOf, RingOf, HashOf
  <1>3. Rota(cache') = <<>> /\ HashUsed(cache'.packets) = {}
    BY <1>1, <1>2, InvCache, ClearSound
  <1>4. Rota(cache)' = Rota(cache') /\ Keys(cache)' = Keys(cache')
    BY DEF Rota, RingSeq, RingSlot, Keys, HashUsed
  <1> QED  BY <1>3, <1>4 DEF Keys

(* Each call on the cache is the register's. *)
LEMMA StepRegister ==
  ASSUME LocosFit, CacheInv, CacheInv', [CacheNext]_cacheVars
  PROVE  [Register!RegisterNext]_(Register!registerVars)
  <1> DEFINE last == [l \in Loco |-> CmdOf(l)]
             rota == Rota(cache)
  <1>1. \A l \in Loco : CmdOf(l) = IF l \in Keys(cache) THEN given[l] ELSE NULL
    BY LastIs DEF LastKept
  <1>2. last' = [l \in Loco |-> IF l \in Keys(cache)' THEN given'[l] ELSE NULL]
    BY LastIsNext DEF LastKept
  <1>3. last = [l \in Loco |-> IF l \in Keys(cache) THEN given[l] ELSE NULL]
    BY <1>1
  <1>4. given \in [Loco -> Cmd \cup {NULL}]  BY InvCache
  <1>5. ASSUME NEW l \in Loco, NEW c \in Cmd, Update(l, c)
        PROVE  Register!Store(l, c)
    <2>1. /\ Keys(cache)' = Keys(cache) \cup {l}
          /\ rota' = IF l \in Keys(cache) THEN rota ELSE Append(rota, l)
      BY <1>5, UpdateStores
    <2>2. given' = [given EXCEPT ![l] = c] /\ served' = served
      BY <1>5 DEF Update
    <2>3. last' = [last EXCEPT ![l] = c]
      BY <1>2, <1>3, <1>4, <2>1, <2>2
    <2>4. last[l] = NULL <=> l \notin Keys(cache)
      BY <1>3, FitTells
    <2>5. rota' = IF last[l] = NULL THEN Append(rota, l) ELSE rota
      BY <2>1, <2>4
    <2> QED  BY <2>2, <2>3, <2>5 DEF Register!Store, Register!Record
  <1>6. ASSUME GetNext
        PROVE  Register!Serve \/ Register!ServeNothing
    <2>1. Keys(cache)' = Keys(cache) /\ given' = given
      BY <1>6, GetNextServes DEF GetNext
    <2>2. last' = last  BY <1>2, <1>3, <2>1
    <2>3. CASE rota = <<>>
      <3>1. served' = NULL /\ rota' = <<>>  BY <1>6, <2>3, GetNextServes
      <3> QED  BY <2>2, <2>3, <3>1 DEF Register!ServeNothing
    <2>4. CASE rota # <<>>
      <3>1. /\ served' = [loco |-> Head(rota), cmd |-> CmdOf(Head(rota))]
            /\ rota' = Append(Tail(rota), Head(rota)) /\ Head(rota) \in Loco
        BY <1>6, <2>4, GetNextServes
      <3>2. CmdOf(Head(rota)) = last[Head(rota)]  BY <3>1
      <3>3. served' = [loco |-> Head(rota), cmd |-> last[Head(rota)]]
        BY <3>1, <3>2
      <3> QED  BY <2>2, <2>4, <3>1, <3>3 DEF Register!Serve
    <2> QED  BY <2>3, <2>4
  <1>7. ASSUME Clear  PROVE Register!Empty
    <2>1. Keys(cache)' = {} /\ rota' = <<>> /\ served' = served
      BY <1>7, ClearEmpties DEF Clear
    <2>2. last' = [l \in Loco |-> NULL]  BY <1>2, <2>1
    <2> QED  BY <2>1, <2>2 DEF Register!Empty, Register!Forget
  <1>8. ASSUME UNCHANGED cacheVars  PROVE UNCHANGED Register!registerVars
    BY <1>8 DEF cacheVars, Register!registerVars, CmdOf, Cache_get, Hash_get,
                Hash_find_entry, FirstStop, HashStops, HashProbe,
                Rota, RingSeq, RingSlot
  <1> QED
    BY <1>5, <1>6, <1>7, <1>8 DEF CacheNext, Register!RegisterNext

(* The empty cache is the empty register. *)
LEMMA InitRegister ==
  ASSUME LocosFit, CacheInit
  PROVE  Register!RegisterInit
  <1>1. CacheInv  BY InitCache
  <1>2. Rota(cache) = <<>> /\ HashUsed(cache.packets) = {}
    BY CreateSound, LocoAssumption, CacheSizeAssumption DEF CacheInit
  <1>3. Keys(cache) = {}  BY <1>2 DEF Keys
  <1>4. \A l \in Loco : CmdOf(l) = NULL  BY <1>1, <1>3, FitTells
  <1> QED  BY <1>2, <1>4 DEF CacheInit, Register!RegisterInit

(* If the locos fit, ring and hash table together are what cache.h         *)
(* describes: a register of each loco's last command, served in turns.     *)
THEOREM CacheIsRegister ==
  ASSUME LocosFit
  PROVE  CacheSpec => ImplementsRegister
  <1>1. CacheInit => Register!RegisterInit  BY InitRegister
  <1>2. CacheInv /\ CacheInv' /\ [CacheNext]_cacheVars
          => [Register!RegisterNext]_(Register!registerVars)
    BY StepRegister
  <1> QED  BY <1>1, <1>2, CacheInvariant, PTL
    DEF CacheSpec, ImplementsRegister, Register!RegisterSpec

=============================================================================
