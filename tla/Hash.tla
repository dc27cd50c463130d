-------------------------------- MODULE Hash --------------------------------
(***************************************************************************)
(* The hash table of cs/hash.c, as operators on a record: how many entries *)
(* there are, and what each holds.  An entry whose v is NULL stops every   *)
(* probe whatever its k, so it is NULL here and its k is not kept.  The    *)
(* callbacks are those of the one table of the program, in cache.c: a key  *)
(* is its own hash value (Cache_hash_lookup), keys are compared as         *)
(* integers (Cache_hash_key_cmp), and to destroy an entry is to free the   *)
(* packet it points at (Cache_hash_entry_destroy); keys are not negative.  *)
(***************************************************************************)
EXTENDS Integers, FiniteSets

CONSTANT NULL

Hash_create(n) == [size |-> n, entries |-> [i \in 0 .. n - 1 |-> NULL]]

(* The i-th entry the search for a key looks at, and whether it stops there. *)
HashProbe(h, key, i) == (key + i) % h.size

(* Mutant: a free entry does not stop the search. *)
StopsAtKeyOnly(h, key, i) ==
  LET e == h.entries[HashProbe(h, key, i)] IN e # NULL /\ e.k = key

HashStops(h, key, i) ==
  LET e == h.entries[HashProbe(h, key, i)] IN e = NULL \/ e.k = key

(* Mutant: the search does not go on behind the home entry. *)
HomeEntry(h, key) == HashProbe(h, key, 0)

(* The search stops at the i-th entry it looks at, and not before. *)
FirstStop(h, key, i) == /\ HashStops(h, key, i)
                        /\ \A j \in 0 .. i - 1 : ~ HashStops(h, key, j)

(* The entry found for a key.  A full table without the key ends the loop  *)
(* with the last entry it looked at, as if the key were there.             *)
Hash_find_entry(h, key) ==
  LET looks == 0 .. h.size - 1
  IN  HashProbe(h, key, IF \E i \in looks : FirstStop(h, key, i)
                        THEN CHOOSE i \in looks : FirstStop(h, key, i)
                        ELSE h.size - 1)

(* What the entry found points at. *)
Hash_get(h, key) ==
  LET e == h.entries[Hash_find_entry(h, key)] IN IF e = NULL THEN NULL ELSE e.v

(* Mutant: the loop's last increment is not taken back. *)
InsertOneOn(h, key, value) ==
  [size |-> h.size,
   entries |-> [h.entries EXCEPT ![(Hash_find_entry(h, key) + 1) % h.size]
                                   = [k |-> key, v |-> value]]]

(* The entry is overwritten; the caller frees what Hash_get pointed at. *)
Hash_insert(h, key, value) ==
  [size |-> h.size,
   entries |-> [h.entries EXCEPT
                  ![Hash_find_entry(h, key)] = [k |-> key, v |-> value]]]

(* Iteration i of Hash_reset's loop, and the whole of it. *)
Hash_reset_entry(h, i) ==
  [size |-> h.size, entries |-> [h.entries EXCEPT ![i] = NULL]]

Hash_reset(h) == Hash_create(h.size)

-----------------------------------------------------------------------------
(* The tables of n entries over the keys K and the values V. *)
HashOf(K, V, n) ==
  [size : {n}, entries : [0 .. n - 1 -> {NULL} \cup [k : K, v : V]]]

(* The entries in use. *)
HashUsed(h) == {i \in DOMAIN h.entries : h.entries[i] # NULL}

=============================================================================
