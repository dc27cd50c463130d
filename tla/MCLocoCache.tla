---------------------------- MODULE MCLocoCache ----------------------------
(* The cache of three entries, with locos whose searches collide. *)
EXTENDS LocoCache, TLC

LocosThatFit == {3, 6, 7}         \* home entries 0, 0 and 1
OneLocoTooMany == {1, 3, 5, 6}    \* home entries 1, 0, 2 and 0
HeapSymmetry == Permutations(Block) \cup Permutations(Cmd)

=============================================================================
