------------------------------ MODULE MCStation ------------------------------
(* Caches of two and three entries, locos whose searches collide and wrap. *)
EXTENDS Station, TLC

CollidingLocos == {1, 3}     \* home entry 1 of two: the second one wraps
ThreeLocos == {2, 4, 5}      \* home entries 2, 1 and 2 of three
StationSymmetry == Permutations(Block) \cup Permutations(Cmd)

=============================================================================
