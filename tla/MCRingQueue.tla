---------------------------- MODULE MCRingQueue ----------------------------
(* A ring of three slots over two values: every start, every count. *)
EXTENDS RingQueue, TLC

DataSymmetry == Permutations(Data)

=============================================================================
