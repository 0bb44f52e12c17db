--------------------------- MODULE MCParallelMove ---------------------------
(* Instances of ParallelMove: three registers and two slots cover chains,  *)
(* trees, self moves, two disjoint cycles and cycles with a tail.          *)
EXTENDS ParallelMove, TLC

Symmetry == Permutations(Regs) \cup Permutations(Slots)
=============================================================================
