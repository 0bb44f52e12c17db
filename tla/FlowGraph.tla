------------------------------ MODULE FlowGraph ------------------------------
(***************************************************************************)
(* The control flow graphs the passes after qbe_fillrpo work on, and what  *)
(* dominance means in them.  A block is its id, the number module Rpo gave *)
(* it; a graph is the set of predecessors of each block.                   *)
(***************************************************************************)
EXTENDS Integers, FiniteSets

CONSTANTS
  N,         \* blocks, all reached from the start block
  MaxEdges   \* bound on the edges of the graphs that are tried

ASSUME GraphAssumption == N \in Nat \ {0} /\ MaxEdges \in Nat

Blk == 0 .. N - 1
Start == 0
None == -1

Edges(pred) == {e \in Blk \X Blk : e[1] \in pred[e[2]]}
Succ(pred, a) == {b \in Blk : a \in pred[b]}

(* Nothing jumps to the start block, nobody has three successors, and each *)
(* other block has a predecessor before it.                                *)
Graphs ==
  {pred \in [Blk -> SUBSET Blk] :
     /\ pred[Start] = {}
     /\ \A b \in Blk \ {Start} : \E a \in pred[b] : a < b
     /\ \A a \in Blk : Cardinality(Succ(pred, a)) <= 2
     /\ Cardinality(Edges(pred)) <= MaxEdges}

(* What paths from the blocks of S reach inside the blocks of A.           *)
Closure(pred, S, A) ==
  LET within[k \in 0 .. N] ==   \* by paths of at most k edges
        IF k = 0 THEN S \cap A
        ELSE LET T == within[k - 1]
             IN T \cup {b \in A : pred[b] \cap T # {}}
  IN within[N]

(* a dominates b: the start block does not reach b around a.               *)
Dominates(pred, a, b) == b \notin Closure(pred, {Start}, Blk \ {a})
StrictlyDominates(pred, a, b) == a # b /\ Dominates(pred, a, b)
=============================================================================
