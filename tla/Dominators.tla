----------------------------- MODULE Dominators -----------------------------
(***************************************************************************)
(* Dominators and dominance frontiers (inter, qbe_filldom, qbe_sdom,       *)
(* addfron, qbe_fillfron in src/cfg.c), after Cooper, Harvey and Kennedy.  *)
(*                                                                         *)
(* The predecessors of a block are visited in the order of b->pred, which  *)
(* the numbering says nothing about: here in any order.                    *)
(***************************************************************************)
EXTENDS FlowGraph

VARIABLES
  pc,       \* "pass", "walk", "front", "climb", "done" or "abort"
  pred,     \* the predecessors of each block
  idom,     \* b->idom, None for a null pointer
  n,        \* position in rpo
  left,     \* predecessors of rpo[n] not looked at, or edges, in "front"
  d,        \* what the predecessors looked at have in common
  b1, b2,   \* the two blocks of inter; b1 also climbs for qbe_fillfron
  ch,       \* whether the pass changed anything
  dom,      \* children in the dominator tree: the list b->dom
  fron      \* b->fron

domVars == <<pc, pred, idom, n, left, d, b1, b2, ch, dom, fron>>

DomInit ==
  /\ pred \in Graphs
  /\ pc = "pass" /\ n = 1 /\ ch = FALSE
  /\ left = IF N > 1 THEN pred[1] ELSE {}
  /\ idom = [b \in Blk |-> None] /\ d = None /\ b1 = None /\ b2 = None
  /\ dom = [b \in Blk |-> {}] /\ fron = [b \in Blk |-> {}]

-----------------------------------------------------------------------------
(* Mutant of Known: the start block, whose idom is null, does not count.   *)
KnownNotStart(b) == idom[b] # None

(* A predecessor is used once something is known of it.                    *)
Known(b) == idom[b] # None \/ b = Start

(* The next predecessor of rpo[n]: skipped, taken as it is, or intersected *)
(* with what the others have in common.                                    *)
LookAt(p) ==
  /\ pc = "pass" /\ n < N /\ p \in left
  /\ left' = left \ {p}
  /\ \/ ~Known(p) /\ UNCHANGED <<pc, d, b1, b2>>
     \/ Known(p) /\ d = None /\ d' = p /\ UNCHANGED <<pc, b1, b2>>
     \/ Known(p) /\ d # None /\ pc' = "walk" /\ b1' = d /\ b2' = p /\ UNCHANGED d
  /\ UNCHANGED <<pred, idom, n, ch, dom, fron>>

(* A step of inter: the block with the larger id goes up to its idom.      *)
Walk ==
  /\ pc = "walk" /\ b1 # b2
  /\ LET lo == IF b1 < b2 THEN b1 ELSE b2
         hi == IF b1 < b2 THEN b2 ELSE b1
     IN /\ b1' = idom[hi] /\ b2' = lo
        /\ pc' = IF idom[hi] = None THEN "abort" ELSE pc
  /\ UNCHANGED <<pred, idom, n, left, d, ch, dom, fron>>

(* inter returns.                                                          *)
Meet ==
  /\ pc = "walk" /\ b1 = b2
  /\ d' = b1 /\ pc' = "pass"
  /\ UNCHANGED <<pred, idom, n, left, b1, b2, ch, dom, fron>>

(* The end of the loop over the predecessors.                              *)
SetIdom ==
  /\ pc = "pass" /\ n < N /\ left = {}
  /\ idom' = [idom EXCEPT ![n] = d]
  /\ ch' = (ch \/ d # idom[n])
  /\ n' = n + 1 /\ d' = None
  /\ left' = IF n + 1 < N THEN pred[n + 1] ELSE {}
  /\ UNCHANGED <<pc, pred, b1, b2, dom, fron>>

(* Another pass, as long as one changed something.                         *)
Again ==
  /\ pc = "pass" /\ n >= N /\ ch
  /\ n' = 1 /\ ch' = FALSE
  /\ left' = IF N > 1 THEN pred[1] ELSE {}
  /\ UNCHANGED <<pc, pred, idom, d, b1, b2, dom, fron>>

(* Mutant of Tree: the first pass that comes to an end is taken for good.  *)
TreeAtOnce ==
  /\ pc = "pass" /\ n >= N
  /\ dom' = [a \in Blk |-> {b \in Blk : idom[b] = a}]
  /\ fron' = [b \in Blk |-> {}]
  /\ pc' = "front" /\ left' = Edges(pred)
  /\ UNCHANGED <<pred, idom, n, d, b1, b2, ch>>

(* The lists of children, then qbe_fillfron with an empty frontier.        *)
Tree ==
  /\ pc = "pass" /\ n >= N /\ ~ch
  /\ dom' = [a \in Blk |-> {b \in Blk : idom[b] = a}]
  /\ fron' = [b \in Blk |-> {}]
  /\ pc' = "front" /\ left' = Edges(pred)
  /\ UNCHANGED <<pred, idom, n, d, b1, b2, ch>>

-----------------------------------------------------------------------------
(* The block that qbe_sdom stops at, on the way up from b to a.            *)
Stop(a, b) ==
  LET up[c \in Blk \cup {None}] == IF c > a THEN up[idom[c]] ELSE c IN up[b]

(* qbe_sdom: a strictly dominates b.                                       *)
SDom(a, b) == a # b /\ Stop(a, b) = a

(* qbe_fillfron takes an edge and climbs from its source.  It goes by the  *)
(* list of blocks; a climb does not read what the others left, so that any *)
(* one order, here that of the ids, stands for all.                        *)
TakeEdge ==
  /\ pc = "front" /\ left # {}
  /\ LET e == CHOOSE f \in left : \A g \in left : N * f[1] + f[2] <= N * g[1] + g[2]
     IN left' = left \ {e} /\ b1' = e[1] /\ b2' = e[2]
  /\ pc' = "climb"
  /\ UNCHANGED <<pred, idom, n, d, ch, dom, fron>>

(* Mutant of Climb: the climb also stops at the target itself.             *)
ClimbToTarget ==
  /\ pc = "climb"
  /\ IF b1 = None THEN pc' = "abort" /\ UNCHANGED <<b1, fron>>
     ELSE IF SDom(b1, b2) \/ b1 = b2 THEN pc' = "front" /\ UNCHANGED <<b1, fron>>
     ELSE /\ fron' = [fron EXCEPT ![b1] = @ \cup {b2}]
          /\ b1' = idom[b1] /\ UNCHANGED pc
  /\ UNCHANGED <<pred, idom, n, left, d, b2, ch, dom>>

(* One step up: addfron until the block strictly dominates the target.     *)
Climb ==
  /\ pc = "climb"
  /\ IF b1 = None THEN pc' = "abort" /\ UNCHANGED <<b1, fron>>
     ELSE IF SDom(b1, b2) THEN pc' = "front" /\ UNCHANGED <<b1, fron>>
     ELSE /\ fron' = [fron EXCEPT ![b1] = @ \cup {b2}]
          /\ b1' = idom[b1] /\ UNCHANGED pc
  /\ UNCHANGED <<pred, idom, n, left, d, b2, ch, dom>>

FronEnd ==
  /\ pc = "front" /\ left = {}
  /\ pc' = "done"
  /\ UNCHANGED <<pred, idom, n, left, d, b1, b2, ch, dom, fron>>

DomNext ==
  \/ \E p \in Blk : LookAt(p)
  \/ Walk \/ Meet \/ SetIdom \/ Again \/ Tree
  \/ TakeEdge \/ Climb \/ FronEnd

DomSpec == DomInit /\ [][DomNext]_domVars

-----------------------------------------------------------------------------
(* The chain of idom from b upwards, b included.                           *)
Chain(b) ==
  LET up[c \in Blk \cup {None}] == IF c = None THEN {} ELSE {c} \cup up[idom[c]]
  IN up[b]

(* Types; an idom has a smaller id, so the walks end, and no assertion     *)
(* fails: nobody climbs past the start block.                              *)
DomOK ==
  /\ pc \in {"pass", "walk", "front", "climb", "done"}
  /\ n \in 1 .. N /\ ch \in BOOLEAN
  /\ idom \in [Blk -> Blk \cup {None}] /\ idom[Start] = None
  /\ \A b \in Blk : idom[b] < b
  /\ d \in Blk \cup {None}
  /\ pc = "walk" => b1 \in Blk /\ b2 \in Blk /\ Known(b1) /\ Known(b2)
  /\ dom \in [Blk -> SUBSET Blk] /\ fron \in [Blk -> SUBSET Blk]

(* When the passes are over, the chain holds nothing else: idom is the     *)
(* closest strict dominator, and the test the later passes use, qbe_sdom,  *)
(* answers for any two blocks what the paths of the graph say.             *)
IdomExact ==
  pc = "done" =>
    \A b \in Blk :
      /\ Chain(b) = {a \in Blk : Dominates(pred, a, b)}
      /\ \A a \in Blk : SDom(a, b) <=> StrictlyDominates(pred, a, b)
      /\ b # Start => \E a \in Blk : b \in dom[a] /\ \A c \in Blk : b \in dom[c] => c = a

(* The frontier of a: the targets of the edges that leave what a           *)
(* dominates, a itself when it heads a loop.                               *)
FrontierExact ==
  pc = "done" =>
    \A a \in Blk :
      fron[a] = {e[2] : e \in {f \in Edges(pred) : Dominates(pred, a, f[1]) /\ ~StrictlyDominates(pred, a, f[2])}}

=============================================================================
