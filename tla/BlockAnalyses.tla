---------------------------- MODULE BlockAnalyses ----------------------------
(***************************************************************************)
(* What qbe_generate derives from the control flow graph of a function     *)
(* (func in src/compile.c): the dominator tree and the frontiers, for the  *)
(* construction of SSA form, and after it the loops, for the costs of the  *)
(* spiller, over the same graph.                                           *)
(***************************************************************************)
EXTENDS Loops

dominators == <<pc, idom, n, left, d, b1, b2, ch, dom, fron>>
loops == <<at, m, from, stack, visit, loop, calls>>
vars == <<pred, dominators, loops>>

Init == DomInit /\ LoopInit

(* qbe_filldom and qbe_fillfron.                                           *)
FillDom == DomNext /\ UNCHANGED loops

(* qbe_fillloop, when they are done.                                       *)
FillLoop == pc = "done" /\ LoopNext /\ UNCHANGED dominators

Next == FillDom \/ FillLoop

Spec == Init /\ [][Next]_vars /\ WF_vars(Next)

-----------------------------------------------------------------------------
(* The iteration over the dominators, the walks and climbs along a tree    *)
(* that is still wrong, and the marking of the loops all end.              *)
Terminates == <>(at = "done")
=============================================================================
