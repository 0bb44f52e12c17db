-------------------------------- MODULE Rpo --------------------------------
(***************************************************************************)
(* Predecessors and reverse postorder (qbe_fillpreds, rporec, qbe_fillrpo, *)
(* qbe_edgedel in src/cfg.c): the numbering every later pass iterates in,  *)
(* and the removal of the blocks it does not reach.                        *)
(*                                                                         *)
(* A block has one phi, or none once registers are allocated; its          *)
(* arguments are named by the block they come from.  Ids are signed, so    *)
(* the -1u of an unvisited block is Unset.                                 *)
(***************************************************************************)
EXTENDS Integers, FiniteSets, SequencesExt

CONSTANT N   \* blocks the function is parsed with

ASSUME NAssumption == N \in Nat \ {0}

Blk == 0 .. N       \* the last one is added later, by qbe_simpljmp
Listed == Blk \ {N}
Start == 0
None == -1
Unset == -1

VARIABLES
  pc,      \* "preds", "number", "sweep", "done" or "abort"
  link,    \* the list of blocks, fn->start first
  at,      \* position of the sweep in it
  s1, s2,  \* successors
  loop,    \* b->loop, what decides the order of two successors
  phi,     \* blocks of the arguments of the phi, of the blocks with one
  pred,    \* b->pred
  id,      \* b->id
  rpo,     \* f->rpo
  nblk,    \* f->nblk
  x,       \* the next id of rporec
  gone,    \* n of qbe_fillrpo: how many blocks were not reached
  stack,   \* the calls of rporec: blocks still to be visited or left
  edges    \* the edges the function was parsed with; never changed

vars == <<pc, link, at, s1, s2, loop, phi, pred, id, rpo, nblk, x, gone, stack, edges>>

Succs(b) == {s1[b], s2[b]} \ {None}

(* Edges of the parsed function: a return, a jump or a branch, never to    *)
(* the start block (src/parse.c refuses one).                              *)
Jumps == {<<None, None>>} \cup ((Listed \ {Start}) \X ((Listed \ {Start}) \cup {None}))

Visit(b) == [blk |-> b, leave |-> FALSE]
Leave(b) == [blk |-> b, leave |-> TRUE]

Ascending(S) ==
  [k \in 1 .. Cardinality(S) |-> CHOOSE b \in S : Cardinality({c \in S : c < b}) = k - 1]

Init ==
  /\ \E j \in [Listed -> Jumps] :
       /\ s1 = [b \in Blk |-> IF b \in Listed THEN j[b][1] ELSE None]
       /\ s2 = [b \in Blk |-> IF b \in Listed THEN j[b][2] ELSE None]
  /\ edges = {e \in Blk \X Blk : e[2] \in Succs(e[1])}
  /\ phi = [b \in Listed |-> Reverse(Ascending({a \in Blk : <<a, b>> \in edges}))]
  /\ loop \in {[b \in Blk |-> IF b = d THEN 10 ELSE 1] : d \in Listed}
  /\ link = [k \in 1 .. N |-> k - 1] /\ nblk = N
  /\ pc = "preds" /\ at = 1
  /\ pred = [b \in Blk |-> <<>>] /\ id = [b \in Blk |-> Unset]
  /\ rpo = <<>> /\ x = 0 /\ gone = 0 /\ stack = <<>>

-----------------------------------------------------------------------------
(* qbe_fillpreds: a predecessor counts once, also when both successors of  *)
(* a block are the same; and the entry of qbe_fillrpo.                     *)
FillPreds ==
  /\ pc = "preds"
  /\ pred' = [b \in Blk |-> Ascending({a \in Blk : b \in Succs(a)})]
  /\ id' = [b \in Blk |-> Unset]
  /\ x' = nblk - 1
  /\ stack' = <<Visit(Start)>>
  /\ pc' = "number"
  /\ UNCHANGED <<link, at, s1, s2, loop, phi, rpo, nblk, gone, edges>>

(* The deeper of two successors is visited last and gets the lower ids.    *)
Order(b) ==
  IF s1[b] # None /\ s2[b] # None /\ loop[s1[b]] > loop[s2[b]]
  THEN <<Visit(s2[b]), Visit(s1[b])>> ELSE <<Visit(s1[b]), Visit(s2[b])>>

(* Mutant of Enter: the block gets its number on the way in.               *)
EnterNumbers ==
  /\ pc = "number" /\ stack # <<>> /\ ~Head(stack).leave
  /\ LET b == Head(stack).blk
     IN IF b = None \/ id[b] # Unset
        THEN stack' = Tail(stack) /\ UNCHANGED <<id, x>>
        ELSE /\ id' = [id EXCEPT ![b] = x] /\ x' = x - 1
             /\ stack' = Order(b) \o Tail(stack)
  /\ UNCHANGED <<pc, link, at, s1, s2, loop, phi, pred, rpo, nblk, gone, edges>>

(* A call of rporec, up to its first recursive call.                       *)
Enter ==
  /\ pc = "number" /\ stack # <<>> /\ ~Head(stack).leave
  /\ LET b == Head(stack).blk
     IN IF b = None \/ id[b] # Unset
        THEN stack' = Tail(stack) /\ UNCHANGED id
        ELSE /\ id' = [id EXCEPT ![b] = 1]
             /\ stack' = Order(b) \o <<Leave(b)>> \o Tail(stack)
  /\ UNCHANGED <<pc, link, at, s1, s2, loop, phi, pred, rpo, nblk, x, gone, edges>>

(* The end of a call of rporec: the block is numbered after its successors.*)
Number ==
  /\ pc = "number" /\ stack # <<>> /\ Head(stack).leave
  /\ id' = [id EXCEPT ![Head(stack).blk] = x]
  /\ x' = x - 1
  /\ stack' = Tail(stack)
  /\ UNCHANGED <<pc, link, at, s1, s2, loop, phi, pred, rpo, nblk, gone, edges>>

(* Back in qbe_fillrpo: n is the number of blocks that were not reached.   *)
Reached ==
  /\ pc = "number" /\ stack = <<>>
  /\ gone' = x + 1
  /\ nblk' = nblk - (x + 1)
  /\ rpo' = [k \in 1 .. nblk' |-> None]
  /\ at' = 1 /\ pc' = "sweep"
  /\ UNCHANGED <<link, s1, s2, loop, phi, pred, id, x, stack, edges>>

-----------------------------------------------------------------------------

(* The assertions of qbe_edgedel: the edge from bs to bd is there.         *)
Finds(m, bs, bd) ==
  /\ bd \in DOMAIN m.phi => Contains(m.phi[bd], bs)
  /\ m.pred[bd] # <<>> => Contains(m.pred[bd], bs)

(* Mutant of EdgeDel: the phi keeps its argument.                          *)
EdgeDelKeepsPhi(m, bs, bd, other) ==
  IF bd = None \/ bd = other THEN m
  ELSE IF Finds(m, bs, bd) THEN [m EXCEPT !.pred[bd] = RemoveFirst(@, bs)]
  ELSE [m EXCEPT !.ok = FALSE]

(* qbe_edgedel, on the successor bd of bs: m is what the function knows of *)
(* its phis and predecessors, ok whether every assertion held.             *)
EdgeDel(m, bs, bd, other) ==
  IF bd = None \/ bd = other THEN m
  ELSE IF Finds(m, bs, bd)
  THEN [m EXCEPT !.phi = [b \in DOMAIN m.phi |-> IF b = bd THEN RemoveFirst(m.phi[b], bs) ELSE m.phi[b]],
                 !.pred[bd] = RemoveFirst(@, bs)]
  ELSE [m EXCEPT !.ok = FALSE]

(* A block that was not reached: both its edges go, and so does it.        *)
SweepDelete ==
  /\ pc = "sweep" /\ at <= Len(link)
  /\ LET b  == link[at]
         m1 == EdgeDel([phi |-> phi, pred |-> pred, ok |-> TRUE], b, s1[b], s2[b])
         m2 == EdgeDel(m1, b, s2[b], None)
     IN /\ id[b] = Unset
        /\ phi' = m2.phi /\ pred' = m2.pred
        /\ pc' = IF m2.ok THEN pc ELSE "abort"
        /\ s1' = [s1 EXCEPT ![b] = None] /\ s2' = [s2 EXCEPT ![b] = None]
        /\ link' = RemoveFirst(link, b)
  /\ UNCHANGED <<at, loop, id, rpo, nblk, x, gone, stack, edges>>

(* A block that was reached: its final number and its place in rpo.        *)
SweepKeep ==
  /\ pc = "sweep" /\ at <= Len(link) /\ id[link[at]] # Unset
  /\ LET b == link[at]
     IN /\ id' = [id EXCEPT ![b] = @ - gone]
        /\ rpo' = [rpo EXCEPT ![id[b] - gone + 1] = b]
  /\ at' = at + 1
  /\ UNCHANGED <<pc, link, s1, s2, loop, phi, pred, nblk, x, gone, stack, edges>>

SweepEnd ==
  /\ pc = "sweep" /\ at > Len(link)
  /\ pc' = "done"
  /\ UNCHANGED <<link, at, s1, s2, loop, phi, pred, id, rpo, nblk, x, gone, stack, edges>>

Next == FillPreds \/ Enter \/ Number \/ Reached \/ SweepDelete \/ SweepKeep \/ SweepEnd

Spec == Init /\ [][Next]_vars

-----------------------------------------------------------------------------
(* Blocks b is connected to by a path of edges of the parsed function.     *)
Closure(S) ==
  LET within[k \in 0 .. N] ==   \* by paths of at most k edges
        IF k = 0 THEN S
        ELSE LET T == within[k - 1]
             IN T \cup {e[2] : e \in {f \in edges : f[1] \in T}}
  IN within[N]
Reaches(a, b) == b \in Closure({a})

(* Types: every index the code uses stays inside its array, ids count down *)
(* from the last block and the asserts of qbe_edgedel find their edge.     *)
TypeOK ==
  /\ pc \in {"preds", "number", "sweep", "done"}
  /\ x \in -1 .. N /\ nblk \in 1 .. N + 1 /\ gone \in 0 .. N
  /\ id \in [Blk -> Unset .. N]
  /\ \A k \in DOMAIN link : link[k] \in Blk
  /\ DOMAIN rpo \in {{}, 1 .. nblk}
  /\ \A b \in Blk : s1[b] \in Blk \cup {None} /\ s2[b] \in Blk \cup {None}

(* An edge that does not go to a higher id closes a cycle: in a function   *)
(* without loops every block comes before its successors, and in any other *)
(* one only the edges of loops run against the numbering.  A block that is *)
(* not the start has a predecessor before it, which is what a pass over    *)
(* the dominators needs to have something to intersect.                    *)
RetreatingEdgesAreLoops ==
  pc = "done" =>
    /\ \A e \in edges :
         Reaches(Start, e[1]) /\ id[e[1]] >= id[e[2]] => Reaches(e[2], e[1])
    /\ \A b \in Closure({Start}) \ {Start} :
         \E e \in edges : e[2] = b /\ Reaches(Start, e[1]) /\ id[e[1]] < id[b]

(* The phi of a block that stays has one argument for each edge left that  *)
(* enters it, and the predecessors of the block are the same: the edges    *)
(* of the blocks swept took theirs with them, once each, and no assertion  *)
(* of qbe_edgedel failed over it.                                          *)
PhisMatchEdges ==
  /\ pc # "abort"
  /\ pc = "done" =>
    \A b \in Closure({Start}) :
      LET P == {a \in Closure({Start}) : <<a, b>> \in edges}
      IN /\ b \in DOMAIN phi => Len(phi[b]) = Cardinality(P) /\ ToSet(phi[b]) = P
         /\ Len(pred[b]) = Cardinality(P) /\ ToSet(pred[b]) = P

=============================================================================
