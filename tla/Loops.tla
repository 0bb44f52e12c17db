-------------------------------- MODULE Loops --------------------------------
(***************************************************************************)
(* The loops of a function (loopmark, qbe_loopiter, qbe_multloop,          *)
(* qbe_fillloop in src/cfg.c).  The depths order the successors in         *)
(* qbe_fillrpo and weigh the costs of the spiller, which also sums up what *)
(* a loop uses with a function of its own in the place of qbe_multloop:    *)
(* calls records every call of it.                                         *)
(***************************************************************************)
EXTENDS Dominators, Sequences

VARIABLES
  at,      \* "scan", "mark" or "done"
  m,       \* the block whose predecessors are looked at
  from,    \* those not looked at yet
  stack,   \* calls of loopmark: blocks, the next first
  visit,   \* b->visit, None for -1u
  loop,    \* b->loop
  calls    \* calls[h, b]: how often f was called for header h and block b

loopVars == <<pred, at, m, from, stack, visit, loop, calls>>

LoopInit ==
  /\ pred \in Graphs
  /\ at = "scan" /\ m = 0 /\ from = pred[0] /\ stack = <<>>
  /\ visit = [b \in Blk |-> None] /\ loop = [b \in Blk |-> 1]
  /\ calls = [e \in Blk \X Blk |-> 0]

(* A predecessor of rpo[m]: the source of a back edge starts a marking.    *)
Scan(p) ==
  /\ at = "scan" /\ m < N /\ p \in from
  /\ from' = from \ {p}
  /\ IF p >= m THEN at' = "mark" /\ stack' = <<p>> ELSE UNCHANGED <<at, stack>>
  /\ UNCHANGED <<pred, m, visit, loop, calls>>

NextBlock ==
  /\ at = "scan" /\ m < N /\ from = {}
  /\ m' = m + 1
  /\ from' = IF m + 1 < N THEN pred[m + 1] ELSE {}
  /\ at' = IF m + 1 < N THEN at ELSE "done"
  /\ UNCHANGED <<pred, stack, visit, loop, calls>>

(* The predecessors of a block in the order of their ids: the order of the *)
(* marking does not change what is marked.                                 *)
Preds(b) ==
  [k \in 1 .. Cardinality(pred[b]) |->
     CHOOSE p \in pred[b] : Cardinality({q \in pred[b] : q < p}) = k - 1]

(* Mutant of Outside: blocks marked for an enclosing loop are skipped.     *)
OutsideOnce(b) == b < m \/ visit[b] # None

(* loopmark returns at once: before the header, or already in this loop.   *)
Outside(b) == b < m \/ visit[b] = m

(* A call of loopmark(rpo[m], b) with qbe_multloop.                        *)
Mark ==
  /\ at = "mark" /\ stack # <<>>
  /\ LET b == Head(stack)
     IN IF Outside(b)
        THEN stack' = Tail(stack) /\ UNCHANGED <<visit, loop, calls>>
        ELSE /\ visit' = [visit EXCEPT ![b] = m]
             /\ loop' = [loop EXCEPT ![b] = @ * 10]
             /\ calls' = [calls EXCEPT ![<<m, b>>] = @ + 1]
             /\ stack' = Preds(b) \o Tail(stack)
  /\ UNCHANGED <<at, pred, m, from>>

(* The outermost call of loopmark returns.                                 *)
Marked ==
  /\ at = "mark" /\ stack = <<>>
  /\ at' = "scan"
  /\ UNCHANGED <<pred, m, from, stack, visit, loop, calls>>

LoopNext == (\E p \in Blk : Scan(p)) \/ NextBlock \/ Mark \/ Marked

LoopSpec == LoopInit /\ [][LoopNext]_loopVars

-----------------------------------------------------------------------------
(* The natural loop of h: h and what reaches the source of a back edge to  *)
(* it without passing h.  In an irreducible loop, which can be entered     *)
(* around h, the blocks before h stay out.                                 *)
Sources(h) == {p \in pred[h] : p >= h}
Reaching(S, A) == Closure([a \in Blk |-> Succ(pred, a)], S, A)
NaturalLoop(h) ==
  IF Sources(h) = {} THEN {} ELSE {h} \cup Reaching(Sources(h), Blk \ {h})
Reducible == \A e \in Edges(pred) : e[1] >= e[2] => Dominates(pred, e[2], e[1])

Power10(k) == LET p[i \in 0 .. N] == IF i = 0 THEN 1 ELSE 10 * p[i - 1] IN p[k]

(* Types; the calls that wait are no more than the edges, so that the      *)
(* recursion of loopmark is bounded by the size of the function.           *)
LoopOK ==
  /\ at \in {"scan", "mark", "done"} /\ m \in 0 .. N
  /\ visit \in [Blk -> {None} \cup 0 .. m] /\ Len(stack) <= MaxEdges
  /\ \A b \in Blk : loop[b] \in Nat

(* A block is handed to the caller's function once for each loop it is in, *)
(* never twice, also when several back edges enter the header or when the  *)
(* marks of other loops have come between.  In a function whose loops have *)
(* one entry, as all structured code has, the depth of a block counts the  *)
(* natural loops it is in.                                                 *)
LoopsExact ==
  /\ \A e \in Blk \X Blk : calls[e] <= 1
  /\ at = "done" /\ Reducible =>
       \A b \in Blk : loop[b] = Power10(Cardinality({h \in Blk : b \in NaturalLoop(h)}))
=============================================================================
