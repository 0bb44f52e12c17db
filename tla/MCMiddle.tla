------------------------------ MODULE MCMiddle ------------------------------
(* Every graph of four blocks and up to five edges.  A function has a load, *)
(* a store of something new or nothing in each block; or something else in  *)
(* one block and a load or store in each other one, or nothing; or          *)
(* constants, loads and loads that are changed and stored again.            *)
EXTENDS Middle

L == Ins("load", 4, "w")
S == Ins("store", 4, "w")
St(v) == [S EXCEPT !.val = v]
Odd ==
  {<<S, L, S, L>>, <<L, S, S>>, <<S, Ins("leak", 4, "w")>>, <<Ins("store", 1, "w")>>,
   <<Ins("load", 1, "w")>>, <<Ins("store", 4, "s")>>,
   <<L, St("x")>>, <<L, St("x+0")>>, <<St("1-1")>>, <<St("1"), L>>}
MCHosts ==
  [Blk -> {<<>>, <<L>>, <<S>>}]
  \cup {[f EXCEPT ![b] = o] : f \in [Blk -> {<<L>>, <<S>>}], b \in Blk, o \in Odd}
  \cup {[[c \in Blk |-> <<>>] EXCEPT ![b] = o] : b \in Blk, o \in Odd}
  \cup [Blk -> {<<L>>, <<St("0")>>, <<L, St("x^1")>>}]
=============================================================================
