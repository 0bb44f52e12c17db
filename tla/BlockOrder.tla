----------------------------- MODULE BlockOrder -----------------------------
(***************************************************************************)
(* The two orders func (src/compile.c) gives the blocks of a function: one *)
(* when it has been parsed, phis and all, which every analysis relies on,  *)
(* and one when its registers are allocated and qbe_simpljmp has threaded  *)
(* its jumps, in which it is emitted.                                      *)
(***************************************************************************)
EXTENDS SimplJmp

threading == <<tpc, tb, jmp, uf, code>>

Parsed ==
  /\ Init
  /\ tpc = "none" /\ tb = Start /\ jmp = <<>> /\ code = <<>>
  /\ uf = [a \in Blk |-> None]

(* All blocks have been reached, and no phi is left.                       *)
Allocated ==
  /\ ThreadInit
  /\ pc = "thread" /\ link = [k \in 1 .. N |-> k - 1] /\ nblk = N /\ at = 1
  /\ loop = [b \in Blk |-> IF b \in Listed THEN 1 ELSE 0]
  /\ phi = <<>> /\ pred = [b \in Blk |-> <<>>] /\ id = [b \in Blk |-> Unset]
  /\ rpo = <<>> /\ x = 0 /\ gone = 0 /\ stack = <<>> /\ edges = {}

OrderInit == Parsed \/ Allocated

-----------------------------------------------------------------------------
Thread ==
  /\ pc = "thread"
  /\ ThreadNext
  /\ IF tpc' = "done"
     THEN /\ pc' = "preds" /\ link' = Append(link, Ret) /\ nblk' = nblk + 1
          /\ edges' = {e \in Blk \X Blk : e[2] \in {s1[e[1]], s2[e[1]]}}
     ELSE UNCHANGED <<pc, link, nblk, edges>>
  /\ UNCHANGED <<at, loop, phi, pred, id, rpo, x, gone, stack>>

FillRpo == Next /\ UNCHANGED threading

(* The list follows rpo.                                                   *)
Relink ==
  /\ pc = "done" /\ tpc = "done"
  /\ link' = rpo
  /\ pc' = "laid"
  /\ UNCHANGED <<at, s1, s2, loop, phi, pred, id, rpo, nblk, x, gone, stack, edges>>
  /\ UNCHANGED threading

OrderNext == Thread \/ FillRpo \/ Relink

OrderSpec == OrderInit /\ [][OrderNext]_<<vars, threading>>

-----------------------------------------------------------------------------
(* The function that is emitted does what the one that was allocated did:  *)
(* it begins with the same block, has each block once and every block it   *)
(* can jump to, and behind each of them the same things happen.            *)
SameRuns ==
  pc = "laid" =>
    /\ Head(link) = Start /\ IsInjective(link) /\ Len(link) = nblk
    /\ \A a \in ToSet(link) : Succs(a) \subseteq ToSet(link)
    /\ \A a \in ToSet(link) \ {Ret} : SameRun(a)
=============================================================================
