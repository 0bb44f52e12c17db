------------------------------- MODULE Alias -------------------------------
(***************************************************************************)
(* What the addresses in a function may refer to (src/alias.c), for the    *)
(* passes over memory.                                                     *)
(*                                                                         *)
(* A reference is <<kind, number, class>>: a temporary of the host "t" or  *)
(* of the passes "n", a constant "c", an address "g" in a global object;   *)
(* a temporary in the form <<"t", k, "l">> an alloc defines is a slot.  An *)
(* instruction has its result and arguments, the bytes it is about (of an  *)
(* alloc, an access, a blit, a shift), and the bytes an "and" keeps.       *)
(***************************************************************************)
EXTENDS FlowGraph, SequencesExt

R == <<"none", 0, "l">>
Undef == <<"undef", 0, "l">>
C(k) == <<"c", k, "l">>
IsTmp(r) == r[1] \in {"t", "n"}
Class(r) == r[3]

Op(op, to, args, sz) == [op |-> op, to |-> to, args |-> args, sz |-> sz, keep |-> {}]
Nop == Op("nop", R, << >>, 0)

NBit == 64
Size(i) == IF i.sz < 0 THEN - i.sz ELSE i.sz

---------------------------------------------------------------------------
(* An alias: an offset from a base; the addresses of a slot are of one     *)
(* type and escape together, so the slots that escape are a set.           *)
Stack(r) == [type |-> "stack", base |-> r, off |-> 0]
Unk(r) == [type |-> "unk", base |-> r, off |-> 0]
Bot == [type |-> "bot", base |-> R, off |-> 0]
Moved(a, k) == [a EXCEPT !.off = @ + k]

(* qbe_getalias.                                                           *)
GetAlias(A, r) ==
  CASE r[1] = "c" -> [type |-> "con", base |-> R, off |-> r[2]]
    [] r[1] = "g" -> [type |-> "sym", base |-> <<"g", 0, "l">>, off |-> r[2]]
    [] r \in DOMAIN A.of -> A.of[r]
    [] OTHER -> Bot

IsStack(a) == a.type = "stack"
Local(A, a) == IsStack(a) /\ a.base \notin A.esc

(* esc, of every reference in S.                                           *)
Esc(A, S) ==
  [A EXCEPT !.esc = @ \cup {a.base : a \in {b \in {GetAlias(A, r) : r \in S} : IsStack(b)}}]

(* store: the bytes of a slot that are ever written.                       *)
Written(A, r, sz) ==
  LET a == GetAlias(A, r)
      bytes == IF sz >= NBit \/ a.off < 0 \/ a.off >= NBit THEN 0 .. NBit - 1
               ELSE a.off .. a.off + sz - 1
  IN IF IsStack(a) THEN [A EXCEPT !.m[a.base] = @ \cup bytes] ELSE A

(* Mutant of AliasPhi: a phi tracks its arguments no less than a copy does. *)
AliasPhiNoEsc(A, p) == [A EXCEPT !.of = (p.to :> Unk(p.to)) @@ @]

(* What a phi defines is unknown, and its arguments escape.                *)
AliasPhi(A, p) ==
  LET B == Esc(A, {a.r : a \in ToSet(p.arg)})
  IN [B EXCEPT !.of = (p.to :> Unk(p.to)) @@ @]

(* The alias of what an instruction defines.                               *)
Defined(A, i) ==
  CASE i.op = "alloc" -> Stack(i.to)
    [] i.op = "copy" -> GetAlias(A, i.args[1])
    [] i.op = "add" -> LET a0 == GetAlias(A, i.args[1])
                           a1 == GetAlias(A, i.args[2])
                       IN IF a0.type = "con" THEN Moved(a1, a0.off)
                          ELSE IF a1.type = "con" THEN Moved(a0, a1.off)
                          ELSE Unk(i.to)
    [] OTHER -> Unk(i.to)

(* The arguments that go where the analysis does not follow: not the       *)
(* addresses of accesses, nor of what is passed by value ("pass").         *)
Escaping(i) ==
  CASE i.op \in {"blit", "load", "pass"} -> {}
    [] i.op = "store" -> {i.args[1]}
    [] OTHER -> ToSet(i.args)

AliasIns(A, i) ==
  LET B == IF i.to = R THEN A ELSE [A EXCEPT !.of = (i.to :> Defined(A, i)) @@ @]
      D == IF i.to = R \/ B.of[i.to].type = "unk" THEN Esc(B, Escaping(i)) ELSE B
  IN CASE i.op = "alloc" -> [D EXCEPT !.m = (i.to :> {}) @@ @]
       [] i.op \in {"store", "blit"} -> Written(D, i.args[2], Size(i))
       [] OTHER -> D

(* qbe_fillalias, in the order of the blocks.                              *)
NoAliases == [of |-> << >>, esc |-> {}, m |-> << >>]
FillAlias(code, phi) ==
  LET Block(A, b) == FoldLeft(AliasIns, FoldLeft(AliasPhi, A, phi[b]), code[b])
  IN FoldLeft(Block, NoAliases, [k \in 1 .. N |-> k - 1])

---------------------------------------------------------------------------
(* qbe_alias, of sp bytes at op from p and of sq bytes at q: "must", "may" *)
(* or "no", and how far the first begin behind the second.                 *)
Verdict(A, ap, aq, overlap) ==
  LET sure == IF overlap THEN "must" ELSE "no"
  IN CASE IsStack(ap) /\ IsStack(aq) -> IF ap.base = aq.base THEN sure ELSE "no"
       [] ap.type = "sym" /\ aq.type = "sym" -> IF ap.base = aq.base THEN sure ELSE "may"
       [] ap.type = aq.type /\ ap.base = aq.base -> sure
       [] ap.type = "unk" /\ ~Local(A, aq) -> "may"
       [] aq.type = "unk" /\ ~Local(A, ap) -> "may"
       [] OTHER -> "no"

AliasOf(A, p, op, sp, q, sq) ==
  LET ap == Moved(GetAlias(A, p), op)
      aq == GetAlias(A, q)
  IN [is |-> Verdict(A, ap, aq, ap.off < aq.off + sq /\ aq.off < ap.off + sp),
      off |-> ap.off - aq.off]

(* qbe_escapes.                                                            *)
Escapes(A, r) == ~Local(A, GetAlias(A, r))
=============================================================================
