------------------------------ MODULE CopyElim ------------------------------
(***************************************************************************)
(* Copy elimination (src/copy.c) behind the construction of SSA form: the  *)
(* names of a variable, its loads and the phis that turn out to be copies  *)
(* of one another go, in one pass over the blocks that looks one copy back *)
(* and a search for clusters of phis.                                      *)
(*                                                                         *)
(* The function is written out here.  A reference is <<kind, number>>: a   *)
(* constant "c", a name "s" of the variable, the result "l" of a load, the *)
(* value "v" a store stores, the condition "j" of a jump that tests no     *)
(* load; loads and stores are numbered by their places.                    *)
(***************************************************************************)
EXTENDS Ssa, TLC

VARIABLES
  code,     \* the instructions of each block: [op, to, args]
  jmp,      \* [op |-> "jnz", "jmp" or "ret", arg, to |-> its successors]
  cpy       \* what each temporary is a copy of, R before it was seen

R == <<"none", 0>>
Undef == <<"undef", 0>>
C(k) == <<"c", k>>
IsTmp(r) == r[1] \in {"s", "l", "v", "j"}
Name(x) == IF x = UNDEF THEN Undef ELSE <<"s", x>>
Site(b, i) == 8 * b + i
Ref(op, b, i) == <<op, Site(b, i)>>

(* The last load in front of the i-th access of b.                         *)
LastLoad(b, i) ==
  Ref("l", b, CHOOSE h \in 1 .. i - 1 : host[b][h].op = "load" /\ \A g \in h + 1 .. i - 1 : host[b][g].op # "load")

(* What the host stores: something it got from a call, a constant, a       *)
(* constant it computes, or what it loaded last, with or without a change. *)
Stored(b, i) ==
  LET v == Ref("v", b, i)
      Op(op, args) == <<[op |-> op, to |-> v, args |-> args]>>
  IN CASE host[b][i].val = "call" -> Op("call", << >>)
       [] host[b][i].val = "1-1"  -> Op("sub", <<C(1), C(1)>>)
       [] host[b][i].val = "x+0"  -> Op("add", <<LastLoad(b, i), C(0)>>)
       [] host[b][i].val = "x^1"  -> Op("xor", <<LastLoad(b, i), C(1)>>)
       [] OTHER -> << >>
Source(b, i) ==
  CASE host[b][i].val = "0" -> C(0) [] host[b][i].val = "1" -> C(1) [] host[b][i].val = "x" -> LastLoad(b, i)
    [] OTHER -> Ref("v", b, i)

(* The host looks at what it loaded: "obs" stands for what it does with it.*)
Written(b, i) ==
  IF ins[b][i].op = "def"
  THEN Stored(b, i) \o <<[op |-> "copy", to |-> Name(ins[b][i].name), args |-> <<Source(b, i)>>]>>
  ELSE <<[op |-> "copy", to |-> Ref("l", b, i), args |-> <<Name(ins[b][i].name)>>],
         [op |-> "obs", to |-> R, args |-> <<Ref("l", b, i)>>]>>

(* A block whose last access is a load tests it; the first successor is    *)
(* for a value that is not 0.                                              *)
TestsLoad(b) == host[b] # << >> /\ Last(host[b]).op = "load"
Jump(b) ==
  LET to == SetToSortSeq(Succ(pred, b), <)
  IN [op |-> CASE Len(to) = 2 -> "jnz" [] Len(to) = 1 -> "jmp" [] OTHER -> "ret", to |-> to,
      arg |-> IF Len(to) < 2 THEN R ELSE IF TestsLoad(b) THEN LastLoad(b, Len(host[b]) + 1) ELSE <<"j", b>>]

Phis(b) ==
  IF phi[b] = NoPhi THEN [to |-> R, arg |-> << >>]
  ELSE [to |-> Name(phi[b].to),
        arg |-> [k \in DOMAIN phi[b].arg |-> [b |-> phi[b].arg[k][1], r |-> Name(phi[b].arg[k][2])]]]

CopyStart ==
  /\ pc = "ssa" /\ pc' = "copy"
  /\ code' = [b \in Blk |-> FlattenSeq([i \in DOMAIN ins[b] |-> Written(b, i)])]
  /\ jmp' = [b \in Blk |-> Jump(b)]
  /\ phi' = [b \in Blk |-> Phis(b)]
  /\ n' = 0
  /\ UNCHANGED <<prog, ins, flow, u, defs, work, front, visit, names, stk, todo, cpy>>

---------------------------------------------------------------------------
(* An instruction that hands on its first argument.                        *)
IsCopy(i) ==
  \/ i.op = "copy"
  \/ i.op \in {"mul", "div", "udiv"} /\ i.args[2] = C(1)
  \/ i.op \in {"add", "sub", "or", "xor", "sar", "shl", "shr"} /\ i.args[2] = C(0)

(* The block a temporary is defined in, -1 for a parameter.                *)
Defines(b, r) == phi[b].to = r \/ \E i \in ToSet(code[b]) : i.to = r
BlkOf(r) == IF \E b \in Blk : Defines(b, r) THEN CHOOSE b \in Blk : Defines(b, r) ELSE Start

CopyOf(r, c) == IF r \in DOMAIN c THEN c[r] ELSE r

(* The instructions and phis that use a temporary of T as they would a     *)
(* copy of it.                                                             *)
Users(T) ==
  {phi[b].to : b \in {b \in Blk : \E a \in ToSet(phi[b].arg) : a.r \in T}}
  \cup UNION {{i.to : i \in {i \in ToSet(code[b]) : IsCopy(i) /\ ToSet(i.args) \cap T # {}}} : b \in Blk}
Cluster(r) ==
  LET by[k \in Nat] == IF k = 0 THEN {r} ELSE LET T == by[k - 1] IN T \cup Users(T)
  IN by[4 * N]

(* phisimpl: the phis and copies that lead from the phi of b are copies of *)
(* r if they read nothing but r and each other.                            *)
PhiSimpl(b, r, c) ==
  LET ts   == Cluster(phi[b].to)
      read == UNION {{CopyOf(a.r, c) : a \in ToSet(phi[d].arg)} : d \in {d \in Blk : phi[d].to \in ts}}
  IN IF read \subseteq ts \cup {r} THEN [t \in ts |-> r] @@ c ELSE c

(* Mutant of VisitPhi: what comes over a loop is taken to agree.            *)
VisitPhiEarly(b, c) ==
  LET p       == phi[b]
      early   == SelectSeq(p.arg, LAMBDA a : a.b < b)
      of      == [k \in DOMAIN early |-> CopyOf(early[k].r, c)]
      defined == SelectSeq(of, LAMBDA x : x # Undef)
      r       == IF defined = << >> THEN Undef ELSE Head(defined)
      own     == (p.to :> p.to) @@ c
  IN IF p.to = R \/ p.to \in DOMAIN c THEN c
     ELSE IF IsTmp(r) /\ BlkOf(r) \notin dom[b] THEN own
     ELSE IF ToSet(defined) \subseteq {r} THEN (p.to :> r) @@ c
     ELSE PhiSimpl(b, r, own)

(* A phi whose arguments from earlier blocks agree, those never stored to  *)
(* aside.                                                                  *)
VisitPhi(b, c) ==
  LET p       == phi[b]
      early   == SelectSeq(p.arg, LAMBDA a : a.b < b)
      of      == [k \in DOMAIN early |-> CopyOf(early[k].r, c)]
      defined == SelectSeq(of, LAMBDA x : x # Undef)
      r       == IF defined = << >> THEN Undef ELSE Head(defined)
      own     == (p.to :> p.to) @@ c
  IN IF p.to = R \/ p.to \in DOMAIN c THEN c
     ELSE IF IsTmp(r) /\ BlkOf(r) \notin dom[b] THEN own
     ELSE IF Len(early) = Len(p.arg) /\ ToSet(defined) \subseteq {r} THEN (p.to :> r) @@ c
     ELSE PhiSimpl(b, r, own)

VisitIns(c, i) ==
  IF i.to = R \/ i.to \in DOMAIN c THEN c
  ELSE (i.to :> IF IsCopy(i) THEN CopyOf(i.args[1], c) ELSE i.to) @@ c

CopyBlk ==
  /\ pc = "copy" /\ n \in Blk
  /\ cpy' = FoldLeft(VisitIns, VisitPhi(n, cpy), code[n])
  /\ n' = n + 1
  /\ UNCHANGED <<prog, ins, pc, flow, u, defs, work, front, visit, names, stk, todo, phi, code, jmp>>

(* What is a copy of something else goes, and its uses become uses of that.*)
Subst(i) == [i EXCEPT !.args = [k \in DOMAIN @ |-> CopyOf(@[k], cpy)]]
Stays(r) == r = R \/ cpy[r] = r

CopyEnd ==
  /\ pc = "copy" /\ n = N
  /\ pc' = "fold"
  /\ phi' = [b \in Blk |-> IF Stays(phi[b].to)
                           THEN [phi[b] EXCEPT !.arg = [k \in DOMAIN @ |-> [@[k] EXCEPT !.r = CopyOf(@, cpy)]]]
                           ELSE [to |-> R, arg |-> << >>]]
  /\ code' = [b \in Blk |-> [k \in DOMAIN SelectSeq(code[b], LAMBDA i : Stays(i.to)) |->
                               Subst(SelectSeq(code[b], LAMBDA i : Stays(i.to))[k])]]
  /\ jmp' = [b \in Blk |-> [jmp[b] EXCEPT !.arg = CopyOf(@, cpy)]]
  /\ cpy' = << >>
  /\ UNCHANGED <<prog, ins, flow, n, u, defs, work, front, visit, names, stk, todo>>

CopyNext == CopyStart \/ CopyBlk \/ CopyEnd
=============================================================================
