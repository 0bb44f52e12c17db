--------------------------------- MODULE Ssa ---------------------------------
(***************************************************************************)
(* A local variable of the host on its way out of memory: qbe_promote      *)
(* (src/mem.c) turns the loads and stores of its slot into copies, qbe_ssa *)
(* (src/ssa.c) gives each store a name of its own and joins them with      *)
(* phis, qbe_ssacheck accepts the outcome or ends the host.                *)
(*                                                                         *)
(* Variables do not meet in these passes, so there is one.  Dominators,    *)
(* frontiers and liveness are what modules BlockAnalyses and Live show the *)
(* code to compute.                                                        *)
(***************************************************************************)
EXTENDS FlowGraph, SequencesExt

CONSTANT Hosts   \* functions of the host: the accesses to the variable in each block

(* An instruction: "store" and "load" through the address of the slot, or  *)
(* "leak" for any other use of it; "def" and "use" of a name, later.  val  *)
(* says what is stored.                                                    *)
Ins(op, sz, k) == [op |-> op, sz |-> sz, k |-> k, name |-> 0, val |-> "call"]

VARIABLES
  pred,    \* the graph
  host,    \* the instructions of each block, as the host wrote them
  ins,     \* and as they are now
  pc,      \* "promote", "fill", "scan", "phis", "rename", "check", "ssa", "slot", "error"
  dom,     \* the dominators of each block
  fron,    \* its frontier
  in, out, \* the blocks the variable is live into and out of
  n,       \* the block scanned next
  u, defs, work, front,  \* u, defs, the list at bp, and what is left of the
                         \* frontier of the block taken from it
  phi,     \* the phi of each block for the variable
  visit,   \* whether the variable is to be renamed
  names,   \* names made, the first one is 1; 0 is the variable
  stk,     \* stk[t]: the names and their blocks, the last one first
  todo     \* blocks renblk was not called for yet

prog == <<pred, host>>
flow == <<dom, fron, in, out>>
ssa == <<n, u, defs, work, front, visit, names, stk, todo>>
ssaVars == <<prog, ins, pc, flow, ssa, phi>>

UNDEF == -1
NoPhi == [to |-> None, arg |-> << >>]
Phi == [to |-> 0, arg |-> << >>]

SsaInit ==
  /\ pred \in Graphs
  /\ host \in Hosts
  /\ ins = host /\ pc = "promote"
  /\ dom = [b \in Blk |-> {}] /\ fron = dom /\ in = {} /\ out = {}
  /\ n = 0 /\ u = {} /\ defs = {} /\ work = <<>> /\ front = {} /\ visit = FALSE
  /\ phi = [b \in Blk |-> NoPhi] /\ names = 0 /\ stk = <<>> /\ todo = <<>>

All(f) == UNION {ToSet(f[b]) : b \in Blk}
Has(op, b) == \E i \in DOMAIN ins[b] : ins[b][i].op = op

-----------------------------------------------------------------------------
(* Mutant of Uniform: an access may be narrower than the others.           *)
UniformClass(uses) ==
  /\ \A i \in uses : i.op \in {"load", "store"}
  /\ \A i, j \in uses : i.op = "store" /\ j.op = "store" => i.k = j.k

(* The uses of the slot are loads and stores of one size, and the stores   *)
(* are of one class.                                                       *)
Uniform(uses) ==
  /\ \A i \in uses : i.op \in {"load", "store"}
  /\ \A i, j \in uses : i.sz = j.sz
  /\ \A i, j \in uses : i.op = "store" /\ j.op = "store" => i.k = j.k

Copy(i) == [i EXCEPT !.op = IF @ = "store" THEN "def" ELSE "use"]

(* qbe_promote.  A slot that is read and never written is an error.        *)
Promote ==
  /\ pc = "promote"
  /\ LET uses == All(ins)
     IN IF ~Uniform(uses) THEN pc' = "slot" /\ UNCHANGED ins
        ELSE IF uses # {} /\ \A i \in uses : i.op = "load" THEN pc' = "error" /\ UNCHANGED ins
        ELSE /\ pc' = "fill"
             /\ ins' = [b \in Blk |-> [i \in DOMAIN ins[b] |->
                          IF ins[b][i].op \in {"load", "store"} THEN Copy(ins[b][i]) ELSE ins[b][i]]]
  /\ UNCHANGED <<prog, flow, ssa, phi>>

(* Some use in b comes before all definitions in it.                       *)
Exposed(b) ==
  \E i \in DOMAIN ins[b] : ins[b][i].op = "use" /\ \A h \in 1 .. i : ins[b][h].op # "def"

(* The blocks from which a path without a definition leads to a use.       *)
LiveIn ==
  LET exposed == {b \in Blk : Exposed(b)}
      carry   == {b \in Blk : ~Has("def", b)}
      by[k \in 0 .. N] ==
        IF k = 0 THEN exposed
        ELSE LET S == by[k - 1] IN S \cup {b \in carry : Succ(pred, b) \cap S # {}}
  IN by[N]

(* qbe_filldom, qbe_fillfron and qbe_filllive.                             *)
Fill ==
  /\ pc = "fill" /\ pc' = "scan"
  /\ dom' = [b \in Blk |-> {a \in Blk : Dominates(pred, a, b)}]
  /\ fron' = [a \in Blk |-> {b \in Blk : (\E p \in pred[b] : a \in dom'[p]) /\ a \notin dom'[b] \ {b}}]
  /\ in' = LiveIn
  /\ out' = {b \in Blk : Succ(pred, b) \cap in' # {}}
  /\ UNCHANGED <<prog, ins, ssa, phi>>

-----------------------------------------------------------------------------
Count(op) == Cardinality({<<b, i>> \in Blk \X (1 .. 8) : i \in DOMAIN ins[b] /\ ins[b][i].op = op})

(* Mutant of Single: two definitions will do, if all is in one block.      *)
SingleBlock == \E b \in Blk : Has("def", b) /\ \A a \in Blk \ {b} : ins[a] = <<>>

(* One definition, and all uses in its block, or behind the start block.   *)
Single ==
  /\ Count("def") = 1
  /\ \E b \in Blk : Has("def", b) /\ (b = Start \/ \A a \in Blk : Has("use", a) => a = b)

SkipSingle ==
  /\ pc = "scan" /\ n = 0 /\ Single
  /\ pc' = "check"
  /\ UNCHANGED <<prog, ins, flow, ssa, phi>>

(* A definition nobody needs behind the block gets its name at once, and   *)
(* the uses up to the next one.                                            *)
RenameLocally(i, st) ==
  CASE i.op = "def" -> [r |-> st.next + 1, next |-> st.next + 1,
                        seq |-> Append(st.seq, [i EXCEPT !.name = st.next + 1])]
    [] i.op = "use" -> [st EXCEPT !.seq = Append(@, [i EXCEPT !.name = st.r])]
    [] OTHER -> [st EXCEPT !.seq = Append(@, i)]

(* A block, in phiins.                                                     *)
ScanBlk ==
  /\ pc = "scan" /\ n \in Blk /\ ~(n = 0 /\ Single)
  /\ IF n \in out
     THEN /\ u' = IF Has("def", n) THEN u \cup {n} ELSE u
          /\ work' = IF Has("def", n) THEN <<n>> \o work ELSE work
          /\ UNCHANGED <<ins, names>>
     ELSE LET st == FoldLeft(LAMBDA s, i : RenameLocally(i, s),
                             [r |-> 0, next |-> names, seq |-> <<>>], ins[n])
          IN ins' = [ins EXCEPT ![n] = st.seq] /\ names' = st.next /\ UNCHANGED <<u, work>>
  /\ n' = n + 1
  /\ UNCHANGED <<prog, pc, flow, defs, front, visit, stk, todo, phi>>

ScanEnd ==
  /\ pc = "scan" /\ n = N
  /\ defs' = u /\ pc' = "phis"
  /\ UNCHANGED <<prog, ins, flow, n, u, work, front, visit, names, stk, todo, phi>>

(* The loop over the list: the next block is taken from it.                *)
TakeBlk ==
  /\ pc = "phis" /\ work # <<>> /\ front = {}
  /\ visit' = TRUE
  /\ u' = u \ {Head(work)} /\ work' = Tail(work) /\ front' = fron[Head(work)]
  /\ UNCHANGED <<prog, ins, pc, flow, n, defs, names, stk, todo, phi>>

(* Mutant of PhiAt: a phi is not taken for a definition.                   *)
PhiAtOnce ==
  /\ pc = "phis"
  /\ \E a \in front :
       /\ front' = front \ {a}
       /\ phi' = IF phi[a] = NoPhi /\ a \in in THEN [phi EXCEPT ![a] = Phi] ELSE phi
       /\ UNCHANGED <<prog, ins, pc, flow, n, u, work, defs, visit, names, stk, todo>>

(* A block of its frontier gets a phi, once, if the variable is live       *)
(* there, and the list gets that block.                                    *)
PhiAt ==
  /\ pc = "phis"
  /\ \E a \in front :
       /\ front' = front \ {a}
       /\ IF phi[a] = NoPhi /\ a \in in
          THEN /\ phi' = [phi EXCEPT ![a] = Phi]
               /\ IF a \notin defs \cup u THEN u' = u \cup {a} /\ work' = <<a>> \o work
                  ELSE UNCHANGED <<u, work>>
          ELSE UNCHANGED <<phi, u, work>>
       /\ UNCHANGED <<prog, ins, pc, flow, n, defs, visit, names, stk, todo>>

PhisEnd ==
  /\ pc = "phis" /\ work = <<>> /\ front = {}
  /\ IF visit THEN pc' = "rename" /\ todo' = <<Start>> ELSE pc' = "check" /\ UNCHANGED todo
  /\ UNCHANGED <<prog, ins, flow, n, u, defs, work, front, visit, names, stk, phi>>

-----------------------------------------------------------------------------
(* getstk: the names of blocks that do not dominate b go.                  *)
Pop(s, b) ==
  IF \E i \in DOMAIN s : s[i].b \in dom[b]
  THEN SubSeq(s, CHOOSE i \in DOMAIN s : s[i].b \in dom[b] /\ \A h \in 1 .. i - 1 : s[h].b \notin dom[b],
              Len(s))
  ELSE <<>>
TopName(s) == IF s = <<>> THEN UNDEF ELSE Head(s).r

(* An instruction, in renblk; rendef.                                      *)
RenameIns(b, i, st) ==
  IF i.name # 0 \/ i.op \notin {"def", "use"} THEN [st EXCEPT !.seq = Append(@, i)]
  ELSE IF i.op = "def"
       THEN [s |-> <<[r |-> st.next + 1, b |-> b]>> \o st.s, next |-> st.next + 1,
             seq |-> Append(st.seq, [i EXCEPT !.name = st.next + 1])]
       ELSE LET p == Pop(st.s, b)
            IN [st EXCEPT !.s = p, !.seq = Append(@, [i EXCEPT !.name = TopName(p)])]

(* The blocks renblk is called for in b: qbe_filldom puts the last first.  *)
Children(b) ==
  SetToSortSeq({c \in Blk \ {b} : b \in dom[c] /\ dom[c] \ {c} \subseteq dom[b]}, LAMBDA x, y : x > y)

(* renblk, up to its calls: phi, instructions, the phis behind the jump.   *)
RenBlk ==
  /\ pc = "rename" /\ todo # <<>>
  /\ LET b  == Head(todo)
         nx == IF phi[b] = NoPhi THEN names ELSE names + 1
         s0 == IF phi[b] = NoPhi THEN stk ELSE <<[r |-> nx, b |-> b]>> \o stk
         st == FoldLeft(LAMBDA x, i : RenameIns(b, i, x), [s |-> s0, next |-> nx, seq |-> <<>>], ins[b])
         s1 == Pop(st.s, b)
         ph == [phi EXCEPT ![b].to = IF phi[b] = NoPhi THEN None ELSE nx]
         joins == {s \in Succ(pred, b) : phi[s] # NoPhi}
     IN /\ ins' = [ins EXCEPT ![b] = st.seq]
        /\ phi' = [s \in Blk |-> IF s \in joins THEN [ph[s] EXCEPT !.arg = Append(@, <<b, TopName(s1)>>)] ELSE ph[s]]
        /\ stk' = IF joins = {} THEN st.s ELSE s1
        /\ names' = st.next
        /\ todo' = Children(b) \o Tail(todo)
  /\ UNCHANGED <<prog, pc, flow, n, u, defs, work, front, visit>>

RenameEnd ==
  /\ pc = "rename" /\ todo = <<>>
  /\ stk' = <<>> /\ pc' = "check"
  /\ UNCHANGED <<prog, ins, flow, n, u, defs, work, front, visit, names, todo, phi>>

-----------------------------------------------------------------------------
(* Where a name is defined, and used; place 0 of a block is its phi.       *)
DefsOf(x) ==
  {<<b, i>> \in Blk \X (1 .. 8) : i \in DOMAIN ins[b] /\ ins[b][i].op = "def" /\ ins[b][i].name = x}
  \cup {<<b, 0>> : b \in {c \in Blk : phi[c].to = x}}
UsesOf(x) ==
  {<<b, i>> \in Blk \X (1 .. 8) : i \in DOMAIN ins[b] /\ ins[b][i].op = "use" /\ ins[b][i].name = x}
PhiUses(x) == {b \in Blk : \E c \in Blk : <<b, x>> \in ToSet(phi[c].arg)}

(* What qbe_ssacheck asks of a name.                                       *)
Defined(x) ==
  /\ Cardinality(DefsOf(x)) <= 1
  /\ UsesOf(x) # {} \/ PhiUses(x) # {} => DefsOf(x) # {}
  /\ \A d \in DefsOf(x) :
       /\ \A v \in UsesOf(x) : IF d[1] = v[1] THEN d[2] < v[2] ELSE d[1] \in dom[v[1]]
       /\ \A p \in PhiUses(x) : d[1] \in dom[p]

Check ==
  /\ pc = "check"
  /\ IF \A x \in 0 .. names : Defined(x)
     THEN pc' = "ssa" ELSE pc' = "error"
  /\ UNCHANGED <<prog, ins, flow, ssa, phi>>

SsaNext ==
  \/ Promote \/ Fill \/ SkipSingle \/ ScanBlk \/ ScanEnd \/ TakeBlk \/ PhiAt \/ PhisEnd
  \/ RenBlk \/ RenameEnd \/ Check
=============================================================================
