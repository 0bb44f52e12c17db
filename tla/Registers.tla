----------------------------- MODULE Registers -----------------------------
(***************************************************************************)
(* From a function in SSA form to one in registers: liveness (qbe_filllive *)
(* of src/live.c), spilling (src/spill.c) and register allocation          *)
(* (src/rega.c), one after the other as func of src/compile.c calls them.  *)
(*                                                                         *)
(* The function that comes out is then run beside the one that went in,    *)
(* along every path: holds says of each register and slot whose values it  *)
(* holds, and each instruction must find what it reads.  A run visits a    *)
(* block at a time.                                                        *)
(***************************************************************************)
EXTENDS RegAlloc

CONSTANTS
  Entry,    \* what the start block may do
  Bodies,   \* what any other may
  Joins,    \* what a phi may merge into each temporary that phis may define
  Tests     \* the temporaries a jump may test

VARIABLE holds

vars == <<prog, n, liveVars, pc, code, jarg, phito, cost, slots, mask, fault, regaVars, holds>>
spillVars == <<code, jarg, phito, cost, slots, mask, fault>>

Op(to, args, mem) == [op |-> "op", to |-> to, args |-> args, rets |-> {}, mem |-> mem]
Copy(to, a) == [op |-> "copy", to |-> to, args |-> <<a>>, rets |-> {}, mem |-> 1]
Call(args, rets) == [op |-> "call", to |-> "none", args |-> args, rets |-> rets, mem |-> 0]

---------------------------------------------------------------------------
(* A function is in SSA form: one definition of each temporary dominates   *)
(* what reads it.                                                          *)
DefsIn(is) == {is[k].to : k \in DOMAIN is} \cap Tmps
Written(is, t) == Cardinality({k \in DOMAIN is : is[k].to = t})
DefBlk(f, ph, t) == IF \E b \in Blk : t \in DefsIn(f[b]) THEN CHOOSE b \in Blk : t \in DefsIn(f[b])
                    ELSE CHOOSE b \in Blk : t \in {p.to : p \in ph[b]} \cup {"none"}
DefinedAt(g, f, ph, b, k, t) ==
  \/ \E h \in 1 .. k - 1 : f[b][h].to = t
  \/ t \in {p.to : p \in ph[b]}
  \/ \E a \in Blk : StrictlyDominates(g, a, b) /\ t \in DefsIn(f[a]) \cup {p.to : p \in ph[a]}
SSA(g, f, ph, j) ==
  /\ \A b \in Blk : \A k \in DOMAIN f[b] : \A t \in ToSet(f[b][k].args) \cap Tmps : DefinedAt(g, f, ph, b, k, t)
  /\ \A b \in Blk : \A t \in j[b] \cap Tmps : DefinedAt(g, f, ph, b, Len(f[b]) + 1, t)
  /\ \A s \in Blk : \A p \in ph[s], b \in g[s] : p.arg[b] \in Tmps => DefinedAt(g, f, ph, b, Len(f[b]) + 1, p.arg[b])

(* The phis of a function: any number in any block that has predecessors,  *)
(* each temporary of ts defined by one of them or by none.                 *)
AddPhi(g, t, fs) ==
  fs \cup UNION {{[f EXCEPT ![s] = @ \cup {[to |-> t, arg |-> a]}] : f \in fs, a \in [g[s] -> Joins[t]]}
                  : s \in Blk \ {Start}}
Phis(g, ts) == FoldSet(LAMBDA t, fs : AddPhi(g, t, fs), {[b \in Blk |-> {}]}, ts)
TwoWay(g) == {b \in Blk : Cardinality(Succ(g, b)) = 2}
Returns(g, is, b) == Succ(g, b) = {} /\ is # << >> /\ Last(is).to = "r"

Init ==
  /\ pred \in Graphs
  /\ \E e \in Entry, f \in [Blk \ {Start} -> Bodies] :
       /\ \A b, c \in Blk \ {Start} : DefsIn(f[b]) \cap DefsIn(e) = {} /\ (b # c => DefsIn(f[b]) \cap DefsIn(f[c]) = {})
       /\ \A b \in Blk \ {Start} : f[b] # << >> /\ Last(f[b]).to = "r" => Succ(pred, b) = {}
       /\ ins = [b \in Blk |-> IF b = Start THEN e ELSE f[b]]
  /\ phi \in Phis(pred, DOMAIN Joins \ UNION {DefsIn(ins[b]) : b \in Blk})
  /\ \E j \in [TwoWay(pred) -> {{}} \cup {{t} : t \in Tests}] :
       jmp = [b \in Blk |-> IF b \in TwoWay(pred) THEN j[b] ELSE IF Returns(pred, ins[b], b) THEN RetRegs ELSE {}]
  /\ SSA(pred, ins, phi, jmp)
  /\ Selected
  /\ LiveInit
  /\ code = [b \in Blk |-> << >>] /\ jarg = [b \in Blk |-> R] /\ phito = [b \in Blk |-> << >>]
  /\ cost = << >> /\ slots = {} /\ mask = [t \in Tmps |-> {}] /\ fault = ""
  /\ hint = << >> /\ hw = << >> /\ visit = << >> /\ todo = {} /\ share = << >>
  /\ beg = [b \in Blk |-> << >>] /\ end = beg
  /\ holds = << >>

Liveness == UNCHANGED <<prog, spillVars, regaVars, holds>> /\ LiveNext
Spilling == (FillCost \/ SpillBlock \/ SpillEnd) /\ UNCHANGED <<regaVars, holds>>
Allocate == (RegaSetup \/ RegaBlock \/ RegaShare) /\ UNCHANGED holds

---------------------------------------------------------------------------
(* The run.  h maps each place to the names whose value it holds.          *)
Places == {Tmp(r) : r \in Regs} \cup {SlotOf(t) : t \in Tmps} \cup {<<"const", "const">>}

Forget(h, names) == [l \in DOMAIN h |-> h[l] \ names]

(* What the instruction of the function did.                               *)
Effect(h, i) ==
  CASE i.op = "copy" -> [l \in DOMAIN h |-> (h[l] \ {i.to}) \cup (IF i.args[1] \in h[l] THEN {i.to} ELSE {})]
    [] i.op = "call" -> [Forget(h, RSave) EXCEPT ![Tmp("r")] = {"r"}]
    [] OTHER -> Forget(h, {i.to})
Moved(h, pm) == [l \in DOMAIN h |-> IF \E m \in pm : m[2] = l THEN h[(CHOOSE m \in pm : m[2] = l)[1]] ELSE h[l]]

(* What an item of the code reads is where the item reads it.              *)
Found(h, it) ==
  CASE it.op = "pm" -> \A k \in DOMAIN it.orig : it.orig[k].args[1] \in h[Tmp(it.orig[k].args[1])]
    [] it.op = "dead" \/ it.orig = << >> -> TRUE
    [] OTHER -> \A a \in DOMAIN it.args : it.orig[1].args[a] \in h[it.args[a]]
RunItem(h, it) ==
  LET e == FoldLeft(Effect, h, it.orig)
  IN CASE it.op = "pm" -> Moved(e, it.pm)
       [] it.op \in {"dead", "gone"} -> e
       [] it.op = "call" -> [l \in DOMAIN e |-> IF l \in {Tmp(r) : r \in RSave \ RetRegs} THEN {} ELSE e[l]]
       [] it.op = "op" -> IF it.to = R THEN e ELSE [e EXCEPT ![it.to] = {it.orig[1].to}]
       [] OTHER -> [e EXCEPT ![it.to] = e[it.args[1]]]    \* copy, load, store
Run(b, h) ==
  LET Step(s, it) == [h |-> RunItem(s.h, it), ok |-> s.ok /\ Found(s.h, it)]
      s1 == FoldLeft(Step, [h |-> Moved(h, share[b]), ok |-> TRUE], code[b])
  IN [s1 EXCEPT !.ok = @ /\ \A t \in jmp[b] : IF t \in Regs THEN t \in s1.h[Tmp(t)] ELSE t \in s1.h[jarg[b]]]

(* The phis of s take their values on the edge.                            *)
PhiEffect(h, b, s) ==
  [l \in DOMAIN h |-> (h[l] \ {p.to : p \in phi[s]}) \cup {p.to : p \in {p \in phi[s] : p.arg[b] \in h[l]}}]

RunStart ==
  /\ pc = "run" /\ n = -1
  /\ n' = Start
  /\ holds' = [l \in Places |-> IF l[1] = "slot" THEN {} ELSE {Name(l)}]
  /\ UNCHANGED <<prog, liveVars, pc, spillVars, regaVars>>
RunBlock ==
  /\ pc = "run" /\ n # -1
  /\ \E s \in Succ(pred, n), h \in {Run(n, holds).h} :
       /\ n' = s
       /\ holds' = Moved(PhiEffect(h, n, s), EdgeMoves(n, s))
  /\ UNCHANGED <<prog, liveVars, pc, spillVars, regaVars>>

Next == Liveness \/ Spilling \/ Allocate \/ RunStart \/ RunBlock

Spec == Init /\ [][Next]_vars

---------------------------------------------------------------------------
(* LiveExact and PressureExact are those of module Live.                   *)

(* Whatever path is taken, each instruction and each jump of the function  *)
(* finds the value it is to read in the register or slot the code reads:   *)
(* spills and reloads, hints, the copies around calls and the moves on     *)
(* edges agree.                                                            *)
UsesFindValues == (pc = "run" /\ n # -1) => Run(n, holds).ok

(* The assertions of both passes hold and there is always a register; each *)
(* value expected in memory on an edge has a slot.  One fault is known:    *)
(* what is reloaded for the value a jump tests (spill.c:427) is written    *)
(* while there is no place for instructions, and the host ends.            *)
NoFault ==
  /\ fault \in {"", "reload behind a jump"}
  /\ pc = "run" => \A b \in Blk : \A s \in Succ(pred, b) : \A m \in EdgeMoves(b, s) :
                     m[1][1] = "slot" => Name(m[1]) \in slots

(* "assert(qbe_isreg(b->jmp.arg))" of qbe_rv64_emitfn (src/rv64/emit.c): a *)
(* conditional jump that is left with a temporary, as selection leaves it  *)
(* on rv64, tests a register when it is emitted.                           *)
JumpsTestRegisters == pc = "run" => \A b \in TwoWay(pred) : jarg[b][1] # "slot"
=============================================================================
