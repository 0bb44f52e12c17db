-------------------------------- MODULE Live --------------------------------
(***************************************************************************)
(* Liveness (src/live.c): which temporaries are live into and out of each  *)
(* block, which ones a block mentions, and how many are live at once       *)
(* inside it.  One action is the visit of a block; the visits go on until  *)
(* a pass over the function changes nothing.                               *)
(*                                                                         *)
(* An instruction is [op, to, args, rets, mem]: a call reads the registers *)
(* in args and returns in those of rets, any other writes to, or "none";   *)
(* mem is for module Spill.                                                *)
(* Temporaries and registers are of one class.  Register "g" is a global   *)
(* one, "r" returns results and takes arguments; both stand for the        *)
(* registers of a target.                                                  *)
(***************************************************************************)
EXTENDS FlowGraph, FiniteSetsExt, SequencesExt

CONSTANTS
  Regs, RSave,   \* the registers, and those a call may overwrite
  Tmps           \* the temporaries

VARIABLES
  pred,   \* the graph
  ins,    \* the instructions of each block
  jmp,    \* what its jump uses; {"r"} if it returns in a register
  phi,    \* the phis of each block: [to, arg |-> by predecessor]
  n,      \* the block visited next, -1 at the end of a pass
  chg,
  in, out, gen, nlive,
  pc      \* "live" or "done"

prog == <<pred, ins, jmp, phi>>
liveVars == <<chg, in, out, gen, nlive>>

RGlob == {"g"}
RetRegs == {"r"}

ASSUME RegsAssumption == /\ RSave \cup RGlob \cup RetRegs \subseteq Regs /\ Regs \cap Tmps = {}
                         /\ IsFiniteSet(Regs) /\ IsFiniteSet(Tmps)

IsCall(i) == i.op = "call"
Use(i) == ToSet(i.args)
Def(i) == IF IsCall(i) THEN i.rets ELSE {i.to} \ {"none"}

PhiOf(s, b) == {p.arg[b] : p \in phi[s]} \cap Tmps
PhiDefs(s) == {p.to : p \in phi[s]}

(* Before the first visit.                                                 *)
LiveInit ==
  /\ n = N - 1 /\ chg = TRUE /\ pc = "live"
  /\ in = [b \in Blk |-> {}] /\ out = in /\ gen = in /\ nlive = [b \in Blk |-> 0]

-----------------------------------------------------------------------------
(* Mutant of LiveOn: what the phis define stays live before them.          *)
LiveOnKeeps(b, s) == in[s] \cup PhiOf(s, b)

(* qbe_liveon: live on the edge from b to s.                               *)
LiveOn(b, s) == (in[s] \ PhiDefs(s)) \cup PhiOf(s, b)

(* bset, for the temporaries of a set.                                     *)
Bset(ts, st) ==
  [st EXCEPT !.in = @ \cup ts, !.nlv = @ + Cardinality(ts \ st.in), !.gen = @ \cup (ts \cap Tmps)]

(* Mutant of MidCall: the callee takes no registers.                       *)
MidCallFree(i, nlv) == nlv - Cardinality(Def(i))

(* A call, seen backwards: its results go, and in the middle of it all     *)
(* registers it may overwrite are taken.                                   *)
MidCall(i, nlv) == (nlv - Cardinality(Def(i))) + Cardinality(RSave)

(* What an instruction defines is not live before it.                      *)
Before(i, st) ==
  IF IsCall(i) THEN [st EXCEPT !.in = @ \ Def(i), !.nlv = @ - Cardinality(Def(i))]
  ELSE [st EXCEPT !.in = @ \ Def(i), !.nlv = @ - Cardinality(Def(i) \cap st.in),
                  !.gen = @ \cup (Def(i) \cap Tmps)]

(* An instruction: what it uses is live before it.                         *)
InsStep(i, st) ==
  LET u == Bset(Use(i), Before(i, st))
  IN [u EXCEPT !.max = Max({@, u.nlv} \cup (IF IsCall(i) THEN {MidCall(i, st.nlv)} ELSE {}))]

(* The end of a block with o live out.  The registers a function returns   *)
(* in replace the count of the global ones.                                *)
JumpStep(b, o) ==
  LET st == [in |-> o, nlv |-> Cardinality(o), max |-> 0, gen |-> {}]
      j  == IF jmp[b] = RetRegs THEN [st EXCEPT !.in = @ \cup RetRegs, !.nlv = Cardinality(RetRegs)]
            ELSE Bset(jmp[b], st)
  IN [j EXCEPT !.max = j.nlv]

(* The block from its end to its start.                                    *)
Through(b, o) ==
  LET st[k \in 1 .. Len(ins[b]) + 1] ==
        IF k = Len(ins[b]) + 1 THEN JumpStep(b, o) ELSE InsStep(ins[b][k], st[k + 1])
  IN st[1]

Changed(b, o) == o # out[b]

Visit ==
  /\ pc = "live" /\ n >= 0
  /\ \E o \in {out[n] \cup UNION {LiveOn(n, s) : s \in Succ(pred, n)}} :
       /\ chg' = (chg \/ Changed(n, o))
       /\ out' = [out EXCEPT ![n] = o \cup RGlob]
       /\ \E st \in {Through(n, o \cup RGlob)} :
            /\ in' = [in EXCEPT ![n] = st.in]
            /\ gen' = [gen EXCEPT ![n] = (@ \cup st.gen) \cup
                                        UNION {PhiOf(s, n) : s \in Succ(pred, n)}]
            /\ nlive' = [nlive EXCEPT ![n] = st.max]
  /\ n' = n - 1
  /\ UNCHANGED <<prog, pc>>

Repeat ==
  /\ pc = "live" /\ n = -1
  /\ IF chg THEN n' = N - 1 /\ chg' = FALSE /\ UNCHANGED pc
     ELSE pc' = "done" /\ UNCHANGED <<n, chg>>
  /\ UNCHANGED <<prog, in, out, gen, nlive>>

LiveNext == Visit \/ Repeat

-----------------------------------------------------------------------------
(* What liveness means, by the paths of the function.                      *)
Uses(b, i) == IF i > Len(ins[b]) THEN jmp[b] ELSE Use(ins[b][i])
Defs(b, i) == IF i > Len(ins[b]) THEN {} ELSE Def(ins[b][i])
Ends(b) == Len(ins[b]) + 1

(* From the i-th instruction of b on, v is used before it is defined, or   *)
(* not defined at all.                                                     *)
Exposed(b, i, v) ==
  \E j \in i .. Ends(b) : v \in Uses(b, j) /\ \A h \in i .. j - 1 : v \notin Defs(b, h)
Passes(b, i, v) == \A h \in i .. Ends(b) : v \notin Defs(b, h)

(* What instruction selection hands over: nothing writes a global register *)
(* and the others are used within a block only, except that parameters     *)
(* arrive in them; what a call returns in is read behind it.               *)
Instr == [op : STRING, to : Regs \cup Tmps \cup {"none"}, args : Seq(Regs \cup Tmps),
          rets : SUBSET Regs, mem : Nat]
Selected ==
  /\ pred \in [Blk -> SUBSET Blk] /\ ins \in [Blk -> Seq(Instr)] /\ jmp \in [Blk -> SUBSET (Regs \cup Tmps)]
  /\ \A b \in Blk :
       /\ \A k \in DOMAIN ins[b] : Def(ins[b][k]) \cap RGlob = {}
       /\ pred[b] # {} => \A r \in Regs : Exposed(b, 1, r) => r \in RGlob
       /\ \A k \in DOMAIN ins[b] : IsCall(ins[b][k]) => \A r \in ins[b][k].rets : Exposed(b, k + 1, r)

(* The blocks some path leads from to a use of v, with no definition on    *)
(* the way.                                                                *)
OutOf(v) ==
  LET last == {b \in Blk : \E s \in Succ(pred, b) :
                 v \in PhiOf(s, b) \/ (v \notin PhiDefs(s) /\ Exposed(s, 1, v))}
      carry == {s \in Blk : v \notin PhiDefs(s) /\ Passes(s, 1, v)}
  IN Closure([b \in Blk |-> Succ(pred, b) \cap carry], last, Blk)
OutRef == {w \in Tmps \X Blk : w[2] \in OutOf(w[1])}
LiveAt(ref, b, i) ==
  RGlob \cup {v \in UNION {Uses(b, j) : j \in i .. Ends(b)} : Exposed(b, i, v)}
        \cup {v \in Tmps : <<v, b>> \in ref /\ Passes(b, i, v)}

(* The fixpoint is the liveness of the paths, phis included: a phi's       *)
(* argument is live on its own edge only.                                  *)
LiveExact ==
  pc = "done" =>
    LET ref == OutRef
    IN \A b \in Blk :
         /\ out[b] = RGlob \cup {v \in Tmps : <<v, b>> \in ref}
         /\ in[b] = LiveAt(ref, b, 1)

(* nlive is the largest number of values alive at once: what the spiller   *)
(* trusts when it leaves a loop alone.  It asks of loops only, no block of *)
(* which returns.                                                          *)
PressureExact ==
  pc = "done" =>
    LET ref == OutRef
    IN \A b \in Blk : jmp[b] # RetRegs =>
         nlive[b] = Max({Cardinality(LiveAt(ref, b, i)) : i \in 1 .. Ends(b)}
                        \cup {Cardinality(LiveAt(ref, b, i + 1) \ Defs(b, i)) + Cardinality(RSave) :
                                i \in {j \in DOMAIN ins[b] : IsCall(ins[b][j])}})

=============================================================================
