------------------------------- MODULE Spill -------------------------------
(***************************************************************************)
(* Spilling (src/spill.c): which temporaries stay in registers.  Blocks    *)
(* are visited from the last to the first and instructions backwards; when *)
(* too many temporaries would be in registers the cheapest are given a     *)
(* slot, reloaded behind the point and stored where they are defined.      *)
(*                                                                         *)
(* A function is in SSA form and has been through instruction selection.   *)
(* An instruction is [op, to, args, rets, mem]: op is "op", "copy" or      *)
(* "call"; mem says how many of its arguments may be in memory; a call     *)
(* lists the registers it reads in args and those it returns in in rets.   *)
(* Registers are of one class.  The slot of a temporary goes by its name,  *)
(* module StackSlots packs them.                                           *)
(***************************************************************************)
EXTENDS Live, TLC

CONSTANT Order   \* the registers and temporaries in the order of their numbers

ASSUME OrderAssumption == Regs \cup Tmps = ToSet(Order)

VARIABLES
  code,     \* the instructions written: [op, to, args, orig, pm]
  jarg,     \* where the jump of each block finds what it tests
  phito,    \* where each phi of each block leaves its value
  cost, slots, mask,      \* cost and hint.m of each temporary; those with a slot
  fault     \* the assertion or dead end that was met, "" at first

Tmp(t) == <<"tmp", t>>
SlotOf(t) == <<"slot", t>>
R == <<"none", "none">>
Place(t) == IF t = "none" THEN R ELSE Tmp(t)

(* An instruction that is written: to and args are places, orig holds the  *)
(* instruction of the function it stands for, if any; pm is for the moves  *)
(* of module RegAlloc.                                                     *)
Emit(st, op, to, args, orig) ==
  [st EXCEPT !.code = <<[op |-> op, to |-> to, args |-> args, orig |-> orig, pm |-> {}]>> \o @]

RegCpy(i) == i.op = "copy" /\ i.args[1] \in Regs

(* The last of the copies that follow one another from the j-th item on,   *)
(* where copies are the places of all of them.                             *)
GroupEnd(copies, j) == CHOOSE k \in copies : k >= j /\ j .. k \subseteq copies /\ k + 1 \notin copies

---------------------------------------------------------------------------
(* qbe_fillloop and qbe_loopiter: the blocks of the loop that hd heads.    *)
LoopOf(hd) == LET back == {b \in pred[hd] : b >= hd}
                  rev == [b \in Blk |-> Succ(pred, b)]
              IN IF back = {} THEN {} ELSE {hd} \cup Closure(rev, back, {b \in Blk : b > hd})
Weight(b) == 10 ^ Cardinality({hd \in Blk : b \in LoopOf(hd)})

(* Uses and definitions weigh as much as their block, and a phi costs its  *)
(* arguments once more.                                                    *)
CostOf(t) ==
  LET Names(i, a) == IF a = 0 THEN i.to = t ELSE a \in DOMAIN i.args /\ i.args[a] = t
      At(b) == Weight(b) * (Cardinality({ka \in (DOMAIN ins[b]) \X (0 .. 2) : Names(ins[b][ka[1]], ka[2])})
                            + (IF t \in jmp[b] THEN 1 ELSE 0))
      InPhis(b) == MapThenSumSet(LAMBDA pa : Weight(pa[2]) * ((IF pa[1].to = t THEN 1 ELSE 0)
                                                            + (IF pa[1].arg[pa[2]] = t THEN 1 ELSE 0)), phi[b] \X pred[b])
  IN MapThenSumSet(LAMBDA b : At(b) + InPhis(b), Blk)

FillCost ==
  /\ pc = "done"
  /\ cost' = [t \in Tmps |-> CostOf(t)]
  /\ gen' = [b \in Blk |-> gen[b] \cup UNION {gen[c] : c \in LoopOf(b)}]
  /\ nlive' = [b \in Blk |-> Max({nlive[c] : c \in LoopOf(b) \cup {b}})]
  /\ pc' = "spill" /\ n' = N - 1
  /\ UNCHANGED <<prog, chg, in, out, code, jarg, phito, slots, mask, fault>>

---------------------------------------------------------------------------
Index(x) == CHOOSE k \in DOMAIN Order : Order[k] = x

(* The order in which limit keeps: those of f, then the expensive ones.    *)
Sooner(y, x, f) ==
  LET Cost(z) == IF z \in Regs THEN 10000 ELSE cost[z]
  IN IF (y \in f) # (x \in f) THEN y \in f
     ELSE IF Cost(y) # Cost(x) THEN Cost(y) > Cost(x) ELSE Index(y) < Index(x)

Limited(b, k, f) == IF Cardinality(b) <= k THEN b
                    ELSE {x \in b : Cardinality({y \in b : Sooner(y, x, f)}) < k}

(* limit2: k registers are in use besides those of v.                      *)
Limit2(st, k, f) ==
  LET keep == Limited(st.v, Cardinality(Regs) - k, f)
  IN [st EXCEPT !.v = keep, !.slots = @ \cup (st.v \ keep)]

SetMask(st, ts, rs) == [st EXCEPT !.mask = [t \in Tmps |-> IF t \in ts THEN @[t] \cup rs ELSE @[t]]]

Reloads(st, u) ==
  LET ts == (u \ st.v) \cap Tmps
  IN FoldLeft(LAMBDA s, t : Emit(s, "load", Tmp(t), <<SlotOf(t)>>, << >>),
              [st EXCEPT !.slots = @ \cup ts], SetToSeq(ts))

StoreTo(st, t) == IF t \in st.slots THEN Emit(st, "store", SlotOf(t), <<Tmp(t)>>, << >>) ELSE st

(* Mutant of AfterCall: a call leaves all registers to its caller.         *)
AfterCallFree(st, call) ==
  LET s == Limit2([st EXCEPT !.v = @ \ call.rets], 0, {})
  IN SetMask([s EXCEPT !.v = @ \cup ToSet(call.args)], s.v, RSave)

(* Across a call what the callee may overwrite is not available.           *)
AfterCall(st, call) ==
  LET s == Limit2([st EXCEPT !.v = @ \ call.rets], Cardinality(RSave), {})
  IN SetMask([s EXCEPT !.v = @ \cup ToSet(call.args)], s.v, RSave)

(* dopm: the copies j..k from registers, with the call before them if any. *)
DoPm(st, is, j, k) ==
  LET Goes(s, i) ==
        LET d == IF i.to \in s.v THEN StoreTo([s EXCEPT !.v = @ \ {i.to}], i.to) ELSE s
        IN [d EXCEPT !.v = @ \cup {i.args[1]}]
      s0 == FoldRight(LAMBDA i, s : Goes(s, i), SubSeq(is, j, k), st)
      s1 == IF j > 1 /\ is[j - 1].op = "call" THEN AfterCall(s0, is[j - 1])
            ELSE LET s == Limit2(s0, 0, {}) IN SetMask(s, s.v, s.v \cap Regs)
  IN FoldRight(LAMBDA i, s : Emit(s, "copy", Place(i.to), <<Tmp(i.args[1])>>, <<i>>),
               SubSeq(is, j, k), Reloads(s1, s0.v))

(* Any other instruction: room for its result and for those arguments that *)
(* cannot be in memory; an argument that is not in a register is read from *)
(* its slot, and reloaded only if it is needed afterwards.                 *)
SpillIns(st, i) ==
  LET hasTo == i.to # "none"
      d == IF ~hasTo THEN [v |-> st.v, w |-> {}]
           ELSE IF i.to \in st.v THEN [v |-> st.v \ {i.to}, w |-> {}]
           ELSE [v |-> st.v \cup {i.to}, w |-> {i.to}]
      args == IF i.op = "call" THEN << >> ELSE i.args
      must == d.w \cup {args[a] : a \in {a \in DOMAIN args : a > i.mem}}
      dead == ToSet(args) \ d.v
      all == d.v \cup ToSet(args)
      s1 == Limit2([st EXCEPT !.v = all], 0, must)
      out1 == ToSet(args) \ s1.v
      s2 == Reloads([s1 EXCEPT !.slots = @ \cup out1], all \ (out1 \cap dead))
      s3 == IF hasTo THEN [StoreTo(s2, i.to) EXCEPT !.v = @ \ ({i.to} \cap Tmps)] ELSE s2
      s4 == Emit(s3, i.op, Place(i.to),
                 [a \in DOMAIN i.args |-> IF i.args[a] \in out1 THEN SlotOf(i.args[a]) ELSE Tmp(i.args[a])], <<i>>)
      bad == hasTo /\ i.to \in Regs /\ i.to \notin st.v
  IN SetMask(IF bad THEN [s4 EXCEPT !.fault = "dead reg"] ELSE s4, s3.v, s3.v \cap Regs)

(* The body of a block, backwards: what it is like before each instruction *)
(* or group of copies.                                                     *)
SpillBody(is, st) ==
  LET copies == {k \in DOMAIN is : RegCpy(is[k])}
      at[k \in 1 .. Len(is) + 1] ==
        IF k = Len(is) + 1 THEN st
        ELSE IF k \in copies THEN LET e == GroupEnd(copies, k) IN DoPm(at[e + 1], is, k, e)
        ELSE SpillIns(at[k + 1], is[k])
  IN at[1]

---------------------------------------------------------------------------
(* The temporaries in registers at the end of b, o being live there.  A    *)
(* block that closes a loop keeps those the loop mentions, and of the      *)
(* others what the busiest point of the loop leaves room for; any other    *)
(* keeps what its successors expect, except that leaving a loop is no      *)
(* reason to load what has a slot.                                         *)
AtEnd(b, st) ==
  LET sc == Succ(pred, b)
      hd == IF \E s \in sc : s <= b THEN CHOOSE s \in sc : s <= b /\ \A x \in sc : x <= b => x <= s ELSE None
      k == Cardinality(Regs)
      used == out[b] \cap (gen[hd] \cup RGlob)
      through == out[b] \ used
      live(s) == LiveOn(b, s)
      Wanted(s) == IF Weight(b) <= Weight(s) THEN live(s) ELSE live(s) \ st.slots
      both == {x \in UNION {live(s) : s \in sc} : \A s \in sc : x \in live(s)}
  IN CASE hd # None -> [st EXCEPT !.v = IF Cardinality(used) < k
                                        THEN used \cup Limited(through, k - (nlive[hd] - Cardinality(through)), {})
                                        ELSE Limited(used, k, {})]
       [] hd = None /\ sc # {} -> Limit2([st EXCEPT !.v = UNION {Wanted(s) : s \in sc}], 0, both)
       [] OTHER -> [st EXCEPT !.v = out[b] \cup (jmp[b] \cap Regs)]

(* The jump tests t.  A reload would have to go behind the jump: qbe_curi  *)
(* is still 0.                                                             *)
SpillJump(st, t) ==
  LET s == Limit2([st EXCEPT !.v = @ \cup {t}], 0, {})
      lost == ((st.v \cup {t}) \ (IF t \in s.v \/ t \in st.v THEN {} ELSE {t})) \ s.v
  IN [s EXCEPT !.fault = IF lost = {} THEN @ ELSE "reload behind a jump"]

(* What is left in a register at the start of b is stored there if it has  *)
(* a slot, and the value goes to the slot if it is not.                    *)
StorePhis(b, st) ==
  FoldLeft(LAMBDA s, p : IF p.to \in s.v THEN StoreTo([s EXCEPT !.v = @ \ {p.to}], p.to)
                         ELSE IF p.to \in in[b] THEN [s EXCEPT !.slots = @ \cup {p.to}] ELSE s,
           st, SetToSeq(phi[b]))

ParamRegs == LET is == ins[Start]
             IN {is[k].args[1] : k \in {k \in DOMAIN is : \A h \in 1 .. k : RegCpy(is[h])}}

SpillBlock ==
  /\ pc = "spill" /\ n >= 0 /\ fault = ""
  /\ \E e \in {AtEnd(n, [v |-> {}, code |-> << >>, slots |-> slots, mask |-> mask, fault |-> ""])} :
     \E e1 \in {[e EXCEPT !.slots = @ \cup ((out[n] \ e.v) \cap Tmps)]} :
     \E j \in {IF jmp[n] \subseteq Regs THEN e1 ELSE SpillJump(e1, CHOOSE t \in jmp[n] : TRUE)} :
     \E body \in {SpillBody(ins[n], j)} :
     \E done \in {StorePhis(n, body)} :
        /\ out' = [out EXCEPT ![n] = e.v]
        /\ in' = [in EXCEPT ![n] = done.v]
        /\ jarg' = [jarg EXCEPT ![n] = IF jmp[n] = {} THEN R
                                       ELSE LET t == CHOOSE t \in jmp[n] : TRUE
                                            IN IF t \in j.v \cup Regs THEN Tmp(t) ELSE SlotOf(t)]
        /\ phito' = [phito EXCEPT ![n] = [p \in phi[n] |->
                        IF p.to \notin body.v /\ p.to \in in[n] THEN SlotOf(p.to) ELSE Tmp(p.to)]]
        /\ code' = [code EXCEPT ![n] = done.code]
        /\ slots' = done.slots /\ mask' = done.mask
        /\ fault' = IF done.fault # "" THEN done.fault
                    ELSE IF ~(done.slots \subseteq Tmps) THEN "cannot spill register"
                    ELSE IF body.v \cap Regs # RGlob \cup (IF n = Start THEN ParamRegs ELSE {})
                         THEN "registers at the start" ELSE ""
  /\ n' = n - 1
  /\ UNCHANGED <<prog, chg, gen, nlive, pc, cost>>

SpillEnd ==
  /\ pc = "spill" /\ n = -1 /\ fault = ""
  /\ pc' = "rega"
  /\ UNCHANGED <<prog, n, liveVars, code, jarg, phito, cost, slots, mask, fault>>
=============================================================================
