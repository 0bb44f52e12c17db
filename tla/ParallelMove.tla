---------------------------- MODULE ParallelMove ----------------------------
(***************************************************************************)
(* The parallel-move generator of the register allocator (src/rega.c).     *)
(*                                                                         *)
(* rega() collects in pm[] the moves that must happen "at once" on an edge *)
(* of the control-flow graph, or around a call (pmadd), and pmgen() turns  *)
(* them into a sequence of copies and swaps.  pmrec() follows the chain of *)
(* moves from a destination to the move that overwrites the source; a      *)
(* chain that bites its own tail is a cycle and is rotated with swaps.     *)
(*                                                                         *)
(* Instructions are emitted backwards (util.c, qbe_emit decrements         *)
(* qbe_curi), so each one emitted runs BEFORE all emitted earlier.  The    *)
(* variables lo and hi are the meaning of the code emitted so far: after   *)
(* it has run, location l holds the low half that lo[l] held before it,    *)
(* and the high half that hi[l] held.                                      *)
(***************************************************************************)
EXTENDS Integers, Sequences, FiniteSets

CONSTANTS
  Regs,      \* registers
  Slots,     \* stack slots
  Consts,    \* constants, which a phi can bring in as the source of a move
  Junk,      \* unspecified bits: the high half a 32-bit operation leaves
  Tmp0       \* the capacity of pm[]

Loc == Regs \cup Slots
Src == Loc \cup Consts
Cls == {"w", "l"}                 \* 32-bit and 64-bit, one register bank

ASSUME LocAssumption ==
  /\ Loc \cap Consts = {}
  /\ Junk \notin Src
  /\ Regs \cap Slots = {}

ASSUME Tmp0Assumption == Tmp0 \in Nat

(* MAKESURE(reg_not_tmp, ...) of the targets: registers have numbers below *)
(* Tmp0, of which 0 is none.                                               *)
ASSUME RegsAssumption == IsFiniteSet(Regs) /\ Cardinality(Regs) < Tmp0

VARIABLES
  pc,        \* where the generator is
  pm,        \* the moves: a sequence of records
  status,    \* PMStat of every move
  i,         \* loop index of pmgen
  stack,     \* the activations of pmrec that wait for their callee
  cur,       \* the move of the activation being entered
  k,         \* *k of pmrec: the widest class on the chain
  c,         \* what pmrec returns: a move that starts a cycle, or NoCycle
  lo, hi     \* the meaning of the code emitted so far

vars == <<pc, pm, status, i, stack, cur, k, c, lo, hi>>

NoCycle == 0
Move == [src : Src, dst : Loc, cls : Cls]
Moves == 1 .. Len(pm)
PMStat == {"ToMove", "Moving", "Moved"}

Widest(k1, k2) == IF k1 = "l" \/ k2 = "l" THEN "l" ELSE "w"

Blockers(m) == {j \in Moves : pm[j].dst = pm[m].src}

Top == stack[Len(stack)]
Pop == SubSeq(stack, 1, Len(stack) - 1)

-----------------------------------------------------------------------------
(* The meaning of an instruction put in front of the code emitted so far.  *)

CopyInto(v, dst, src) == [l \in Loc |-> IF v[l] = dst THEN src ELSE v[l]]

Exchange(v, a, b) ==
  [l \in Loc |-> IF v[l] = a THEN b ELSE IF v[l] = b THEN a ELSE v[l]]

EmitCopy(m) ==
  /\ lo' = CopyInto(lo, m.dst, m.src)
  /\ hi' = CopyInto(hi, m.dst, IF m.cls = "l" THEN m.src ELSE Junk)

EmitSwap(m, cls) ==
  /\ lo' = Exchange(lo, m.src, m.dst)
  /\ hi' = IF cls = "l" THEN Exchange(hi, m.src, m.dst)
           ELSE [l \in Loc |-> IF hi[l] \in {m.src, m.dst} THEN Junk ELSE hi[l]]

EmitNothing == UNCHANGED <<lo, hi>>

-----------------------------------------------------------------------------
Init ==
  /\ pc = "add" /\ pm = <<>> /\ status = <<>>
  /\ i = 1 /\ stack = <<>> /\ cur = 0 /\ k = "w" /\ c = NoCycle
  /\ lo = [l \in Loc |-> l] /\ hi = [l \in Loc |-> l]

(* pmadd: the callers move into registers of distinct temporaries and into *)
(* slots of distinct phis, so destinations never repeat.                   *)
NewDst(m) == \A j \in Moves : pm[j].dst # m.dst

PmAddDieEarly(m) ==
  /\ pc = "add" /\ NewDst(m) /\ Len(pm) = Tmp0 - 1
  /\ pc' = "dead"
  /\ UNCHANGED <<pm, status, i, stack, cur, k, c, lo, hi>>

PmAdd(m) ==
  /\ pc = "add" /\ NewDst(m) /\ Len(pm) < Tmp0
  /\ pm' = Append(pm, m)
  /\ UNCHANGED <<pc, status, i, stack, cur, k, c, lo, hi>>

PmAddDie(m) ==
  /\ pc = "add" /\ NewDst(m) /\ Len(pm) = Tmp0
  /\ pc' = "dead"
  /\ UNCHANGED <<pm, status, i, stack, cur, k, c, lo, hi>>

PmGen ==
  /\ pc = "add"
  /\ pc' = "loop" /\ i' = 1
  /\ status' = [m \in Moves |-> "ToMove"]
  /\ UNCHANGED <<pm, stack, cur, k, c, lo, hi>>

LoopCall ==
  /\ pc = "loop" /\ i <= Len(pm) /\ status[i] = "ToMove"
  /\ pc' = "call" /\ cur' = i /\ k' = pm[i].cls /\ i' = i + 1
  /\ UNCHANGED <<pm, status, stack, c, lo, hi>>

LoopSkip ==
  /\ pc = "loop" /\ i <= Len(pm) /\ status[i] # "ToMove"
  /\ i' = i + 1
  /\ UNCHANGED <<pc, pm, status, stack, cur, k, c, lo, hi>>

LoopExit ==
  /\ pc = "loop" /\ i > Len(pm)
  /\ pc' = "done"
  /\ UNCHANGED <<pm, status, i, stack, cur, k, c, lo, hi>>

-----------------------------------------------------------------------------
(* pmrec, up to its recursive call or its return.                          *)

Return(m, r) == pc' = "ret" /\ status' = [status EXCEPT ![m] = "Moved"] /\ c' = r

RecSelf ==
  /\ pc = "call" /\ pm[cur].src = pm[cur].dst
  /\ Return(cur, NoCycle) /\ EmitNothing
  /\ UNCHANGED <<pm, i, stack, cur, k>>

RecEnter ==
  /\ pc = "call" /\ pm[cur].src # pm[cur].dst
  /\ k' = Widest(k, pm[cur].cls)

(* Mutant of RecCopy: the source may be overwritten by a move not made yet. *)
RecCopyEager ==
  /\ RecEnter
  /\ Return(cur, NoCycle) /\ EmitCopy(pm[cur])
  /\ UNCHANGED <<pm, i, stack, cur>>

RecCopy ==
  /\ RecEnter
  /\ \A j \in Blockers(cur) : status[j] = "Moved"
  /\ Return(cur, NoCycle) /\ EmitCopy(pm[cur])
  /\ UNCHANGED <<pm, i, stack, cur>>

RecCycle ==
  /\ RecEnter
  /\ \E j \in Blockers(cur) : status[j] = "Moving" /\ Return(cur, j)
  /\ EmitSwap(pm[cur], k')
  /\ UNCHANGED <<pm, i, stack, cur>>

RecDescend ==
  /\ RecEnter
  /\ \E j \in Blockers(cur) : status[j] = "ToMove" /\ cur' = j
  /\ status' = [status EXCEPT ![cur] = "Moving"]
  /\ stack' = Append(stack, cur)
  /\ UNCHANGED <<pc, pm, i, c, lo, hi>>

(* pmrec, after its recursive call has returned c.                         *)

(* Mutant of RetCycleEnd: the end of the cycle is handed on to the caller. *)
RetCycleEndLeaky ==
  /\ pc = "ret" /\ stack # <<>> /\ c = Top
  /\ Return(Top, c) /\ EmitNothing
  /\ stack' = Pop /\ UNCHANGED <<pm, i, cur, k>>

RetCycleEnd ==
  /\ pc = "ret" /\ stack # <<>> /\ c = Top
  /\ Return(Top, NoCycle) /\ EmitNothing
  /\ stack' = Pop /\ UNCHANGED <<pm, i, cur, k>>

RetSwap ==
  /\ pc = "ret" /\ stack # <<>> /\ c # Top /\ c # NoCycle
  /\ Return(Top, c) /\ EmitSwap(pm[Top], k)
  /\ stack' = Pop /\ UNCHANGED <<pm, i, cur, k>>

RetCopy ==
  /\ pc = "ret" /\ stack # <<>> /\ c = NoCycle
  /\ Return(Top, NoCycle) /\ EmitCopy(pm[Top])
  /\ stack' = Pop /\ UNCHANGED <<pm, i, cur, k>>

RetLoop ==
  /\ pc = "ret" /\ stack = <<>>
  /\ pc' = "loop" /\ UNCHANGED <<pm, status, i, stack, cur, k, c, lo, hi>>

PmRec == \/ RecSelf \/ RecCopy \/ RecCycle \/ RecDescend
         \/ RetCycleEnd \/ RetSwap \/ RetCopy \/ RetLoop

Generate == LoopCall \/ LoopSkip \/ LoopExit \/ PmRec

Next == \/ \E m \in Move : PmAdd(m) \/ PmAddDie(m)
        \/ PmGen
        \/ Generate

Spec == Init /\ [][Next]_vars

-----------------------------------------------------------------------------
(* The variables have their types.                                         *)
TypeOK ==
  /\ pc \in {"add", "loop", "call", "ret", "done", "dead"}
  /\ pm \in Seq(Move) /\ Len(pm) <= Tmp0
  /\ IF pc \in {"add", "dead"} THEN status = <<>> ELSE status \in [Moves -> PMStat]
  /\ i \in 1 .. Len(pm) + 1
  /\ stack \in Seq(Moves)
  /\ cur \in {0} \cup Moves
  /\ pc = "call" => cur \in Moves
  /\ k \in Cls
  /\ c \in {NoCycle} \cup Moves
  /\ lo \in [Loc -> Src] /\ hi \in [Loc -> Src \cup {Junk}]

Moved == {m \in Moves : status[m] = "Moved"}
Dst(S) == {pm[m].dst : m \in S}

(* The code emitted so far does the moves of S at once: every destination  *)
(* gets the low half that its source had, every other location keeps its.  *)
Realised(S) ==
  /\ \A m \in S : lo[pm[m].dst] = pm[m].src
  /\ \A l \in Loc \ Dst(S) : lo[l] = l

(* The same of the high halves, which only the 64-bit moves carry.         *)
WideRealised(S) ==
  /\ \A m \in S : pm[m].cls = "l" => hi[pm[m].dst] = pm[m].src
  /\ \A l \in Loc \ Dst(S) : hi[l] = l

(* When pmgen returns, running the emitted copies and swaps has the effect *)
(* of all the moves of pm[] done at once, and touches nothing else.  A     *)
(* swap is as wide as the widest move of its cycle (k in pmrec): 64-bit    *)
(* moves keep their high half even in a cycle with 32-bit ones.            *)
MovesRealised == pc = "done" => Realised(Moves) /\ WideRealised(Moves)

(* Between two chains the code emitted so far does exactly the moves that  *)
(* are marked Moved, whatever subset that is, and no chain is left open.   *)
PrefixRealised ==
  pc = "loop" => stack = <<>> /\ Realised(Moved) /\ WideRealised(Moved)

(* A cycle is always closed by the activation that opened it: pmrec never  *)
(* returns to pmgen (which ignores the result) with a cycle half rotated.  *)
(* And its recursion ends: no move waits for itself, so that the calls     *)
(* that wait are never more than the moves.                                *)
CyclesClosed ==
  /\ pc = "ret" /\ stack = <<>> => c = NoCycle
  /\ pc \in {"call", "ret"} => \A q, r \in 1 .. Len(stack) : stack[q] = stack[r] => q = r

(* pmadd's "cannot have more moves than registers" is only ever reached by *)
(* moves into spilled phis: destinations being distinct, moves between     *)
(* registers cannot fill a table of Tmp0 > |Regs| entries and ask for one  *)
(* more.                                                                   *)
DiesOnlyOfSlots ==
  pc = "dead" => \E m \in Moves : pm[m].dst \in Slots

=============================================================================
