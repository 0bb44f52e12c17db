-------------------------- MODULE ParallelMoveProofs --------------------------
(***************************************************************************)
(* Proofs about ParallelMove, for any sets of registers, slots and         *)
(* constants and any capacity of pm[].                                     *)
(***************************************************************************)
EXTENDS ParallelMove, SequenceTheorems, FiniteSetTheorems, TLAPS

(* A cycle is being rotated: the activation of c opened it, and its        *)
(* destination holds, until c returns, what the top of the stack wants.    *)
Open == pc = "ret" /\ c # NoCycle

Started == pc \in {"loop", "call", "ret", "done"}

DistinctDst == \A a, b \in Moves : pm[a].dst = pm[b].dst => a = b

(* Nothing is emitted before pmgen starts.                                 *)
NotStarted ==
  ~Started => /\ stack = <<>> /\ c = NoCycle /\ i = 1
              /\ lo = [l \in Loc |-> l] /\ hi = [l \in Loc |-> l]

(* The waiting activations are the moves marked Moving, each once, and     *)
(* each waits for the move into its own source.                            *)
StackInv ==
  Started =>
    /\ \A q \in 1 .. Len(stack) : /\ status[stack[q]] = "Moving"
                                  /\ pm[stack[q]].src # pm[stack[q]].dst
    /\ \A m \in Moves : status[m] = "Moving" => \E q \in 1 .. Len(stack) : stack[q] = m
    /\ \A q, r \in 1 .. Len(stack) : stack[q] = stack[r] => q = r
    /\ \A q \in 1 .. Len(stack) - 1 : pm[stack[q]].src = pm[stack[q + 1]].dst

ControlInv ==
  /\ pc \in {"loop", "done"} => stack = <<>>
  /\ pc = "done" => i = Len(pm) + 1
  /\ Started => \A m \in 1 .. i - 1 : status[m] = "ToMove" => pc = "call" /\ m = cur
  /\ pc = "call" => /\ status[cur] = "ToMove"
                    /\ stack # <<>> => pm[Top].src = pm[cur].dst
  /\ pc = "ret" /\ stack # <<>> =>
       \E j \in Moves : status[j] = "Moved" /\ pm[j].dst = pm[Top].src
  /\ Open => status[c] = "Moving"
  /\ pc \in {"call", "ret"} /\ k = "w" =>
       \A q \in 1 .. Len(stack) : pm[stack[q]].cls = "w"

(* No location holds what a move still to be made will overwrite, save the *)
(* location of that move: an instruction put in front disturbs only it.    *)
Fresh(v) ==
  \A j \in Moves, l \in Loc :
    status[j] # "Moved" /\ v[l] = pm[j].dst => l = pm[j].dst \/ (Open /\ j = c)

Rotating(v) == Open => \A l \in Loc : v[l] = pm[Top].src => l = pm[c].dst

Untouched(v) ==
  \A l \in Loc :
    \/ \E m \in Moves : status[m] = "Moved" /\ pm[m].dst = l
    \/ Open /\ l = pm[c].dst
    \/ v[l] = l

Delivered(v, ks, kk) ==
  /\ \A m \in Moves : status[m] = "Moved" /\ pm[m].cls \in ks => v[pm[m].dst] = pm[m].src
  /\ Open /\ kk \in ks => v[pm[c].dst] = pm[Top].src

CodeInv(v, ks, kk) ==
  Started => Fresh(v) /\ Rotating(v) /\ Untouched(v) /\ Delivered(v, ks, kk)

IInv ==
  /\ TypeOK /\ DistinctDst /\ NotStarted /\ StackInv /\ ControlInv
  /\ CodeInv(lo, {"w", "l"}, k)
  /\ CodeInv(hi, {"l"}, k)

-----------------------------------------------------------------------------
LEMMA MoveFacts ==
  ASSUME TypeOK
  PROVE  \A m \in Moves : pm[m] \in Move /\ pm[m].src \in Src
                          /\ pm[m].dst \in Loc /\ pm[m].cls \in Cls
<1>1. \A m \in Moves : pm[m] \in Move
  BY DEF TypeOK, Moves
<1>2. \A x \in Move : x.src \in Src /\ x.dst \in Loc /\ x.cls \in Cls
  BY DEF Move
<1>3. QED
  BY <1>1, <1>2

LEMMA PopFacts ==
  ASSUME stack \in Seq(Moves), stack # <<>>
  PROVE  /\ Len(stack) \in Nat /\ Len(stack) >= 1
         /\ Top \in Moves
         /\ Pop \in Seq(Moves) /\ Len(Pop) = Len(stack) - 1
         /\ \A q \in 1 .. Len(stack) - 1 : Pop[q] = stack[q] /\ stack[q] \in Moves
<1>1. Len(stack) \in Nat /\ Len(stack) >= 1 /\ \A q \in 1 .. Len(stack) : stack[q] \in Moves
  BY EmptySeq, LenProperties
<1>2. /\ Pop \in Seq(Moves)
      /\ Len(Pop) = IF 1 <= Len(stack) - 1 THEN Len(stack) - 1 - 1 + 1 ELSE 0
      /\ \A q \in 1 .. Len(stack) - 1 - 1 + 1 : Pop[q] = stack[1 + q - 1]
  BY <1>1, SubSeqProperties DEF Pop
<1>3. Len(Pop) = Len(stack) - 1
  <2> DEFINE n == Len(stack)
  <2>1. n \in Nat /\ n >= 1 /\ Len(Pop) = IF 1 <= n - 1 THEN n - 1 - 1 + 1 ELSE 0
    BY <1>1, <1>2
  <2> HIDE DEF n
  <2>2. Len(Pop) = n - 1
    BY <2>1
  <2>3. QED
    BY <2>2 DEF n
<1>4. ASSUME NEW q \in 1 .. Len(stack) - 1
      PROVE  Pop[q] = stack[q] /\ stack[q] \in Moves
  <2>1. q \in 1 .. Len(stack) - 1 - 1 + 1 /\ 1 + q - 1 = q /\ q \in 1 .. Len(stack)
    BY <1>1
  <2>2. Pop[q] = stack[1 + q - 1]
    BY <1>2, <2>1
  <2>3. QED
    BY <1>1, <2>1, <2>2
<1>5. Top \in Moves
  BY <1>1 DEF Top
<1>6. QED
  BY <1>1, <1>2, <1>3, <1>4, <1>5

LEMMA PushFacts ==
  ASSUME stack \in Seq(Moves), NEW m \in Moves
  PROVE  /\ Append(stack, m) \in Seq(Moves) /\ Append(stack, m) # <<>>
         /\ Len(stack) \in Nat /\ Len(Append(stack, m)) = Len(stack) + 1
         /\ \A q \in 1 .. Len(stack) : Append(stack, m)[q] = stack[q] /\ stack[q] \in Moves
         /\ Append(stack, m)[Len(stack) + 1] = m
  BY AppendProperties, LenProperties

LEMMA TypeInit == Init => TypeOK
  BY LocAssumption, Tmp0Assumption DEF Init, TypeOK, Moves, Move, Cls, NoCycle, Src

LEMMA TypeStep == TypeOK /\ [Next]_vars => TypeOK'
<1> SUFFICES ASSUME TypeOK, [Next]_vars PROVE TypeOK'
  OBVIOUS
<1> USE LocAssumption, Tmp0Assumption DEF Moves, Cls, PMStat, NoCycle
<1>1. ASSUME NEW m \in Move, PmAdd(m) PROVE TypeOK'
  BY <1>1 DEF PmAdd, TypeOK
<1>2. ASSUME NEW m \in Move, PmAddDie(m) PROVE TypeOK'
  BY <1>2 DEF PmAddDie, TypeOK
<1>3. CASE PmGen
  BY <1>3 DEF PmGen, TypeOK
<1>4. CASE LoopCall
  BY <1>4, MoveFacts DEF LoopCall, TypeOK
<1>5. CASE LoopSkip
  BY <1>5 DEF LoopSkip, TypeOK
<1>6. CASE LoopExit
  BY <1>6 DEF LoopExit, TypeOK
<1>7. CASE RecSelf
  BY <1>7 DEF RecSelf, Return, EmitNothing, TypeOK
<1>8. CASE RecCopy
  BY <1>8, MoveFacts DEF RecCopy, RecEnter, Return, EmitCopy, CopyInto, Widest, TypeOK
<1>9. CASE RecCycle
  BY <1>9, MoveFacts DEF RecCycle, RecEnter, Return, EmitSwap, Exchange, Widest, Blockers, TypeOK, Src
<1>10. CASE RecDescend
  BY <1>10, PushFacts DEF RecDescend, RecEnter, Widest, Blockers, TypeOK
<1>11. CASE RetCycleEnd
  BY <1>11, PopFacts DEF RetCycleEnd, Return, EmitNothing, TypeOK
<1>12. CASE RetSwap
  BY <1>12, PopFacts, MoveFacts DEF RetSwap, Return, EmitSwap, Exchange, TypeOK, Src
<1>13. CASE RetCopy
  BY <1>13, PopFacts, MoveFacts DEF RetCopy, Return, EmitCopy, CopyInto, TypeOK
<1>14. CASE RetLoop
  BY <1>14 DEF RetLoop, TypeOK
<1>15. CASE UNCHANGED vars
  BY <1>15 DEF vars, TypeOK
<1>16. QED
  BY <1>1, <1>2, <1>3, <1>4, <1>5, <1>6, <1>7, <1>8, <1>9, <1>10, <1>11, <1>12, <1>13, <1>14, <1>15
  DEF Next, Generate, PmRec

(* The variables keep their types, whatever moves are asked for.           *)
THEOREM TypeCorrect == Spec => []TypeOK
  BY TypeInit, TypeStep, PTL DEF Spec

-----------------------------------------------------------------------------
(* The inductive invariant: the control part, then the code part, action   *)
(* by action.                                                              *)

Control == DistinctDst /\ NotStarted /\ StackInv /\ ControlInv
Code == CodeInv(lo, {"w", "l"}, k) /\ CodeInv(hi, {"l"}, k)

LEMMA IInvInit == Init => IInv
<1> SUFFICES ASSUME Init PROVE IInv
  OBVIOUS
<1>1. TypeOK
  BY TypeInit
<1>2. Control
  BY DEF Init, Control, DistinctDst, NotStarted, StackInv, ControlInv, Started, Open, Moves, NoCycle
<1>3. Code
  BY DEF Init, Code, CodeInv, Started
<1>4. QED
  BY <1>1, <1>2, <1>3 DEF IInv, Control, Code

LEMMA AddStep ==
  ASSUME IInv, TypeOK', NEW m \in Move, PmAdd(m) \/ PmAddDie(m)
  PROVE  IInv'
<1> USE DEF IInv, NoCycle
<1>1. ~Started /\ ~Started' /\ ~Open'
  BY DEF PmAdd, PmAddDie, Started, Open
<1>2. DistinctDst'
  <2>1. CASE PmAdd(m)
    BY <2>1 DEF PmAdd, NewDst, DistinctDst, Moves, TypeOK
  <2>2. CASE PmAddDie(m)
    BY <2>2 DEF PmAddDie, DistinctDst, Moves
  <2>3. QED
    BY <2>1, <2>2
<1>3. NotStarted' /\ StackInv' /\ ControlInv'
  BY <1>1 DEF PmAdd, PmAddDie, Started, Open, NotStarted, StackInv, ControlInv
<1>4. CodeInv(lo, {"w", "l"}, k)' /\ CodeInv(hi, {"l"}, k)'
  BY <1>1 DEF CodeInv
<1>5. QED
  BY <1>2, <1>3, <1>4

LEMMA GenStep ==
  ASSUME IInv, TypeOK', PmGen
  PROVE  IInv'
<1> USE DEF IInv, NoCycle
<1>1. Moves' = Moves /\ pm' = pm /\ stack' = <<>> /\ ~Open' /\ Started'
  BY DEF PmGen, Moves, NotStarted, Started, Open
<1>2. \A m \in Moves : status'[m] = "ToMove"
  BY DEF PmGen
<1>3. DistinctDst' /\ NotStarted' /\ StackInv' /\ ControlInv'
  BY <1>1, <1>2 DEF PmGen, DistinctDst, NotStarted, StackInv, ControlInv, Started
<1>4. /\ \A l \in Loc : lo'[l] = l
      /\ \A l \in Loc : hi'[l] = l
  BY DEF PmGen, NotStarted, Started
<1>5. CodeInv(lo, {"w", "l"}, k)' /\ CodeInv(hi, {"l"}, k)'
  BY <1>1, <1>2, <1>4 DEF CodeInv, Fresh, Rotating, Untouched, Delivered
<1>6. QED
  BY <1>3, <1>5

LEMMA LoopStep ==
  ASSUME IInv, TypeOK', LoopCall \/ LoopSkip \/ LoopExit \/ RetLoop
  PROVE  IInv'
<1> USE DEF IInv, NoCycle
<1>1. /\ Moves' = Moves /\ pm' = pm /\ stack' = stack /\ stack = <<>>
      /\ status' = status /\ lo' = lo /\ hi' = hi /\ Started /\ Started'
  BY DEF LoopCall, LoopSkip, LoopExit, RetLoop, Moves, Started, ControlInv
<1>2. ~Open /\ ~Open'
  <2>1. CASE RetLoop
    <3>1. \A m \in Moves : status[m] # "Moving"
      BY <1>1 DEF StackInv
    <3>2. QED
      BY <2>1, <3>1 DEF RetLoop, Open, ControlInv, TypeOK
  <2>2. CASE LoopCall \/ LoopSkip \/ LoopExit
    BY <2>2 DEF LoopCall, LoopSkip, LoopExit, Open
  <2>3. QED
    BY <2>1, <2>2
<1>3. DistinctDst' /\ NotStarted' /\ StackInv'
  BY <1>1 DEF DistinctDst, NotStarted, StackInv
<1>4. ControlInv'
  <2>1. i \in Nat /\ Len(pm) \in Nat /\ i <= Len(pm) + 1 /\ Len(stack) = 0
    BY <1>1 DEF TypeOK
  <2>2. CASE LoopCall
    BY <1>1, <1>2, <2>1, <2>2 DEF ControlInv, LoopCall, Moves
  <2>3. CASE LoopSkip
    BY <1>1, <1>2, <2>1, <2>3 DEF ControlInv, LoopSkip, Moves
  <2>4. CASE LoopExit
    BY <1>1, <1>2, <2>1, <2>4 DEF ControlInv, LoopExit, Moves
  <2>5. CASE RetLoop
    BY <1>1, <1>2, <2>1, <2>5 DEF ControlInv, RetLoop, Moves
  <2>6. QED
    BY <2>2, <2>3, <2>4, <2>5
<1>5. CodeInv(lo, {"w", "l"}, k)' /\ CodeInv(hi, {"l"}, k)'
  BY <1>1, <1>2 DEF CodeInv, Fresh, Rotating, Untouched, Delivered
<1>6. QED
  BY <1>3, <1>4, <1>5

(* The four ways pmrec goes on when it is entered.                         *)
LEMMA CallFacts ==
  ASSUME IInv, pc = "call"
  PROVE  /\ cur \in Moves /\ status[cur] = "ToMove" /\ Started /\ ~Open
         /\ pm[cur].src \in Src /\ pm[cur].dst \in Loc /\ pm[cur].cls \in Cls
         /\ Len(stack) \in Nat
         /\ \A q \in 1 .. Len(stack) : stack[q] \in Moves /\ stack[q] # cur
         /\ stack # <<>> => /\ Len(stack) >= 1 /\ Top \in Moves
                            /\ pm[Top].src = pm[cur].dst
<1>1. TypeOK /\ StackInv /\ ControlInv
  BY DEF IInv
<1>2. cur \in Moves /\ status[cur] = "ToMove" /\ Started /\ ~Open
  BY <1>1 DEF TypeOK, ControlInv, Started, Open
<1>3. /\ Len(stack) \in Nat
      /\ \A q \in 1 .. Len(stack) : stack[q] \in Moves /\ stack[q] # cur
  BY <1>1, <1>2, LenProperties DEF TypeOK, StackInv
<1>4. QED
  BY <1>1, <1>2, <1>3, MoveFacts, PopFacts DEF TypeOK, ControlInv

LEMMA RecSelfStep ==
  ASSUME IInv, TypeOK', RecSelf
  PROVE  IInv'
<1> USE DEF IInv, NoCycle
<1>1. /\ Moves' = Moves /\ pm' = pm /\ stack' = stack /\ k' = k /\ i' = i
      /\ status' = [status EXCEPT ![cur] = "Moved"] /\ lo' = lo /\ hi' = hi
      /\ pm[cur].src = pm[cur].dst /\ pc = "call" /\ pc' = "ret" /\ c' = 0
      /\ Started' /\ ~Open' /\ status \in [Moves -> PMStat] /\ Top' = Top
  BY DEF RecSelf, Return, EmitNothing, Moves, Started, Open, TypeOK, Top
<1>2. DistinctDst' /\ NotStarted' /\ StackInv'
  BY <1>1, CallFacts DEF DistinctDst, NotStarted, StackInv
<1>3. ControlInv'
  BY <1>1, CallFacts DEF ControlInv
<1>4. CodeInv(lo, {"w", "l"}, k)'
  BY <1>1, CallFacts DEF CodeInv, Fresh, Rotating, Untouched, Delivered, DistinctDst
<1>5. CodeInv(hi, {"l"}, k)'
  BY <1>1, CallFacts DEF CodeInv, Fresh, Rotating, Untouched, Delivered, DistinctDst
<1>6. QED
  BY <1>2, <1>3, <1>4, <1>5

LEMMA RecCopyStep ==
  ASSUME IInv, TypeOK', RecCopy
  PROVE  IInv'
<1> USE DEF IInv, NoCycle
<1> DEFINE d == pm[cur].dst
           s == pm[cur].src
<1>1. /\ Moves' = Moves /\ pm' = pm /\ stack' = stack /\ i' = i
      /\ status' = [status EXCEPT ![cur] = "Moved"]
      /\ d # s /\ pc = "call" /\ pc' = "ret" /\ c' = 0
      /\ Started' /\ ~Open' /\ status \in [Moves -> PMStat] /\ Top' = Top
      /\ k' = "w" => k = "w"
  BY DEF RecCopy, RecEnter, Widest, Return, Moves, Started, Open, TypeOK, Top, Cls
<1>2. \A j \in Moves : pm[j].dst = s => status[j] = "Moved"
  BY DEF RecCopy, Blockers
<1>3. DistinctDst' /\ NotStarted' /\ StackInv'
  BY <1>1, CallFacts DEF DistinctDst, NotStarted, StackInv
<1>4. ControlInv'
  BY <1>1, CallFacts DEF ControlInv
<1>5. CodeInv(lo, {"w", "l"}, k)'
  <2>1. /\ lo \in [Loc -> Src]
        /\ \A l \in Loc : lo'[l] = IF lo[l] = d THEN s ELSE lo[l]
    BY DEF RecCopy, EmitCopy, CopyInto, TypeOK
  <2>2. Fresh(lo) /\ Untouched(lo) /\ Delivered(lo, {"w", "l"}, k)
    BY CallFacts, <1>1 DEF CodeInv
  <2>3. \A l \in Loc : lo[l] = d <=> l = d
    BY <2>2, <1>1, CallFacts DEF Fresh, Untouched, DistinctDst
  <2>4. Fresh(lo)'
    BY <1>1, <1>2, <2>1, <2>2, CallFacts DEF Fresh
  <2>5. Untouched(lo)'
    BY <1>1, <2>1, <2>2, <2>3, CallFacts DEF Untouched
  <2>6. Delivered(lo, {"w", "l"}, k)'
    BY <1>1, <2>1, <2>2, <2>3, CallFacts, MoveFacts DEF Delivered, DistinctDst
  <2>7. QED
    BY <1>1, <2>4, <2>5, <2>6 DEF CodeInv, Rotating
<1>6. CodeInv(hi, {"l"}, k)'
  <2>1. /\ hi \in [Loc -> Src \cup {Junk}]
        /\ \A l \in Loc : hi'[l] = IF hi[l] = d THEN IF pm[cur].cls = "l" THEN s ELSE Junk
                                    ELSE hi[l]
    BY DEF RecCopy, EmitCopy, CopyInto, TypeOK
  <2>2. Fresh(hi) /\ Untouched(hi) /\ Delivered(hi, {"l"}, k)
    BY CallFacts, <1>1 DEF CodeInv
  <2>3. \A l \in Loc : hi[l] = d <=> l = d
    BY <2>2, <1>1, CallFacts DEF Fresh, Untouched, DistinctDst
  <2>4. \A j \in Moves : pm[j].dst # Junk
    BY LocAssumption, MoveFacts DEF Src
  <2>5. Fresh(hi)'
    BY <1>1, <1>2, <2>1, <2>2, <2>4, CallFacts DEF Fresh
  <2>6. Untouched(hi)'
    BY <1>1, <2>1, <2>2, <2>3, CallFacts DEF Untouched
  <2>7. Delivered(hi, {"l"}, k)'
    BY <1>1, <2>1, <2>2, <2>3, CallFacts, MoveFacts DEF Delivered, DistinctDst
  <2>8. QED
    BY <1>1, <2>5, <2>6, <2>7 DEF CodeInv, Rotating
<1>7. QED
  BY <1>3, <1>4, <1>5, <1>6

LEMMA RecCycleStep ==
  ASSUME IInv, TypeOK', RecCycle
  PROVE  IInv'
<1> USE DEF IInv, NoCycle
<1> DEFINE d == pm[cur].dst
           s == pm[cur].src
<1>1. /\ c' \in Moves /\ pm[c'].dst = s /\ status[c'] = "Moving"
      /\ status' = [status EXCEPT ![cur] = "Moved"] /\ pc' = "ret"
  BY DEF RecCycle, Blockers, Return
<1>2. /\ Moves' = Moves /\ pm' = pm /\ stack' = stack /\ i' = i
      /\ d # s /\ pc = "call" /\ c' # 0
      /\ Started' /\ Open' /\ status \in [Moves -> PMStat] /\ Top' = Top
      /\ k' = "w" => k = "w" /\ pm[cur].cls = "w"
  <2>1. /\ pm' = pm /\ stack' = stack /\ i' = i /\ d # s /\ pc = "call"
        /\ k' = Widest(k, pm[cur].cls)
    BY DEF RecCycle, RecEnter
  <2>2. k \in {"w", "l"} /\ pm[cur].cls \in {"w", "l"}
    BY <2>1, CallFacts DEF TypeOK, Cls
  <2>3. k' = "w" => k = "w" /\ pm[cur].cls = "w"
    BY <2>1, <2>2 DEF Widest
  <2>4. c' # 0
    BY <1>1, <2>1 DEF TypeOK, Moves
  <2>5. Moves' = Moves /\ Top' = Top
    BY <2>1 DEF Moves, Top
  <2>6. Started' /\ Open' /\ status \in [Moves -> PMStat]
    BY <1>1, <2>1, <2>4 DEF Started, Open, TypeOK
  <2>7. QED
    BY <2>1, <2>3, <2>4, <2>5, <2>6
<1>3. stack # <<>> /\ c' # cur /\ pm[Top].src = d /\ Top \in Moves /\ s \in Loc
  <2>1. PICK q \in 1 .. Len(stack) : stack[q] = c'
    BY <1>1, CallFacts, <1>2 DEF StackInv
  <2>2. stack # <<>>
    BY <2>1
  <2>3. QED
    BY <1>1, <1>2, <2>2, CallFacts, MoveFacts
<1>4. DistinctDst' /\ NotStarted' /\ StackInv'
  BY <1>1, <1>2, CallFacts DEF DistinctDst, NotStarted, StackInv
<1>5. ControlInv'
  BY <1>1, <1>2, <1>3, CallFacts DEF ControlInv
<1>6. CodeInv(lo, {"w", "l"}, k)'
  <2>1. /\ lo \in [Loc -> Src]
        /\ \A l \in Loc : lo'[l] = IF lo[l] = s THEN d ELSE IF lo[l] = d THEN s ELSE lo[l]
    BY DEF RecCycle, EmitSwap, Exchange, TypeOK
  <2>2. Fresh(lo) /\ Untouched(lo) /\ Delivered(lo, {"w", "l"}, k)
    BY CallFacts, <1>2 DEF CodeInv
  <2>3. \A l \in Loc : (lo[l] = d <=> l = d) /\ (lo[l] = s <=> l = s)
    BY <1>1, <1>2, <1>3, <2>2, CallFacts DEF Fresh, Untouched, DistinctDst
  <2>4. Fresh(lo)'
    BY <1>1, <1>2, <1>3, <2>1, <2>2, <2>3, CallFacts DEF Fresh, DistinctDst
  <2>5. Rotating(lo)'
    BY <1>1, <1>2, <1>3, <2>1, <2>3, CallFacts DEF Rotating
  <2>6. Untouched(lo)'
    BY <1>1, <1>2, <2>1, <2>2, <2>3, CallFacts DEF Untouched
  <2>7. Delivered(lo, {"w", "l"}, k)'
    BY <1>1, <1>2, <1>3, <2>1, <2>2, <2>3, CallFacts, MoveFacts DEF Delivered, DistinctDst
  <2>8. QED
    BY <2>4, <2>5, <2>6, <2>7 DEF CodeInv
<1>7. CodeInv(hi, {"l"}, k)'
  <2>1. /\ hi \in [Loc -> Src \cup {Junk}]
        /\ \A l \in Loc :
              hi'[l] = IF k' = "l"
                       THEN IF hi[l] = s THEN d ELSE IF hi[l] = d THEN s ELSE hi[l]
                       ELSE IF hi[l] \in {s, d} THEN Junk ELSE hi[l]
    BY DEF RecCycle, EmitSwap, Exchange, TypeOK
  <2>2. Fresh(hi) /\ Untouched(hi) /\ Delivered(hi, {"l"}, k)
    BY CallFacts, <1>2 DEF CodeInv
  <2>3. \A l \in Loc : (hi[l] = d <=> l = d) /\ (hi[l] = s <=> l = s)
    BY <1>1, <1>2, <1>3, <2>2, CallFacts DEF Fresh, Untouched, DistinctDst
  <2>4. \A j \in Moves : pm[j].dst # Junk /\ pm[j].cls \in {"w", "l"}
    BY LocAssumption, MoveFacts DEF Src, Cls
  <2>5. d # Junk /\ s # Junk /\ pm[cur].cls \in {"w", "l"} /\ k' \in {"w", "l"}
    BY <1>2, <1>3, CallFacts, LocAssumption DEF TypeOK, Cls, Src
  <2>6. Fresh(hi)'
    BY <1>1, <1>2, <1>3, <2>1, <2>2, <2>3, <2>4, CallFacts DEF Fresh, DistinctDst
  <2>7. Rotating(hi)'
    BY <1>1, <1>2, <1>3, <2>1, <2>3, <2>5, CallFacts DEF Rotating
  <2>8. Untouched(hi)'
    BY <1>1, <1>2, <2>1, <2>2, <2>3, CallFacts DEF Untouched
  <2>9. Delivered(hi, {"l"}, k)'
    BY <1>1, <1>2, <1>3, <2>1, <2>2, <2>3, <2>5, CallFacts, MoveFacts DEF Delivered, DistinctDst
  <2>10. QED
    BY <2>6, <2>7, <2>8, <2>9 DEF CodeInv
<1>8. QED
  BY <1>4, <1>5, <1>6, <1>7

LEMMA RecDescendStep ==
  ASSUME IInv, TypeOK', RecDescend
  PROVE  IInv'
<1> USE DEF IInv, NoCycle
<1>1. /\ cur' \in Moves /\ pm[cur'].dst = pm[cur].src /\ status[cur'] = "ToMove"
      /\ pm[cur].src # pm[cur].dst
      /\ status' = [status EXCEPT ![cur] = "Moving"] /\ stack' = Append(stack, cur)
      /\ lo' = lo /\ hi' = hi /\ pc = "call" /\ pc' = "call" /\ i' = i
      /\ Moves' = Moves /\ pm' = pm /\ status \in [Moves -> PMStat]
      /\ k' = Widest(k, pm[cur].cls)
  BY DEF RecDescend, RecEnter, Blockers, Moves, TypeOK
<1>2. ~Open' /\ Started' /\ cur' # cur
  BY <1>1 DEF Open, Started
<1>3. /\ stack' # <<>> /\ Len(stack') = Len(stack) + 1
      /\ \A q \in 1 .. Len(stack) : stack'[q] = stack[q]
      /\ stack'[Len(stack) + 1] = cur /\ Top' = cur
  BY <1>1, CallFacts, PushFacts DEF TypeOK, Top
<1>4. DistinctDst' /\ NotStarted'
  BY <1>1, <1>2 DEF DistinctDst, NotStarted
<1>5. StackInv'
  <2>1. Len(stack) \in Nat /\ \A q \in 1 .. Len(stack') : q \in 1 .. Len(stack) \/ q = Len(stack) + 1
    BY <1>3, CallFacts, <1>1
  <2>2. \A q \in 1 .. Len(stack') : /\ status'[stack'[q]] = "Moving"
                                   /\ pm[stack'[q]].src # pm[stack'[q]].dst
    BY <1>1, <1>3, <2>1, CallFacts DEF StackInv
  <2>3. \A m \in Moves : status'[m] = "Moving" => \E q \in 1 .. Len(stack') : stack'[q] = m
    BY <1>1, <1>3, <2>1, CallFacts DEF StackInv
  <2>4. \A q, r \in 1 .. Len(stack') : stack'[q] = stack'[r] => q = r
    BY <1>1, <1>3, <2>1, CallFacts DEF StackInv
  <2>5. ASSUME NEW q \in 1 .. Len(stack') - 1
        PROVE  pm[stack'[q]].src = pm[stack'[q + 1]].dst
    <3>1. CASE q \in 1 .. Len(stack) - 1
      <4>1. q \in 1 .. Len(stack) /\ q + 1 \in 1 .. Len(stack)
        BY <2>1, <3>1
      <4>2. stack'[q] = stack[q] /\ stack'[q + 1] = stack[q + 1]
        BY <1>3, <4>1
      <4>3. pm[stack[q]].src = pm[stack[q + 1]].dst
        BY <1>1, <3>1, CallFacts DEF StackInv
      <4>4. QED
        BY <4>2, <4>3
    <3>2. CASE q = Len(stack)
      <4>1. stack # <<>> /\ Top = stack[q]
        BY <2>5, <3>2, <1>3, <2>1 DEF Top
      <4>2. QED
        BY <1>1, <1>3, <2>1, <3>2, <4>1, <2>5, CallFacts
    <3>3. QED
      BY <1>3, <2>1, <3>1, <3>2, <2>5
  <2>6. QED
    BY <1>1, <2>2, <2>3, <2>4, <2>5 DEF StackInv
<1>6. ControlInv'
  <2>1. Len(stack) \in Nat /\ \A q \in 1 .. Len(stack') : q \in 1 .. Len(stack) \/ q = Len(stack) + 1
    BY <1>3, CallFacts, <1>1
  <2>2. k \in {"w", "l"} /\ pm[cur].cls \in {"w", "l"}
    BY <1>1, CallFacts DEF TypeOK, Cls
  <2>3. k' = "w" => k = "w" /\ pm[cur].cls = "w"
    BY <1>1, <2>2 DEF Widest
  <2>4. k' = "w" => \A q \in 1 .. Len(stack') : pm[stack'[q]].cls = "w"
    BY <1>1, <1>3, <2>1, <2>3 DEF ControlInv
  <2>5. QED
    BY <1>1, <1>2, <1>3, <2>4, CallFacts DEF ControlInv
<1>7. CodeInv(lo, {"w", "l"}, k)' /\ CodeInv(hi, {"l"}, k)'
  BY <1>1, <1>2, CallFacts DEF CodeInv, Fresh, Rotating, Untouched, Delivered
<1>8. QED
  BY <1>4, <1>5, <1>6, <1>7

(* The three ways pmrec goes on when its recursive call has returned: all  *)
(* pop the stack and mark its top Moved.                                   *)
LEMMA RetFacts ==
  ASSUME IInv, pc = "ret", stack # <<>>
  PROVE  /\ Top \in Moves /\ status[Top] = "Moving" /\ Started
         /\ pm[Top].src # pm[Top].dst
         /\ pm[Top].src \in Loc /\ pm[Top].dst \in Loc /\ pm[Top].cls \in {"w", "l"}
         /\ k \in {"w", "l"} /\ (k = "w" => pm[Top].cls = "w")
         /\ status \in [Moves -> PMStat]
         /\ \A j \in Moves : pm[j].dst = pm[Top].src => status[j] = "Moved"
         /\ \E j \in Moves : status[j] = "Moved" /\ pm[j].dst = pm[Top].src
         /\ Open => /\ c \in Moves /\ status[c] = "Moving"
                    /\ \E q \in 1 .. Len(stack) : stack[q] = c
<1>1. TypeOK /\ StackInv /\ ControlInv /\ DistinctDst
  BY DEF IInv
<1>2. Top \in Moves /\ Len(stack) \in 1 .. Len(stack)
  BY <1>1, PopFacts DEF TypeOK
<1>3. status[Top] = "Moving" /\ pm[Top].src # pm[Top].dst
  BY <1>1, <1>2 DEF StackInv, Started, Top
<1>4. PICK j \in Moves : status[j] = "Moved" /\ pm[j].dst = pm[Top].src
  BY <1>1 DEF ControlInv
<1>5. \A m \in Moves : pm[m].dst = pm[Top].src => m = j
  BY <1>1, <1>4 DEF DistinctDst
<1>6. k = "w" => pm[Top].cls = "w"
  BY <1>1, <1>2 DEF ControlInv, Top
<1>7. Open => c \in Moves /\ status[c] = "Moving"
  BY <1>1 DEF ControlInv, Open, TypeOK
<1>8. QED
  BY <1>1, <1>2, <1>3, <1>4, <1>5, <1>6, <1>7, MoveFacts DEF StackInv, Started, TypeOK, Cls

LEMMA RetControl ==
  ASSUME IInv, TypeOK', pc = "ret", stack # <<>>, pc' = "ret",
         status' = [status EXCEPT ![Top] = "Moved"], stack' = Pop,
         pm' = pm, i' = i, k' = k,
         c' = NoCycle \/ (c' = c /\ Open /\ c # Top)
  PROVE  /\ DistinctDst' /\ NotStarted' /\ StackInv' /\ ControlInv'
         /\ Moves' = Moves
         /\ stack' # <<>> => Top' \in Moves /\ pm[Top'].src = pm[Top].dst
<1> USE DEF NoCycle
<1>1. Moves' = Moves /\ Started /\ Started'
  BY DEF Moves, Started
<1>2. TypeOK /\ StackInv /\ ControlInv /\ DistinctDst
  BY DEF IInv
<1> DEFINE n == Len(stack)
<1>3. /\ n \in Nat /\ n >= 1 /\ Len(stack') = n - 1
      /\ \A q \in 1 .. n - 1 : stack'[q] = stack[q] /\ stack[q] \in Moves
      /\ stack[n] = Top /\ Top \in Moves
  BY <1>2, PopFacts DEF TypeOK, Top
<1>4. \A q, r \in 1 .. n : stack[q] = stack[r] => q = r
  BY <1>1, <1>2 DEF StackInv
<1>5. /\ \A q \in 1 .. n : status[stack[q]] = "Moving" /\ pm[stack[q]].src # pm[stack[q]].dst
      /\ \A m \in Moves : status[m] = "Moving" => \E q \in 1 .. n : stack[q] = m
      /\ \A q \in 1 .. n - 1 : pm[stack[q]].src = pm[stack[q + 1]].dst
  BY <1>1, <1>2 DEF StackInv
<1>6. stack' # <<>> => Top' = stack[n - 1] /\ n - 1 \in 1 .. n - 1
  <2>1. stack' # <<>> => Len(stack') # 0
    BY EmptySeq DEF TypeOK
  <2>2. Top' = stack'[Len(stack')]
    BY DEF Top
  <2> HIDE DEF n
  <2>3. stack' # <<>> => n - 1 \in 1 .. n - 1
    BY <1>3, <2>1
  <2>4. QED
    BY <1>3, <2>2, <2>3
<1> HIDE DEF n
<1>7. stack' # <<>> => Top' \in Moves /\ pm[Top'].src = pm[Top].dst
  <2>1. SUFFICES ASSUME stack' # <<>>
                 PROVE  Top' \in Moves /\ pm[Top'].src = pm[Top].dst
    OBVIOUS
  <2>2. n - 1 \in 1 .. n - 1 /\ Top' = stack[n - 1] /\ (n - 1) + 1 = n
    BY <2>1, <1>6, <1>3
  <2>3. QED
    BY <2>2, <1>3, <1>5
<1>8. \A q \in 1 .. n - 1 : stack[q] # Top
  BY <1>3, <1>4
<1>9. \A m \in Moves : status'[m] = IF m = Top THEN "Moved" ELSE status[m]
  BY <1>2, <1>1 DEF TypeOK
<1>10. StackInv'
  <2>1. \A q \in 1 .. n - 1 : /\ status'[stack'[q]] = "Moving"
                              /\ pm[stack'[q]].src # pm[stack'[q]].dst
    BY <1>3, <1>5, <1>8, <1>9
  <2>2. \A m \in Moves : status'[m] = "Moving" => \E q \in 1 .. n - 1 : stack'[q] = m
    BY <1>3, <1>5, <1>9
  <2>3. \A q, r \in 1 .. n - 1 : stack'[q] = stack'[r] => q = r
    BY <1>3, <1>4
  <2>4. ASSUME NEW q \in 1 .. (n - 1) - 1
        PROVE  pm[stack'[q]].src = pm[stack'[q + 1]].dst
    <3>1. q \in 1 .. n - 1 /\ q + 1 \in 1 .. n - 1
      BY <1>3
    <3>2. QED
      BY <1>3, <1>5, <3>1
  <2>5. \A q \in 1 .. Len(stack') - 1 : pm'[stack'[q]].src = pm'[stack'[q + 1]].dst
    BY <1>3, <2>4
  <2>6. QED
    BY <1>1, <1>3, <2>1, <2>2, <2>3, <2>5 DEF StackInv
<1>11. ControlInv'
  <2>1. \A m \in 1 .. i - 1 : status'[m] # "ToMove"
    BY <1>1, <1>2, <1>9 DEF ControlInv, TypeOK, Moves
  <2>2. stack' # <<>> =>
          \E j \in Moves : status'[j] = "Moved" /\ pm[j].dst = pm[Top'].src
    BY <1>3, <1>7, <1>9
  <2>3. Open' => status'[c'] = "Moving"
    BY <1>2, <1>9 DEF ControlInv, Open, TypeOK
  <2>4. k = "w" => \A q \in 1 .. n - 1 : pm[stack'[q]].cls = "w"
    BY <1>2, <1>3 DEF ControlInv, n
  <2>5. QED
    BY <1>1, <1>3, <2>1, <2>2, <2>3, <2>4 DEF ControlInv
<1>12. DistinctDst' /\ NotStarted'
  BY <1>1, <1>2 DEF DistinctDst, NotStarted
<1>13. QED
  BY <1>1, <1>7, <1>10, <1>11, <1>12

LEMMA RetCycleEndStep ==
  ASSUME IInv, TypeOK', RetCycleEnd
  PROVE  IInv'
<1> USE DEF NoCycle
<1>1. /\ pc = "ret" /\ stack # <<>> /\ c = Top /\ pc' = "ret" /\ c' = 0
      /\ status' = [status EXCEPT ![Top] = "Moved"] /\ stack' = Pop
      /\ pm' = pm /\ i' = i /\ k' = k /\ lo' = lo /\ hi' = hi
  BY DEF RetCycleEnd, Return, EmitNothing
<1>2. /\ DistinctDst' /\ NotStarted' /\ StackInv' /\ ControlInv' /\ Moves' = Moves
  BY <1>1, RetControl
<1>3. Open /\ ~Open' /\ Started /\ Started'
  BY <1>1, RetFacts DEF Open, Started, Moves
<1>4. CodeInv(lo, {"w", "l"}, k) /\ CodeInv(hi, {"l"}, k) /\ DistinctDst
  BY DEF IInv
<1>5. Fresh(lo)' /\ Fresh(hi)'
  BY <1>1, <1>2, <1>3, <1>4, RetFacts DEF CodeInv, Fresh
<1>6. Untouched(lo)' /\ Untouched(hi)'
  BY <1>1, <1>2, <1>3, <1>4, RetFacts DEF CodeInv, Untouched
<1>7. Delivered(lo, {"w", "l"}, k)' /\ Delivered(hi, {"l"}, k)'
  BY <1>1, <1>2, <1>3, <1>4, RetFacts DEF CodeInv, Delivered
<1>8. QED
  BY <1>2, <1>3, <1>5, <1>6, <1>7 DEF IInv, CodeInv, Rotating

LEMMA RetSwapStep ==
  ASSUME IInv, TypeOK', RetSwap
  PROVE  IInv'
<1> USE DEF NoCycle
<1> DEFINE d == pm[Top].dst
           s == pm[Top].src
<1>1. /\ pc = "ret" /\ stack # <<>> /\ c # Top /\ c # 0 /\ pc' = "ret" /\ c' = c
      /\ status' = [status EXCEPT ![Top] = "Moved"] /\ stack' = Pop
      /\ pm' = pm /\ i' = i /\ k' = k /\ Open /\ Open' /\ Started /\ Started'
  BY DEF RetSwap, Return, Open, Started
<1>2. /\ DistinctDst' /\ NotStarted' /\ StackInv' /\ ControlInv' /\ Moves' = Moves
      /\ stack' # <<>> => Top' \in Moves /\ pm[Top'].src = d
  BY <1>1, RetControl
<1>3. stack' # <<>>
  <2>1. status'[c] = "Moving" /\ c \in Moves
    BY <1>1, RetFacts
  <2>2. PICK q \in 1 .. Len(stack') : stack'[q] = c
    BY <2>1, <1>1, <1>2 DEF StackInv
  <2>3. QED
    BY <2>2
<1>4. /\ d # s /\ d \in Loc /\ s \in Loc /\ c \in Moves /\ pm[c].dst # d /\ pm[c].dst # s
      /\ pm[c].dst \in Loc
      /\ pm[Top'].src = d
  <2>1. DistinctDst /\ TypeOK
    BY DEF IInv
  <2>2. QED
    BY <1>1, <1>2, <1>3, <2>1, RetFacts, MoveFacts DEF DistinctDst
<1>5. TypeOK /\ CodeInv(lo, {"w", "l"}, k) /\ CodeInv(hi, {"l"}, k) /\ DistinctDst
  BY DEF IInv
<1>6. \A m \in Moves : status'[m] = IF m = Top THEN "Moved" ELSE status[m]
  BY <1>1, RetFacts
<1>7. CodeInv(lo, {"w", "l"}, k)'
  <2>1. /\ lo \in [Loc -> Src]
        /\ \A l \in Loc : lo'[l] = IF lo[l] = s THEN d ELSE IF lo[l] = d THEN s ELSE lo[l]
    BY <1>5 DEF RetSwap, EmitSwap, Exchange, TypeOK
  <2>2. Fresh(lo) /\ Rotating(lo) /\ Untouched(lo) /\ Delivered(lo, {"w", "l"}, k)
    BY <1>5, <1>1 DEF CodeInv
  <2>3. /\ \A l \in Loc : (lo[l] = d <=> l = d)
        /\ \A l \in Loc : (lo[l] = s <=> l = pm[c].dst)
    <3>1. \A l \in Loc : lo[l] = d => l = d
      BY <1>1, <1>4, <2>2, RetFacts DEF Fresh
    <3>2. lo[d] = d
      BY <1>1, <1>4, <1>5, <2>2, RetFacts DEF Untouched, DistinctDst
    <3>3. \A l \in Loc : lo[l] = s => l = pm[c].dst
      BY <1>1, <2>2 DEF Rotating
    <3>4. lo[pm[c].dst] = s
      BY <1>1, <2>2, RetFacts DEF Delivered
    <3>5. QED
      BY <3>1, <3>2, <3>3, <3>4
  <2>4. Fresh(lo)'
    <3>1. \A j \in Moves : status'[j] # "Moved" =>
            status[j] # "Moved" /\ pm[j].dst # d /\ pm[j].dst # s
      BY <1>1, <1>5, <1>6, RetFacts DEF DistinctDst
    <3>2. \A j \in Moves, l \in Loc :
            status'[j] # "Moved" /\ lo'[l] = pm[j].dst => lo[l] = pm[j].dst
      BY <3>1, <2>1
    <3>3. QED
      BY <1>1, <1>2, <3>1, <3>2, <2>2 DEF Fresh
  <2>5. Rotating(lo)'
    BY <1>1, <1>4, <2>1, <2>3 DEF Rotating
  <2>6. Untouched(lo)'
    BY <1>1, <1>2, <1>6, <2>1, <2>2, <2>3, RetFacts DEF Untouched
  <2>7. Delivered(lo, {"w", "l"}, k)'
    BY <1>1, <1>2, <1>4, <1>5, <1>6, <2>1, <2>2, <2>3, RetFacts, MoveFacts DEF Delivered, DistinctDst
  <2>8. QED
    BY <2>4, <2>5, <2>6, <2>7 DEF CodeInv
<1>8. CodeInv(hi, {"l"}, k)'
  <2>1. /\ hi \in [Loc -> Src \cup {Junk}]
        /\ \A l \in Loc :
              hi'[l] = IF k = "l"
                       THEN IF hi[l] = s THEN d ELSE IF hi[l] = d THEN s ELSE hi[l]
                       ELSE IF hi[l] \in {s, d} THEN Junk ELSE hi[l]
    BY <1>5 DEF RetSwap, EmitSwap, Exchange, TypeOK
  <2>2. Fresh(hi) /\ Rotating(hi) /\ Untouched(hi) /\ Delivered(hi, {"l"}, k)
    BY <1>5, <1>1 DEF CodeInv
  <2>3. /\ \A l \in Loc : (hi[l] = d <=> l = d)
        /\ \A l \in Loc : (hi[l] = s => l = pm[c].dst)
        /\ k = "l" => hi[pm[c].dst] = s
    <3>1. \A l \in Loc : hi[l] = d => l = d
      BY <1>1, <1>4, <2>2, RetFacts DEF Fresh
    <3>2. hi[d] = d
      BY <1>1, <1>4, <1>5, <2>2, RetFacts DEF Untouched, DistinctDst
    <3>3. \A l \in Loc : hi[l] = s => l = pm[c].dst
      BY <1>1, <2>2 DEF Rotating
    <3>4. k = "l" => hi[pm[c].dst] = s
      BY <1>1, <2>2 DEF Delivered
    <3>5. QED
      BY <3>1, <3>2, <3>3, <3>4
  <2>4. /\ d # Junk /\ s # Junk /\ k \in {"w", "l"} /\ (k = "w" => pm[Top].cls = "w")
        /\ \A j \in Moves : pm[j].dst # Junk
    BY <1>1, <1>4, <1>5, RetFacts, MoveFacts, LocAssumption DEF Src
  <2>5. Fresh(hi)'
    <3>1. \A j \in Moves : status'[j] # "Moved" =>
            status[j] # "Moved" /\ pm[j].dst # d /\ pm[j].dst # s
      BY <1>1, <1>5, <1>6, RetFacts DEF DistinctDst
    <3>2. \A j \in Moves, l \in Loc :
            status'[j] # "Moved" /\ hi'[l] = pm[j].dst => hi[l] = pm[j].dst
      BY <3>1, <2>1, <2>4
    <3>3. QED
      BY <1>1, <1>2, <3>1, <3>2, <2>2 DEF Fresh
  <2>6. Rotating(hi)'
    BY <1>1, <1>4, <2>1, <2>3, <2>4 DEF Rotating
  <2>7. Untouched(hi)'
    BY <1>1, <1>2, <1>6, <2>1, <2>2, <2>3, RetFacts DEF Untouched
  <2>8. Delivered(hi, {"l"}, k)'
    BY <1>1, <1>2, <1>4, <1>5, <1>6, <2>1, <2>2, <2>3, <2>4, RetFacts, MoveFacts DEF Delivered, DistinctDst
  <2>9. QED
    BY <2>5, <2>6, <2>7, <2>8 DEF CodeInv
<1>9. QED
  BY <1>2, <1>7, <1>8 DEF IInv

LEMMA RetCopyStep ==
  ASSUME IInv, TypeOK', RetCopy
  PROVE  IInv'
<1> USE DEF NoCycle
<1> DEFINE d == pm[Top].dst
           s == pm[Top].src
<1>1. /\ pc = "ret" /\ stack # <<>> /\ c = 0 /\ pc' = "ret" /\ c' = 0
      /\ status' = [status EXCEPT ![Top] = "Moved"] /\ stack' = Pop
      /\ pm' = pm /\ i' = i /\ k' = k /\ ~Open /\ ~Open' /\ Started /\ Started'
  BY DEF RetCopy, Return, Open, Started
<1>2. DistinctDst' /\ NotStarted' /\ StackInv' /\ ControlInv' /\ Moves' = Moves
  BY <1>1, RetControl
<1>3. TypeOK /\ CodeInv(lo, {"w", "l"}, k) /\ CodeInv(hi, {"l"}, k) /\ DistinctDst
  BY DEF IInv
<1>4. \A m \in Moves : status'[m] = IF m = Top THEN "Moved" ELSE status[m]
  BY <1>1, RetFacts
<1>5. CodeInv(lo, {"w", "l"}, k)'
  <2>1. \A l \in Loc : lo'[l] = IF lo[l] = d THEN s ELSE lo[l]
    BY DEF RetCopy, EmitCopy, CopyInto
  <2>2. Fresh(lo) /\ Untouched(lo) /\ Delivered(lo, {"w", "l"}, k)
    BY <1>3, <1>1 DEF CodeInv
  <2>3. \A l \in Loc : lo[l] = d <=> l = d
    BY <1>1, <1>3, <2>2, RetFacts DEF Fresh, Untouched, DistinctDst
  <2>4. Fresh(lo)'
    BY <1>1, <1>2, <1>4, <2>1, <2>2, RetFacts DEF Fresh
  <2>5. Untouched(lo)'
    BY <1>1, <1>2, <1>4, <2>1, <2>2, <2>3, RetFacts DEF Untouched
  <2>6. Delivered(lo, {"w", "l"}, k)'
    BY <1>1, <1>2, <1>3, <1>4, <2>1, <2>2, <2>3, RetFacts, MoveFacts DEF Delivered, DistinctDst
  <2>7. QED
    BY <1>1, <2>4, <2>5, <2>6 DEF CodeInv, Rotating
<1>6. CodeInv(hi, {"l"}, k)'
  <2>1. \A l \in Loc : hi'[l] = IF hi[l] = d THEN IF pm[Top].cls = "l" THEN s ELSE Junk
                                ELSE hi[l]
    BY DEF RetCopy, EmitCopy, CopyInto
  <2>2. Fresh(hi) /\ Untouched(hi) /\ Delivered(hi, {"l"}, k)
    BY <1>3, <1>1 DEF CodeInv
  <2>3. \A l \in Loc : hi[l] = d <=> l = d
    BY <1>1, <1>3, <2>2, RetFacts DEF Fresh, Untouched, DistinctDst
  <2>4. \A j \in Moves : pm[j].dst # Junk
    BY <1>3, LocAssumption, MoveFacts DEF Src
  <2>5. Fresh(hi)'
    BY <1>1, <1>2, <1>4, <2>1, <2>2, <2>4, RetFacts DEF Fresh
  <2>6. Untouched(hi)'
    BY <1>1, <1>2, <1>4, <2>1, <2>2, <2>3, RetFacts DEF Untouched
  <2>7. Delivered(hi, {"l"}, k)'
    BY <1>1, <1>2, <1>3, <1>4, <2>1, <2>2, <2>3, RetFacts, MoveFacts DEF Delivered, DistinctDst
  <2>8. QED
    BY <1>1, <2>5, <2>6, <2>7 DEF CodeInv, Rotating
<1>7. QED
  BY <1>2, <1>5, <1>6 DEF IInv

LEMMA IInvStep == IInv /\ [Next]_vars => IInv'
<1> SUFFICES ASSUME IInv, [Next]_vars PROVE IInv'
  OBVIOUS
<1>1. TypeOK'
  BY TypeStep DEF IInv
<1>2. CASE UNCHANGED vars
  BY <1>2 DEF vars, IInv, TypeOK, DistinctDst, NotStarted, StackInv, ControlInv, CodeInv,
     Fresh, Rotating, Untouched, Delivered, Open, Started, Moves, Top
<1>3. QED
  BY <1>1, <1>2, AddStep, GenStep, LoopStep, RecSelfStep, RecCopyStep, RecCycleStep,
     RecDescendStep, RetCycleEndStep, RetSwapStep, RetCopyStep
  DEF Next, Generate, PmRec

-----------------------------------------------------------------------------
LEMMA Invariance == Spec => []IInv
  BY IInvInit, IInvStep, PTL DEF Spec

(* Between two chains nothing waits and no cycle is open, so the code part *)
(* of the invariant is the statement about the moves marked Moved.         *)
LEMMA PrefixFromIInv ==
  ASSUME IInv, pc \in {"loop", "done"}
  PROVE  stack = <<>> /\ Realised(Moved) /\ WideRealised(Moved)
<1>1. Started /\ ~Open /\ stack = <<>>
  BY DEF IInv, Started, Open, ControlInv
<1>2. /\ Untouched(lo) /\ Delivered(lo, {"w", "l"}, k)
      /\ Untouched(hi) /\ Delivered(hi, {"l"}, k)
  BY <1>1 DEF IInv, CodeInv
<1>3. \A m \in Moves : pm[m].cls \in {"w", "l"}
  BY MoveFacts DEF IInv, Cls
<1>4. Realised(Moved)
  BY <1>1, <1>2, <1>3 DEF Untouched, Delivered, Realised, Moved, Dst
<1>5. WideRealised(Moved)
  BY <1>1, <1>2, <1>3 DEF Untouched, Delivered, WideRealised, Moved, Dst
<1>6. QED
  BY <1>1, <1>4, <1>5

LEMMA AllMovedAtEnd ==
  ASSUME IInv, pc = "done"
  PROVE  Moved = Moves
<1>1. \A m \in Moves : status[m] # "ToMove"
  BY DEF IInv, ControlInv, Started, TypeOK, Moves
<1>2. \A m \in Moves : status[m] # "Moving"
  BY DEF IInv, ControlInv, StackInv, Started
<1>3. \A m \in Moves : status[m] \in PMStat
  BY DEF IInv, TypeOK
<1>4. QED
  BY <1>1, <1>2, <1>3 DEF Moved, PMStat

(* Between two chains the code emitted so far does exactly the moves that  *)
(* are marked Moved (pmgen, each iteration of its loop).                   *)
THEOREM PrefixCorrect == Spec => []PrefixRealised
<1>1. IInv => PrefixRealised
  BY PrefixFromIInv DEF PrefixRealised
<1>2. QED
  BY <1>1, Invariance, PTL

(* What pmgen emits does all the moves of pm[] at once, in the low halves  *)
(* and, for the moves that carry one, in the high halves.                  *)
THEOREM MovesCorrect == Spec => []MovesRealised
<1>1. IInv => MovesRealised
  BY PrefixFromIInv, AllMovedAtEnd DEF MovesRealised
<1>2. QED
  BY <1>1, Invariance, PTL

(* pmrec never hands pmgen, which ignores its result, a cycle that is      *)
(* still open, and never waits twice for one move.                         *)
THEOREM CyclesAreClosed == Spec => []CyclesClosed
<1>1. IInv => CyclesClosed
  <2>1. ASSUME IInv, pc = "ret", stack = <<>>, c # NoCycle PROVE FALSE
    <3>1. c \in Moves /\ status[c] = "Moving"
      BY <2>1 DEF IInv, TypeOK, ControlInv, Open
    <3>2. PICK q \in 1 .. Len(stack) : stack[q] = c
      BY <2>1, <3>1 DEF IInv, StackInv, Started
    <3>3. QED
      BY <2>1, <3>2
  <2>2. ASSUME IInv, pc \in {"call", "ret"}
        PROVE  \A q, r \in 1 .. Len(stack) : stack[q] = stack[r] => q = r
    BY <2>2 DEF IInv, StackInv, Started
  <2>3. QED
    BY <2>1, <2>2 DEF CyclesClosed
<1>2. QED
  BY <1>1, Invariance, PTL

-----------------------------------------------------------------------------
(* pmadd only gives up on a full table.                                    *)
DeadFull == pc = "dead" => Len(pm) = Tmp0

LEMMA DeadFullStep == DeadFull /\ [Next]_vars => DeadFull'
<1> SUFFICES ASSUME DeadFull, [Next]_vars PROVE DeadFull'
  OBVIOUS
<1>1. ASSUME NEW m \in Move, PmAdd(m) \/ PmAddDie(m) PROVE DeadFull'
  BY <1>1 DEF PmAdd, PmAddDie, DeadFull
<1>2. CASE PmGen
  BY <1>2 DEF PmGen, DeadFull
<1>3. CASE Generate
  BY <1>3 DEF Generate, PmRec, LoopCall, LoopSkip, LoopExit, RecSelf, RecCopy, RecCycle, RecDescend,
              RecEnter, RetCycleEnd, RetSwap, RetCopy, RetLoop, Return, DeadFull
<1>4. CASE UNCHANGED vars
  BY <1>4 DEF vars, DeadFull
<1>5. QED
  BY <1>1, <1>2, <1>3, <1>4 DEF Next

(* A full table of distinct destinations has one that is no register: more *)
(* of them than there are registers.                                       *)
LEMMA FullHasSlot ==
  ASSUME TypeOK, DistinctDst, Len(pm) = Tmp0
  PROVE  \E m \in Moves : pm[m].dst \in Slots
<1> SUFFICES ASSUME \A m \in Moves : pm[m].dst \notin Slots PROVE FALSE
  OBVIOUS
<1> DEFINE dst == [m \in 1 .. Tmp0 |-> pm[m].dst]
<1>1. \A m \in 1 .. Tmp0 : m \in Moves /\ pm[m].dst \in Regs
  BY MoveFacts DEF Moves, Loc
<1>2. dst \in [1 .. Tmp0 -> Regs]
  BY <1>1
<1>3. IsFiniteSet(1 .. Tmp0) /\ Cardinality(1 .. Tmp0) = Tmp0
  BY FS_Interval, Tmp0Assumption, RegsAssumption, FS_CardinalityType
<1>4. Cardinality(Regs) < Cardinality(1 .. Tmp0) /\ IsFiniteSet(Regs)
  BY <1>3, RegsAssumption
<1> HIDE DEF dst
<1>5. PICK a, b \in 1 .. Tmp0 : a # b /\ dst[a] = dst[b]
  BY <1>2, <1>3, <1>4, FS_PigeonHole
<1>6. QED
  BY <1>1, <1>5 DEF DistinctDst, dst

(* pmadd's "cannot have more moves than registers" is never reached by     *)
(* moves between registers alone: some phi was spilled to a slot.          *)
THEOREM OnlySpillsFill == Spec => []DiesOnlyOfSlots
<1>1. Init => DeadFull
  BY DEF Init, DeadFull
<1>2. IInv /\ DeadFull => DiesOnlyOfSlots
  BY FullHasSlot DEF IInv, DeadFull, DiesOnlyOfSlots
<1>3. QED
  BY <1>1, <1>2, Invariance, DeadFullStep, PTL DEF Spec
=============================================================================
