------------------------------ MODULE Rv64Abi ------------------------------
(***************************************************************************)
(* The convention of rv64 (src/rv64/abi.c): a struct of one or two fields  *)
(* with a float among them goes in registers by its fields, another small  *)
(* one in general registers, or half of it in the last of these and half   *)
(* on the stack.                                                           *)
(***************************************************************************)
EXTENDS CallAbi

GpReg(n) == <<"a0", "a1", "a2", "a3", "a4", "a5", "a6", "a7">>[n + 1]
FpReg(n) == <<"fa0", "fa1", "fa2", "fa3", "fa4", "fa5", "fa6", "fa7">>[n + 1]

FieldCls == [b |-> "w", h |-> "w", w |-> "w", l |-> "l", s |-> "s", d |-> "d"]

(* The classes of the fields of t, those of the structs within it among    *)
(* them, and their offsets.  The offset does not move past a field that is *)
(* itself a struct.                                                        *)
FpStruct[t \in DOMAIN Types] ==
  LET Add(s, f) ==
        CASE f.type = "pad" -> [s EXCEPT !.at = @ + f.len]
          [] f.type = "typ" ->
               LET in == FpStruct[f.of]
               IN [s EXCEPT !.cls = @ \o in.cls, !.off = @ \o [j \in DOMAIN in.off |-> in.off[j] + s.at]]
          [] OTHER -> [at |-> s.at + f.len, cls |-> Append(s.cls, FieldCls[f.type]), off |-> Append(s.off, s.at)]
  IN FoldLeft(Add, [at |-> 0, cls |-> << >>, off |-> << >>], Types[t].fields)

Count(cls, b) == Cardinality({j \in DOMAIN cls : KBase(cls[j]) = b})

(* The register of each part when gp and fp are the next ones.             *)
Assign(cls, gp, fp) ==
  [j \in DOMAIN cls |-> LET before == Count(SubSeq(cls, 1, j - 1), KBase(cls[j]))
                        IN IF KBase(cls[j]) = "gp" THEN <<"gp", gp + before>> ELSE <<"fp", fp + before>>]
RegName(r) == IF r[1] = "gp" THEN GpReg(r[2]) ELSE FpReg(r[2])

(* What is passed in parts of the classes cls, found at the offsets off.   *)
Parted(ptr, cls, off, gp, fp) ==
  [ptr |-> ptr, stk1 |-> FALSE, stk2 |-> FALSE, fpint |-> FALSE, cls |-> cls, off |-> off,
   reg |-> Assign(cls, gp, fp), ngp |-> Count(cls, "gp"), nfp |-> Count(cls, "fp"), nreg |-> Len(cls)]

(* The parts of a struct and where they are passed.                        *)
TypClass(t, fpabi, gp, fp) ==
  LET n == (SizeOf(t) + 7) \div 8
      ByField(f) == fpabi /\ Len(f.cls) <= 2 /\ Count(f.cls, "fp") > 0
  IN IF SizeOf(t) > 16 \/ SizeOf(t) = 0 THEN Parted(TRUE, <<"l">>, <<0>>, gp, fp)
     ELSE IF ByField(FpStruct[t]) THEN Parted(FALSE, FpStruct[t].cls, FpStruct[t].off, gp, fp)
     ELSE Parted(FALSE, [j \in 1 .. n |-> "l"], [j \in 1 .. n |-> 8 * (j - 1)], gp, fp)

RetClass == TypClass(sig.ret, TRUE, 0, 0)
InMemory == IsStruct(sig.ret) /\ RetClass.ptr

(* A scalar: a float goes in a general register after the marker and when  *)
(* the float registers are all taken.                                      *)
ScalarClass(s, k) ==
  LET float == ~s.vararg /\ KBase(k) = "fp" /\ s.nfp > 0
      gp == ~float /\ s.ngp > 0
  IN [ptr |-> FALSE, stk1 |-> ~float /\ ~gp, stk2 |-> FALSE, fpint |-> gp /\ KBase(k) = "fp",
      cls |-> <<k>>, off |-> <<0>>, reg |-> <<IF float THEN <<"fp", s.fp>> ELSE <<"gp", s.gp>>>>,
      ngp |-> IF gp THEN 1 ELSE 0, nfp |-> IF float THEN 1 ELSE 0, nreg |-> IF float \/ gp THEN 1 ELSE 0]

NoClass == [ptr |-> FALSE, stk1 |-> FALSE, stk2 |-> FALSE, fpint |-> FALSE,
            cls |-> << >>, off |-> << >>, reg |-> << >>, ngp |-> 0, nfp |-> 0, nreg |-> 0]

(* The class of a struct after the registers left have been looked at.     *)
StructClass(s, t) ==
  LET Fit(c) == IF c.nfp > 0 /\ (c.nfp >= s.nfp \/ c.ngp >= s.ngp) THEN TypClass(t, FALSE, s.gp, s.fp) ELSE c
      Cut(c) == CASE c.ngp <= s.ngp -> c
                  [] c.ngp > s.ngp /\ s.ngp > 0 -> [c EXCEPT !.stk2 = TRUE, !.nreg = 1, !.ngp = 1]
                  [] OTHER -> [c EXCEPT !.stk1 = TRUE, !.stk2 = c.nreg > 1, !.nreg = 0, !.ngp = 0]
  IN Cut(Fit(TypClass(t, TRUE, s.gp, s.fp)))

ArgsClass(args) ==
  LET Take(s, c) == [s EXCEPT !.ca = Append(@, c), !.gp = @ + c.ngp, !.ngp = @ - c.ngp,
                              !.fp = @ + c.nfp, !.nfp = @ - c.nfp]
      Add(s, a) == CASE a = "..." -> [Take(s, NoClass) EXCEPT !.vararg = TRUE]
                     [] IsStruct(a) -> Take(s, StructClass(s, a))
                     [] OTHER -> Take(s, ScalarClass(s, a))
      Start(n) == [vararg |-> FALSE, gp |-> n, ngp |-> NGp - n, fp |-> 0, nfp |-> NFp, ca |-> << >>]
  IN FoldLeft(Add, Start(IF InMemory THEN 1 ELSE 0), args)

(* The registers that CALL declares.                                       *)
ArgRegs(cty) == {GpReg(j) : j \in 0 .. cty.gp - 1} \cup {FpReg(j) : j \in 0 .. cty.fp - 1}

(* Mutant of RetRegs: the counts of returned registers are read swapped.   *)
RetRegsSwapped(cty) == {GpReg(j) : j \in 0 .. cty.rfp - 1} \cup {FpReg(j) : j \in 0 .. cty.rgp - 1}
RetRegs(cty) == {GpReg(j) : j \in 0 .. cty.rgp - 1} \cup {FpReg(j) : j \in 0 .. cty.rfp - 1}

RetCall ==
  LET k == IF sig.ret = "none" THEN "w" ELSE sig.ret
  IN IF IsStruct(sig.ret) THEN [rgp |-> RetClass.ngp, rfp |-> RetClass.nfp]
     ELSE [rgp |-> IF KBase(k) = "gp" THEN 1 ELSE 0, rfp |-> IF KBase(k) = "gp" THEN 0 ELSE 1]

CallOf(s) == [gp |-> s.gp, fp |-> s.fp] @@ RetCall

(* The first n parts of v in their registers, and back in an object.       *)
LdRegs(c, v) == [q \in {RegName(c.reg[j]) : j \in 1 .. c.nreg} |->
                   LET j == CHOOSE i \in 1 .. c.nreg : RegName(c.reg[i]) = q
                   IN Load(v, c.off[j], Width[c.cls[j]])]
StTmps(c, n, regs) ==
  FoldLeftDomain(LAMBDA m, j : Store(m, c.off[j], Get(regs, RegName(c.reg[j])), Width[c.cls[j]]),
                 Fresh(RoundUp(n, 8)), SubSeq(c.cls, 1, c.nreg))

---------------------------------------------------------------------------
SelCall ==
  /\ pc = "call"
  /\ \E cl \in {ArgsClass(sig.args)} : \E cty \in {CallOf(cl)} :
     LET args == sig.args
         ca == cl.ca
         ptrs == {i \in DOMAIN args : ca[i].ptr}
         Val(i) == IF ca[i].ptr THEN Address(i) ELSE Value(i, args[i])
         Pass(regs, i) == IF ca[i].stk1 \/ args[i] = "..." THEN regs ELSE LdRegs(ca[i], Val(i)) @@ regs
         words == FoldLeft(LAMBDA n, c : n + (IF c.stk1 THEN 8 ELSE 0) + (IF c.stk2 THEN 8 ELSE 0), 0, ca)
         Push(s, i) ==
           LET lo == IF ca[i].stk1 THEN [off |-> s.off + 8, mem |-> Store(s.mem, s.off, Load(Val(i), 0, 8), 8)]
                     ELSE s
           IN IF ca[i].stk2
              THEN [off |-> lo.off + 8, mem |-> Store(lo.mem, lo.off, Load(Val(i), 8, 8), 8)] ELSE lo
     IN /\ call' = cty
        /\ reg' = Kept(FoldLeftDomain(Pass, IF InMemory THEN GpReg(0) :> Address(0) ELSE << >>, args),
                       ArgRegs(cty))
        /\ stack' = FoldLeftDomain(Push, [off |-> 0, mem |-> Fresh(words + (words % 16))], args).mem
        /\ blob' = Copies(args, ptrs)
                     @@ (IF IsStruct(sig.ret) THEN 0 :> Fresh(RoundUp(SizeOf(sig.ret), 8)) ELSE << >>)
  /\ pc' = "entry"
  /\ UNCHANGED <<sig, frame, save, ap, params, got, result>>

(* The slots above the frame count words from two below the save area.     *)
SavedWords == IF IsVariadic(sig.args) THEN NGp ELSE 0
InSlot(s) == 8 * (s - 2 - SavedWords)

SelPar ==
  /\ pc = "entry"
  /\ \E args \in {Fixed(sig.args)} : \E cl \in {ArgsClass(args)} : \E cty \in {CallOf(cl)} :
     LET ca == cl.ca
         in == Kept(reg, ArgRegs(cty))
         Take(s, i) ==
           LET a == sig.args[i]
               c == ca[i]
               inRegs == StTmps(c, SizeOf(a), in)
               wide == Store(Fresh(RoundUp(SizeOf(a), 8)), -InSlot(s.s), stack, InSlot(s.s) + 16)
               v == CASE IsStruct(a) /\ ~c.ptr /\ c.nreg = 0 -> wide
                      [] IsStruct(a) /\ ~c.ptr /\ c.nreg # 0 ->
                           IF c.stk2 THEN Store(inRegs, 8, Load(stack, InSlot(s.s), 8), 8) ELSE inRegs
                      [] (~IsStruct(a) \/ c.ptr) /\ c.stk1 -> Load(stack, InSlot(s.s), Width[c.cls[1]])
                      [] OTHER -> Load(Get(in, RegName(c.reg[1])), 0, Width[c.cls[1]])
           IN [s |-> s.s + (IF c.stk1 THEN 1 ELSE 0) + (IF c.stk2 THEN 1 ELSE 0),
               par |-> Append(s.par, IF c.ptr THEN Pointed(v, SizeOf(a)) ELSE v)]
         end == FoldLeftDomain(Take, [s |-> 2 + SavedWords, par |-> << >>], args)
     IN /\ params' = end.par
        /\ frame' = [gp |-> cty.gp, fp |-> cty.fp, s |-> end.s,
                     retr |-> IF InMemory THEN Get(in, GpReg(0)) ELSE Fresh(8)]
        /\ save' = [n \in 1 .. SavedWords |-> Get(reg, GpReg(n - 1))]
  /\ pc' = Body
  /\ UNCHANGED <<sig, reg, stack, blob, call, ap, got, result>>

(* The list begins at the first register no named argument took, and runs  *)
(* from the save area into the stack, or behind the named arguments there. *)
SelVaStart ==
  /\ pc = "start"
  /\ ap' = [stk |-> IF frame.s > 2 + SavedWords THEN frame.s ELSE 2 + frame.gp]
  /\ pc' = IF Variadic = << >> THEN "return" ELSE "vaarg"
  /\ UNCHANGED <<sig, reg, stack, blob, call, frame, save, params, got, result>>

SelVaArg ==
  /\ pc = "vaarg"
  /\ LET w == Width[Variadic[Len(got) + 1]]
     IN VaArgGives(IF ap.stk - 2 < SavedWords THEN Load(save[ap.stk - 1], 0, w)
                   ELSE Load(stack, InSlot(ap.stk), w))
  /\ ap' = [ap EXCEPT !.stk = @ + 1]
  /\ UNCHANGED <<sig, reg, stack, blob, call, frame, save, params, result>>

SelRet ==
  /\ pc = "return"
  /\ LET v == Value(0, sig.ret)
     IN /\ reg' = IF sig.ret = "none" \/ InMemory THEN << >>
                  ELSE Kept(IF IsStruct(sig.ret) THEN LdRegs(RetClass, v)
                            ELSE (IF KBase(sig.ret) = "gp" THEN "a0" ELSE "fa0") :> Load(v, 0, Width[sig.ret]),
                            RetRegs(RetCall))
        /\ blob' = IF InMemory /\ frame.retr = Address(0)
                   THEN [blob EXCEPT ![0] = Store(@, 0, v, SizeOf(sig.ret))] ELSE blob
  /\ pc' = "result"
  /\ UNCHANGED <<sig, stack, call, frame, save, ap, params, got, result>>

(* What selcall put after the call: the result leaves its registers.       *)
AfterCall ==
  /\ pc = "result"
  /\ LET out == Kept(reg, RetRegs(call))
     IN result' = IF sig.ret = "none" THEN << >>
                  ELSE IF InMemory THEN blob[0]
                  ELSE IF IsStruct(sig.ret) THEN StTmps(RetClass, SizeOf(sig.ret), out)
                  ELSE Load(Get(out, IF KBase(sig.ret) = "gp" THEN "a0" ELSE "fa0"), 0, Width[sig.ret])
  /\ pc' = "done"
  /\ UNCHANGED <<sig, reg, stack, blob, call, frame, save, ap, params, got>>

Next == SelCall \/ SelPar \/ SelVaStart \/ SelVaArg \/ SelRet \/ AfterCall
=============================================================================
