----------------------------- MODULE Arm64Abi -----------------------------
(***************************************************************************)
(* The convention of arm64 and its variant for Apple (src/arm64/abi.c): a  *)
(* struct of floats alone goes in one float register for each, another     *)
(* small one in general registers, and a large one is replaced by a        *)
(* pointer to a copy the caller makes.                                     *)
(***************************************************************************)
EXTENDS CallAbi

GpReg(n) == <<"r0", "r1", "r2", "r3", "r4", "r5", "r6", "r7">>[n + 1]
FpReg(n) == <<"v0", "v1", "v2", "v3", "v4", "v5", "v6", "v7",
              "none", "none", "none", "none">>[n + 1]

Apple == sig.target = "arm64_apple"

(* The class of the floats t is made of, "x" when it is empty, or "no"     *)
(* when it holds anything else or both kinds.                              *)
IsFloatV(t) ==
  FoldLeft(LAMBDA c, p : IF p.type \in {"s", "d"} /\ c \in {"x", p.type} THEN p.type ELSE "no", "x", Parts[t])

(* What takes n registers of the base of k, from the first.                *)
InRegs(n, size, k, first) ==
  [ptr |-> FALSE, stk |-> FALSE, size |-> size, align |-> 8,
   ngp |-> IF KBase(k) = "gp" THEN n ELSE 0, nfp |-> IF KBase(k) = "gp" THEN 0 ELSE n,
   reg |-> [j \in 1 .. n |-> first + j - 1], cls |-> [j \in 1 .. n |-> k]]

(* How t is passed when gp and fp are the next registers.                  *)
TypClass(t, gp, fp) ==
  LET sz == RoundUp(SizeOf(t), 8)
      Small(base) == IF base = "no" THEN InRegs(sz \div 8, sz, "l", gp)
                     ELSE InRegs(SizeOf(t) \div Width[base], sz, base, fp)
  IN IF sz > 16 \/ sz = 0 THEN [InRegs(1, 8, "l", gp) EXCEPT !.ptr = TRUE] ELSE Small(IsFloatV(t))

Reg(c, j) == IF KBase(c.cls[j]) = "gp" THEN GpReg(c.reg[j]) ELSE FpReg(c.reg[j])
RetClass == TypClass(sig.ret, 0, 0)
InMemory == IsStruct(sig.ret) /\ RetClass.ptr

(* Mutant of ScalarClass: the arguments after the marker keep their size.  *)
ScalarClassPacked(s, k) ==
  LET size == IF ~Apple THEN 8 ELSE Width[k]
      gp == KBase(k) = "gp"
      stk == s.va \/ (IF gp THEN s.ngp ELSE s.nfp) = 0
  IN [ptr |-> FALSE, stk |-> stk, size |-> size, align |-> size, cls |-> <<k>>,
      ngp |-> IF gp /\ ~stk THEN 1 ELSE 0, nfp |-> IF ~gp /\ ~stk THEN 1 ELSE 0,
      reg |-> <<IF gp THEN s.gp ELSE s.fp>>]

(* A scalar: on the stack at its own size for Apple, where the arguments   *)
(* after the marker are all there, in words.                               *)
ScalarClass(s, k) ==
  LET size == IF s.va \/ ~Apple THEN 8 ELSE Width[k]
      gp == KBase(k) = "gp"
      stk == s.va \/ (IF gp THEN s.ngp ELSE s.nfp) = 0
  IN [ptr |-> FALSE, stk |-> stk, size |-> size, align |-> size, cls |-> <<k>>,
      ngp |-> IF gp /\ ~stk THEN 1 ELSE 0, nfp |-> IF ~gp /\ ~stk THEN 1 ELSE 0,
      reg |-> <<IF gp THEN s.gp ELSE s.fp>>]

NoClass == [ptr |-> FALSE, stk |-> FALSE, size |-> 0, align |-> 8, ngp |-> 0, nfp |-> 0,
            reg |-> << >>, cls |-> << >>]

(* Where each argument goes; ngp and nfp are the registers left, gp and fp *)
(* the next ones.                                                          *)
ArgsClass(args) ==
  LET Take(s, c) ==
        IF c.ngp <= s.ngp /\ c.nfp <= s.nfp
        THEN [s EXCEPT !.gp = @ + c.ngp, !.ngp = @ - c.ngp, !.fp = @ + c.nfp, !.nfp = @ - c.nfp,
                       !.ca = Append(@, c)]
        ELSE [s EXCEPT !.ngp = IF c.ngp <= s.ngp THEN @ ELSE 0, !.nfp = IF c.ngp <= s.ngp THEN 0 ELSE @,
                       !.ca = Append(@, [c EXCEPT !.stk = TRUE])]
      Add(s, a) == CASE a = "..." -> [s EXCEPT !.va = Apple, !.ca = Append(@, NoClass)]
                     [] IsStruct(a) -> Take(s, TypClass(a, s.gp, s.fp))
                     [] OTHER -> Take(s, ScalarClass(s, a))
  IN FoldLeft(Add, [va |-> FALSE, gp |-> 0, fp |-> 0, ngp |-> NGp, nfp |-> NFp, ca |-> << >>], args)

(* The registers that CALL declares.                                       *)
ArgRegs(cty) == {GpReg(j) : j \in 0 .. cty.gp - 1} \cup {FpReg(j) : j \in 0 .. cty.fp - 1}
                  \cup (IF cty.x8 THEN {"r8"} ELSE {})
RetRegs(cty) == {GpReg(j) : j \in 0 .. cty.rgp - 1} \cup {FpReg(j) : j \in 0 .. cty.rfp - 1}

RetCall ==
  LET cls == IF sig.ret = "none" THEN "w" ELSE sig.ret
  IN IF IsStruct(sig.ret) THEN [rgp |-> RetClass.ngp, rfp |-> RetClass.nfp]
     ELSE [rgp |-> IF KBase(cls) = "gp" THEN 1 ELSE 0, rfp |-> IF KBase(cls) = "gp" THEN 0 ELSE 1]

CallOf(s) == [gp |-> s.gp, fp |-> s.fp, x8 |-> InMemory] @@ RetCall

(* The offset of part j of a struct in registers.                          *)
PartAt(c, j) == (j - 1) * Width[c.cls[j]]

(* The parts of v in registers, and back in an object of n bytes.          *)
LdRegs(c, v) == [q \in {Reg(c, j) : j \in DOMAIN c.cls} |->
                   LET j == CHOOSE i \in DOMAIN c.cls : Reg(c, i) = q
                   IN Load(v, PartAt(c, j), Width[c.cls[j]])]
StTmps(c, regs) == FoldLeftDomain(LAMBDA m, j : Store(m, PartAt(c, j), Get(regs, Reg(c, j)), Width[c.cls[j]]),
                                  Fresh(c.size), c.cls)

(* The stack arguments follow one another, each at its alignment.          *)
Next8(off, c) == RoundUp(off, c.align)

---------------------------------------------------------------------------
SelCall ==
  /\ pc = "call"
  /\ \E cl \in {ArgsClass(sig.args)} : \E cty \in {CallOf(cl)} :
     LET args == sig.args
         ca == cl.ca
         ptrs == {i \in DOMAIN args : ca[i].ptr}
         Val(i) == IF ca[i].ptr THEN Address(i) ELSE Value(i, args[i])
         Pass(regs, i) == IF ca[i].stk \/ args[i] = "..." THEN regs ELSE LdRegs(ca[i], Val(i)) @@ regs
         Push(s, i) ==
           LET off == Next8(s.off, ca[i])
               w == IF ~IsStruct(args[i]) THEN Width[args[i]] ELSE ca[i].size
           IN IF ~ca[i].stk THEN s ELSE [off |-> off + ca[i].size, mem |-> Store(s.mem, off, Val(i), w)]
         stk == RoundUp(FoldLeft(LAMBDA n, c : IF c.stk THEN Next8(n, c) + c.size ELSE n, 0, ca), 16)
     IN /\ call' = cty
        /\ reg' = Kept(FoldLeftDomain(Pass, IF InMemory THEN "r8" :> Address(0) ELSE << >>, args), ArgRegs(cty))
        /\ stack' = FoldLeftDomain(Push, [off |-> 0, mem |-> Fresh(stk)], args).mem
        /\ blob' = Copies(args, ptrs)
                     @@ (IF IsStruct(sig.ret)
                         THEN 0 :> Fresh(IF InMemory THEN SizeOf(sig.ret) ELSE RetClass.size) ELSE << >>)
  /\ pc' = "entry"
  /\ UNCHANGED <<sig, frame, save, ap, params, got, result>>

SelPar ==
  /\ pc = "entry"
  /\ \E args \in {Fixed(sig.args)} : \E cl \in {ArgsClass(args)} : \E cty \in {CallOf(cl)} :
     LET ca == cl.ca
         in == Kept(reg, ArgRegs(cty))
         Take(s, i) ==
           LET a == sig.args[i]
               c == ca[i]
               off == Next8(s.off, c)
               v == CASE c.stk /\ IsStruct(a) /\ ~c.ptr -> Store(Fresh(c.size), -off, stack, off + c.size)
                      [] c.stk /\ ~(IsStruct(a) /\ ~c.ptr) -> Load(stack, off, Width[c.cls[1]])
                      [] ~c.stk /\ IsStruct(a) /\ ~c.ptr -> StTmps(c, in)
                      [] OTHER -> Load(Get(in, Reg(c, 1)), 0, Width[c.cls[1]])
           IN [off |-> IF c.stk THEN off + c.size ELSE s.off,
               par |-> Append(s.par, IF c.ptr THEN Pointed(v, SizeOf(a)) ELSE v)]
         end == FoldLeftDomain(Take, [off |-> 0, par |-> << >>], args)
     IN /\ params' = end.par
        /\ frame' = [gp |-> cty.gp, fp |-> cty.fp, stk |-> RoundUp(end.off, 8),
                     retr |-> IF InMemory THEN Get(in, "r8") ELSE Fresh(8)]
        /\ save' = IF ~IsVariadic(sig.args) \/ Apple THEN << >>
                   ELSE [j \in {8 * n : n \in 0 .. NGp - 1} |-> Get(reg, GpReg(j \div 8))]
                     @@ [j \in {8 * NGp + 16 * n : n \in 0 .. NFp - 1} |->
                           Get(reg, FpReg((j - 8 * NGp) \div 16))]
  /\ pc' = Body
  /\ UNCHANGED <<sig, reg, stack, blob, call, ap, got, result>>

(* The va_list counts gp and fp up to 0 from the ends of the save areas.   *)
SelVaStart ==
  /\ pc = "start"
  /\ ap' = IF Apple THEN [stk |-> frame.stk]
           ELSE [stk |-> frame.stk, gp |-> (frame.gp - NGp) * 8, fp |-> (frame.fp - NFp) * 16]
  /\ pc' = IF Variadic = << >> THEN "return" ELSE "vaarg"
  /\ UNCHANGED <<sig, reg, stack, blob, call, frame, save, params, got, result>>

SelVaArg ==
  /\ pc = "vaarg"
  /\ LET k == Variadic[Len(got) + 1]
         b == KBase(k)
         top == IF b = "gp" THEN 8 * NGp ELSE 8 * NGp + 16 * NFp
     IN IF ~Apple /\ ap[b] < 0
        THEN /\ VaArgGives(Load(Get(save, top + ap[b]), 0, Width[k]))
             /\ ap' = [ap EXCEPT ![b] = @ + (IF b = "gp" THEN 8 ELSE 16)]
        ELSE /\ VaArgGives(Load(stack, ap.stk, Width[k]))
             /\ ap' = [ap EXCEPT !.stk = @ + 8]
  /\ UNCHANGED <<sig, reg, stack, blob, call, frame, save, params, result>>

SelRet ==
  /\ pc = "return"
  /\ LET v == Value(0, sig.ret)
     IN /\ reg' = IF sig.ret = "none" \/ InMemory THEN << >>
                  ELSE Kept(IF IsStruct(sig.ret) THEN LdRegs(RetClass, v)
                            ELSE (IF KBase(sig.ret) = "gp" THEN "r0" ELSE "v0") :> Load(v, 0, Width[sig.ret]),
                            RetRegs(RetCall))
        /\ blob' = IF InMemory /\ frame.retr = Address(0)
                   THEN [blob EXCEPT ![0] = Store(@, 0, v, SizeOf(sig.ret))] ELSE blob
  /\ pc' = "result"
  /\ UNCHANGED <<sig, stack, call, frame, save, ap, params, got, result>>

(* What selcall put after the call: the result leaves its registers.       *)
AfterCall ==
  /\ pc = "result"
  /\ LET out == Kept(reg, RetRegs(call))
     IN result' = IF sig.ret = "none" THEN << >>
                  ELSE IF InMemory THEN blob[0]
                  ELSE IF IsStruct(sig.ret) THEN StTmps(RetClass, out)
                  ELSE Load(Get(out, IF KBase(sig.ret) = "gp" THEN "r0" ELSE "v0"), 0, Width[sig.ret])
  /\ pc' = "done"
  /\ UNCHANGED <<sig, reg, stack, blob, call, frame, save, ap, params, got>>

Next == SelCall \/ SelPar \/ SelVaStart \/ SelVaArg \/ SelRet \/ AfterCall
=============================================================================
