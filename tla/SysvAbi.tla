------------------------------ MODULE SysvAbi ------------------------------
(***************************************************************************)
(* The System V convention of amd64 (src/amd64/sysv.c): a struct of at     *)
(* most two eightbytes goes in the registers of their classes or not at    *)
(* all, and on the stack otherwise.  The count of float registers that a   *)
(* variadic call leaves in rax is for callees in C only and is left out.   *)
(***************************************************************************)
EXTENDS CallAbi

IntReg == <<"rdi", "rsi", "rdx", "rcx", "r8", "r9">>
SseReg == <<"xmm0", "xmm1", "xmm2", "xmm3", "xmm4", "xmm5", "xmm6", "xmm7">>

(* The classes of the two eightbytes of t.                                 *)
Classify(t) ==
  LET Add(cls, p) ==
        LET n == (p.off \div 8) + 1
        IN CASE p.type = "pad" -> cls
             [] p.type \in {"s", "d"} -> IF cls[n] = "x" THEN [cls EXCEPT ![n] = "d"] ELSE cls
             [] OTHER -> [cls EXCEPT ![n] = "l"]
  IN FoldLeft(Add, <<"x", "x">>, Parts[t])

TypClass(t) ==
  LET sz == RoundUp(SizeOf(t), 8)
  IN IF sz > 16 \/ sz = 0 THEN [inmem |-> 1, size |-> sz, cls |-> << >>]
     ELSE [inmem |-> 0, size |-> sz, cls |-> SubSeq(Classify(t), 1, sz \div 8)]

NoClass == [inmem |-> 0, size |-> 0, cls |-> << >>]
RetClass == IF IsStruct(sig.ret) THEN TypClass(sig.ret) ELSE NoClass
InMemory == RetClass.inmem = 1

(* How many of the registers for base b a class takes.                     *)
Takes(cls, b) == Cardinality({n \in DOMAIN cls : KBase(cls[n]) = b})

(* Where each argument goes: inmem is 0 for registers, 1 for a struct in   *)
(* memory, 2 for a scalar on the stack.                                    *)
ArgsClass(args) ==
  LET Class(a) == IF IsStruct(a) THEN TypClass(a) ELSE [inmem |-> 0, size |-> 8, cls |-> <<a>>]
      Take(s, c, ni, ns, memory) ==
        IF c.inmem = 1 \/ (s.nint >= ni /\ s.nsse >= ns)
        THEN [s EXCEPT !.nint = @ - ni, !.nsse = @ - ns, !.ac = Append(@, c)]
        ELSE [s EXCEPT !.ac = Append(@, [c EXCEPT !.inmem = memory])]
      Place(s, c, memory) == Take(s, c, Takes(c.cls, "gp"), Takes(c.cls, "fp"), memory)
      Add(s, a) == IF a = "..." THEN [s EXCEPT !.ac = Append(@, NoClass)]
                   ELSE Place(s, Class(a), IF IsStruct(a) THEN 1 ELSE 2)
  IN FoldLeft(Add, [nint |-> NGp - (IF InMemory THEN 1 ELSE 0), nsse |-> NFp, ac |-> << >>], args)

(* The registers that CALL declares.                                       *)
ArgRegs(ca) == {IntReg[j] : j \in 1 .. ca.gp} \cup {SseReg[j] : j \in 1 .. ca.fp}
RetRegs(ca) == {<<"rax", "rdx">>[j] : j \in 1 .. ca.rgp} \cup {SseReg[j] : j \in 1 .. ca.rfp}

(* The register of each eightbyte of a struct that is returned.            *)
Retr(cls) ==
  [n \in DOMAIN cls |-> LET before == Takes(SubSeq(cls, 1, n - 1), KBase(cls[n]))
                        IN IF KBase(cls[n]) = "gp" THEN <<"rax", "rdx">>[before + 1] ELSE SseReg[before + 1]]

RetCall == IF InMemory THEN [rgp |-> 1, rfp |-> 0]
           ELSE LET cls == IF IsStruct(sig.ret) THEN RetClass.cls
                           ELSE IF sig.ret = "none" THEN <<"w">> ELSE <<sig.ret>>
                IN [rgp |-> Takes(cls, "gp"), rfp |-> Takes(cls, "fp")]

CallOf(s) == [gp |-> NGp - s.nint, fp |-> NFp - s.nsse] @@ RetCall

(* The next register of the base of k.                                     *)
RArg(s, k) == IF KBase(k) = "gp" THEN IntReg[s.ni + 1] ELSE SseReg[s.ns + 1]
Past(s, k) == IF KBase(k) = "gp" THEN [s EXCEPT !.ni = @ + 1] ELSE [s EXCEPT !.ns = @ + 1]

NoRegs == [ni |-> IF InMemory THEN 1 ELSE 0, ns |-> 0]

---------------------------------------------------------------------------
SelCall ==
  /\ pc = "call"
  /\ \E cl \in {ArgsClass(sig.args)} : \E ca \in {CallOf(cl)} :
     LET ac == cl.ac
         Put(s, k, v) == [Past(s, k) EXCEPT !.reg = (RArg(s, k) :> v) @@ @]
         Pass(s, i) ==
           LET a == sig.args[i]
               v == Value(i, a)
               c == ac[i]
               First(u) == Put(u, c.cls[1], Load(v, 0, IF IsStruct(a) THEN 8 ELSE Width[a]))
           IN IF a = "..." \/ c.inmem # 0 THEN s
              ELSE IF c.size > 8 THEN Put(First(s), c.cls[2], Load(v, 8, 8)) ELSE First(s)
         Push(s, i) ==
           IF sig.args[i] = "..." \/ ac[i].inmem = 0 THEN s
           ELSE [off |-> s.off + ac[i].size,
                 mem |-> Store(s.mem, s.off, Value(i, sig.args[i]), SizeOf(sig.args[i]))]
         sum == FoldLeftDomain(LAMBDA n, i : IF ac[i].inmem # 0 THEN n + ac[i].size ELSE n, 0, ac)
         stk == sum + (sum % 16)
         start == [reg |-> IF InMemory THEN IntReg[1] :> Address(0) ELSE << >>] @@ NoRegs
     IN /\ call' = ca
        /\ reg' = Kept(FoldLeftDomain(Pass, start, sig.args).reg, ArgRegs(ca))
        /\ stack' = FoldLeftDomain(Push, [off |-> 0, mem |-> Fresh(stk)], sig.args).mem
        /\ blob' = IF IsStruct(sig.ret) THEN 0 :> Fresh(RetClass.size) ELSE << >>
  /\ pc' = "entry"
  /\ UNCHANGED <<sig, frame, save, ap, params, got, result>>

(* Mutant of InSlot: the return address is forgotten.                      *)
InSlotFromFrame(s) == 4 * s - 8

(* The slots above the frame count units of four bytes from the frame      *)
(* pointer; the arguments follow it and the return address.                *)
InSlot(s) == 4 * s - 16

SelPar ==
  /\ pc = "entry"
  /\ \E args \in {Fixed(sig.args)} : \E cl \in {ArgsClass(args)} : \E fa \in {CallOf(cl)} :
     LET ac == cl.ac
         in == Kept(reg, ArgRegs(fa))
         Take(s, i) ==
           LET a == sig.args[i]
               c == ac[i]
               r1 == Get(in, RArg(s, c.cls[1]))
               u == Past(s, c.cls[1])
               lo == Store(Fresh(c.size), 0, r1, 8)
           IN CASE c.inmem = 1 ->
                     [s EXCEPT !.s = @ + (c.size \div 4),
                               !.par = Append(@, Store(Fresh(c.size), -InSlot(s.s), stack, InSlot(s.s) + c.size))]
                [] c.inmem = 2 ->
                     [s EXCEPT !.s = @ + 2, !.par = Append(@, Load(stack, InSlot(s.s), Width[a]))]
                [] c.inmem = 0 /\ c.size <= 8 ->
                     [u EXCEPT !.par = Append(@, IF IsStruct(a) THEN lo ELSE Load(r1, 0, Width[a]))]
                [] OTHER ->
                     [Past(u, c.cls[2]) EXCEPT
                        !.par = Append(@, Store(lo, 8, Get(in, RArg(u, c.cls[2])), 8))]
         end == FoldLeftDomain(Take, [s |-> 4, par |-> << >>] @@ NoRegs, args)
     IN /\ params' = end.par
        /\ frame' = [gp |-> fa.gp, fp |-> fa.fp, s |-> end.s,
                     retr |-> IF InMemory THEN Get(in, IntReg[1]) ELSE Fresh(8)]
        /\ save' = IF ~IsVariadic(sig.args) THEN << >>
                   ELSE [j \in {8 * (n - 1) : n \in 1 .. NGp} |-> Get(reg, IntReg[(j \div 8) + 1])]
                     @@ [j \in {8 * NGp + 16 * (n - 1) : n \in 1 .. NFp} |->
                           Get(reg, SseReg[((j - 8 * NGp) \div 16) + 1])]
  /\ pc' = Body
  /\ UNCHANGED <<sig, reg, stack, blob, call, ap, got, result>>

SelVaStart ==
  /\ pc = "start"
  /\ ap' = [gp |-> frame.gp * 8, fp |-> 8 * NGp + frame.fp * 16, stk |-> InSlot(frame.s)]
  /\ pc' = IF Variadic = << >> THEN "return" ELSE "vaarg"
  /\ UNCHANGED <<sig, reg, stack, blob, call, frame, save, params, got, result>>

SelVaArg ==
  /\ pc = "vaarg"
  /\ LET k == Variadic[Len(got) + 1]
         b == KBase(k)
         limit == IF b = "gp" THEN 8 * NGp ELSE 8 * NGp + 16 * NFp
     IN IF ap[b] < limit
        THEN /\ VaArgGives(Load(Get(save, ap[b]), 0, Width[k]))
             /\ ap' = [ap EXCEPT ![b] = @ + (IF b = "gp" THEN 8 ELSE 16)]
        ELSE /\ VaArgGives(Load(stack, ap.stk, Width[k]))
             /\ ap' = [ap EXCEPT !.stk = @ + 8]
  /\ UNCHANGED <<sig, reg, stack, blob, call, frame, save, params, result>>

SelRet ==
  /\ pc = "return"
  /\ \E r \in {Retr(RetClass.cls)} :
     LET v == Value(0, sig.ret)
     IN IF sig.ret = "none" THEN reg' = << >> /\ UNCHANGED blob
        ELSE IF InMemory
             THEN /\ reg' = Kept("rax" :> frame.retr, RetRegs(RetCall))
                  /\ blob' = IF frame.retr = Address(0)
                             THEN [blob EXCEPT ![0] = Store(@, 0, v, SizeOf(sig.ret))] ELSE blob
             ELSE /\ UNCHANGED blob
                  /\ reg' = Kept(IF IsStruct(sig.ret)
                                 THEN [q \in ToSet(r) |-> Load(v, 8 * (SelectInSeq(r, LAMBDA p : p = q) - 1), 8)]
                                 ELSE (IF KBase(sig.ret) = "gp" THEN "rax" ELSE "xmm0")
                                        :> Load(v, 0, Width[sig.ret]),
                                 RetRegs(RetCall))
  /\ pc' = "result"
  /\ UNCHANGED <<sig, stack, call, frame, save, ap, params, got, result>>

(* What selcall put after the call: the result leaves its registers.       *)
AfterCall ==
  /\ pc = "result"
  /\ \E out \in {Kept(reg, RetRegs(call))} : \E r \in {Retr(RetClass.cls)} :
     LET lo == Store(Fresh(RetClass.size), 0, Get(out, r[1]), 8)
     IN result' = IF sig.ret = "none" THEN << >>
                  ELSE IF InMemory THEN Pointed(Get(out, "rax"), RetClass.size)
                  ELSE IF ~IsStruct(sig.ret)
                       THEN Load(Get(out, IF KBase(sig.ret) = "gp" THEN "rax" ELSE "xmm0"), 0, Width[sig.ret])
                  ELSE IF RetClass.size > 8 THEN Store(lo, 8, Get(out, r[2]), 8) ELSE lo
  /\ pc' = "done"
  /\ UNCHANGED <<sig, reg, stack, blob, call, frame, save, ap, params, got>>

Next == SelCall \/ SelPar \/ SelVaStart \/ SelVaArg \/ SelRet \/ AfterCall
=============================================================================
