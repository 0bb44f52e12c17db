------------------------------ MODULE Coalesce ------------------------------
(***************************************************************************)
(* The slots that live on share their memory (qbe_coalesce in src/mem.c):  *)
(* one pass backwards over the blocks finds for each slot the range of     *)
(* places it is live in, stores outside it go, slots without one go with   *)
(* all that is computed from their addresses, and slots whose ranges do    *)
(* not meet become one.                                                    *)
(***************************************************************************)
EXTENDS LoadOpt

VARIABLES
  retc,    \* the aggregate a block returns, R if none
  ip,      \* the place, counted down
  n,       \* the block the pass is at
  br,      \* the places of each block: [a, b)
  sl,      \* the slots: their temporary t, size sz, bytes ever written m, live
           \* bytes l, range r, stores st to bytes not live, and s, what each is fused with
  bl       \* the blits met, by their places

coalesce == <<ip, n, br, sl, bl>>

MaxIp == 200   \* INT_MAX - 1 in the code

None0 == [a |-> 0, b |-> 0]
CoalesceInit == ip = MaxIp /\ n = N /\ br = [b \in Blk |-> None0] /\ sl = << >> /\ bl = {}

(* Ranges: rin, rovlap, radd.                                              *)
In(r, x) == r.a <= x /\ x < r.b
Overlap(r, q) == r.b # 0 /\ q.b # 0 /\ r.a < q.b /\ q.a < r.b
Add(r, x) ==
  IF r.b = 0 THEN [a |-> x, b |-> x + 1]
  ELSE IF x < r.a THEN [r EXCEPT !.a = x]
  ELSE IF x >= r.b THEN [r EXCEPT !.b = x + 1] ELSE r

(* The block with the last id in the loop h heads, as qbe_loopiter with    *)
(* maxrpo finds it.                                                        *)
LoopEnd(h) ==
  LET body == UNION {Closure([b \in Blk |-> Succ(pred, b)], {p}, h .. N - 1) : p \in {p \in pred[h] : p >= h}}
  IN IF body = {} THEN None ELSE CHOOSE b \in body : \A c \in body : c <= b

---------------------------------------------------------------------------
(* The slots of known size that never escape, in the order of their        *)
(* temporaries.                                                            *)
Slots ==
  LET S == {k \in DOMAIN code[Start] :
              LET i == code[Start][k] IN i.op = "alloc" /\ i.sz <= NBit /\ Local(al, GetAlias(al, i.to))}
      ts == SetToSortSeq({code[Start][k].to[2] : k \in S}, <)
      Alloc(x) == CHOOSE i \in {code[Start][k] : k \in S} : i.to[2] = x
  IN [k \in DOMAIN ts |->
        [t |-> Alloc(ts[k]).to, sz |-> Alloc(ts[k]).sz, m |-> al.m[Alloc(ts[k]).to], l |-> {}, r |-> None0,
         st |-> {}, s |-> 0]]

ReAlias ==
  /\ pc = "realias" /\ pc' = "slots"
  /\ al' = FillAlias(code, phi)
  /\ UNCHANGED <<func, search, retc, coalesce>>

Collect ==
  /\ pc = "slots" /\ pc' = "ranges"
  /\ sl' = Slots
  /\ UNCHANGED <<func, al, search, retc, ip, n, br, bl>>

(* slot: where the address r leads among the slots, 0 if nowhere.          *)
SlotOf(r) ==
  LET a == GetAlias(al, r)
      at1 == {k \in DOMAIN sl : IsStack(a) /\ sl[k].t = a.base}
  IN IF at1 = {} THEN 0 ELSE CHOOSE k \in at1 : TRUE
Shifted(r, bytes) == {GetAlias(al, r).off + x : x \in bytes} \cap Bytes(NBit)

(* load: bytes of r are read at x.                                         *)
Read(ss, r, bytes, x) ==
  LET k == SlotOf(r)
      l == (ss[k].l \cup Shifted(r, bytes)) \cap ss[k].m
  IN IF k = 0 THEN ss
     ELSE [ss EXCEPT ![k].l = l, ![k].r = IF l = {} THEN @ ELSE Add(@, x)]

(* store: bytes of r are written at x by the instruction at i.             *)
Stored(ss, r, bytes, x, i) ==
  LET k == SlotOf(r)
  IN IF k = 0 THEN ss
     ELSE IF ss[k].l # {} THEN [ss EXCEPT ![k].l = @ \ Shifted(r, bytes), ![k].r = Add(@, x)]
     ELSE [ss EXCEPT ![k].st = @ \cup {[ip |-> x, i |-> i]}]

(* An instruction, backwards; s holds the place and the slots.             *)
Step(s, b, k) ==
  LET i == code[b][k]
  IN CASE i.op = "pass" -> [ip |-> s.ip - 1, ss |-> Read(s.ss, i.args[1], Bytes(NBit), s.ip - 1)]
       [] i.op = "load" -> [ip |-> s.ip - 1, ss |-> Read(s.ss, i.args[1], Bytes(i.sz), s.ip - 1)]
       [] i.op = "store" -> [ip |-> s.ip - 1, ss |-> Stored(s.ss, i.args[2], Bytes(i.sz), s.ip, <<b, k>>)]
       [] i.op = "blit" ->
            [ip |-> s.ip - 1,
             ss |-> Read(Stored(s.ss, i.args[2], Bytes(Size(i)), s.ip, <<b, k>>), i.args[1], Bytes(Size(i)), s.ip - 1)]
       [] OTHER -> s

(* A slot is live at the end of a block if it is live at the start of a    *)
(* later successor.                                                        *)
Entered(s, b, x) ==
  IF \E c \in Succ(pred, b) : c > b /\ In(s.r, br[c].a) THEN [s EXCEPT !.l = s.m, !.r = Add(@, x)]
  ELSE [s EXCEPT !.l = {}]

(* Mutant of Left: a loop is no reason to keep a slot.                     *)
LeftOnce(s, x, loop) == IF s.l = {} THEN s ELSE [s EXCEPT !.r = Add(@, x)]

(* A slot that is live at the start of a loop is live until its end.       *)
Left(s, x, loop) ==
  IF s.l = {} THEN s
  ELSE [s EXCEPT !.r = IF loop = None THEN Add(@, x) ELSE Add(Add(@, x), br[loop].b - 1)]

Ranges ==
  /\ pc = "ranges" /\ n > 0
  /\ n' = n - 1
  /\ LET b  == n - 1
         s0 == [ip |-> ip - 1, ss |-> [k \in DOMAIN sl |-> Entered(sl[k], b, ip - 1)]]
         s1 == IF retc[b] = R THEN s0 ELSE [ip |-> s0.ip - 1, ss |-> Read(s0.ss, retc[b], Bytes(NBit), s0.ip - 1)]
     IN \E s \in {FoldLeft(LAMBDA t, k : Step(t, b, k), s1, Reverse([k \in DOMAIN code[b] |-> k]))} :
          /\ ip' = s.ip
          /\ br' = [br EXCEPT ![b] = [a |-> s.ip, b |-> ip]]
          /\ sl' = [k \in DOMAIN sl |-> Left(s.ss[k], s.ip, LoopEnd(b))]
          /\ bl' = bl \cup {<<b, k>> : k \in {k \in DOMAIN code[b] : code[b][k].op = "blit"}}
          /\ pc' = IF LoopEnd(b) = b /\ \E k \in DOMAIN sl : s.ss[k].l # {} THEN "abort" ELSE pc
  /\ UNCHANGED <<func, al, search, retc>>

---------------------------------------------------------------------------
(* Stores outside the range of their slot go.                              *)
Dead == {x.i : x \in UNION {{x \in s.st : ~In(s.r, x.ip)} : s \in ToSet(sl)}}
KillStores ==
  /\ pc = "ranges" /\ n = 0 /\ pc' = "kill"
  /\ code' = [b \in Blk |-> [k \in DOMAIN code[b] |-> IF <<b, k>> \in Dead THEN Nop ELSE code[b][k]]]
  /\ UNCHANGED <<pred, phi, al, search, retc, coalesce>>

Uses(i, T) == \E k \in DOMAIN i.args : i.args[k] \in T
All == UNION {ToSet(code[b]) : b \in Blk}

Chain == 4   \* steps from a slot to an address, in the programs tried

(* What is computed from the slots T, up to what a load gets from them.    *)
Doomed(T) ==
  LET more(S) == S \cup {i.to : i \in {i \in All : i.to # R /\ Uses(i, S \ {j.to : j \in {j \in All : IsLoad(j)}})}}
  IN FoldLeft(LAMBDA S, k : more(S), T, [k \in 1 .. Chain |-> k])

Killed(i, T) ==
  CASE i.to \in T -> IF IsLoad(i) THEN Op("copy", i.to, <<Undef>>, 8) ELSE Nop
    [] i.to # R \/ ~Uses(i, T \ {j.to : j \in {j \in All : IsLoad(j)}}) -> i
    [] i.op = "pass" -> [i EXCEPT !.args = <<C(0)>>]
    [] OTHER -> Nop

(* Slots without a range go.  None of them can be an argument of a phi, or *)
(* the assertion fails: phis let addresses escape.                         *)
KillSlots ==
  /\ pc = "kill"
  /\ LET T == Doomed({s.t : s \in {s \in ToSet(sl) : s.r.b = 0}})
         roots == T \ {j.to : j \in {j \in All : IsLoad(j)}}
     IN /\ pc' = IF \E b \in Blk : \E p \in ToSet(phi[b]) : \E a \in ToSet(p.arg) : a.r \in roots
                 THEN "abort" ELSE "fuse"
        /\ code' = [b \in Blk |-> [k \in DOMAIN code[b] |-> Killed(code[b][k], T)]]
        /\ retc' = [b \in Blk |-> IF retc[b] \in roots THEN R ELSE retc[b]]
  /\ sl' = SelectSeq(sl, LAMBDA s : s.r.b # 0)
  /\ UNCHANGED <<pred, phi, al, search, ip, n, br, bl>>

---------------------------------------------------------------------------
(* scmp: large slots first, then those whose range begins early.           *)
Before(s, t) == s.sz > t.sz \/ (s.sz = t.sz /\ s.r.a < t.r.a)
Sorted(ss) ==
  LET rank == SetToSortSeq(DOMAIN ss, LAMBDA j, k : Before(ss[j], ss[k]) \/ (~Before(ss[k], ss[j]) /\ j < k))
  IN [k \in DOMAIN ss |-> ss[rank[k]]]

(* Slot k joins slot x unless its range meets that of one that did.  The   *)
(* code looks at the hull of them all first, which changes nothing.        *)
Join(ss, x, k) ==
  IF ss[k].s # 0 \/ \E j \in x .. k - 1 : ss[j].s = x /\ Overlap(ss[j].r, ss[k].r) THEN ss
  ELSE [ss EXCEPT ![k].s = x]

Gather(ss, x) ==
  IF ss[x].s # 0 THEN ss
  ELSE FoldLeft(LAMBDA t, k : Join(t, x, k), [ss EXCEPT ![x].s = x], [k \in 1 .. Len(ss) - x |-> x + k])

Fuse ==
  /\ pc = "fuse" /\ pc' = "subst"
  /\ \E ss \in {Sorted(sl)} : sl' = FoldLeft(Gather, ss, [k \in DOMAIN ss |-> k])
  /\ UNCHANGED <<func, al, search, retc, ip, n, br, bl>>

(* The alloc of a fused slot goes, or takes that of the other's place, so  *)
(* that it stays in front of all uses.                                     *)
DefOf(c, t) == CHOOSE k \in DOMAIN c[Start] : c[Start][k].to = t
SubstOne(f, k) ==
  LET t == sl[k].t
      s == sl[sl[k].s].t
      d == DefOf(f.code, t)
      e == DefOf(f.code, s)
      c == IF d < e THEN [f.code EXCEPT ![Start][d] = f.code[Start][e], ![Start][e] = Nop]
           ELSE [f.code EXCEPT ![Start][d] = Nop]
      To(r) == IF r = t THEN s ELSE r
  IN IF s = t THEN f
     ELSE [code |-> [b \in Blk |-> [j \in DOMAIN c[b] |-> [c[b][j] EXCEPT !.args = [a \in DOMAIN @ |-> To(@[a])]]]],
           retc |-> [b \in Blk |-> To(f.retc[b])]]

(* A blit within one slot now, to a place behind its source, has to go     *)
(* backwards.                                                              *)
Fixed(i) ==
  LET s == SlotOf(i.args[1])
      d == SlotOf(i.args[2])
  IN IF /\ i.op = "blit" /\ s # 0 /\ d # 0 /\ sl[s].s = sl[d].s
        /\ GetAlias(al, i.args[1]).off < GetAlias(al, i.args[2]).off
     THEN [i EXCEPT !.sz = - @] ELSE i

Subst ==
  /\ pc = "subst" /\ pc' = "run"
  /\ \E f \in {FoldLeft(SubstOne, [code |-> code, retc |-> retc], [k \in DOMAIN sl |-> k])} :
       /\ code' = [b \in Blk |-> [k \in DOMAIN f.code[b] |->
                     IF <<b, k>> \in bl THEN Fixed(f.code[b][k]) ELSE f.code[b][k]]]
       /\ retc' = f.retc
  /\ UNCHANGED <<pred, phi, al, search, coalesce>>

CoalesceNext ==
  ReAlias \/ Collect \/ Ranges \/ KillStores \/ KillSlots \/ Fuse \/ Subst
=============================================================================
