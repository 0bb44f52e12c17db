------------------------------ MODULE RegAlloc ------------------------------
(***************************************************************************)
(* Register allocation (src/rega.c): blocks are given registers one after  *)
(* the other, inner loops first, each from its last instruction to its     *)
(* first, with hints where a value should better be; what two blocks have  *)
(* decided about the values on an edge is reconciled by parallel moves,    *)
(* shared at the start of a block or put on the edge.                      *)
(*                                                                         *)
(* A parallel move is taken as one step here: module ParallelMove shows    *)
(* that the instructions pmgen writes for it have its effect.              *)
(***************************************************************************)
EXTENDS Spill

VARIABLES
  hint, hw, visit,   \* of each temporary
  todo,              \* blocks that have no registers yet
  beg, end,          \* what is where at both ends of a block: <<temporary, register>>
  share              \* the moves at the start of a block

regaVars == <<hint, hw, visit, todo, beg, end, share>>

(* filluse: the temporaries that phis tie together share a hint.           *)
Tied == UNION {{{p.to, p.arg[b]} : p \in phi[s], b \in pred[s]} : s \in Blk}
ClassOf(t) ==
  LET grow[k \in 0 .. Cardinality(Tmps)] ==
        IF k = 0 THEN {t} ELSE LET S == grow[k - 1] IN (S \cup UNION {e \in Tied : e \cap S # {}}) \cap Tmps
  IN grow[Cardinality(Tmps)]
HintMask(t) == UNION {mask[u] : u \in ClassOf(t)}

HintOf(st, x) == IF x \in Regs THEN x ELSE st.hint[x]
SetHint(st, t, r) ==
  IF st.hint[t] = "none" \/ st.hw[t] > st.loop
  THEN [st EXCEPT !.hint = [u \in Tmps |-> IF u \in ClassOf(t) THEN r ELSE @[u]],
                  !.hw = [u \in Tmps |-> IF u \in ClassOf(t) THEN st.loop ELSE @[u]],
                  !.visit[t] = "none"]
  ELSE st

---------------------------------------------------------------------------
(* The map of a block: st.map lists who is in which register.              *)
Busy(map) == {map[k][2] : k \in DOMAIN map}
RFind(map, t) == IF \E k \in DOMAIN map : map[k][1] = t
                 THEN map[CHOOSE k \in DOMAIN map : map[k][1] = t][2] ELSE "none"
RFree(st, t) == [st EXCEPT !.map = SelectSeq(@, LAMBDA e : e[1] # t)]
RAdd(st, t, r) ==
  [st EXCEPT !.map = Append(@, <<t, r>>),
             !.fault = IF RFind(st.map, t) # "none" THEN "temporary has mapping"
                       ELSE IF r \in Busy(st.map) THEN "register already allocated" ELSE @]

Lowest(rs) == CHOOSE r \in rs : \A x \in rs : Index(r) <= Index(x)

(* Where t would best be; "none" if that is taken.                         *)
Preferred(st, t, busy) ==
  IF st.visit[t] \notin busy \cup {"none"} THEN st.visit[t]
  ELSE IF st.hint[t] \in busy THEN "none" ELSE st.hint[t]

(* ralloctry, for a t that has no register; taken is not to be used.       *)
Give(st, t, r) ==
  LET s == [SetHint(RAdd(st, t, r), t, r) EXCEPT !.visit[t] = r]
      h == s.hint[t]
  IN IF h # r THEN [s EXCEPT !.w[h] = t] ELSE s
RAlloc(st, t, taken) ==
  LET busy == Busy(st.map) \cup taken
      free == Regs \ busy
      calm == free \ HintMask(t)
      best == Preferred(st, t, busy)
  IN IF t \in Regs THEN (IF t \in busy THEN st ELSE [st EXCEPT !.fault = "register without mapping"])
     ELSE IF RFind(st.map, t) # "none" THEN st
     ELSE IF best # "none" THEN Give(st, t, best)
     ELSE IF free = {} THEN [st EXCEPT !.fault = "no more regs"]
     ELSE Give(st, t, Lowest(IF calm # {} THEN calm ELSE free))
RAllocTry(st, t) == LET best == Preferred(st, t, Busy(st.map))
                    IN IF best = "none" THEN st ELSE Give(st, t, best)

(* move: to is in r before the copies; what else was there makes room.     *)
Move(st, r, to) ==
  LET s == RFree(st, to)
      own == {s.map[k][1] : k \in {k \in DOMAIN s.map : s.map[k][2] = r}}
      s1 == IF own = {} THEN s ELSE LET t == CHOOSE t \in own : TRUE IN RAlloc(RFree(s, t), t, {r})
  IN RAdd(s1, IF to = "none" THEN r ELSE to, r)

---------------------------------------------------------------------------
Name(place) == place[2]
IsTmp(place) == place[1] = "tmp"
Fixed(it) == it.op = "copy" /\ it.args[1] \in {Tmp(r) : r \in Regs}

(* dopm: the copies j..k from registers become one parallel move that also *)
(* takes what a call before them would overwrite out of its way.           *)
DoMoves(st, is, j, k) ==
  LET To(it) == Name(it.to)
      s1 == FoldRight(LAMBDA it, s : Move(s, Name(it.args[1]), To(it)), SubSeq(is, j, k), st)
      lost == IF j > 1 /\ is[j - 1].op = "call" THEN RSave \ (is[j - 1].orig[1].rets \cup RGlob) ELSE {}
      s2 == FoldLeft(LAMBDA s, r : Move(s, r, "none"), s1, SelectSeq(Order, LAMBDA r : r \in lost))
      pm == {<<Tmp(e[2]), Tmp(RFind(st.map, e[1]))>> : e \in {e \in ToSet(s2.map) : RFind(st.map, e[1]) # "none"}}
            \cup {<<Tmp(e[2]), SlotOf(e[1])>> : e \in {e \in ToSet(s2.map) : RFind(st.map, e[1]) = "none" /\ e[1] \in slots}}
      Back(s, it) == LET f == RFree(s, To(it))
                         r == Name(it.args[1])
                     IN IF RFind(f.map, r) = "none" THEN RAdd(f, r, r) ELSE f
      s3 == FoldLeft(Back, s2, SubSeq(is, j, k))
  IN [s3 EXCEPT !.code = <<[op |-> "pm", to |-> R, args |-> << >>, pm |-> pm,
                            orig |-> [h \in 1 .. k + 1 - j |-> is[j + h - 1].orig[1]]]>> \o @]

(* An instruction whose result is in rf: its arguments get registers,      *)
(* those with a hint first.  A copy to itself is not written.              *)
DoArgs(st, it, rf) ==
  LET tmps == {a \in DOMAIN it.args : IsTmp(it.args[a])}
      hinted(a) == HintOf(st, Name(it.args[a])) # "none"
      order == SelectSeq(IF tmps = {1, 2} /\ hinted(2) THEN <<2, 1>> ELSE <<1, 2>>, LAMBDA a : a \in tmps)
      s1 == FoldLeft(LAMBDA s, a : RAlloc(s, Name(it.args[a]), {}), st, order)
      At(p) == IF IsTmp(p) THEN (IF Name(p) \in Regs THEN p ELSE Tmp(RFind(s1.map, Name(p)))) ELSE p
      new == [it EXCEPT !.to = IF rf = "none" THEN @ ELSE Tmp(rf), !.args = [a \in DOMAIN @ |-> At(@[a])]]
  IN [st |-> s1, new |-> IF new.op = "copy" /\ new.to = new.args[1] THEN [new EXCEPT !.op = "gone"] ELSE new]

(* Mutant of Swap: the instruction goes on reading t where it was.         *)
SwapLate(st, it, rf) ==
  LET t == IF rf = "none" THEN "none" ELSE st.w[rf]
      rt == RFind(st.map, t)
      s == RAlloc([RFree(st, t) EXCEPT !.visit[t] = "none"], t, {})
  IN IF t = "none" \/ rf \in Busy(st.map) \/ HintOf(st, t) # rf \/ rt = "none"
     THEN [st EXCEPT !.code = <<it>> \o @]
     ELSE [s EXCEPT !.w[rf] = "none",
                    !.code = <<it, [op |-> "copy", to |-> Tmp(rt), args |-> <<Tmp(rf)>>, orig |-> << >>, pm |-> {}]>> \o @]

(* The register that became free is the one a waiting temporary t wants:   *)
(* t is there before the instruction.                                      *)
Swap(st, it, rf) ==
  LET t == IF rf = "none" THEN "none" ELSE st.w[rf]
      rt == RFind(st.map, t)
      s == RAlloc([RFree(st, t) EXCEPT !.visit[t] = "none"], t, {})
      read == IF it.op = "gone" THEN it
              ELSE [it EXCEPT !.args = [a \in DOMAIN @ |-> IF @[a] = Tmp(rt) THEN Tmp(rf) ELSE @[a]]]
  IN IF t = "none" \/ rf \in Busy(st.map) \/ HintOf(st, t) # rf \/ rt = "none"
     THEN [st EXCEPT !.code = <<it>> \o @]
     ELSE [s EXCEPT !.w[rf] = "none",
                    !.code = <<[op |-> "copy", to |-> Tmp(rt), args |-> <<Tmp(rf)>>, orig |-> << >>, pm |-> {}], read>> \o @]

DoIns(st, it) ==
  LET s == IF it.op = "copy" /\ Name(it.to) \in Regs /\ IsTmp(it.args[1])
           THEN SetHint(st, Name(it.args[1]), Name(it.to)) ELSE st
      to == IF IsTmp(it.to) /\ Name(it.to) \notin RGlob THEN Name(it.to) ELSE "none"
      rf == RFind(s.map, to)
      d == DoArgs(RFree(s, to), it, rf)
  IN CASE it.op = "call" ->
            LET f == FoldLeft(RFree, st, SetToSeq(RSave \ ({Name(p) : p \in ToSet(it.args)} \cup RGlob)))
            IN [f EXCEPT !.code = <<it>> \o @]
       [] it.op # "call" /\ to # "none" /\ rf = "none" ->   \* nobody uses it
            [s EXCEPT !.code = <<[it EXCEPT !.op = "dead"]>> \o @,
                      !.fault = IF to \in Regs THEN "dead reg" ELSE @]
       [] OTHER -> Swap(d.st, d.new, rf)

DoBlk(is, st) ==
  LET copies == {k \in DOMAIN is : Fixed(is[k])}
      at[k \in 1 .. Len(is) + 1] ==
        IF k = Len(is) + 1 THEN st
        ELSE IF k \in copies THEN LET e == GroupEnd(copies, k) IN DoMoves(at[e + 1], is, k, e)
        ELSE DoIns(at[k + 1], is[k])
  IN at[1]

---------------------------------------------------------------------------
(* The parameters would best stay where they arrive.                       *)
RegaSetup ==
  /\ pc = "rega" /\ fault = ""
  /\ LET is == code[Start]
         params == SelectSeq(is, LAMBDA it : \E k \in DOMAIN is : is[k] = it /\ \A h \in 1 .. k : Fixed(is[h]))
         none == [hint |-> [t \in Tmps |-> "none"], hw |-> [t \in Tmps |-> 1000],
                  visit |-> [t \in Tmps |-> "none"], loop |-> 1000]
         st == FoldLeft(LAMBDA s, it : IF it.to = R THEN s ELSE SetHint(s, Name(it.to), Name(it.args[1])), none, params)
     IN hint' = st.hint /\ hw' = st.hw /\ visit' = st.visit
  /\ pc' = "assign" /\ todo' = Blk
  /\ UNCHANGED <<prog, n, liveVars, code, jarg, phito, cost, slots, mask, fault, beg, end, share>>

(* carve: inner loops first, then from the last block to the first.        *)
NextBlk == CHOOSE b \in todo : \A c \in todo \ {b} : Weight(b) > Weight(c) \/ (Weight(b) = Weight(c) /\ b > c)

(* prio2: the order in which those live at the end of a block get theirs.  *)
Sooner2(t, u) ==
  LET seen(x) == visit[x] # "none"
      hinted(x) == hint[x] # "none"
  IN IF seen(t) # seen(u) THEN seen(t)
     ELSE IF hinted(t) # hinted(u) THEN hinted(t)
     ELSE IF cost[t] # cost[u] THEN cost[t] > cost[u] ELSE Index(t) < Index(u)

RegaBlock ==
  /\ pc = "assign" /\ todo # {} /\ fault = ""
  /\ \E b \in {NextBlk} :
     \E ts \in {SetToSortSeq(out[b] \cap Tmps, Sooner2)} :
     \E st0 \in {[map |-> [k \in DOMAIN SelectSeq(Order, LAMBDA r : r \in out[b] \cap Regs) |->
                             LET r == SelectSeq(Order, LAMBDA x : x \in out[b] \cap Regs)[k] IN <<r, r>>],
                  w |-> [r \in Regs |-> "none"], hint |-> hint, hw |-> hw, visit |-> visit,
                  loop |-> Weight(b), code |-> << >>, fault |-> ""]} :
     \E st1 \in {FoldLeft(LAMBDA s, t : RAlloc(s, t, {}), FoldLeft(RAllocTry, st0, ts), ts)} :
     \E st2 \in {IF IsTmp(jarg[b]) THEN RAlloc(st1, Name(jarg[b]), {}) ELSE st1} :
     \E st3 \in {DoBlk(code[b], st2)} :
        /\ end' = [end EXCEPT ![b] = st1.map]
        /\ beg' = [beg EXCEPT ![b] = st3.map]
        /\ jarg' = [jarg EXCEPT ![b] = IF IsTmp(@) /\ Name(@) \in Tmps THEN Tmp(RFind(st2.map, Name(@))) ELSE @]
        /\ code' = [code EXCEPT ![b] = st3.code]
        /\ in' = [in EXCEPT ![b] = {st3.map[k][1] : k \in DOMAIN st3.map}
                                   \ {p.to : p \in {p \in phi[b] : IsTmp(phito[b][p])}}]
        /\ hint' = st3.hint /\ hw' = st3.hw /\ visit' = st3.visit /\ fault' = st3.fault
        /\ todo' = todo \ {b}
  /\ UNCHANGED <<prog, n, chg, out, gen, nlive, pc, phito, cost, slots, mask, share>>

(* A value that all predecessors leave in one register, which is free at   *)
(* the start of s, is expected there and moved once, at the start of s.    *)
Shared(s) ==
  LET From(t) == {RFind(end[b], t) : b \in pred[s]}
      Args(p) == {RFind(end[b], p.arg[b]) : b \in {b \in pred[s] : p.arg[b] \in Tmps}}
      regs(t) == (IF \E p \in phi[s] : p.to = t THEN Args(CHOOSE p \in phi[s] : p.to = t) ELSE From(t)) \ {"none"}
      Take(m, e) ==
        LET x == regs(e[1])
            r == CHOOSE r \in x : TRUE
        IN IF e[1] \in Regs \/ Cardinality(x) # 1 \/ r \in m.busy THEN [m EXCEPT !.map = Append(@, e)]
           ELSE [map |-> Append(m.map, <<e[1], r>>), busy |-> m.busy \cup {r}, pm |-> m.pm \cup {<<Tmp(r), Tmp(e[2])>>}]
  IN FoldLeft(Take, [map |-> << >>, busy |-> Busy(beg[s]), pm |-> {}], beg[s])

RegaShare ==
  /\ pc = "assign" /\ todo = {} /\ fault = ""
  /\ LET joins == [s \in Blk |-> IF Cardinality(pred[s]) > 1 THEN Shared(s) ELSE [map |-> beg[s], pm |-> {}]]
     IN beg' = [s \in Blk |-> joins[s].map] /\ share' = [s \in Blk |-> joins[s].pm]
  /\ pc' = "run"
  /\ UNCHANGED <<prog, n, liveVars, code, jarg, phito, cost, slots, mask, fault, hint, hw, visit, todo, end>>

(* What moves on the edge from b to s.                                     *)
EdgeMoves(b, s) ==
  LET At(map, t) == IF RFind(map, t) = "none" THEN SlotOf(t) ELSE Tmp(RFind(map, t))
      src(p) == IF p.arg[b] \in Tmps THEN At(end[b], p.arg[b]) ELSE <<"const", "const">>
      dst(p) == IF IsTmp(phito[s][p]) THEN Tmp(RFind(beg[s], p.to)) ELSE phito[s][p]
  IN {m \in {<<src(p), dst(p)>> : p \in phi[s]} : m[2] # Tmp("none")}
     \cup {<<At(end[b], t), At(beg[s], t)>> : t \in in[s] \cap Tmps}
=============================================================================
