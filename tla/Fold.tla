-------------------------------- MODULE Fold --------------------------------
(***************************************************************************)
(* Constants and dead branches (qbe_fold of src/fold.c): values fall from  *)
(* Top over a constant to Bot while edges come to life, driven by a list   *)
(* of edges and a stack of uses; then what is constant is replaced and     *)
(* what is dead removed.                                                   *)
(*                                                                         *)
(* Constants are numbers of one bit.  The list of edges is threaded        *)
(* through the edges themselves: each edge has one link, work.             *)
(***************************************************************************)
EXTENDS CopyElim

VARIABLES
  use,      \* the uses of each temporary, as qbe_filluse lists them
  val,      \* the value known of each temporary
  dead,     \* the edges <<b, k>> not reached, k = 1 or 2
  link, flowrk,   \* work of each edge, and the head of the list
  usewrk,   \* the stack of uses
  seen      \* the blocks visited

foldVars == <<use, val, dead, link, flowrk, usewrk, seen>>
funcVars == <<prog, ins, flow, ssa, cpy>>   \* what is done with

Top == Undef
Bot == <<"bot", 0>>
NoEdge == <<None, 0>>
Entry == <<None, 1>>   \* the edge to the start block

(* Where an edge leads.                                                    *)
Dest(e) ==
  IF e = Entry THEN Start ELSE IF e[2] <= Len(jmp[e[1]].to) THEN jmp[e[1]].to[e[2]] ELSE None
EdgesOf == (Blk \X {1, 2}) \cup {Entry}

(* qbe_filluse.                                                            *)
UsesIn(b, t) ==
  (IF \E a \in ToSet(phi[b].arg) : a.r = t THEN <<[type |-> "phi", b |-> b, i |-> 0]>> ELSE << >>)
  \o FlattenSeq([i \in DOMAIN code[b] |-> IF t \in ToSet(code[b][i].args) THEN <<[type |-> "ins", b |-> b, i |-> i]>> ELSE << >>])
  \o (IF jmp[b].arg = t THEN <<[type |-> "jmp", b |-> b, i |-> 0]>> ELSE << >>)
Tmps == {t \in UNION {{i.to : i \in ToSet(code[b])} \cup {phi[b].to} : b \in Blk} : t # R}

FoldStart ==
  /\ pc = "fold" /\ pc' = "flow"
  /\ use' = [t \in Tmps |-> FlattenSeq([b \in 1 .. N |-> UsesIn(b - 1, t)])]
  /\ val' = [t \in Tmps |-> Top]
  /\ dead' = EdgesOf /\ link' = [e \in EdgesOf |-> NoEdge] /\ flowrk' = Entry
  /\ usewrk' = << >> /\ seen' = {}
  /\ UNCHANGED <<funcVars, phi, code, jmp>>

---------------------------------------------------------------------------
(* The state of the search while a block or a use is visited.              *)
Search == [val |-> val, dead |-> dead, link |-> link, flowrk |-> flowrk, usewrk |-> usewrk, ok |-> TRUE]

(* Parameters are never constant.                                          *)
LatVal(s, r) == IF r \in DOMAIN s.val THEN s.val[r] ELSE IF IsTmp(r) THEN Bot ELSE r

LatMerge(v, m) == IF m = Top THEN v ELSE IF v \in {Top, m} THEN m ELSE Bot

(* Mutant of Update: only the first change of a value is passed on.        *)
UpdateFirst(s, t, m) ==
  LET v == LatMerge(s.val[t], m)
  IN IF v = s.val[t] THEN s
     ELSE [s EXCEPT !.val[t] = v, !.usewrk = IF s.val[t] = Top THEN @ \o use[t] ELSE @]

(* update: who uses a value that fell is looked at again.                  *)
Update(s, t, m) ==
  LET v == LatMerge(s.val[t], m)
  IN IF v = s.val[t] THEN s ELSE [s EXCEPT !.val[t] = v, !.usewrk = @ \o use[t]]

DeadEdge(s, a, b) == \A k \in DOMAIN jmp[a].to : jmp[a].to[k] = b => <<a, k>> \in s.dead

VisitPhis(s, b) ==
  IF phi[b].to = R THEN s
  ELSE LET live == SelectSeq(phi[b].arg, LAMBDA a : ~DeadEdge(s, a.b, b))
       IN Update(s, phi[b].to, FoldLeft(LAMBDA v, a : LatMerge(v, LatVal(s, a.r)), Top, live))

(* opfold: with one bit, add, sub and xor are one.                         *)
OpFold(l, r) == C((l + r) % 2)
CanFold(op) == op \in {"add", "sub", "xor"}

FoldIns(s, i) ==
  IF i.to = R THEN s
  ELSE LET v == [k \in DOMAIN i.args |-> LatVal(s, i.args[k])]
       IN Update(s, i.to, CASE ~CanFold(i.op) \/ Bot \in ToSet(v) -> Bot
                            [] Top \in ToSet(v) -> Top
                            [] OTHER -> OpFold(v[1][2], v[2][2]))

Push(s, e) == [s EXCEPT !.link[e] = s.flowrk, !.flowrk = e]

(* A jump brings to life the edges its value may take; a value that is not *)
(* known, or not defined, is taken for one that is not 0.                  *)
VisitJmp(s, b) ==
  CASE jmp[b].op = "jmp" -> Push(s, <<b, 1>>)
    [] jmp[b].op = "jnz" ->
         LET l == LatVal(s, jmp[b].arg)
         IN IF l = Bot THEN Push(Push(s, <<b, 2>>), <<b, 1>>)
            ELSE IF l = C(0) THEN [Push(s, <<b, 2>>) EXCEPT !.ok = <<b, 1>> \in s.dead]
            ELSE [Push(s, <<b, 1>>) EXCEPT !.ok = <<b, 2>> \in s.dead]
    [] OTHER -> s

(* The edge of a jump is alive or about to be.                             *)
OneWay(s, b) ==
  [s EXCEPT !.ok = @ /\ (jmp[b].op = "jmp" /\ <<b, 1>> \in s.dead => s.flowrk = <<b, 1>>)]

Found(s) ==
  /\ val' = s.val /\ dead' = s.dead /\ link' = s.link /\ flowrk' = s.flowrk /\ usewrk' = s.usewrk
  /\ pc' = IF s.ok THEN pc ELSE "abort"

(* The first edge of the list.                                             *)
TakeEdge ==
  /\ pc = "flow" /\ flowrk # NoEdge
  /\ LET b  == Dest(flowrk)
         s0 == [Search EXCEPT !.flowrk = link[flowrk], !.link[flowrk] = NoEdge]
         s1 == VisitPhis([s0 EXCEPT !.dead = @ \ {flowrk}], b)
         s2 == VisitJmp(FoldLeft(FoldIns, s1, code[b]), b)
     IN IF b = None \/ flowrk \notin dead THEN Found(s0) /\ UNCHANGED seen
        ELSE Found(OneWay(IF b \in seen THEN s1 ELSE s2, b)) /\ seen' = seen \cup {b}
  /\ UNCHANGED <<funcVars, phi, code, jmp, use>>

(* The last use of the stack, when no edge is left.                        *)
TakeUse ==
  /\ pc = "flow" /\ flowrk = NoEdge /\ usewrk # << >>
  /\ LET x == Last(usewrk)
         s == [Search EXCEPT !.usewrk = Front(@)]
     IN Found(CASE x.b \notin seen  -> s
                [] x.type = "phi" -> VisitPhis(s, x.b)
                [] x.type = "ins" -> FoldIns(s, code[x.b][x.i])
                [] x.type = "jmp" -> VisitJmp(s, x.b))
  /\ UNCHANGED <<funcVars, phi, code, jmp, use, seen>>

---------------------------------------------------------------------------
(* A reference to a value that is known.                                   *)
RenRef(r) == IF r \in DOMAIN val /\ val[r] # Bot THEN val[r] ELSE r

(* A jump on a constant.                                                   *)
JmpTrim(b) ==
  LET arg == RenRef(jmp[b].arg)
  IN IF jmp[b].op = "jnz" /\ ~IsTmp(arg)
     THEN [op |-> "jmp", arg |-> R, to |-> <<IF arg = C(0) THEN jmp[b].to[2] ELSE jmp[b].to[1]>>]
     ELSE [jmp[b] EXCEPT !.arg = arg]

CodeTrim(b) ==
  LET kept == SelectSeq(code[b], LAMBDA i : RenRef(i.to) = i.to)
  IN [k \in DOMAIN kept |-> [kept[k] EXCEPT !.args = [a \in DOMAIN @ |-> RenRef(@[a])]]]

(* The arguments of a phi that come over edges that are left.              *)
PhiTrim(b) ==
  LET live == SelectSeq(phi[b].arg, LAMBDA a : a.b \in seen /\ b \in ToSet(JmpTrim(a.b).to))
  IN IF RenRef(phi[b].to) # phi[b].to THEN [to |-> R, arg |-> << >>]
     ELSE [to |-> phi[b].to, arg |-> [k \in DOMAIN live |-> [live[k] EXCEPT !.r = RenRef(@)]]]

(* What is dead goes, what is constant is written out.                     *)
Trim ==
  /\ pc = "flow" /\ flowrk = NoEdge /\ usewrk = << >>
  /\ pc' = "run"
  /\ jmp' = [b \in Blk |-> IF b \in seen THEN JmpTrim(b) ELSE [op |-> "gone", arg |-> R, to |-> << >>]]
  /\ code' = [b \in Blk |-> IF b \in seen THEN CodeTrim(b) ELSE << >>]
  /\ phi' = [b \in Blk |-> IF b \in seen THEN PhiTrim(b) ELSE [to |-> R, arg |-> << >>]]
  /\ use' = << >> /\ val' = << >> /\ dead' = {} /\ link' = << >> /\ seen' = {}
  /\ UNCHANGED <<funcVars, flowrk, usewrk>>

FoldNext == FoldStart \/ TakeEdge \/ TakeUse \/ Trim
=============================================================================
