------------------------------- MODULE Middle -------------------------------
(***************************************************************************)
(* The passes between the parser and the targets on a local variable of    *)
(* the host, in the order of func of src/compile.c: qbe_promote, qbe_ssa,  *)
(* qbe_ssacheck, qbe_copy, qbe_fold.                                       *)
(*                                                                         *)
(* What comes out then runs beside what the host wrote, along every path   *)
(* the code takes.  A value is a constant, undefined, or a result "p" of a *)
(* call, "n" with its lowest bit changed; each call returns something      *)
(* other than the time before.                                             *)
(***************************************************************************)
EXTENDS Fold

VARIABLES
  at,     \* the block that runs
  mem,    \* the host's variable
  env,    \* the temporaries of the code
  last    \* which of two values the last call of each block returned

path == <<at, mem, env, last>>
vars == <<funcVars, pc, phi, code, jmp, foldVars, path>>

Init ==
  /\ SsaInit
  /\ code = << >> /\ jmp = << >> /\ cpy = << >>
  /\ use = << >> /\ val = << >> /\ dead = {} /\ link = << >> /\ flowrk = NoEdge /\ usewrk = << >> /\ seen = {}
  /\ at = Start /\ mem = Undef /\ env = << >> /\ last = [b \in Blk |-> 0]

Construct == SsaNext /\ UNCHANGED <<code, jmp, cpy, foldVars, path>>
Copies == CopyNext /\ UNCHANGED <<foldVars, path>>
Folds == FoldNext /\ UNCHANGED path

---------------------------------------------------------------------------
(* What the calls of a block return this time.                             *)
Result(b) == <<"p", 2 * b + (1 - last[b])>>

Flip(v) == CASE v[1] = "c" -> C(1 - v[2]) [] v[1] = "p" -> <<"n", v[2]>> [] v[1] = "n" -> <<"p", v[2]>> [] OTHER -> v

(* The host's accesses, as it meant them: x is what it loaded last, got    *)
(* what it saw.                                                            *)
Access(b, s, i) ==
  IF i.op = "load" THEN [s EXCEPT !.x = s.m, !.got = Append(@, s.m)]
  ELSE [s EXCEPT !.m = CASE i.val = "call" -> Result(b)
                         [] i.val \in {"0", "1-1"} -> C(0)
                         [] i.val = "1" -> C(1)
                         [] i.val \in {"x", "x+0"} -> s.x
                         [] i.val = "x^1" -> Flip(s.x)]
HostRun(b) == FoldLeft(LAMBDA s, i : Access(b, s, i), [m |-> mem, x |-> Undef, got |-> << >>], host[b])

Value(e, r) == IF r \in DOMAIN e THEN e[r] ELSE IF r[1] = "j" THEN <<"p", 2 * N + r[2]>> ELSE r
Sum(l, r) == IF r = C(0) THEN l ELSE IF r = C(1) THEN Flip(l) ELSE Undef
Execute(b, s, i) ==
  LET v == [k \in DOMAIN i.args |-> Value(s.e, i.args[k])]
  IN IF i.op = "obs" THEN [s EXCEPT !.got = Append(@, v[1])]
     ELSE [s EXCEPT !.e = (i.to :> CASE i.op = "call" -> Result(b) [] i.op = "copy" -> v[1] [] OTHER -> Sum(v[1], v[2])) @@ @]
CodeRun(b) == FoldLeft(LAMBDA s, i : Execute(b, s, i), [e |-> env, got |-> << >>], code[b])

(* The phi of s takes its value on the edge.                               *)
OnEdge(b, s, e) ==
  IF phi[s].to = R THEN e
  ELSE (phi[s].to :> Value(e, phi[s].arg[CHOOSE k \in DOMAIN phi[s].arg : phi[s].arg[k].b = b].r)) @@ e

(* Where a value sends a jump.                                             *)
Ways(to, v) == IF v = C(0) THEN {to[2]} ELSE IF v = C(1) THEN {to[1]} ELSE ToSet(to)
HostWays(b) ==
  LET to == SetToSortSeq(Succ(pred, b), <)
  IN IF Len(to) < 2 \/ ~TestsLoad(b) THEN ToSet(to) ELSE Ways(to, HostRun(b).x)
CodeWays(b, e) == IF jmp[b].op = "jnz" THEN Ways(jmp[b].to, Value(e, jmp[b].arg)) ELSE ToSet(jmp[b].to)

Calls(b) == \E i \in ToSet(host[b]) : i.op = "store" /\ i.val = "call"
Run ==
  /\ pc = "run"
  /\ \E e \in {CodeRun(at).e} : \E s \in CodeWays(at, e) :
       /\ at' = s
       /\ mem' = HostRun(at).m
       /\ env' = OnEdge(at, s, e)
       /\ last' = [last EXCEPT ![at] = IF Calls(at) THEN 1 - @ ELSE @]
  /\ UNCHANGED <<funcVars, pc, phi, code, jmp, foldVars>>

Next == Construct \/ Copies \/ Folds \/ Run

Spec == Init /\ [][Next]_vars

---------------------------------------------------------------------------
(* Types.                                                                  *)
TypeOK ==
  /\ \A b \in Blk : Len(ins[b]) = Len(host[b])
  /\ u \cup defs \cup front \subseteq Blk /\ n \in 0 .. N /\ at \in Blk

(* Along every path a load of the host gets what its last store put there, *)
(* of the size it asks for, whatever names, copies and constants the       *)
(* passes put in its place; what was never stored may be anything.         *)
LoadsSeeLast ==
  pc = "run" =>
    LET h == HostRun(at).got
        c == CodeRun(at).got
    IN /\ Len(h) = Len(c)
       /\ \A i \in DOMAIN h : h[i] = Undef \/ c[i] = h[i]
       /\ \A i \in ToSet(host[at]) : i.op \in {"load", "store"} /\ \A j \in All(host) : j.sz = i.sz

(* The code goes nowhere the host would not have gone: no branch is        *)
(* decided on a value that holds on some of the paths to it only.          *)
JumpsFollowHost == pc = "run" => CodeWays(at, CodeRun(at).e) \subseteq HostWays(at)

(* The host's loads in b that no store in b comes before.                  *)
Early(b) ==
  \E i \in DOMAIN host[b] : host[b][i].op = "load" /\ \A h \in 1 .. i : host[b][h].op # "store"
Storeless == {b \in Blk : \A i \in DOMAIN host[b] : host[b][i].op # "store"}

(* The compiler gives up only on a function in which some path leads to a  *)
(* load before any store.                                                  *)
StoppedForCause ==
  pc \in {"error", "abort"} =>
    \E b \in Blk : Early(b) /\ (b = Start \/ Closure(pred, {Start}, Storeless) \cap pred[b] # {})

(* "assert(edge[n][0].dead)" and its like in qbe_fold (src/fold.c).        *)
EdgesDieOnce == pc # "abort"
=============================================================================
