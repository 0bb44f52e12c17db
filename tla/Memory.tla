------------------------------- MODULE Memory -------------------------------
(***************************************************************************)
(* The passes of func (src/compile.c) over what stays in memory:           *)
(* qbe_fillalias, qbe_loadopt, qbe_fillalias again and qbe_coalesce, and   *)
(* the expansion of blits (src/simpl.c) at the end of the middle.          *)
(*                                                                         *)
(* What comes out then runs beside what went in, along every path, with a  *)
(* memory of its own.  A value is eight bytes, the lowest first; a byte is *)
(* zero, undefined, the k-th of something, or junk: the upper half of a    *)
(* word.                                                                   *)
(***************************************************************************)
EXTENDS Coalesce

CONSTANT Programs   \* functions: [pred, code, phi, retc]

VARIABLES
  host,        \* the function as it came
  here,        \* the block that runs
  env, mem,    \* temporaries and objects, of both: <<of the host's, of the code's>>
  leak,        \* the slots whose address is known outside
  last         \* tells one run of a block from the next

run == <<here, env, mem, leak, last>>
vars == <<func, pc, al, search, retc, coalesce, host, run>>

Param == <<"t", 0, "l">>   \* an address the caller passes
Global == -1
Other == -2                \* an object of the caller
ObjSize == 8

---------------------------------------------------------------------------
Z == <<"zero", 0, 0, 0>>
U == <<"undef", 0, 0, 0>>
Junk == <<"junk", 0, 0, 0>>
Zeros == [k \in 1 .. 8 |-> Z]
Addr(obj, off) == [k \in 1 .. 8 |-> <<"addr", obj, off, k>>]
Width(r) == IF Class(r) = "w" THEN 4 ELSE 8
Trim(v, r) == [k \in 1 .. 8 |-> IF k <= Width(r) THEN v[k] ELSE Junk]
Low(v, sz) == [k \in 1 .. 8 |-> IF k <= sz THEN v[k] ELSE Z]

Value(e, r) ==
  CASE r \in DOMAIN e -> e[r]
    [] r[1] = "c" -> IF r[2] = 0 THEN Zeros ELSE [k \in 1 .. 8 |-> IF k = 1 THEN <<"con", r[2], 0, 0>> ELSE Z]
    [] r[1] = "g" -> Addr(Global, r[2])
    [] r = Undef -> [k \in 1 .. 8 |-> U]
    [] OTHER -> [k \in 1 .. 8 |-> Junk]

(* What an instruction without effects computes, in the environment e.     *)
Result(i, e, b, x) ==
  LET v == Value(e, i.args[1])
      w == Width(i.to)
  IN CASE i.op = "alloc" -> Addr(i.to[2], 0)
       [] i.op = "new" -> [k \in 1 .. 8 |-> <<"new", i.to[2], x, k>>]
       [] i.op = "add" -> LET k == IF i.args[1][1] = "c" THEN 1 ELSE 2
                              u == Value(e, i.args[3 - k])
                          IN Addr(u[1][2], u[1][3] + i.args[k][2])
       [] i.op = "copy" -> v
       [] i.op \in {"ext", "extuw"} -> Low(v, i.sz)
       [] i.op = "shl" -> [k \in 1 .. 8 |-> IF k <= i.sz THEN Z ELSE v[k - i.sz]]
       [] i.op = "shr" -> [k \in 1 .. 8 |-> IF k + i.sz <= w THEN v[k + i.sz] ELSE Z]
       [] i.op = "and" -> [k \in 1 .. 8 |-> IF k - 1 \in i.keep THEN v[k] ELSE Z]
       [] i.op = "or" -> LET u == Value(e, i.args[2])
                         IN [k \in 1 .. 8 |-> IF v[k] = Z THEN u[k] ELSE IF u[k] = Z THEN v[k] ELSE Junk]

(* Nothing is known of what is read behind a null pointer, or behind the   *)
(* end of an object.                                                       *)
Object(m, o) == IF o \in DOMAIN m THEN m[o] ELSE [k \in 1 .. ObjSize |-> U]
At(obj, k) == IF k \in DOMAIN obj THEN obj[k] ELSE U
Fetch(m, v, sz) == [k \in 1 .. 8 |-> IF k <= sz THEN At(Object(m, v[1][2]), v[1][3] + k) ELSE Z]
(* What comes of nothing but undefined bytes is undefined altogether.       *)
Loaded(m, v, sz) ==
  IF \A k \in 1 .. sz : Fetch(m, v, sz)[k] = U THEN [k \in 1 .. 8 |-> U] ELSE Fetch(m, v, sz)
Put(m, v, sz, w) ==
  [m EXCEPT ![v[1][2]] = [k \in DOMAIN @ |-> LET x == k - v[1][3] IN IF x \in 1 .. sz THEN w[x] ELSE @[k]]]

(* simpl.c: a blit is copied in pieces, the large ones at the end it does  *)
(* not begin with.                                                         *)
Times(n0, k) == [x \in 1 .. k |-> n0]
Pieces(sz) ==
  Times(8, sz \div 8) \o Times(4, (sz % 8) \div 4) \o Times(2, (sz % 4) \div 2) \o Times(1, sz % 2)
Upto(ps, k) == FoldLeft(LAMBDA s, j : s + ps[j], 0, [j \in 1 .. k |-> j])
Copied(m, src, dst, size) ==
  LET sz == IF size < 0 THEN - size ELSE size
      ps == Pieces(sz)
      From(k) == IF size < 0 THEN Upto(ps, k - 1) ELSE sz - Upto(ps, k)
      Plus(v, k) == Addr(v[1][2], v[1][3] + k)
      Piece(c, k) == Put(c, Plus(dst, From(k)), ps[k], Fetch(c, Plus(src, From(k)), ps[k]))
  IN FoldLeft(Piece, m, Reverse([k \in DOMAIN ps |-> k]))

---------------------------------------------------------------------------
(* s: the environment e, the memory m, the slots known outside and what    *)
(* was seen outside so far, in block b run the x-th time.                  *)
Exposed(v) == IF v[1][1] = "addr" /\ v[1][2] > 0 THEN {v[1][2]} ELSE {}
Outside(s) == s.leak \cup {Global, Other}
Outcome(s, b, x) ==
  [o \in DOMAIN s.m |-> IF o \in Outside(s) THEN [k \in DOMAIN s.m[o] |-> <<"call", 8 * b + Len(s.obs), x, 16 * o + k>>]
                        ELSE s.m[o]]
Leak(s, S) == [s EXCEPT !.leak = @ \cup S]
Execute(s, i, b, x) ==
  LET v == Value(s.e, i.args[1])
      w == Value(s.e, i.args[2])
  IN CASE i.op \in {"nop", "par"} -> s
       [] i.op = "load" -> [s EXCEPT !.e = (i.to :> Trim(Loaded(s.m, v, i.sz), i.to)) @@ @]
       [] i.op = "store" -> [Leak(s, Exposed(v)) EXCEPT !.m = Put(@, w, i.sz, v)]
       [] i.op = "blit" -> [s EXCEPT !.m = Copied(@, v, w, i.sz)]
       [] i.op = "call" ->
            LET t == IF i.args = << >> THEN s ELSE Leak(s, Exposed(v))
            IN [t EXCEPT !.obs = Append(@, [o \in Outside(t) |-> t.m[o]]), !.m = Outcome(t, b, x)]
       [] i.op = "pass" ->
            [s EXCEPT !.obs = Append(@, [o \in Outside(s) \cup {0} |-> IF o = 0 THEN Object(s.m, v[1][2]) ELSE s.m[o]]),
                      !.m = Outcome(s, b, x)]
       [] OTHER -> [s EXCEPT !.e = (i.to :> Trim(Result(i, s.e, b, x), i.to)) @@ @]

RunOf(w, b, c) ==
  FoldLeft(LAMBDA s, i : Execute(s, i, b, last[b]), [e |-> env[w], m |-> mem[w], leak |-> leak[w], obs |-> << >>], c)
HostRun == RunOf(1, here, host.code[here])
CodeRun == RunOf(2, here, code[here])

(* The phis of c take their values on the edge from b.                     *)
OnEdge(b, ps, e) ==
  FoldLeft(LAMBDA f, p : (p.to :> Trim(Value(e, p.arg[CHOOSE k \in DOMAIN p.arg : p.arg[k].b = b].r), p.to)) @@ f, e, ps)

---------------------------------------------------------------------------
(* The objects of c when it is entered: slots have the size of their alloc. *)
Fresh(c) ==
  LET allocs == {i \in ToSet(c) : i.op = "alloc"}
      Alloc(o) == CHOOSE i \in allocs : i.to[2] = o
  IN [o \in {Global, Other} \cup {i.to[2] : i \in allocs} |->
        IF o < 0 THEN [k \in 1 .. ObjSize |-> <<"new", o, 0, k>>] ELSE [k \in 1 .. Alloc(o).sz |-> U]]
Begin(p) == [x \in 1 .. 2 |-> p]

Init ==
  /\ \E p \in Programs : host = p /\ pred = p.pred /\ code = p.code /\ phi = p.phi /\ retc = p.retc
  /\ pc = "alias" /\ LoadInit /\ CoalesceInit
  /\ here = Start /\ env = << >> /\ mem = << >> /\ leak = << >> /\ last = [b \in Blk |-> 0]

Passes ==
  /\ (LoadNext /\ UNCHANGED <<retc, coalesce>>) \/ CoalesceNext
  /\ UNCHANGED <<host, run>>

(* The caller's pointer may or may not be that of the global object.       *)
Enter ==
  /\ pc = "run" /\ env = << >>
  /\ \E v \in {Addr(Global, 0), Addr(Other, 0)} : env' = [w \in 1 .. 2 |-> Param :> v]
  /\ mem' = <<Fresh(host.code[Start]), Fresh(code[Start])>>
  /\ leak' = [w \in 1 .. 2 |-> {}]
  /\ UNCHANGED <<func, pc, al, search, retc, coalesce, host, here, last>>

Run ==
  /\ pc = "run" /\ env # << >>
  /\ \E h \in {HostRun}, c \in {CodeRun} : \E s \in Succ(pred, here) :
       /\ here' = s
       /\ env' = <<OnEdge(here, host.phi[s], h.e), OnEdge(here, phi[s], c.e)>>
       /\ mem' = <<h.m, c.m>> /\ leak' = <<h.leak, c.leak>>
       /\ last' = [last EXCEPT ![here] = 1 - @]
  /\ UNCHANGED <<func, pc, al, search, retc, coalesce, host>>

Next == Passes \/ Enter \/ Run

Spec == Init /\ [][Next]_vars

---------------------------------------------------------------------------
(* Types.                                                                  *)
TypeOK ==
  /\ \A b \in Blk : \A i \in ToSet(code[b]) : i.to = R \/ IsTmp(i.to)
  /\ n \in 0 .. N /\ ip \in 0 .. MaxIp /\ here \in Blk /\ ntmp \in Nat

(* What was undefined may be anything.                                     *)
Agree(x, y) == \A k \in DOMAIN x : x[k] \in {U, Junk} \/ x[k] = At(y, k)
Returned(f, s) == IF f = R THEN << >> ELSE Object(s.m, Value(s.e, f)[1][2])

(* A phi of the host takes an address that is computed behind it, around   *)
(* a loop: qbe_fillalias comes to the phi first, and the slot stays local. *)
LatePhi ==
  \E b \in Blk : \E p \in ToSet(host.phi[b]) : \E a \in ToSet(p.arg) :
    \E c \in b .. N - 1 : \E i \in ToSet(host.code[c]) : i.to = a.r

(* Block b is a loop by itself, and a slot is read in it or behind it.     *)
ReadBy(i) == IF i.op \in {"load", "blit", "pass"} THEN {i.args[1]} ELSE {}
ReadIn(b) == {retc[b]} \cup UNION {ReadBy(i) : i \in ToSet(code[b])}
OwnLoop(b) ==
  /\ b \in pred[b]
  /\ \E c \in Closure(pred, {b}, Blk) : \E r \in ReadIn(c) : SlotOf(r) # 0

(* Along every path a load gets the bytes the host's program would have    *)
(* got from its memory, whether it was replaced by values of the function  *)
(* or still reads a slot, alone or shared with others; and so does whoever *)
(* is handed an address or an aggregate.  (Left out: alias.c:150.)         *)
LoadsSeeStores ==
  pc = "run" /\ env # << >> /\ ~LatePhi =>
    \E h \in {HostRun}, c \in {CodeRun} :
      /\ \A i \in ToSet(host.code[here]) : IsLoad(i) => Agree(h.e[i.to], Value(c.e, i.to))
      /\ Len(h.obs) = Len(c.obs)
      /\ \A k \in DOMAIN h.obs : \A o \in DOMAIN h.obs[k] : Agree(h.obs[k][o], c.obs[k][o])
      /\ retc[here] # R => Agree(Returned(host.retc[here], h), Returned(retc[here], c))

(* The assertions of mem.c fail, and end the host, for two causes only: in *)
(* a block n that is a loop by itself (mem.c:299), and for a slot without  *)
(* a range whose address a phi takes from behind (mem.c:361).  The sliding *)
(* of a load up the blocks never meets that of load.c: a place it inserts  *)
(* at dominates the block it searches.                                     *)
StopsForCause ==
  /\ pc = "abort" => OwnLoop(n) \/ LatePhi
  /\ \A k \in DOMAIN frames : Dom(frames[k].b, frames[k].l.b)
=============================================================================
