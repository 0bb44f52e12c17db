------------------------------ MODULE LoadOpt ------------------------------
(***************************************************************************)
(* Load elimination (src/load.c).  For each load, def goes back through    *)
(* the function for the accesses the bytes can come from, a slice of       *)
(* memory and a mask at a time, and puts them together with shifts, masks  *)
(* and phis; if any byte stays in doubt the load stays and all that was    *)
(* noted on the way is dropped.                                            *)
(*                                                                         *)
(* The depths of loops are not known yet when func calls the pass, so a    *)
(* place is never of the kind (LLoad) where a load may be inserted, and    *)
(* the code for that is not here.  Masks are sets of bytes.                *)
(***************************************************************************)
EXTENDS Alias

VARIABLES
  pred,    \* the graph
  pc,      \* "alias", "loads", "coalesce", ...
  code,    \* the instructions of each block
  phi,     \* its phis: [to, arg |-> a sequence of [b, r]]
  al,      \* what qbe_fillalias found
  at,      \* the load looked at: <<block, index>>
  frames,  \* the calls of def, the innermost first
  got,     \* what the last one returned, R if that was taken
  ilog,    \* the insertions noted, phis among them
  ntmp,    \* temporaries made
  mark,    \* ilog and ntmp when the load was taken up
  repl     \* the references in the places of loads

func == <<pred, code, phi>>
search == <<at, frames, got, ilog, ntmp, mark, repl>>

Dom(a, b) == Dominates(pred, a, b)
Preds(b) == SetToSortSeq(pred[b], <)

Bytes(n) == 0 .. n - 1
Cls(sl) == IF sl.sz > 4 THEN "l" ELSE "w"

IsLoad(i) == i.op = "load"
IsAccess(i) == i.op \in {"load", "store", "blit"}
IsCall(i) == i.op \in {"call", "pass"}
Address(i) == IF IsLoad(i) THEN i.args[1] ELSE i.args[2]

LoadInit ==
  /\ al = NoAliases /\ at = <<Start, 0>> /\ frames = << >> /\ got = R
  /\ ilog = << >> /\ ntmp = 0 /\ mark = <<0, 0>> /\ repl = << >>

---------------------------------------------------------------------------
(* m: the reference at hand, with the log and the count of temporaries.    *)

(* iins                                                                    *)
Insert(m, cls, i, l) ==
  LET to == <<"n", m.n, cls>>
  IN [r |-> to, n |-> m.n + 1,
      log |-> Append(m.log, [b |-> l.b, off |-> l.off, ins |-> [i EXCEPT !.to = to], phi |-> FALSE,
                             sl |-> << >>, arg |-> << >>])]

(* cast, between w and l.                                                  *)
Cast(m, cls, l) ==
  IF IsTmp(m.r) /\ Class(m.r) = "w" /\ cls = "l" THEN Insert(m, "l", Op("extuw", R, <<m.r>>, 4), l) ELSE m

(* mask                                                                    *)
MaskTo(m, cls, keep, l) ==
  LET c == Cast(m, cls, l)
  IN Insert(c, cls, [Op("and", R, <<c.r>>, 0) EXCEPT !.keep = keep], l)

(* killsl: r is what the address of the slice is computed from.            *)
Kills(r, sl) ==
  /\ IsTmp(sl.ref)
  /\ GetAlias(al, sl.ref).type \in {"stack", "unk"} /\ GetAlias(al, sl.ref).base = r

Frame(sl, msk, b, i, l) == [sl |-> sl, msk |-> msk, b |-> b, i |-> i, l |-> l, wait |-> "none", r |-> R, what |-> << >>, k |-> 0]
Top == Head(frames)

(* What Top does when it has made m of the bytes it found; it waits for    *)
(* nothing more, or for the bytes of rest.                                 *)
Final(f, m) == IF f.msk = Bytes(f.sl.sz) THEN Cast(m, f.sl.cls, f.l) ELSE m
Return(m) ==
  /\ frames' = Tail(frames)
  /\ got' = m.r /\ ilog' = m.log /\ ntmp' = m.n

Call(f, callee) == frames' = <<callee, f>> \o Tail(frames)

(* A failure fails every call up to the load.                              *)
Fail ==
  /\ frames' = << >> /\ got' = R
  /\ ilog' = SubSeq(ilog, 1, mark[1]) /\ ntmp' = mark[2]

Now(r) == [r |-> r, n |-> ntmp, log |-> ilog]

---------------------------------------------------------------------------
FillAlias1 ==
  /\ pc = "alias" /\ pc' = "loads"
  /\ al' = FillAlias(code, phi)
  /\ UNCHANGED <<func, search>>

(* The next load of the function.                                          *)
Loads == UNION {{<<b, k>> : k \in {k \in DOMAIN code[b] : IsLoad(code[b][k])}} : b \in Blk}
Behind(x, y) == x[1] > y[1] \/ (x[1] = y[1] /\ x[2] > y[2])
NextLoad ==
  /\ pc = "loads" /\ frames = << >>
  /\ repl' = IF got = R THEN repl ELSE (at :> got) @@ repl
  /\ got' = R
  /\ LET left == {x \in Loads : Behind(x, at)}
     IN IF left = {} THEN pc' = "apply" /\ UNCHANGED <<at, frames, mark>>
        ELSE \E x \in left :
               /\ \A y \in left : x = y \/ Behind(y, x)
               /\ at' = x /\ mark' = <<Len(ilog), ntmp>> /\ UNCHANGED pc
               /\ LET i == code[x[1]][x[2]]
                  IN frames' = <<Frame([ref |-> i.args[1], off |-> 0, sz |-> i.sz, cls |-> Class(i.to)],
                                       Bytes(i.sz), x[1], x[2] - 1, [b |-> x[1], off |-> x[2] - 1])>>
  /\ UNCHANGED <<func, al, ilog, ntmp>>

Scanning == pc = "loads" /\ frames # << >> /\ Top.wait = "none"
Here == code[Top.b][Top.i]
Alias(i) == AliasOf(al, Top.sl.ref, Top.sl.off, Top.sl.sz, Address(i), Size(i))

(* What an access has of the slice: how far the slice begins behind it,    *)
(* how many bytes of it matter, and which bytes of the slice they are.     *)
Part(f, i, d) ==
  LET sz == IF i.op # "blit" THEN Size(i)
            ELSE LET left == IF d > 0 THEN Size(i) - d ELSE Size(i)
                     want == IF d < 0 THEN f.sl.sz + d ELSE f.sl.sz
                 IN IF left > want THEN want ELSE left
      off == IF i.op = "blit" /\ d > 0 THEN 0 ELSE d
  IN [off |-> off, sz |-> sz, has |-> {k - off : k \in Bytes(sz)} \cap Bytes(f.sl.sz)]

(* The source of a blit, in the place of the slice.                        *)
Through(sl, i, d, p) ==
  [sl EXCEPT !.ref = i.args[1], !.off = IF d > 0 THEN d ELSE 0, !.sz = p.sz]

(* The bytes at hand go to their places in the slice, and the others are   *)
(* cleared.                                                                *)
Place(f, m, p) ==
  LET gap == IF p.off < 0 THEN - p.off ELSE p.off
      cls == IF p.off > 0 /\ gap + f.sl.sz > 4 THEN "l" ELSE Cls(f.sl)
      c   == Cast(m, cls, f.l)
      s   == IF gap = 0 THEN m ELSE Insert(c, cls, Op(IF p.off < 0 THEN "shl" ELSE "shr", R, <<c.r>>, gap), f.l)
  IN IF ~(p.has \subseteq f.msk) \/ gap + p.sz < f.sl.sz THEN MaskTo(s, Cls(f.sl), p.has \cap f.msk, f.l) ELSE s

(* With the bytes p in m, Top returns or goes on for those it still lacks. *)
Combine(f, m, p) ==
  \E s \in {Place(f, m, p)} :
    IF f.msk \subseteq p.has THEN Return(Final(f, s))
    ELSE /\ Call([f EXCEPT !.wait = "rest", !.r = s.r], Frame(f.sl, f.msk \ p.has, f.b, f.i - 1, f.l))
         /\ got' = R /\ ilog' = s.log /\ ntmp' = s.n

Keep == UNCHANGED <<func, al, at, mark, repl>>

(* An instruction that ends the search.                                    *)
Stops(i) ==
  \/ i.to # R /\ Kills(i.to, Top.sl)
  \/ IsCall(i) /\ Escapes(al, Top.sl.ref)
  \/ i.op \in {"store", "blit"} /\ Alias(i).is = "may"

(* The bytes asked for that an access has.                                 *)
Found(i) == IF IsAccess(i) /\ Alias(i).is = "must" THEN Part(Top, i, Alias(i).off).has \cap Top.msk ELSE {}

ScanStop == Scanning /\ Top.i > 0 /\ Stops(Here) /\ Fail /\ UNCHANGED pc /\ Keep

(* All the instructions in front of the next one that matters go by.       *)
Matters == {k \in 1 .. Top.i : Stops(code[Top.b][k]) \/ Found(code[Top.b][k]) # {}}
ScanPast ==
  /\ Scanning /\ Top.i > 0
  /\ \E k \in {Max(Matters \cup {0})} : k # Top.i /\ frames' = [frames EXCEPT ![1].i = k]
  /\ UNCHANGED <<pc, got, ilog, ntmp>> /\ Keep

ScanTake ==
  /\ Scanning /\ Top.i > 0 /\ ~Stops(Here) /\ Found(Here) # {}
  /\ LET i == Here
         d == Alias(i).off
         p == Part(Top, i, d)
     IN IF i.op = "blit"
        THEN /\ Call([Top EXCEPT !.wait = "blit", !.what = p],
                     Frame(Through(Top.sl, i, d, p), Bytes(p.sz), Top.b, Top.i - 1, Top.l))
             /\ UNCHANGED <<got, ilog, ntmp>>
        ELSE Combine(Top, Now(IF IsLoad(i) THEN i.to ELSE i.args[1]), p)
  /\ UNCHANGED pc /\ Keep

---------------------------------------------------------------------------
(* At the start of a block: a phi made before for the same bytes will do.  *)
Same(e) == e.phi /\ e.b = Top.b /\ e.sl.ref = Top.sl.ref /\ e.sl.off = Top.sl.off /\ e.sl.sz = Top.sl.sz
Known == \E e \in ToSet(ilog) : Same(e)
AsAsked(f, m) ==
  IF f.msk = Bytes(f.sl.sz) THEN Cast(m, f.sl.cls, f.l) ELSE MaskTo(m, Cls(f.sl), f.msk, f.l)

Edge(k) == Preds(Top.b)[k]
Into(f, p, msk, l) == Frame(f.sl, msk, p, Len(code[p]), l)
End(p) == [b |-> p, off |-> Len(code[p])]
Unsafe == \E p \in ToSet(phi[Top.b]) : Kills(p.to, Top.sl)

Reuse ==
  /\ Scanning /\ Top.i = 0 /\ Known
  /\ Return(AsAsked(Top, Now(ilog[SelectInSeq(ilog, Same)].ins.to)))
  /\ UNCHANGED pc /\ Keep

(* Nothing comes before the start block, and the address must be known in  *)
(* the predecessors.                                                       *)
NoMore == Scanning /\ Top.i = 0 /\ ~Known /\ (Unsafe \/ pred[Top.b] = {}) /\ Fail /\ UNCHANGED pc /\ Keep

Single ==
  /\ Scanning /\ Top.i = 0 /\ ~Known /\ ~Unsafe /\ Cardinality(pred[Top.b]) = 1
  /\ Call([Top EXCEPT !.wait = "pred"], Into(Top, Edge(1), Top.msk, Top.l))
  /\ UNCHANGED <<pc, got, ilog, ntmp>> /\ Keep

(* A new phi is in the log before its arguments are searched for, so that  *)
(* the search stops at it when it comes around a loop.                     *)
NewPhi ==
  /\ Scanning /\ Top.i = 0 /\ ~Known /\ ~Unsafe /\ Cardinality(pred[Top.b]) > 1
  /\ LET to == <<"n", ntmp, Top.sl.cls>>
     IN /\ ilog' = Append(ilog, [b |-> Top.b, off |-> 0, phi |-> TRUE, sl |-> Top.sl, arg |-> << >>,
                                 ins |-> Op("phi", to, << >>, 0)])
        /\ Call([Top EXCEPT !.wait = "phi", !.k = Len(ilog'), !.r = to],
                Into(Top, Edge(1), Bytes(Top.sl.sz), End(Edge(1))))
  /\ ntmp' = ntmp + 1
  /\ UNCHANGED <<pc, got>> /\ Keep

---------------------------------------------------------------------------
(* The callers, when def has returned.                                     *)
Back(w) == pc = "loads" /\ frames # << >> /\ got # R /\ Top.wait = w

FromBlit == Back("blit") /\ Combine(Top, Now(got), Top.what) /\ UNCHANGED pc /\ Keep

FromRest ==
  /\ Back("rest")
  /\ Return(Final(Top, Insert(Now(R), Cls(Top.sl), Op("or", R, <<Top.r, got>>, 0), Top.l)))
  /\ UNCHANGED pc /\ Keep

FromPred == Back("pred") /\ Return(Now(got)) /\ UNCHANGED pc /\ Keep

FromEdge ==
  /\ Back("phi")
  /\ LET n == Len(ilog[Top.k].arg) + 1
         log == [ilog EXCEPT ![Top.k].arg = Append(@, [b |-> Edge(n), r |-> got])]
     IN IF n < Cardinality(pred[Top.b])
        THEN /\ ilog' = log /\ got' = R /\ UNCHANGED ntmp
             /\ Call(Top, Into(Top, Edge(n + 1), Bytes(Top.sl.sz), End(Edge(n + 1))))
        ELSE Return(IF Top.msk = Bytes(Top.sl.sz) THEN [Now(Top.r) EXCEPT !.log = log]
                    ELSE MaskTo([Now(Top.r) EXCEPT !.log = log], Cls(Top.sl), Top.msk, Top.l))
  /\ UNCHANGED pc /\ Keep

---------------------------------------------------------------------------
(* The insertions go in, each in front of the instruction it was noted     *)
(* for, and the loads found become copies and extensions.                  *)
Replaced(b, k) ==
  LET i == code[b][k]
  IN IF <<b, k>> \notin DOMAIN repl THEN i
     ELSE Op(IF i.sz = 8 \/ (i.sz = 4 /\ Class(i.to) = "w") THEN "copy" ELSE "ext", i.to, <<repl[<<b, k>>]>>, i.sz)
InsertedAt(b, off) ==
  LET es == SelectSeq(ilog, LAMBDA e : ~e.phi /\ e.b = b /\ e.off = off)
  IN [k \in DOMAIN es |-> es[k].ins]
Rebuilt(b) ==
  FlattenSeq([k \in 1 .. Len(code[b]) + 1 |->
    InsertedAt(b, k - 1) \o IF k \in DOMAIN code[b] THEN <<Replaced(b, k)>> ELSE << >>])
NewPhis(b) ==
  LET es == SelectSeq(ilog, LAMBDA e : e.phi /\ e.b = b)
  IN [k \in DOMAIN es |-> [to |-> es[k].ins.to, arg |-> es[k].arg]]

Apply ==
  /\ pc = "apply" /\ pc' = "realias"
  /\ code' = [b \in Blk |-> Rebuilt(b)]
  /\ phi' = [b \in Blk |-> Reverse(NewPhis(b)) \o phi[b]]
  /\ UNCHANGED <<pred, al, search>>

LoadNext ==
  \/ FillAlias1 \/ NextLoad \/ ScanStop \/ ScanPast \/ ScanTake
  \/ Reuse \/ NoMore \/ Single \/ NewPhi
  \/ FromBlit \/ FromRest \/ FromPred \/ FromEdge \/ Apply
=============================================================================
