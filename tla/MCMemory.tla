------------------------------ MODULE MCMemory ------------------------------
(* Functions of four blocks with two slots, %1 of eight bytes and %2 of    *)
(* four, a pointer of the caller's and a global object: every pair of      *)
(* stores, or a store and a blit, in front of a load; and on graphs with   *)
(* joins and loops every choice of accesses and calls for three blocks.    *)
(* Some take an address computed in the loop, some have a loop of a single *)
(* block, where qbe_coalesce may end the host.  Accesses are aligned or    *)
(* lie within one store.                                                   *)
EXTENDS Memory

Slot(k) == <<"t", k, "l">>
Made(k, sz) == <<"t", k, IF sz = 8 THEN "l" ELSE "w">>
G == <<"g", 0, "l">>
Phi == <<"t", 3, "l">>
Middle == <<"t", 4, "l">>    \* the middle of slot 2

(* Accesses, by temporaries k, k + 1 and k + 2.                            *)
Reached(r, off, k) == IF off = 0 THEN r ELSE Slot(k)
Reach(r, off, k) ==
  CASE off = 0 -> << >>
    [] off = 3 -> <<Op("add", Slot(k), <<C(off), r>>, 8)>>
    [] OTHER   -> <<Op("add", Slot(k), <<r, C(off)>>, 8)>>
St(r, off, sz, k) ==
  Reach(r, off, k) \o <<Op("new", Made(k + 1, sz), << >>, sz),
                        Op("store", R, <<Made(k + 1, sz), Reached(r, off, k)>>, sz)>>
Ld(r, off, sz, cls, k) == Reach(r, off, k) \o <<Op("load", <<"t", k + 2, cls>>, <<Reached(r, off, k)>>, sz)>>
Blit(r, ro, s, so, sz, k) ==
  Reach(r, ro, k) \o Reach(s, so, k + 1) \o <<Op("blit", R, <<Reached(r, ro, k), Reached(s, so, k + 1)>>, sz)>>
Calls(S) == <<Op("call", R, S, 0)>>
Pass(r) == <<Op("pass", R, <<r>>, 0)>>

Alloc(k, sz) == Op("alloc", Slot(k), <<C(sz)>>, sz)
Half == Op("add", Middle, <<Slot(2), C(2)>>, 8)
Prologue == <<Op("par", Param, << >>, 8), Alloc(1, 8), Alloc(2, 4), Half>>
SmallFirst == <<Alloc(2, 4), Half, Alloc(1, 8)>>
LargeLast(k) == <<Alloc(1, k), Alloc(2, 8)>>

(* The blocks c behind the allocs p; the last one returns r.               *)
FunctionOf(p, g, c, ps, r) ==
  [pred |-> g, code |-> [b \in Blk |-> IF b = Start THEN p \o c[b + 1] ELSE c[b + 1]], phi |-> ps,
   retc |-> [b \in Blk |-> IF b = N - 1 THEN r ELSE R]]
Function(g, c, ps) == FunctionOf(Prologue, g, c, ps, R)
NoPhi == [b \in Blk |-> << >>]

Graph(p1, p2, p3) == [b \in Blk |-> <<{}, p1, p2, p3>>[b + 1]]
Line == Graph({0}, {1}, {2})
Diamond == Graph({0}, {0}, {1, 2})
While == Graph({0, 2}, {1}, {1})
Until == Graph({0, 3}, {1}, {2})
Crossed == Graph({0, 2}, {0, 1}, {1})
Short == Graph({0}, {0, 1}, {2})
Alone == Graph({0, 1}, {1}, {2})
Twice == Graph({0}, {1, 2}, {2})

(* Every choice of three from S, with other temporaries in each block.     *)
Bodies(first, S(_)) == {<<first, x, y, z>> : x \in S(100), y \in S(200), z \in S(300)}

Spots == {<<0, 1>>, <<3, 1>>, <<0, 2>>, <<2, 2>>, <<0, 4>>, <<4, 4>>, <<2, 4>>, <<0, 8>>}
Loaded1 == {<<0, 8, "l">>, <<0, 4, "w">>, <<2, 4, "l">>, <<4, 4, "w">>, <<2, 2, "w">>, <<3, 1, "l">>}
Straight ==
  {<<St(Slot(1), s[1], s[2], 100) \o m \o Ld(Slot(1), l[1], l[2], l[3], 300), << >>, << >>, << >>>> :
     s \in Spots, l \in Loaded1,
     m \in {St(Slot(1), t[1], t[2], 200) : t \in Spots}
             \cup {St(Slot(2), 0, 4, 200) \o Blit(Slot(2), x[1], Slot(1), x[2], x[3], 210) :
                     x \in {<<0, 0, 4>>, <<1, 0, 3>>, <<0, 3, 4>>, <<2, 6, 1>>}}
             \cup {Blit(Slot(1), 0, Slot(1), 3, 3, 210)}}

OneSlot(k) == {<< >>, St(Slot(1), 0, 4, k), St(Slot(1), 2, 2, k),
               Ld(Slot(1), 0, 2, "w", k) \o Ld(Slot(1), 0, 4, "w", k + 3)}
Outside1(k) == {Ld(Slot(1), 0, 4, "w", k), St(Param, 0, 4, k), Calls(<< >>), Ld(Param, 0, 4, "l", k)}
Globals(k) == {Ld(G, 2, 2, "w", k), St(G, 0, 4, k), St(Param, 0, 4, k)}
Whole(k) == {<< >>, St(Slot(1), 0, 4, k), St(Middle, 0, 2, k), Pass(Slot(1)), Pass(Slot(2)), Blit(Slot(1), 0, Slot(2), 0, 4, k)}
ByPhi(k) == {St(Phi, 0, 2, k), St(Slot(2), 0, 2, k) \o Ld(Phi, 0, 2, "w", k), Ld(Slot(2), 0, 4, "w", k), Pass(Slot(2))}
ByLoad(k) == {St(Slot(1), 0, 4, k), Ld(Slot(1), 0, 4, "w", k), <<Op("store", R, <<Slot(2), G>>, 8)>>}
               \cup {<<Op("load", Slot(k + 3), <<G>>, 8)>> \o i :
                       i \in {St(Slot(k + 3), 0, 2, k), Ld(Slot(k + 3), 0, 2, "w", k)}}
Blits(k) ==
  {<<St(Slot(2), 0, 8, 10), Blit(Slot(2), x[1], Slot(1), x[2], x[3], 100), Pass(Slot(1)), << >>>> :
     x \in {x \in (0 .. 2) \X (0 .. 2) \X (3 .. 8) : x[1] + x[3] <= 8 /\ x[2] + x[3] <= k}}

Around(k) == {<<Op("add", Slot(5), <<Slot(2), C(2)>>, 8)>> \o i : i \in ByPhi(k)}
Late == {<<x, y, z, w>> : x \in {St(Slot(2), 0, 4, 20), << >>}, y \in ByPhi(100), z \in Around(200), w \in ByPhi(300) \cup {<< >>}}

Both == St(Slot(1), 0, 8, 10) \o St(Slot(2), 0, 4, 20)
PhiAt(g, h, r) ==
  [b \in Blk |-> IF b = h THEN <<[to |-> Phi, arg |-> <<[b |-> Min(g[b]), r |-> Slot(1)], [b |-> Max(g[b]), r |-> r]>>]>>
                 ELSE << >>]

MCPrograms ==
  {Function(Line, c, NoPhi) : c \in Straight}
  \cup {Function(g, c, NoPhi) : g \in {Diamond, While, Until, Crossed, Short}, c \in Bodies(St(Slot(1), 0, 8, 10), OneSlot)}
  \cup {Function(g, c, NoPhi) : g \in {Diamond, While}, c \in Bodies(Calls(<<Slot(1)>>), Outside1)}
  \cup {Function(g, c, NoPhi) : g \in {Diamond, Until},
         c \in Bodies(St(Slot(1), 0, 4, 10) \o <<Op("store", R, <<Slot(1), G>>, 8)>>, Outside1)}
  \cup {Function(g, c, NoPhi) : g \in {Short, While}, c \in Bodies(<< >>, Globals)}
  \cup {Function(g, c, NoPhi) : g \in {Diamond, While, Until}, c \in Bodies(Both, Whole)}
  \cup {FunctionOf(SmallFirst, g, c, NoPhi, r) :
           g \in {Diamond, While}, c \in Bodies(St(Slot(1), 0, 8, 10), Whole), r \in {R, Slot(1), Slot(2)}}
  \cup UNION {{FunctionOf(LargeLast(k), Line, c, NoPhi, R) : c \in Blits(k)} : k \in {4, 8}}
  \cup {Function(g, c, NoPhi) : g \in {Diamond, While},
         c \in Bodies(Both \o <<Op("store", R, <<Slot(1), G>>, 8)>>, ByLoad)}
  \cup {Function(x[1], c, PhiAt(x[1], x[2], r)) :
           x \in {<<While, 1>>, <<Short, 2>>}, r \in {Slot(2), Middle, Param}, c \in Bodies(Both, ByPhi)}
  \cup {Function(While, c, PhiAt(While, 1, Slot(5))) : c \in Late}
  \cup {Function(g, c, NoPhi) : g \in {Alone, Twice}, c \in Bodies(Both, Whole)}
=============================================================================
