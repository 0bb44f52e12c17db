---------------------------- MODULE BlockOrderProofs ----------------------------
(***************************************************************************)
(* Proofs about BlockOrder, for functions of any number of blocks: uffind  *)
(* returns, the threaded function does what it did, and the numbering of   *)
(* qbe_fillrpo is a reverse postorder of what can be reached, with phis    *)
(* and predecessors to match, in both of the orders that are made.         *)
(***************************************************************************)
EXTENDS BlockOrder, FiniteSetTheorems, WellFoundedInduction, TLAPS

All == Listed \cup {Ret}

(* A block is linked once, when the first loop comes to it, to one that is *)
(* not linked yet: along a path the ids grow, but for the last step.       *)
Ordered(f) ==
  /\ f \in [All -> All \cup {None}] /\ f[Ret] = None
  /\ \A a \in All : f[a] # None /\ f[f[a]] # None => a < f[a]

Linked == {a \in All : uf[a] # None}

(* The blocks that only pass a run on, and the block they pass it to.      *)
Passing == {a \in code.empty : code.jmp[a] \in {"ret0", "jmp"}}
Passed(a) == IF code.jmp[a] = "ret0" THEN Ret ELSE code.s1[a]

Looked == IF tpc = "first" THEN 0 .. tb - 1 ELSE Listed
Replaced == IF tpc = "first" THEN {} ELSE IF tpc = "second" THEN 0 .. tb - 1 ELSE Listed

CodeOK ==
  /\ code.empty \subseteq Listed
  /\ \A a \in Listed :
       /\ code.jmp[a] \in {"ret0", "hlt", "jmp", "br"}
       /\ code.jmp[a] \in {"jmp", "br"} <=> code.s1[a] \in Listed
       /\ code.jmp[a] \in {"ret0", "hlt"} <=> code.s1[a] = None
       /\ code.jmp[a] = "br" <=> code.s2[a] \in Listed
       /\ code.jmp[a] # "br" <=> code.s2[a] = None
  /\ code.jmp[Ret] = "ret0"

(* A tree holds only passing blocks, but for its root, and what they pass  *)
(* a run to is in the same tree.  The rounds of passing blocks are what    *)
(* the first loop leaves out: no set of linked blocks passes only to       *)
(* itself.                                                                 *)
Trees ==
  /\ Ordered(uf)
  /\ Linked \subseteq Passing \cap Looked
  /\ \A a \in Passing \cap Looked : Root(uf, Passed(a)) = Root(uf, a)
  /\ \A C \in SUBSET Linked : (\A a \in C : Passed(a) \in C) => C = {}

(* What the two loops have made of a block.                                *)
Original(a) == jmp[a] = code.jmp[a] /\ s1[a] = code.s1[a] /\ s2[a] = code.s2[a]
Joined(a) ==
  /\ code.jmp[a] \in {"ret0", "jmp"} =>
       /\ jmp[a] = "jmp" /\ s1[a] \in All /\ s2[a] = None
       /\ Root(uf, s1[a]) = Root(uf, Passed(a))
  /\ code.jmp[a] \in {"hlt", "br"} => Original(a)
Threaded(a) ==
  /\ code.jmp[a] \in {"ret0", "jmp"} => jmp[a] = "jmp" /\ s1[a] = Root(uf, Passed(a))
  /\ code.jmp[a] = "hlt" => jmp[a] = "hlt"
  /\ code.jmp[a] = "br" =>
       /\ s1[a] = Root(uf, code.s1[a])
       /\ \/ jmp[a] = "br" /\ s2[a] = Root(uf, code.s2[a])
          \/ jmp[a] = "jmp" /\ s1[a] = Root(uf, code.s2[a])
Blocks ==
  /\ jmp \in [All -> {"ret0", "hlt", "jmp", "br"}] /\ jmp[Ret] = "ret0"
  /\ s1 \in [All -> All \cup {None}] /\ s2 \in [All -> All \cup {None}]
  /\ \A a \in Listed : /\ a \notin Looked => Original(a)
                       /\ a \in Looked \ Replaced => Joined(a)
                       /\ a \in Replaced => Threaded(a)

IInv ==
  /\ tpc \in {"first", "second", "done"} /\ tb \in 0 .. N
  /\ CodeOK /\ Trees /\ Blocks

-----------------------------------------------------------------------------
(* Induction over the numbers, for sets.                                   *)
LEMMA Least ==
  ASSUME NEW T \in SUBSET Nat, T # {}
  PROVE  \E z \in T : \A y \in T : z <= y
<1> DEFINE R == OpToRel(<, Nat)
<1>1. IsWellFoundedOn(R, Nat)
  BY NatLessThanWellFounded
<1>2. \A z, y \in Nat : <<z, y>> \in R <=> z < y
  BY DEF OpToRel
<1> HIDE DEF R
<1>3. PICK z \in T : \A y \in T : ~ (<<y, z>> \in R)
  BY <1>1, WFMin
<1>4. \A y \in T : z \in Nat /\ y \in Nat /\ ~ (y < z)
  BY <1>2, <1>3
<1>5. QED
  BY <1>4

LEMMA SetInduction ==
  ASSUME NEW S, 0 \in S, \A n \in Nat : n \in S => n + 1 \in S
  PROVE  Nat \subseteq S
<1> DEFINE T == Nat \ S
<1>1. SUFFICES ASSUME T # {} PROVE FALSE
  OBVIOUS
<1>2. PICK z \in T : \A y \in T : z <= y
  BY <1>1, Least
<1>3. z \in Nat /\ z # 0
  BY <1>2
<1>4. z - 1 \in Nat /\ z - 1 \notin T
  BY <1>2, <1>3
<1>5. z - 1 + 1 \in S
  BY <1>4
<1>6. QED
  BY <1>5, <1>3

(* What holds of the roots of a forest, and of a block if it does of the   *)
(* one it is linked to, holds of every block: the greatest exception would *)
(* be linked to a greater one.                                             *)
LEMMA TreeInduction ==
  ASSUME N \in Nat, NEW f, Ordered(f), NEW S,
         \A c \in All : f[c] = None => c \in S,
         \A c \in All : f[c] # None /\ f[c] \in S => c \in S
  PROVE  All \subseteq S
<1> DEFINE T == {n \in Nat : N - n \in All \ S}
<1>1. \A c \in All : c \in Nat /\ c <= N /\ N - c \in Nat /\ N - (N - c) = c
  BY DEF All, Listed, Blk, Ret
<1>2. SUFFICES ASSUME T # {} PROVE FALSE
  BY <1>1
<1>3. PICK n \in T : \A m \in T : n <= m
  BY <1>2, Least
<1>4. N - n \in All /\ N - n \notin S /\ n \in Nat
  BY <1>3
<1>5. f[N - n] \in All /\ f[N - n] \notin S
  BY <1>4 DEF Ordered
<1>6. N - n < f[N - n]
  BY <1>4, <1>5 DEF Ordered, None, All, Listed, Blk, Ret
<1>7. N - f[N - n] \in T
  BY <1>1, <1>5
<1>8. n <= N - f[N - n]
  BY <1>3, <1>7
<1>9. QED
  BY <1>6, <1>8, <1>5, <1>1, <1>4

(* A recursion along the links of a forest has a solution.                 *)
LEMMA TreeRecursion ==
  ASSUME N \in Nat, NEW f, Ordered(f), NEW V,
         NEW base \in [All -> V], NEW step \in [All -> [V -> V]]
  PROVE  \E g \in [All -> V] : \A c \in All :
           g[c] = IF f[c] = None THEN base[c] ELSE step[c][g[f[c]]]
<1> DEFINE From(g, n) ==
             \A c \in All :
               /\ f[c] = None => g[c] = base[c]
               /\ f[c] # None /\ (c >= N - n \/ f[f[c]] = None) =>
                    g[c] = step[c][g[f[c]]]
           S == {n \in Nat : \E g \in [All -> V] : From(g, n)}
<1>1. \A c \in All : c \in Int /\ 0 <= c /\ c <= N /\ (f[c] # None => c < N /\ f[c] \in All)
  BY DEF Ordered, All, Listed, Blk, Ret
<1>2. 0 \in S
  <2> DEFINE g == [c \in All |-> IF f[c] = None THEN base[c] ELSE step[c][base[f[c]]]]
  <2>1. g \in [All -> V]
    BY <1>1
  <2>2. \A c \in All : f[c] = None => g[c] = base[c]
    OBVIOUS
  <2>3. ASSUME NEW c \in All, f[c] # None, f[f[c]] = None
        PROVE  g[c] = step[c][g[f[c]]]
    BY <2>2, <2>3, <1>1
  <2>4. From(g, 0)
    <3> HIDE DEF g
    <3>1. QED
      BY <2>2, <2>3, <1>1
  <2>5. QED
    BY <2>1, <2>4
<1>3. ASSUME NEW n \in Nat, n \in S PROVE n + 1 \in S
  <2>1. PICK g \in [All -> V] : From(g, n)
    BY <1>3
  <2>2. CASE N - (n + 1) \notin All \/ f[N - (n + 1)] = None
    <3>1. ASSUME NEW c \in All, c >= N - (n + 1), f[c] # None PROVE c >= N - n
      BY <3>1, <2>2, <1>1
    <3>2. From(g, n + 1)
      BY <3>1, <2>1
    <3>3. QED
      BY <3>2
  <2>3. CASE N - (n + 1) \in All /\ f[N - (n + 1)] # None
    <3> DEFINE m == N - (n + 1)
               h == [g EXCEPT ![m] = step[m][g[f[m]]]]
    <3>1. m \in All /\ f[m] # None /\ f[m] \in All /\ f[m] # m
      <4>1. m \in All /\ f[m] # None /\ f[m] \in All
        BY <2>3, <1>1
      <4>2. f[f[m]] # None => m < f[m]
        BY <4>1 DEF Ordered
      <4>3. QED
        BY <4>1, <4>2, <1>1
    <3>2. h \in [All -> V] /\ h[m] = step[m][g[f[m]]] /\ \A c \in All \ {m} : h[c] = g[c]
      BY <3>1
    <3> HIDE DEF h
    <3>3. ASSUME NEW c \in All, f[c] # None, c >= m \/ f[f[c]] = None
          PROVE  h[c] = step[c][h[f[c]]]
      <4>1. CASE c = m
        BY <4>1, <3>1, <3>2
      <4>2. CASE c # m
        <5>1. c >= N - n \/ f[f[c]] = None
          BY <4>2, <3>3, <1>1
        <5>2. f[c] # m
          <6>1. f[f[c]] = None => f[c] # m
            BY <3>1
          <6>2. f[f[c]] # None => c < f[c]
            BY <3>3 DEF Ordered
          <6>3. QED
            BY <6>1, <6>2, <3>3, <1>1
        <5>3. g[c] = step[c][g[f[c]]]
          BY <5>1, <3>3, <2>1
        <5>4. f[c] \in All
          BY <3>3, <1>1
        <5>5. QED
          BY <5>2, <5>3, <5>4, <4>2, <3>2
      <4>3. QED
        BY <4>1, <4>2
    <3>4. \A c \in All : f[c] = None => h[c] = base[c]
      BY <3>1, <3>2, <2>1
    <3>5. From(h, n + 1)
      BY <3>3, <3>4
    <3>6. QED
      BY <3>5, <3>2
  <2>4. QED
    BY <2>2, <2>3
<1>4. N \in S
  <2> HIDE DEF S
  <2>1. QED
    BY <1>2, <1>3, SetInduction
<1>5. PICK g \in [All -> V] : From(g, N)
  BY <1>4
<1>6. \A c \in All : c >= N - N
  BY <1>1
<1>7. QED
  BY <1>5, <1>6

-----------------------------------------------------------------------------
(* uffind: the roots of a forest and the paths to them.                    *)
IsRoots(f, g) == g = [c \in All |-> IF f[c] = None THEN c ELSE g[f[c]]]
IsPaths(f, g) == g = [c \in All |-> IF f[c] = None THEN {} ELSE {c} \cup g[f[c]]]

LEMMA RootsExist ==
  ASSUME N \in Nat, NEW f, Ordered(f)
  PROVE  \E g : IsRoots(f, g) /\ \A c \in All : Root(f, c) = g[c]
<1> DEFINE base == [c \in All |-> c]
           step == [c \in All |-> [v \in All |-> v]]
<1>1. base \in [All -> All] /\ step \in [All -> [All -> All]]
  OBVIOUS
<1>2. PICK g \in [All -> All] : \A c \in All :
        g[c] = IF f[c] = None THEN base[c] ELSE step[c][g[f[c]]]
  <2> HIDE DEF base, step
  <2> DEFINE Solved(V) ==
               \A bs \in [All -> V], st \in [All -> [V -> V]] :
                 \E g \in [All -> V] : \A c \in All :
                   g[c] = IF f[c] = None THEN bs[c] ELSE st[c][g[f[c]]]
  <2>1. \A V : Solved(V)
    BY TreeRecursion
  <2>2. Solved(All)
    <3> HIDE DEF Solved
    <3>1. QED
      BY <2>1
  <2>3. QED
    BY <1>1, <2>2
<1>3. \A c \in All : f[c] # None => f[c] \in All
  BY DEF Ordered
<1>4. IsRoots(f, g)
  <2>1. \A c \in All : g[c] = IF f[c] = None THEN c ELSE g[f[c]]
    BY <1>2, <1>3
  <2>2. QED
    BY <2>1 DEF IsRoots
<1>5. DOMAIN f = All
  BY DEF Ordered
<1> DEFINE u == CHOOSE h : IsRoots(f, h)
<1>6. IsRoots(f, u)
  BY <1>4
<1>7. \A c \in All : Root(f, c) = u[c]
  BY <1>5 DEF Root, IsRoots
<1>8. QED
  BY <1>6, <1>7

LEMMA PathsExist ==
  ASSUME N \in Nat, NEW f, Ordered(f)
  PROVE  \E g : IsPaths(f, g) /\ \A c \in All : Path(f, c) = g[c]
<1> DEFINE base == [c \in All |-> {}]
           step == [c \in All |-> [v \in SUBSET All |-> {c} \cup v]]
<1>1. base \in [All -> SUBSET All] /\ step \in [All -> [SUBSET All -> SUBSET All]]
  OBVIOUS
<1>2. PICK g \in [All -> SUBSET All] : \A c \in All :
        g[c] = IF f[c] = None THEN base[c] ELSE step[c][g[f[c]]]
  <2> HIDE DEF base, step
  <2> DEFINE Solved(V) ==
               \A bs \in [All -> V], st \in [All -> [V -> V]] :
                 \E g \in [All -> V] : \A c \in All :
                   g[c] = IF f[c] = None THEN bs[c] ELSE st[c][g[f[c]]]
  <2>1. \A V : Solved(V)
    BY TreeRecursion
  <2>2. Solved(SUBSET All)
    <3> HIDE DEF Solved
    <3>1. QED
      BY <2>1
  <2>3. QED
    BY <1>1, <2>2
<1>3. \A c \in All : f[c] # None => f[c] \in All
  BY DEF Ordered
<1>4. IsPaths(f, g)
  <2>1. \A c \in All : g[c] = IF f[c] = None THEN {} ELSE {c} \cup g[f[c]]
    BY <1>2, <1>3
  <2>2. QED
    BY <2>1 DEF IsPaths
<1>5. DOMAIN f = All
  BY DEF Ordered
<1> DEFINE u == CHOOSE h : IsPaths(f, h)
<1>6. IsPaths(f, u)
  BY <1>4
<1>7. \A c \in All : Path(f, c) = u[c]
  BY <1>5 DEF Path, IsPaths
<1>8. QED
  BY <1>6, <1>7

LEMMA RootFacts ==
  ASSUME N \in Nat, NEW f, Ordered(f)
  PROVE  \A c \in All :
           /\ Root(f, c) \in All /\ f[Root(f, c)] = None
           /\ Root(f, c) = IF f[c] = None THEN c ELSE Root(f, f[c])
<1>1. PICK g : IsRoots(f, g) /\ \A c \in All : Root(f, c) = g[c]
  BY RootsExist
<1>2. \A c \in All : f[c] # None => f[c] \in All
  BY DEF Ordered
<1>3. \A c \in All : g[c] = IF f[c] = None THEN c ELSE g[f[c]]
  BY <1>1 DEF IsRoots
<1> DEFINE S == {c \in All : g[c] \in All /\ f[g[c]] = None}
<1>4. All \subseteq S
  <2>1. \A c \in All : f[c] = None => c \in S
    BY <1>3
  <2>2. \A c \in All : f[c] # None /\ f[c] \in S => c \in S
    BY <1>3
  <2> HIDE DEF S
  <2>3. QED
    BY <2>1, <2>2, TreeInduction
<1>5. QED
  BY <1>1, <1>2, <1>3, <1>4

LEMMA PathFacts ==
  ASSUME N \in Nat, NEW f, Ordered(f), NEW a \in All
  PROVE  \A c \in Path(f, a) : c \in All /\ f[c] # None /\ Root(f, c) = Root(f, a)
<1>1. PICK g : IsPaths(f, g) /\ \A c \in All : Path(f, c) = g[c]
  BY PathsExist
<1>2. \A c \in All : f[c] # None => f[c] \in All
  BY DEF Ordered
<1>3. \A c \in All : g[c] = IF f[c] = None THEN {} ELSE {c} \cup g[f[c]]
  BY <1>1 DEF IsPaths
<1>4. \A c \in All : f[c] # None => Root(f, c) = Root(f, f[c])
  BY RootFacts
<1> DEFINE S == {z \in All : \A c \in g[z] :
                               c \in All /\ f[c] # None /\ Root(f, c) = Root(f, z)}
<1>5. All \subseteq S
  <2>1. \A c \in All : f[c] = None => c \in S
    BY <1>3
  <2>2. \A c \in All : f[c] # None /\ f[c] \in S => c \in S
    BY <1>3, <1>4
  <2> HIDE DEF S
  <2>3. QED
    BY <2>1, <2>2, TreeInduction
<1>6. QED
  BY <1>1, <1>5

(* Compressing a path changes no root.                                     *)
LEMMA CompressFacts ==
  ASSUME N \in Nat, NEW f, Ordered(f), NEW a \in All
  PROVE  /\ Ordered(Compress(f, a))
         /\ \A c \in All : /\ Compress(f, a)[c] = None <=> f[c] = None
                           /\ Root(Compress(f, a), c) = Root(f, c)
<1> DEFINE h == Compress(f, a)
           r == Root(f, a)
<1>1. r \in All /\ f[r] = None /\ r # None /\ Root(f, r) = r
  BY RootFacts DEF None, All, Listed, Blk, Ret
<1>2. \A c \in All : f[c] # None => f[c] \in All
  BY DEF Ordered
<1>3. h = [c \in All |-> IF c \in Path(f, a) THEN r ELSE f[c]]
  BY DEF Compress, Ordered
<1> HIDE DEF h, r
<1>4. \A c \in Path(f, a) : c \in All /\ f[c] # None /\ Root(f, c) = r
  BY PathFacts DEF r
<1>5. \A c \in All : h[c] = None <=> f[c] = None
  BY <1>1, <1>3, <1>4
<1>6. Ordered(h)
  <2>1. h \in [All -> All \cup {None}]
    BY <1>1, <1>2, <1>3
  <2>2. h[Ret] = None
    BY <1>5 DEF Ordered, All
  <2>3. ASSUME NEW c \in All, h[c] # None, h[h[c]] # None PROVE c < h[c]
    <3>1. c \notin Path(f, a)
      BY <1>1, <1>3, <1>5, <2>3
    <3>2. h[c] = f[c] /\ f[c] \in All /\ f[c] # None
      BY <1>2, <1>3, <1>5, <3>1, <2>3
    <3>3. f[f[c]] # None
      BY <1>5, <2>3, <3>2
    <3>4. QED
      BY <3>2, <3>3 DEF Ordered
  <2>4. QED
    BY <2>1, <2>2, <2>3 DEF Ordered
<1>7. \A c \in All : Root(h, c) = Root(f, c)
  <2> DEFINE S == {c \in All : Root(h, c) = Root(f, c)}
  <2>1. \A c \in All : h[c] = None => c \in S
    BY <1>5, <1>6, RootFacts
  <2>2. ASSUME NEW c \in All, h[c] # None, h[c] \in S PROVE c \in S
    <3>1. Root(h, c) = Root(f, h[c])
      BY <1>6, <2>2, RootFacts
    <3>2. CASE c \in Path(f, a)
      BY <1>1, <1>3, <1>4, <3>1, <3>2
    <3>3. CASE c \notin Path(f, a)
      <4>1. h[c] = f[c] /\ f[c] # None
        BY <1>3, <1>5, <2>2, <3>3
      <4>2. Root(f, c) = Root(f, f[c])
        BY <4>1, RootFacts
      <4>3. QED
        BY <3>1, <4>1, <4>2
    <3>4. QED
      BY <3>2, <3>3
  <2>3. All \subseteq S
    <3> HIDE DEF S
    <3>1. QED
      BY <1>6, <2>1, <2>2, TreeInduction
  <2>4. QED
    BY <2>3
<1>8. QED
  BY <1>5, <1>6, <1>7 DEF h

(* Linking a root to another one joins their trees.                        *)
Linking(f, z, r, h) ==
  /\ Ordered(f) /\ z \in Listed /\ r \in All
  /\ f[z] = None /\ f[r] = None /\ r # z
  /\ \A c \in All : f[c] # None => c < z
  /\ h = [f EXCEPT ![z] = r]
Grown(f, z, r, h) ==
  /\ Ordered(h)
  /\ \A c \in All : /\ h[c] = None <=> f[c] = None /\ c # z
                    /\ Root(h, c) = IF Root(f, c) = z THEN r ELSE Root(f, c)

LEMMA LinkFacts ==
  ASSUME N \in Nat, NEW f, NEW z, NEW r, NEW h, Linking(f, z, r, h)
  PROVE  Grown(f, z, r, h)
<1>0. /\ Ordered(f) /\ z \in Listed /\ r \in All
      /\ f[z] = None /\ f[r] = None /\ r # z
      /\ \A c \in All : f[c] # None => c < z
      /\ h = [f EXCEPT ![z] = r]
  BY DEF Linking
<1>1. z \in All /\ r # None /\ z # Ret /\ Ret \in All
  BY <1>0 DEF None, All, Listed, Blk, Ret
<1>2. f \in [All -> All \cup {None}]
  BY <1>0 DEF Ordered
<1>3. h \in [All -> All \cup {None}] /\ h[z] = r /\ \A c \in All \ {z} : h[c] = f[c]
  BY <1>0, <1>1, <1>2
<1>4. \A c \in All : h[c] = None <=> f[c] = None /\ c # z
  BY <1>0, <1>1, <1>3
<1>5. Ordered(h)
  <2>1. h[Ret] = None
    BY <1>0, <1>1, <1>3 DEF Ordered
  <2>2. ASSUME NEW c \in All, h[c] # None, h[h[c]] # None PROVE c < h[c]
    <3>1. c # z
      BY <1>0, <1>3, <2>2
    <3>2. h[c] = f[c] /\ f[c] # None /\ f[c] \in All
      BY <1>2, <1>3, <2>2, <3>1
    <3>3. CASE f[c] = z
      BY <1>0, <3>2, <3>3
    <3>4. CASE f[c] # z
      <4>1. f[f[c]] # None
        BY <1>3, <2>2, <3>2, <3>4
      <4>2. QED
        BY <1>0, <3>2, <4>1 DEF Ordered
    <3>5. QED
      BY <3>3, <3>4
  <2>3. QED
    BY <1>3, <2>1, <2>2 DEF Ordered
<1>6. \A c \in All : Root(h, c) = IF Root(f, c) = z THEN r ELSE Root(f, c)
  <2> DEFINE S == {c \in All : Root(h, c) = IF Root(f, c) = z THEN r ELSE Root(f, c)}
  <2>1. \A c \in All : h[c] = None => c \in S
    <3>1. \A c \in All : h[c] = None => Root(h, c) = c
      BY <1>5, RootFacts
    <3>2. \A c \in All : f[c] = None => Root(f, c) = c
      BY <1>0, RootFacts
    <3>3. QED
      BY <1>4, <3>1, <3>2
  <2>2. ASSUME NEW c \in All, h[c] # None, h[c] \in S PROVE c \in S
    <3>1. CASE c = z
      <4>1. Root(h, z) = Root(h, r)
        BY <1>0, <1>1, <1>3, <1>5, RootFacts
      <4>2. Root(h, r) = r
        BY <1>0, <1>1, <1>4, <1>5, RootFacts
      <4>3. Root(f, z) = z
        BY <1>0, <1>1, RootFacts
      <4>4. QED
        BY <3>1, <4>1, <4>2, <4>3
    <3>2. CASE c # z
      <4>1. h[c] = f[c] /\ f[c] # None
        BY <1>3, <2>2, <3>2
      <4>2. Root(h, c) = Root(h, f[c]) /\ Root(f, c) = Root(f, f[c])
        BY <1>0, <1>5, <4>1, <2>2, RootFacts
      <4>3. QED
        BY <2>2, <4>1, <4>2
    <3>3. QED
      BY <3>1, <3>2
  <2>3. All \subseteq S
    <3> HIDE DEF S
    <3>1. QED
      BY <1>5, <2>1, <2>2, TreeInduction
  <2>4. QED
    BY <2>3
<1>7. QED
  BY <1>4, <1>5, <1>6 DEF Grown

-----------------------------------------------------------------------------
(* The invariant.                                                          *)
LEMMA JumpFacts ==
  ASSUME N \in Nat, NEW j \in ThreadJumps
  PROVE  /\ j[1] \in {"ret0", "hlt", "jmp", "br"}
         /\ j[1] \in {"ret0", "hlt"} => j[2] = None /\ j[3] = None
         /\ j[1] = "jmp" => j[2] \in Listed /\ j[3] = None
         /\ j[1] = "br" => j[2] \in Listed /\ j[3] \in Listed
<1>1. CASE j \in {<<k, None, None>> : k \in {"ret0", "hlt"}}
  BY <1>1
<1>2. CASE j \in {<<"jmp", t, None>> : t \in Listed \ {Start}}
  BY <1>2
<1>3. CASE \E u \in (Listed \ {Start}) \X (Listed \ {Start}) : j = <<"br", u[1], u[2]>>
  <2>1. PICK u \in (Listed \ {Start}) \X (Listed \ {Start}) : j = <<"br", u[1], u[2]>>
    BY <1>3
  <2>2. u[1] \in Listed /\ u[2] \in Listed
    OBVIOUS
  <2>3. QED
    BY <2>1, <2>2
<1>4. QED
  BY <1>1, <1>2, <1>3 DEF ThreadJumps

LEMMA NumberFacts ==
  ASSUME N \in Nat \ {0}
  PROVE  /\ Start \in Listed /\ Ret \in All /\ Ret \notin Listed /\ All = Listed \cup {Ret}
         /\ None \notin All /\ \A a \in All : a \in Int /\ (a \in Listed \/ a = Ret)
         /\ \A a \in Listed : a \in All /\ a # Ret
  BY DEF Start, Ret, Listed, Blk, All, None

LEMMA InitInv ==
  ASSUME N \in Nat \ {0}, ThreadInit
  PROVE  IInv
<1>1. PICK f \in [Listed -> ThreadJumps], E \in SUBSET Listed :
        /\ jmp = [a \in Listed \cup {Ret} |-> IF a = Ret THEN "ret0" ELSE f[a][1]]
        /\ s1 = [a \in Listed \cup {Ret} |-> IF a = Ret THEN None ELSE f[a][2]]
        /\ s2 = [a \in Listed \cup {Ret} |-> IF a = Ret THEN None ELSE f[a][3]]
        /\ code = [empty |-> E, jmp |-> jmp, s1 |-> s1, s2 |-> s2]
  BY DEF ThreadInit
<1>2. \A a \in Listed : f[a] \in ThreadJumps
  OBVIOUS
<1>3. \A a \in Listed : jmp[a] = f[a][1] /\ s1[a] = f[a][2] /\ s2[a] = f[a][3]
  BY <1>1, NumberFacts
<1>4. jmp[Ret] = "ret0" /\ s1[Ret] = None /\ s2[Ret] = None
  BY <1>1
<1>5. code.empty \subseteq Listed /\ code.jmp = jmp /\ code.s1 = s1 /\ code.s2 = s2
  BY <1>1
<1>6. \A a \in Listed :
        /\ jmp[a] \in {"ret0", "hlt", "jmp", "br"}
        /\ jmp[a] \in {"ret0", "hlt"} => s1[a] = None /\ s2[a] = None
        /\ jmp[a] = "jmp" => s1[a] \in Listed /\ s2[a] = None
        /\ jmp[a] = "br" => s1[a] \in Listed /\ s2[a] \in Listed
  BY <1>2, <1>3, JumpFacts
<1>7. CodeOK
  BY <1>4, <1>5, <1>6, NumberFacts DEF CodeOK
<1>8. tpc = "first" /\ tb = 0 /\ uf = [a \in All |-> None]
  BY DEF ThreadInit, Start, All
<1>9. Looked = {} /\ Replaced = {} /\ Linked = {}
  BY <1>8 DEF Looked, Replaced, Linked
<1>10. Trees
  BY <1>8, <1>9, NumberFacts DEF Trees, Ordered
<1>11. Blocks
  <2>1. jmp \in [All -> {"ret0", "hlt", "jmp", "br"}]
    BY <1>1, <1>3, <1>6, NumberFacts
  <2>2. s1 \in [All -> All \cup {None}] /\ s2 \in [All -> All \cup {None}]
    <3>1. \A a \in Listed : f[a][2] \in All \cup {None} /\ f[a][3] \in All \cup {None}
      BY <1>3, <1>6, NumberFacts
    <3>2. QED
      BY <1>1, <3>1, NumberFacts
  <2>3. QED
    BY <1>4, <1>5, <1>9, <2>1, <2>2 DEF Blocks, Original
<1>12. QED
  BY <1>7, <1>8, <1>10, <1>11 DEF IInv

(* The first loop at a block that passes runs on.                          *)
LEMMA TreesJoin ==
  ASSUME N \in Nat \ {0}, CodeOK, Trees, tpc = "first", tb \in Listed, tb \in Passing,
         Looked = 0 .. tb - 1,
         NEW r, r = Root(uf, Passed(tb)),
         uf' = IF r # tb THEN [Compress(uf, Passed(tb)) EXCEPT ![tb] = r]
                        ELSE Compress(uf, Passed(tb)),
         code' = code, Looked' = Looked \cup {tb}
  PROVE  /\ Trees'
         /\ \A c \in All : Root(uf', c) = IF Root(uf, c) = tb THEN r ELSE Root(uf, c)
         /\ Root(uf', r) = r /\ r \in All
<1> DEFINE t == Passed(tb)
           h == Compress(uf, t)
<1>1. \A a \in Passing : a \in Listed /\ Passed(a) \in All
  BY NumberFacts DEF Passing, Passed, CodeOK
<1>2. t \in All /\ tb \in All /\ r \in All /\ N \in Nat /\ Ordered(uf)
  BY <1>1, NumberFacts, RootFacts DEF Trees
<1>3. Ordered(h) /\ \A c \in All : (h[c] = None <=> uf[c] = None) /\ Root(h, c) = Root(uf, c)
  BY <1>2, CompressFacts
<1>4. uf[tb] = None /\ uf[r] = None /\ \A c \in All : uf[c] # None => c < tb
  <2>1. uf[r] = None
    BY <1>2, RootFacts
  <2>2. \A c \in All : uf[c] # None => c \in 0 .. tb - 1
    BY DEF Trees, Linked
  <2>3. tb \in Int
    BY DEF Listed, Blk
  <2>4. QED
    BY <1>2, <2>1, <2>2, <2>3
<1>5. Root(uf, tb) = tb /\ Root(uf, r) = r /\ Root(uf, t) = r
  BY <1>2, <1>4, RootFacts
<1>6. uf' = IF r # tb THEN [h EXCEPT ![tb] = r] ELSE h
  OBVIOUS
<1> HIDE DEF h
<1>7. /\ Ordered(uf')
      /\ \A c \in All : /\ uf'[c] = None <=> uf[c] = None /\ (c # tb \/ r = tb)
                        /\ Root(uf', c) = IF Root(uf, c) = tb THEN r ELSE Root(uf, c)
  <2>1. CASE r = tb
    BY <1>3, <1>6, <2>1
  <2>2. CASE r # tb
    <3>1. uf' = [h EXCEPT ![tb] = r]
      BY <1>6, <2>2
    <3>2. h[tb] = None /\ h[r] = None /\ \A c \in All : h[c] # None => c < tb
      BY <1>2, <1>3, <1>4
    <3>3. Linking(h, tb, r, uf')
      BY <1>2, <1>3, <2>2, <3>1, <3>2 DEF Linking
    <3>4. Grown(h, tb, r, uf')
      BY <1>2, <3>3, LinkFacts
    <3>5. QED
      BY <1>3, <2>2, <3>4 DEF Grown
  <2>3. QED
    BY <2>1, <2>2
<1>8. Passing' = Passing /\ \A a : Passed(a)' = Passed(a)
  BY DEF Passing, Passed
<1>9. Linked' = IF r = tb THEN Linked ELSE Linked \cup {tb}
  BY <1>2, <1>4, <1>7 DEF Linked
<1>10. Linked' \subseteq Passing \cap Looked'
  BY <1>9 DEF Trees
<1>11. \A a \in Passing \cap Looked' : Root(uf', Passed(a)) = Root(uf', a)
  <2>1. Root(uf', Passed(tb)) = Root(uf', tb)
    BY <1>2, <1>5, <1>7
  <2>2. \A a \in Passing \cap Looked : Root(uf', Passed(a)) = Root(uf', a)
    BY <1>1, <1>7, NumberFacts DEF Trees
  <2>3. QED
    BY <2>1, <2>2
<1>12. ASSUME NEW C \in SUBSET Linked', \A a \in C : Passed(a) \in C
       PROVE  C = {}
  <2>1. CASE tb \notin C
    BY <1>9, <1>12, <2>1 DEF Trees
  <2>2. CASE tb \in C
    <3> DEFINE D == {c \in C : Root(uf, c) # tb}
    <3>1. C \subseteq Linked \cup {tb} /\ r # tb
      BY <1>2, <1>4, <1>9, <2>2 DEF Linked
    <3>2. D \subseteq Linked
      BY <1>5, <3>1
    <3>3. \A c \in D : Passed(c) \in D
      BY <1>12, <3>2 DEF Trees
    <3>4. D = {}
      BY <3>2, <3>3 DEF Trees
    <3>5. t \in D
      BY <1>5, <1>12, <2>2, <3>1
    <3>6. QED
      BY <3>4, <3>5
  <2>3. QED
    BY <2>1, <2>2
<1>13. Trees'
  BY <1>7, <1>8, <1>10, <1>11, <1>12 DEF Trees
<1>14. Root(uf', r) = r
  BY <1>2, <1>5, <1>7
<1>15. QED
  BY <1>2, <1>7, <1>13, <1>14

LEMMA FirstInv ==
  ASSUME N \in Nat \ {0}, IInv, First
  PROVE  IInv'
<1> DEFINE j == IF jmp[tb] = "ret0" THEN "jmp" ELSE jmp[tb]
           t == IF jmp[tb] = "ret0" THEN Ret ELSE s1[tb]
<1>1. /\ tpc = "first" /\ tb \in Listed /\ tb \in All /\ tb \in Int /\ tb # Ret
      /\ CodeOK /\ Trees /\ Blocks
  BY NumberFacts DEF First, IInv
<1>2. /\ tpc' = "first" /\ tb' = tb + 1 /\ tb' \in 0 .. N /\ code' = code /\ s2' = s2
      /\ jmp' = [jmp EXCEPT ![tb] = j]
  BY <1>1 DEF First, Listed, Blk
<1>3. Looked = 0 .. tb - 1 /\ Looked' = Looked \cup {tb} /\ Replaced = {} /\ Replaced' = {}
  <2>1. 0 .. tb + 1 - 1 = 0 .. tb - 1 \cup {tb}
    BY <1>1 DEF Listed, Blk
  <2>2. QED
    BY <1>1, <1>2, <2>1 DEF Looked, Replaced
<1>4. CodeOK' /\ Passing' = Passing /\ \A a : Passed(a)' = Passed(a)
  BY <1>1, <1>2 DEF CodeOK, Passing, Passed
<1>5. Original(tb) /\ tb \notin Looked
  BY <1>1, <1>3 DEF Blocks
<1>6. Forwards(tb, j) <=> tb \in Passing
  BY <1>1, <1>5 DEF Forwards, Passing, Original, CodeOK
<1>7. code.jmp[tb] \in {"ret0", "jmp"} =>
        j = "jmp" /\ t = Passed(tb) /\ t \in All /\ s2[tb] = None
  BY <1>1, <1>5, NumberFacts DEF Passed, Original, CodeOK
<1>8. code.jmp[tb] \in {"hlt", "br"} => j = jmp[tb] /\ t = s1[tb]
  BY <1>5 DEF Original
<1>9. t \in All \cup {None} /\ j \in {"ret0", "hlt", "jmp", "br"}
  BY <1>1, NumberFacts DEF Blocks
<1>10. /\ jmp \in [All -> {"ret0", "hlt", "jmp", "br"}] /\ jmp[Ret] = "ret0"
       /\ s1 \in [All -> All \cup {None}] /\ s2 \in [All -> All \cup {None}]
  BY <1>1 DEF Blocks
<1> DEFINE w == IF tb \in Passing THEN Root(uf, t) ELSE t
<1>11. s1' = [s1 EXCEPT ![tb] = w]
  BY <1>6 DEF First
<1>12. \A a \in All \ {tb} : jmp'[a] = jmp[a] /\ s1'[a] = s1[a] /\ s2'[a] = s2[a]
  BY <1>2, <1>10, <1>11
<1>13. jmp'[tb] = j /\ s1'[tb] = w /\ s2'[tb] = s2[tb]
  BY <1>1, <1>2, <1>10, <1>11
<1>14. /\ Trees'
       /\ w \in All \cup {None}
       /\ \A c, d \in All : Root(uf, c) = Root(uf, d) => Root(uf', c) = Root(uf', d)
       /\ code.jmp[tb] \in {"ret0", "jmp"} =>
            w \in All /\ Root(uf', w) = Root(uf', Passed(tb))
       /\ code.jmp[tb] \in {"hlt", "br"} => w = s1[tb]
  <2>1. CASE tb \in Passing
    <3>1. code.jmp[tb] \in {"ret0", "jmp"} /\ t = Passed(tb)
      BY <1>7, <2>1 DEF Passing
    <3>2. w = Root(uf, Passed(tb))
      BY <2>1, <3>1
    <3>3. uf' = IF w # tb THEN [Compress(uf, Passed(tb)) EXCEPT ![tb] = w]
                         ELSE Compress(uf, Passed(tb))
      BY <1>6, <2>1, <3>1 DEF First
    <3> HIDE DEF w, t
    <3>4. /\ Trees'
          /\ \A c \in All : Root(uf', c) = IF Root(uf, c) = tb THEN w ELSE Root(uf, c)
          /\ Root(uf', w) = w /\ w \in All
      BY <1>1, <1>2, <1>3, <2>1, <3>2, <3>3, TreesJoin
    <3>5. Root(uf', Passed(tb)) = w
      BY <1>7, <3>1, <3>2, <3>4
    <3>6. QED
      BY <3>1, <3>4, <3>5
  <2>2. CASE tb \notin Passing
    <3>1. uf' = uf /\ w = t
      BY <1>6, <2>2 DEF First
    <3>2. Passing \cap Looked' = Passing \cap Looked
      BY <1>3, <2>2
    <3>3. Linked' = Linked
      BY <3>1 DEF Linked
    <3>4. Trees'
      BY <1>1, <1>3, <1>4, <3>1, <3>2, <3>3 DEF Trees, Ordered
    <3>5. QED
      BY <1>7, <1>8, <1>9, <3>1, <3>4
  <2>3. QED
    BY <2>1, <2>2
<1> HIDE DEF j, t, w
<1>15. ASSUME NEW a \in Listed, a = tb PROVE Joined(a)'
  <2>1. CASE code.jmp[a] \in {"ret0", "jmp"}
    BY <1>2, <1>4, <1>7, <1>13, <1>14, <1>15, <2>1 DEF Joined
  <2>2. CASE code.jmp[a] \in {"hlt", "br"}
    BY <1>2, <1>5, <1>8, <1>13, <1>14, <1>15, <2>2 DEF Joined, Original
  <2>3. QED
    BY <1>1, <2>1, <2>2 DEF CodeOK
<1>16. ASSUME NEW a \in Looked PROVE Joined(a)'
  <2>1. a \in Listed /\ a \in All /\ a # tb
    BY <1>1, <1>3 DEF Listed, Blk, All
  <2>2. Joined(a)
    BY <1>1, <1>3, <2>1 DEF Blocks
  <2>3. CASE code.jmp[a] \in {"ret0", "jmp"}
    <3>1. Passed(a) \in All
      BY <1>1, <2>1, <2>3, NumberFacts DEF Passed, CodeOK
    <3>2. QED
      BY <1>2, <1>4, <1>12, <1>14, <2>1, <2>2, <2>3, <3>1 DEF Joined
  <2>4. CASE code.jmp[a] \in {"hlt", "br"}
    BY <1>2, <1>12, <2>1, <2>2, <2>4 DEF Joined, Original
  <2>5. QED
    BY <1>1, <2>1, <2>3, <2>4 DEF CodeOK
<1>17. ASSUME NEW a \in Listed, a \notin Looked' PROVE Original(a)'
  <2>1. a \notin Looked /\ a # tb /\ a \in All
    BY <1>3, <1>17 DEF All
  <2>2. Original(a)
    BY <1>1, <2>1 DEF Blocks
  <2>3. QED
    BY <1>2, <1>12, <2>1, <2>2 DEF Original
<1>18. Blocks'
  <2>1. jmp' \in [All -> {"ret0", "hlt", "jmp", "br"}] /\ jmp'[Ret] = "ret0"
    BY <1>1, <1>2, <1>9, <1>10, <1>12, NumberFacts
  <2>2. s1' \in [All -> All \cup {None}] /\ s2' \in [All -> All \cup {None}]
    BY <1>2, <1>10, <1>11, <1>14
  <2>3. \A a \in Listed : /\ a \notin Looked' => Original(a)'
                          /\ a \in Looked' \ Replaced' => Joined(a)'
                          /\ a \in Replaced' => Threaded(a)'
    BY <1>3, <1>15, <1>16, <1>17
  <2>4. QED
    BY <2>1, <2>2, <2>3 DEF Blocks, Original, Joined, Threaded
<1>19. QED
  BY <1>2, <1>4, <1>14, <1>18 DEF IInv

LEMMA FirstEndInv ==
  ASSUME N \in Nat \ {0}, IInv, FirstEnd
  PROVE  IInv'
<1>1. tpc = "first" /\ tb \notin Listed /\ tb \in 0 .. N /\ CodeOK /\ Trees /\ Blocks
  BY DEF FirstEnd, IInv
<1>2. /\ tpc' = "second" /\ tb' = 0 /\ jmp' = jmp /\ s1' = s1 /\ s2' = s2
      /\ uf' = uf /\ code' = code
  BY DEF FirstEnd, Start
<1>3. Looked = Listed /\ Looked' = Listed /\ Replaced = {} /\ Replaced' = {}
  BY <1>1, <1>2 DEF Looked, Replaced, Listed, Blk
<1>4. CodeOK'
  BY <1>1, <1>2 DEF CodeOK
<1>5. Trees'
  BY <1>1, <1>2, <1>3 DEF Trees, Linked, Passing, Passed
<1>6. Blocks'
  BY <1>1, <1>2, <1>3 DEF Blocks, Original, Joined, Passed
<1>7. QED
  BY <1>2, <1>4, <1>5, <1>6 DEF IInv

LEMMA SecondInv ==
  ASSUME N \in Nat \ {0}, IInv, Second
  PROVE  IInv'
<1> DEFINE f1 == IF s1[tb] = None THEN uf ELSE Compress(uf, s1[tb])
           t1 == IF s1[tb] = None THEN None ELSE Root(uf, s1[tb])
           t2 == IF s2[tb] = None THEN None ELSE Root(f1, s2[tb])
           same == t1 # None /\ t1 = t2
<1>1. /\ tpc = "second" /\ tb \in Listed /\ tb \in All /\ tb \in Int /\ tb # Ret /\ N \in Nat
      /\ CodeOK /\ Trees /\ Blocks /\ Ordered(uf)
  BY NumberFacts DEF Second, IInv, Trees
<1>2. /\ jmp \in [All -> {"ret0", "hlt", "jmp", "br"}] /\ jmp[Ret] = "ret0"
      /\ s1 \in [All -> All \cup {None}] /\ s2 \in [All -> All \cup {None}]
  BY <1>1 DEF Blocks
<1>3. /\ tpc' = "second" /\ tb' = tb + 1 /\ tb' \in 0 .. N /\ code' = code
      /\ s1' = [s1 EXCEPT ![tb] = t1]
      /\ s2' = [s2 EXCEPT ![tb] = IF same THEN None ELSE t2]
      /\ jmp' = IF same THEN [jmp EXCEPT ![tb] = "jmp"] ELSE jmp
      /\ uf' = IF s2[tb] = None THEN f1 ELSE Compress(f1, s2[tb])
  BY <1>1 DEF Second, Listed, Blk
<1>4. /\ s1[tb] # None => s1[tb] \in All
      /\ s2[tb] # None => s2[tb] \in All
  BY <1>1, <1>2
<1>5. Ordered(f1) /\ \A c \in All : (f1[c] = None <=> uf[c] = None) /\ Root(f1, c) = Root(uf, c)
  BY <1>1, <1>4, CompressFacts
<1>6. t1 = IF s1[tb] = None THEN None ELSE Root(uf, s1[tb])
  OBVIOUS
<1>7. t2 = IF s2[tb] = None THEN None ELSE Root(uf, s2[tb])
  BY <1>4, <1>5
<1> HIDE DEF f1, t1, t2
<1>8. Ordered(uf') /\ \A c \in All : (uf'[c] = None <=> uf[c] = None) /\ Root(uf', c) = Root(uf, c)
  <2>1. CASE s2[tb] = None
    BY <1>3, <1>5, <2>1
  <2>2. CASE s2[tb] # None
    <3>1. uf' = Compress(f1, s2[tb])
      BY <1>3, <2>2
    <3>2. /\ Ordered(Compress(f1, s2[tb]))
          /\ \A c \in All : /\ Compress(f1, s2[tb])[c] = None <=> f1[c] = None
                            /\ Root(Compress(f1, s2[tb]), c) = Root(f1, c)
      BY <1>1, <1>4, <1>5, <2>2, CompressFacts
    <3>3. QED
      BY <1>5, <3>1, <3>2
  <2>3. QED
    BY <2>1, <2>2
<1>9. \A c \in All : Root(uf, c) \in All /\ Root(uf, c) # None
  BY <1>1, RootFacts, NumberFacts
<1>10. t1 \in All \cup {None} /\ t2 \in All \cup {None}
  BY <1>4, <1>6, <1>7, <1>9
<1>11. CodeOK' /\ Passing' = Passing /\ Linked' = Linked /\ \A a : Passed(a)' = Passed(a)
  BY <1>1, <1>3, <1>8 DEF CodeOK, Passing, Passed, Linked
<1>12. Looked = Listed /\ Looked' = Listed /\ Replaced = 0 .. tb - 1 /\ Replaced' = Replaced \cup {tb}
  <2>1. 0 .. tb + 1 - 1 = 0 .. tb - 1 \cup {tb}
    BY <1>1 DEF Listed, Blk
  <2>2. QED
    BY <1>1, <1>3, <2>1 DEF Looked, Replaced
<1>13. \A a \in Listed : /\ a \in All
                         /\ code.s1[a] # None => code.s1[a] \in All
                         /\ code.s2[a] # None => code.s2[a] \in All
                         /\ code.jmp[a] \in {"ret0", "jmp"} => Passed(a) \in All
  BY <1>1, NumberFacts DEF CodeOK, Passed
<1>14. Trees'
  <2>1. \A a \in Passing \cap Looked' : Root(uf', Passed(a)) = Root(uf', a)
    <3>1. \A a \in Passing : a \in Listed /\ code.jmp[a] \in {"ret0", "jmp"}
      BY <1>1 DEF Passing, CodeOK
    <3>2. \A a \in Passing : Passed(a) \in All /\ a \in All
      BY <1>13, <3>1 DEF Passed
    <3>3. QED
      BY <1>1, <1>8, <1>12, <3>2 DEF Trees
  <2>2. Linked' \subseteq Passing' \cap Looked'
    BY <1>1, <1>11, <1>12 DEF Trees
  <2>3. \A C \in SUBSET Linked' : (\A a \in C : Passed(a) \in C) => C = {}
    BY <1>1, <1>11 DEF Trees
  <2>4. QED
    BY <1>8, <1>11, <2>1, <2>2, <2>3 DEF Trees
<1>15. \A a \in All \ {tb} : jmp'[a] = jmp[a] /\ s1'[a] = s1[a] /\ s2'[a] = s2[a]
  BY <1>2, <1>3
<1>16. /\ s1'[tb] = t1 /\ s2'[tb] = (IF same THEN None ELSE t2)
       /\ jmp'[tb] = IF same THEN "jmp" ELSE jmp[tb]
  BY <1>1, <1>2, <1>3
<1>17. Joined(tb)
  BY <1>1, <1>12 DEF Blocks, Listed, Blk
<1>18. ASSUME NEW a \in Listed, a = tb PROVE Threaded(a)'
  <2>1. CASE code.jmp[a] \in {"ret0", "jmp"}
    <3>1. jmp[a] = "jmp" /\ s1[a] \in All /\ s2[a] = None /\ Root(uf, s1[a]) = Root(uf, Passed(a))
      BY <1>17, <1>18, <2>1 DEF Joined
    <3>2. t1 = Root(uf, Passed(a)) /\ t2 = None /\ t1 # None
      BY <1>6, <1>7, <1>9, <1>18, <3>1, NumberFacts
    <3>3. t1 = Root(uf', Passed(a))
      <4>1. Passed(a) \in All
        BY <1>13, <2>1 DEF Passed
      <4>2. QED
        BY <1>8, <3>2, <4>1
    <3>4. jmp'[a] = "jmp" /\ s1'[a] = Root(uf', Passed(a))
      BY <1>16, <1>18, <3>1, <3>3, <3>2
    <3>5. QED
      BY <1>3, <1>11, <2>1, <3>4 DEF Threaded
  <2>2. CASE code.jmp[a] = "hlt"
    <3>1. jmp[a] = "hlt" /\ s1[a] = None
      BY <1>1, <1>17, <1>18, <2>2 DEF Joined, Original, CodeOK
    <3>2. jmp'[a] = "hlt"
      BY <1>6, <1>16, <1>18, <3>1
    <3>3. QED
      BY <1>3, <2>2, <3>2 DEF Threaded
  <2>3. CASE code.jmp[a] = "br"
    <3>1. /\ jmp[a] = "br" /\ s1[a] = code.s1[a] /\ s2[a] = code.s2[a]
          /\ s1[a] \in All /\ s2[a] \in All
      BY <1>1, <1>13, <1>17, <1>18, <2>3, NumberFacts DEF Joined, Original, CodeOK
    <3>2. t1 = Root(uf', code.s1[a]) /\ t2 = Root(uf', code.s2[a])
      BY <1>6, <1>7, <1>8, <1>18, <3>1, NumberFacts
    <3>3. /\ s1'[a] = Root(uf', code.s1[a])
          /\ \/ jmp'[a] = "br" /\ s2'[a] = Root(uf', code.s2[a])
             \/ jmp'[a] = "jmp" /\ s1'[a] = Root(uf', code.s2[a])
      BY <1>16, <1>18, <3>1, <3>2
    <3>4. QED
      BY <1>3, <2>3, <3>3 DEF Threaded
  <2>4. QED
    BY <1>1, <2>1, <2>2, <2>3 DEF CodeOK
<1>19. ASSUME NEW a \in Replaced PROVE Threaded(a)'
  <2>1. a \in Listed /\ a \in All /\ a # tb
    BY <1>1, <1>12 DEF Listed, Blk, All
  <2>2. Threaded(a)
    BY <1>1, <2>1 DEF Blocks
  <2>3. CASE code.jmp[a] \in {"ret0", "jmp"}
    <3>1. Passed(a) \in All
      BY <1>13, <2>1, <2>3 DEF Passed
    <3>2. Passed(a)' = Passed(a) /\ Root(uf', Passed(a)) = Root(uf, Passed(a))
      BY <1>8, <1>11, <3>1
    <3>3. QED
      BY <1>3, <1>8, <1>15, <2>1, <2>2, <2>3, <3>2 DEF Threaded
  <2>4. CASE code.jmp[a] = "hlt"
    BY <1>3, <1>15, <2>1, <2>2, <2>4 DEF Threaded
  <2>5. CASE code.jmp[a] = "br"
    <3>1. code.s1[a] \in All /\ code.s2[a] \in All
      BY <1>1, <2>1, <2>5, NumberFacts DEF CodeOK
    <3>2. QED
      BY <1>3, <1>8, <1>15, <2>1, <2>2, <2>5, <3>1 DEF Threaded
  <2>6. QED
    BY <1>1, <2>1, <2>3, <2>4, <2>5 DEF CodeOK
<1>20. ASSUME NEW a \in Listed, a \notin Replaced' PROVE Joined(a)'
  <2>1. a \notin Replaced /\ a # tb /\ a \in All
    BY <1>12, <1>20 DEF All
  <2>2. Joined(a)
    BY <1>1, <1>12, <2>1 DEF Blocks
  <2>3. CASE code.jmp[a] \in {"ret0", "jmp"}
    <3>1. Passed(a) \in All
      BY <1>13, <2>1, <2>3 DEF Passed
    <3>2. Passed(a)' = Passed(a) /\ Root(uf', Passed(a)) = Root(uf, Passed(a))
      BY <1>8, <1>11, <3>1
    <3>3. QED
      BY <1>3, <1>8, <1>15, <2>1, <2>2, <2>3, <3>2 DEF Joined
  <2>4. CASE code.jmp[a] \in {"hlt", "br"}
    BY <1>3, <1>15, <2>1, <2>2, <2>4 DEF Joined, Original
  <2>5. QED
    BY <1>1, <2>3, <2>4 DEF CodeOK
<1>21. Blocks'
  <2>1. jmp' \in [All -> {"ret0", "hlt", "jmp", "br"}] /\ jmp'[Ret] = "ret0"
    BY <1>1, <1>2, <1>3, <1>15, NumberFacts
  <2>2. s1' \in [All -> All \cup {None}] /\ s2' \in [All -> All \cup {None}]
    BY <1>2, <1>3, <1>10
  <2>3. \A a \in Listed : /\ a \notin Looked' => Original(a)'
                          /\ a \in Looked' \ Replaced' => Joined(a)'
                          /\ a \in Replaced' => Threaded(a)'
    BY <1>12, <1>18, <1>19, <1>20
  <2>4. QED
    BY <2>1, <2>2, <2>3 DEF Blocks, Original, Joined, Threaded
<1>22. QED
  BY <1>3, <1>11, <1>14, <1>21 DEF IInv

LEMMA SecondEndInv ==
  ASSUME N \in Nat \ {0}, IInv, SecondEnd
  PROVE  IInv'
<1>1. tpc = "second" /\ tb \notin Listed /\ tb \in 0 .. N /\ CodeOK /\ Trees /\ Blocks
  BY DEF SecondEnd, IInv
<1>2. /\ tpc' = "done" /\ tb' = tb /\ jmp' = jmp /\ s1' = s1 /\ s2' = s2
      /\ uf' = uf /\ code' = code
  BY DEF SecondEnd
<1>3. Looked = Listed /\ Looked' = Listed /\ Replaced = Listed /\ Replaced' = Listed
  BY <1>1, <1>2 DEF Looked, Replaced, Listed, Blk
<1>4. CodeOK'
  BY <1>1, <1>2 DEF CodeOK
<1>5. Trees'
  BY <1>1, <1>2, <1>3 DEF Trees, Linked, Passing, Passed
<1>6. Blocks'
  BY <1>1, <1>2, <1>3 DEF Blocks, Threaded, Passed
<1>7. QED
  BY <1>1, <1>2, <1>4, <1>5, <1>6 DEF IInv

LEMMA StutterInv ==
  ASSUME IInv, UNCHANGED threadVars
  PROVE  IInv'
<1>1. /\ tpc' = tpc /\ tb' = tb /\ jmp' = jmp /\ s1' = s1 /\ s2' = s2
      /\ uf' = uf /\ code' = code
  BY DEF threadVars
<1>2. Looked' = Looked /\ Replaced' = Replaced
  BY <1>1 DEF Looked, Replaced
<1>3. CodeOK'
  BY <1>1 DEF IInv, CodeOK
<1>4. Trees'
  BY <1>1, <1>2 DEF IInv, Trees, Linked, Passing, Passed
<1>5. Blocks'
  BY <1>1, <1>2 DEF IInv, Blocks, Original, Joined, Threaded, Passed
<1>6. QED
  BY <1>1, <1>3, <1>4, <1>5 DEF IInv

THEOREM Invariance == ThreadSpec => []IInv
<1>1. ThreadInit => IInv
  BY NAssumption, InitInv
<1>2. IInv /\ [ThreadNext]_threadVars => IInv'
  BY NAssumption, FirstInv, FirstEndInv, SecondInv, SecondEndInv, StutterInv DEF ThreadNext
<1>3. QED
  BY <1>1, <1>2, PTL DEF ThreadSpec

-----------------------------------------------------------------------------
(* uffind returns, from whatever block it starts.                          *)
IsClimb(a, up) ==
  up = [k \in 0 .. N + 1 |-> IF k = 0 THEN a
                             ELSE LET c == up[k - 1] IN IF c = None THEN None ELSE uf[c]]

LEMMA ClimbExists ==
  ASSUME N \in Nat, NEW a
  PROVE  \E up : IsClimb(a, up)
<1> DEFINE To(up, n) ==
             up = [k \in 0 .. n |-> IF k = 0 THEN a
                                    ELSE LET c == up[k - 1]
                                         IN IF c = None THEN None ELSE uf[c]]
           S == {n \in Nat : \E up : To(up, n)}
<1>1. 0 \in S
  <2> DEFINE up == [k \in 0 .. 0 |-> a]
  <2>1. To(up, 0)
    OBVIOUS
  <2>2. QED
    BY <2>1
<1>2. ASSUME NEW n \in Nat, n \in S PROVE n + 1 \in S
  <2>1. PICK up : To(up, n)
    BY <1>2
  <2> DEFINE h == [k \in 0 .. n + 1 |->
                     IF k = 0 THEN a
                     ELSE LET c == up[k - 1] IN IF c = None THEN None ELSE uf[c]]
  <2>2. \A k \in 0 .. n : h[k] = up[k]
    BY <2>1
  <2>3. \A k \in 0 .. n + 1 : k # 0 => k - 1 \in 0 .. n
    OBVIOUS
  <2>4. To(h, n + 1)
    BY <2>2, <2>3
  <2>5. QED
    <3> HIDE DEF h, To
    <3>1. QED
      BY <2>4
<1>3. N + 1 \in S
  <2> HIDE DEF S
  <2>1. QED
    BY <1>1, <1>2, SetInduction
<1>4. QED
  BY <1>3 DEF IsClimb

(* After k steps along the links a path has come to block k - 1 at least,  *)
(* so after as many steps as there are blocks it has ended.                *)
LEMMA OrderedForest ==
  ASSUME N \in Nat \ {0}, Ordered(uf)
  PROVE  Forest
<1> SUFFICES ASSUME NEW a \in Listed
             PROVE  LET up[k \in 0 .. N + 1] ==
                          IF k = 0 THEN a
                          ELSE LET c == up[k - 1] IN IF c = None THEN None ELSE uf[c]
                    IN up[N + 1] = None
  BY DEF Forest
<1> DEFINE up == CHOOSE u : IsClimb(a, u)
<1>1. IsClimb(a, up)
  BY ClimbExists
<1> HIDE DEF up
<1>2. up[0] = a /\ a \in All /\ a \in Int /\ 0 <= a /\ N \in Nat
  BY <1>1 DEF IsClimb, All, Listed, Blk
<1>3. \A k \in 0 .. N : up[k + 1] = IF up[k] = None THEN None ELSE uf[up[k]]
  BY <1>1 DEF IsClimb
<1> DEFINE Up(k) == /\ up[k] \in All \cup {None}
                    /\ k > 0 /\ up[k] # None =>
                         /\ up[k - 1] \in All /\ uf[up[k - 1]] = up[k]
                         /\ up[k - 1] >= k - 1
           S == {k \in Nat : k <= N + 1 => Up(k)}
<1>4. 0 \in S
  BY <1>2
<1>5. ASSUME NEW k \in Nat, k \in S PROVE k + 1 \in S
  <2>1. SUFFICES ASSUME k + 1 <= N + 1 PROVE Up(k + 1)
    OBVIOUS
  <2>2. Up(k) /\ up[k + 1] = IF up[k] = None THEN None ELSE uf[up[k]]
    BY <1>2, <1>3, <1>5, <2>1
  <2>3. CASE up[k] = None
    BY <2>2, <2>3
  <2>4. CASE up[k] # None
    <3>1. up[k] \in All /\ up[k + 1] = uf[up[k]] /\ up[k + 1] \in All \cup {None}
      BY <2>2, <2>4 DEF Ordered
    <3>2. ASSUME up[k + 1] # None PROVE up[k] >= k
      <4>1. CASE k = 0
        BY <1>2, <4>1
      <4>2. CASE k # 0
        <5>1. up[k - 1] \in All /\ uf[up[k - 1]] = up[k] /\ up[k - 1] >= k - 1
          BY <2>2, <2>4, <4>2
        <5>2. up[k - 1] < up[k]
          BY <2>4, <3>1, <3>2, <5>1 DEF Ordered
        <5>3. up[k - 1] \in Int /\ up[k] \in Int
          BY <1>2, <3>1, <5>1 DEF All, Listed, Blk, Ret
        <5>4. QED
          BY <5>1, <5>2, <5>3
      <4>3. QED
        BY <4>1, <4>2
    <3>3. k + 1 - 1 = k
      OBVIOUS
    <3>4. QED
      BY <3>1, <3>2, <3>3
  <2>5. QED
    BY <2>3, <2>4
<1>6. N + 1 \in S
  <2> HIDE DEF S
  <2>1. QED
    BY <1>2, <1>4, <1>5, SetInduction
<1>7. up[N + 1] = None
  <2>1. SUFFICES ASSUME up[N + 1] # None PROVE FALSE
    OBVIOUS
  <2>2. up[N] \in All /\ uf[up[N]] # None /\ up[N] >= N
    BY <1>2, <1>6, <2>1
  <2>3. up[N] = Ret
    BY <1>2, <2>2 DEF All, Listed, Blk, Ret
  <2>4. QED
    BY <2>2, <2>3 DEF Ordered
<1>8. QED
  BY <1>7 DEF up, IsClimb

(* uffind, which follows the trees of empty blocks without a bound,        *)
(* returns in functions of any number of blocks: the trees have no cycle.  *)
THEOREM FindReturns == ThreadSpec => []Forest
<1>1. IInv => Forest
  BY NAssumption, OrderedForest DEF IInv, Trees
<1>2. ThreadSpec => []IInv
  BY Invariance
<1>3. QED
  BY <1>1, <1>2, PTL

-----------------------------------------------------------------------------
(* What a run meets, as an equation for the function that Meets follows.   *)
Passes(j, c) ==
  /\ c \in code.empty \/ c = Ret
  /\ j[c] = "jmp" /\ code.jmp[c] # "br"
Ending(j, c) == IF c \in code.empty /\ j[c] = "ret0" THEN Ret ELSE c

IsGo(j, t, n, go) ==
  go = [k \in 0 .. n |->
          [c \in Listed \cup {Ret} |->
             IF c \notin code.empty /\ c # Ret THEN c
             ELSE IF j[c] = "ret0" THEN Ret
             ELSE IF j[c] # "jmp" \/ code.jmp[c] = "br" THEN c
             ELSE IF k = 0 THEN None
             ELSE go[k - 1][t[c]]]]

LEMMA GoExists ==
  ASSUME N \in Nat, NEW j, NEW t
  PROVE  \E go : IsGo(j, t, N + 1, go)
<1> DEFINE S == {n \in Nat : \E go : IsGo(j, t, n, go)}
           Step(k, v) ==
             [c \in Listed \cup {Ret} |->
                IF c \notin code.empty /\ c # Ret THEN c
                ELSE IF j[c] = "ret0" THEN Ret
                ELSE IF j[c] # "jmp" \/ code.jmp[c] = "br" THEN c
                ELSE IF k = 0 THEN None
                ELSE v[t[c]]]
<1>1. \A n, go : IsGo(j, t, n, go) <=> go = [k \in 0 .. n |-> Step(k, go[k - 1])]
  BY DEF IsGo
<1> HIDE DEF Step
<1>2. 0 \in S
  <2> DEFINE go == [k \in 0 .. 0 |-> Step(0, 0)]
  <2>1. \A v : Step(0, v) = Step(0, 0)
    BY DEF Step
  <2>2. go = [k \in 0 .. 0 |-> Step(k, go[k - 1])]
    <3>1. \A k \in 0 .. 0 : go[k] = Step(k, go[k - 1])
      <4> HIDE DEF go
      <4>1. go[0] = Step(0, 0)
        BY DEF go
      <4>2. QED
        BY <2>1, <4>1
    <3>2. QED
      BY <3>1
  <2>3. QED
    BY <1>1, <2>2
<1>3. ASSUME NEW n \in Nat, n \in S PROVE n + 1 \in S
  <2>1. PICK go : go = [k \in 0 .. n |-> Step(k, go[k - 1])]
    BY <1>1, <1>3
  <2> DEFINE h == [k \in 0 .. n + 1 |-> Step(k, go[k - 1])]
  <2>2. \A k \in 0 .. n : h[k] = go[k]
    BY <2>1
  <2>3. \A k \in 0 .. n + 1 : Step(k, go[k - 1]) = Step(k, h[k - 1])
    <3>1. \A v : Step(0, v) = Step(0, 0)
      BY DEF Step
    <3>2. \A k \in 0 .. n + 1 : k # 0 => k - 1 \in 0 .. n
      OBVIOUS
    <3> HIDE DEF h
    <3>3. QED
      BY <2>2, <3>1, <3>2
  <2>4. h = [k \in 0 .. n + 1 |-> Step(k, h[k - 1])]
    BY <2>3
  <2>5. IsGo(j, t, n + 1, h)
    <3> HIDE DEF h
    <3>1. QED
      BY <1>1, <2>4
  <2>6. QED
    <3> HIDE DEF h
    <3>1. QED
      BY <2>5
<1>4. N + 1 \in S
  <2> HIDE DEF S
  <2>1. QED
    BY <1>2, <1>3, SetInduction
<1>5. QED
  BY <1>4

LEMMA GoFacts ==
  ASSUME N \in Nat, NEW j, NEW t
  PROVE  \E go : /\ \A a : Meets(j, t, a) = go[N + 1][a]
                 /\ \A k \in 0 .. N + 1 : \A c \in All :
                      go[k][c] = IF ~ Passes(j, c) THEN Ending(j, c)
                                 ELSE IF k = 0 THEN None ELSE go[k - 1][t[c]]
<1> DEFINE go == CHOOSE g : IsGo(j, t, N + 1, g)
<1>1. IsGo(j, t, N + 1, go)
  BY GoExists
<1>2. \A a : Meets(j, t, a) = go[N + 1][a]
  BY DEF Meets, IsGo
<1> HIDE DEF go
<1>3. ASSUME NEW k \in 0 .. N + 1, NEW c \in All
      PROVE  go[k][c] = IF ~ Passes(j, c) THEN Ending(j, c)
                        ELSE IF k = 0 THEN None ELSE go[k - 1][t[c]]
  <2>1. go[k] = [d \in Listed \cup {Ret} |->
                   IF d \notin code.empty /\ d # Ret THEN d
                   ELSE IF j[d] = "ret0" THEN Ret
                   ELSE IF j[d] # "jmp" \/ code.jmp[d] = "br" THEN d
                   ELSE IF k = 0 THEN None
                   ELSE go[k - 1][t[d]]]
    BY <1>1 DEF IsGo
  <2>2. go[k][c] = IF c \notin code.empty /\ c # Ret THEN c
                   ELSE IF j[c] = "ret0" THEN Ret
                   ELSE IF j[c] # "jmp" \/ code.jmp[c] = "br" THEN c
                   ELSE IF k = 0 THEN None
                   ELSE go[k - 1][t[c]]
    BY <2>1 DEF All
  <2>3. QED
    BY <2>2 DEF Passes, Ending
<1>4. QED
  BY <1>2, <1>3

(* What a run meets from block a on, in the function that came and in the  *)
(* one that goes.                                                          *)
Met(a) == IF Root(uf, a) \in Passing THEN None ELSE Root(uf, a)

LEMMA MetFacts ==
  ASSUME N \in Nat \ {0}, IInv, tpc = "done"
  PROVE  /\ \A c \in All : /\ Root(uf, c) \in All /\ Root(uf, c) # None
                           /\ Root(uf, Root(uf, c)) = Root(uf, c)
                           /\ c \notin Passing => Root(uf, c) = c
         /\ \A c \in Passing : /\ c \in Listed /\ Passed(c) \in All
                               /\ Root(uf, Passed(c)) = Root(uf, c)
         /\ Ret \notin Passing
<1>1. CodeOK /\ Trees /\ Looked = Listed /\ Ordered(uf) /\ N \in Nat
  BY DEF IInv, Looked, Trees
<1>2. \A c \in All : /\ Root(uf, c) \in All /\ uf[Root(uf, c)] = None
                     /\ uf[c] = None => Root(uf, c) = c
  BY <1>1, RootFacts
<1>3. \A c \in All : c \notin Passing => uf[c] = None
  BY <1>1 DEF Trees, Linked
<1>4. \A c \in Passing : c \in Listed /\ Passed(c) \in All
  BY <1>1, NumberFacts DEF CodeOK, Passing, Passed
<1>5. \A c \in Passing : Root(uf, Passed(c)) = Root(uf, c)
  BY <1>1, <1>4 DEF Trees
<1>6. QED
  BY <1>2, <1>3, <1>4, <1>5, NumberFacts

LEMMA BeforeIsMet ==
  ASSUME N \in Nat \ {0}, IInv, tpc = "done", NEW a \in All
  PROVE  Before(a) = Met(a)
<1>1. PICK go : /\ \A c : Before(c) = go[N + 1][c]
                /\ \A k \in 0 .. N + 1 : \A c \in All :
                     go[k][c] = IF ~ Passes(code.jmp, c) THEN Ending(code.jmp, c)
                                ELSE IF k = 0 THEN None ELSE go[k - 1][code.s1[c]]
  <2> DEFINE Goes(j, t) ==
               \E go : /\ \A c : Meets(j, t, c) = go[N + 1][c]
                       /\ \A k \in 0 .. N + 1 : \A c \in All :
                           go[k][c] = IF ~ Passes(j, c) THEN Ending(j, c)
                                      ELSE IF k = 0 THEN None ELSE go[k - 1][t[c]]
  <2>1. \A j, t : Goes(j, t)
    BY GoFacts
  <2>2. Goes(code.jmp, code.s1)
    <3> HIDE DEF Goes
    <3>1. QED
      BY <2>1
  <2>3. QED
    BY <2>2 DEF Before
<1>2. CodeOK /\ Trees
  BY DEF IInv
<1>3. ASSUME NEW c \in All, Passes(code.jmp, c)
      PROVE  c \in Passing /\ code.s1[c] = Passed(c) /\ Met(code.s1[c]) = Met(c)
  <2>1. c \in Passing /\ code.s1[c] = Passed(c)
    BY <1>2, <1>3 DEF Passes, Passing, Passed, CodeOK
  <2>2. QED
    BY <2>1, MetFacts DEF Met
<1>4. ASSUME NEW c \in All, ~ Passes(code.jmp, c)
      PROVE  Ending(code.jmp, c) = Met(c) /\ Met(c) # None
  <2>1. CASE c \in Passing
    <3>1. c \in code.empty /\ code.jmp[c] = "ret0"
      BY <1>4, <2>1 DEF Passes, Passing
    <3>2. Root(uf, c) = Ret
      BY <2>1, <3>1, MetFacts, NumberFacts DEF Passed
    <3>3. QED
      BY <3>1, <3>2, MetFacts, NumberFacts DEF Ending, Met
  <2>2. CASE c \notin Passing
    <3>1. Met(c) = c /\ c # None
      BY <2>2, MetFacts, NumberFacts DEF Met
    <3>2. Ending(code.jmp, c) = c
      BY <2>2 DEF Ending, Passing
    <3>3. QED
      BY <3>1, <3>2
  <2>3. QED
    BY <2>1, <2>2
<1> DEFINE Lost(k) == {c \in Listed : Met(c) # None /\ go[k][c] = None}
<1>5. ASSUME NEW k \in Nat, k <= N + 1, NEW c \in Lost(k)
      PROVE  /\ c \in Linked
             /\ k > 0 => Passed(c) \in Lost(k - 1)
  <2>1. c \in All /\ c \in Listed /\ Met(c) # None /\ go[k][c] = None /\ k \in 0 .. N + 1
    BY <1>5 DEF All
  <2>2. Passes(code.jmp, c)
    BY <1>1, <1>4, <2>1
  <2>3. c \in Passing /\ code.s1[c] = Passed(c) /\ Met(Passed(c)) # None /\ Passed(c) \in All
    BY <1>3, <2>1, <2>2, MetFacts
  <2>4. c \in Linked
    <3>1. Root(uf, c) # c
      BY <2>1, <2>3 DEF Met
    <3>2. QED
      BY <1>2, <2>1, <3>1, RootFacts DEF Trees, Linked
  <2>5. ASSUME k > 0 PROVE Passed(c) \in Lost(k - 1)
    <3>1. go[k - 1][Passed(c)] = None
      BY <1>1, <2>1, <2>2, <2>3, <2>5
    <3>2. k - 1 \in 0 .. N + 1
      BY <2>1, <2>5
    <3>3. Passed(c) # Ret
      <4>1. ~ Passes(code.jmp, Ret)
        BY <1>2 DEF Passes, CodeOK
      <4>2. QED
        BY <1>1, <1>4, <3>1, <3>2, <4>1, NumberFacts
    <3>4. QED
      BY <2>3, <3>1, <3>3, NumberFacts
  <2>6. QED
    BY <2>4, <2>5
<1>6. \A k \in 0 .. N + 1, c \in All : Passes(code.jmp, c) =>
        go[k][c] = IF k = 0 THEN None ELSE go[k - 1][Passed(c)]
  BY <1>1, <1>3
<1>7. \A c \in All : Passes(code.jmp, c) => Passed(c) \in All
  BY <1>3, MetFacts
<1>8. \A k \in Nat : k + 1 <= N + 1 => Lost(k + 1) \subseteq Lost(k)
  <2> DEFINE S == {k \in Nat : k + 1 <= N + 1 => Lost(k + 1) \subseteq Lost(k)}
  <2>1. ASSUME NEW k \in Nat, k + 1 <= N + 1, NEW c \in Lost(k + 1)
        PROVE  /\ c \in Listed /\ c \in All /\ Passes(code.jmp, c) /\ Met(c) # None
               /\ Passed(c) \in Lost(k)
    <3>1. c \in Listed /\ c \in All /\ Met(c) # None /\ go[k + 1][c] = None
      BY NumberFacts
    <3>2. k + 1 \in 0 .. N + 1 /\ k + 1 \in Nat /\ k + 1 > 0 /\ k + 1 - 1 = k
      BY <2>1
    <3>3. Passes(code.jmp, c)
      BY <1>1, <1>4, <3>1, <3>2
    <3>4. Passed(c) \in Lost(k + 1 - 1)
      <4> HIDE DEF Lost
      <4>1. QED
        BY <1>5, <2>1, <3>2
    <3>5. QED
      BY <3>1, <3>2, <3>3, <3>4
  <2>2. 0 \in S
    <3>1. SUFFICES ASSUME 0 + 1 <= N + 1, NEW c \in Lost(0 + 1) PROVE c \in Lost(0)
      OBVIOUS
    <3>2. c \in Listed /\ c \in All /\ Passes(code.jmp, c) /\ Met(c) # None
      BY <2>1, <3>1
    <3>3. go[0][c] = None
      BY <1>6, <3>2
    <3>4. QED
      BY <3>2, <3>3
  <2>3. ASSUME NEW k \in Nat, k \in S PROVE k + 1 \in S
    <3>1. SUFFICES ASSUME k + 1 + 1 <= N + 1, NEW c \in Lost(k + 1 + 1) PROVE c \in Lost(k + 1)
      OBVIOUS
    <3>2. c \in Listed /\ c \in All /\ Passes(code.jmp, c) /\ Met(c) # None /\ Passed(c) \in Lost(k + 1)
      BY <2>1, <3>1
    <3>3. Passed(c) \in Lost(k)
      BY <2>3, <3>1, <3>2
    <3>4. go[k + 1][c] = None
      <4>1. go[k][Passed(c)] = None
        BY <3>3
      <4>2. k + 1 \in 0 .. N + 1 /\ k + 1 # 0 /\ k + 1 - 1 = k
        BY <3>1
      <4> HIDE DEF Lost
      <4>3. QED
        BY <1>6, <3>2, <4>1, <4>2
    <3>5. QED
      BY <3>2, <3>4
  <2>4. Nat \subseteq S
    <3> HIDE DEF S
    <3>1. QED
      BY <2>2, <2>3, SetInduction
  <2>5. QED
    BY <2>4
<1>9. IsFiniteSet(Listed) /\ Cardinality(Listed) = N /\ N \in Nat
  <2>1. 0 \in Int /\ N - 1 \in Int /\ N \in Nat
    OBVIOUS
  <2>2. IsFiniteSet(0 .. N - 1) /\ Cardinality(0 .. N - 1) = IF 0 > N - 1 THEN 0 ELSE N - 1 - 0 + 1
    BY <2>1, FS_Interval
  <2>3. Listed = 0 .. N - 1
    BY <2>1 DEF Listed, Blk
  <2>4. QED
    BY <2>1, <2>2, <2>3
<1>10. \A k \in Nat : IsFiniteSet(Lost(k)) /\ Cardinality(Lost(k)) \in Nat /\ Cardinality(Lost(k)) <= N
  BY <1>9, FS_Subset, FS_CardinalityType
<1>11. \A k \in Nat : k <= N + 1 => Lost(k) \subseteq Linked
  BY <1>5
<1>12. \A k \in Nat : \A c : k + 1 <= N + 1 /\ c \in Lost(k + 1) => Passed(c) \in Lost(k)
  <2> HIDE DEF Lost
  <2>1. \A k \in Nat : k + 1 \in Nat /\ k + 1 > 0 /\ k + 1 - 1 = k
    OBVIOUS
  <2>2. QED
    BY <1>5, <2>1
<1> DEFINE Few(k) == Lost(k) = {} \/ Cardinality(Lost(k)) <= N - k
           S == {k \in Nat : k <= N + 1 => Few(k)}
<1>13. Lost(N + 1) = {}
  <2> HIDE DEF Lost
  <2>1. 0 \in S
    BY <1>9, <1>10
  <2>2. ASSUME NEW k \in Nat, k \in S PROVE k + 1 \in S
    <3>1. SUFFICES ASSUME k + 1 <= N + 1, Lost(k + 1) # {} PROVE Cardinality(Lost(k + 1)) <= N - (k + 1)
      OBVIOUS
    <3>2. Lost(k + 1) \subseteq Lost(k) /\ Lost(k) # {} /\ k <= N + 1
      BY <1>8, <1>9, <3>1
    <3>3. Lost(k + 1) # Lost(k)
      <4>1. SUFFICES ASSUME Lost(k + 1) = Lost(k) PROVE FALSE
        OBVIOUS
      <4>2. Lost(k) \in SUBSET Linked /\ \A c \in Lost(k) : Passed(c) \in Lost(k)
        BY <1>11, <1>12, <3>1, <3>2, <4>1
      <4>3. QED
        BY <1>2, <3>2, <4>2 DEF Trees
    <3>4. Cardinality(Lost(k)) <= N - k
      BY <2>2, <3>2
    <3>5. Cardinality(Lost(k + 1)) < Cardinality(Lost(k))
      <4>1. IsFiniteSet(Lost(k))
        BY <1>10
      <4>2. /\ Cardinality(Lost(k + 1)) <= Cardinality(Lost(k))
            /\ Cardinality(Lost(k + 1)) = Cardinality(Lost(k)) => Lost(k + 1) = Lost(k)
        BY <3>2, <4>1, FS_Subset
      <4>3. Cardinality(Lost(k)) \in Nat /\ Cardinality(Lost(k + 1)) \in Nat
        BY <1>10
      <4>4. QED
        BY <3>3, <4>2, <4>3
    <3>6. Cardinality(Lost(k)) \in Nat /\ Cardinality(Lost(k + 1)) \in Nat
      BY <1>10
    <3>7. QED
      BY <1>9, <3>4, <3>5, <3>6
  <2>3. N + 1 \in S
    <3> HIDE DEF S
    <3>1. Nat \subseteq S
      BY <2>1, <2>2, SetInduction
    <3>2. QED
      BY <1>9, <3>1
  <2>4. Cardinality(Lost(N + 1)) \in Nat
    BY <1>9, <1>10
  <2>5. QED
    BY <1>9, <2>3, <2>4
<1> HIDE DEF Lost
<1>14. \A k \in Nat : k <= N + 1 => \A c \in All : go[k][c] \in {None, Met(c)}
  <2> DEFINE T == {k \in Nat : k <= N + 1 => \A c \in All : go[k][c] \in {None, Met(c)}}
  <2>1. 0 \in T
    BY <1>1, <1>4, <1>6, <1>9
  <2>2. ASSUME NEW k \in Nat, k \in T PROVE k + 1 \in T
    <3>1. SUFFICES ASSUME k + 1 <= N + 1, NEW c \in All PROVE go[k + 1][c] \in {None, Met(c)}
      OBVIOUS
    <3>2. k + 1 \in 0 .. N + 1 /\ k + 1 # 0 /\ k + 1 - 1 = k
      BY <3>1
    <3>3. CASE Passes(code.jmp, c)
      <4>1. go[k + 1][c] = go[k][Passed(c)]
        BY <1>6, <3>2, <3>3
      <4>2. Passed(c) \in All /\ Met(Passed(c)) = Met(c)
        BY <1>3, <1>7, <3>3
      <4>3. QED
        BY <2>2, <3>1, <4>1, <4>2, <1>9
    <3>4. CASE ~ Passes(code.jmp, c)
      BY <1>1, <1>4, <3>2, <3>4
    <3>5. QED
      BY <3>3, <3>4
  <2>3. Nat \subseteq T
    <3> HIDE DEF T
    <3>1. QED
      BY <2>1, <2>2, SetInduction
  <2>4. QED
    BY <2>3
<1>15. go[N + 1][a] \in {None, Met(a)}
  BY <1>9, <1>14
<1>16. ASSUME Met(a) # None, go[N + 1][a] = None PROVE FALSE
  <2>1. CASE a \in Listed
    BY <1>13, <1>16, <2>1 DEF Lost
  <2>2. CASE a = Ret
    <3>1. ~ Passes(code.jmp, Ret)
      BY <1>2 DEF Passes, CodeOK
    <3>2. QED
      BY <1>1, <1>4, <1>9, <1>16, <2>2, <3>1, NumberFacts
  <2>3. QED
    BY <2>1, <2>2, NumberFacts
<1>17. QED
  BY <1>1, <1>15, <1>16

LEMMA AfterIsMet ==
  ASSUME N \in Nat \ {0}, IInv, tpc = "done", NEW a \in All
  PROVE  After(a) = Met(a)
<1>1. PICK go : /\ \A c : After(c) = go[N + 1][c]
                /\ \A k \in 0 .. N + 1 : \A c \in All :
                     go[k][c] = IF ~ Passes(jmp, c) THEN Ending(jmp, c)
                                ELSE IF k = 0 THEN None ELSE go[k - 1][s1[c]]
  BY GoFacts DEF After
<1>2. CodeOK /\ Blocks /\ \A c \in Listed : Threaded(c)
  BY DEF IInv, Blocks, Replaced
<1>3. \A c \in All : Passes(jmp, c) <=> c \in Passing
  <2>1. ASSUME NEW c \in Listed PROVE Passes(jmp, c) <=> c \in Passing
    <3>1. c # Ret /\ code.jmp[c] \in {"ret0", "hlt", "jmp", "br"} /\ Threaded(c)
      BY <1>2, NumberFacts DEF CodeOK
    <3>2. CASE c \in code.empty
      <4>1. code.jmp[c] \in {"ret0", "jmp"} => jmp[c] = "jmp"
        BY <3>1 DEF Threaded
      <4>2. code.jmp[c] = "hlt" => jmp[c] = "hlt"
        BY <3>1 DEF Threaded
      <4>3. QED
        BY <3>1, <3>2, <4>1, <4>2 DEF Passes, Passing
    <3>3. CASE c \notin code.empty
      BY <3>1, <3>3 DEF Passes, Passing
    <3>4. QED
      BY <3>2, <3>3
  <2>2. ~ Passes(jmp, Ret)
    BY <1>2 DEF Passes, Blocks
  <2>3. QED
    BY <2>1, <2>2, MetFacts, NumberFacts
<1>4. \A c \in Passing : s1[c] = Root(uf, c)
  BY <1>2, MetFacts DEF Threaded, Passing
<1>5. ASSUME NEW c \in All, c \notin Passing PROVE Ending(jmp, c) = c /\ Met(c) = c
  <2>1. Met(c) = c
    BY <1>5, MetFacts DEF Met
  <2>2. c \in code.empty => jmp[c] # "ret0"
    BY <1>2, <1>5 DEF CodeOK, Threaded, Passing
  <2>3. QED
    BY <2>1, <2>2 DEF Ending
<1>6. N \in Nat /\ N + 1 \in 0 .. N + 1 /\ N \in 0 .. N + 1 /\ N + 1 # 0 /\ N + 1 - 1 = N
  OBVIOUS
<1>7. CASE a \notin Passing
  BY <1>1, <1>3, <1>5, <1>6, <1>7
<1>8. CASE a \in Passing
  <2> DEFINE r == Root(uf, a)
  <2>1. r \in All /\ Root(uf, r) = r /\ Met(a) = IF r \in Passing THEN None ELSE r
    BY MetFacts DEF Met
  <2>2. After(a) = go[N][r]
    <3>1. Passes(jmp, a) /\ s1[a] = r
      BY <1>3, <1>4, <1>8
    <3> HIDE DEF r
    <3>2. go[N + 1][a] = go[N + 1 - 1][s1[a]]
      BY <1>1, <1>6, <3>1
    <3>3. QED
      BY <1>1, <1>6, <3>1, <3>2
  <2> HIDE DEF r
  <2>3. CASE r \notin Passing
    BY <1>1, <1>3, <1>5, <1>6, <2>1, <2>2, <2>3
  <2>4. CASE r \in Passing
    <3>1. s1[r] = r /\ Passes(jmp, r)
      BY <1>3, <1>4, <2>1, <2>4
    <3>2. \A k \in 0 .. N + 1 : go[k][r] = IF k = 0 THEN None ELSE go[k - 1][r]
      BY <1>1, <2>1, <3>1
    <3> DEFINE S == {k \in Nat : k <= N + 1 => go[k][r] = None}
    <3>3. 0 \in S
      BY <1>6, <3>2
    <3>4. ASSUME NEW k \in Nat, k \in S PROVE k + 1 \in S
      <4>1. SUFFICES ASSUME k + 1 <= N + 1 PROVE go[k + 1][r] = None
        OBVIOUS
      <4>2. k + 1 \in 0 .. N + 1 /\ k + 1 # 0 /\ k + 1 - 1 = k /\ k <= N + 1
        BY <1>6, <4>1
      <4>3. QED
        BY <3>2, <3>4, <4>2
    <3>5. N \in S
      <4> HIDE DEF S
      <4>1. QED
        BY <1>6, <3>3, <3>4, SetInduction
    <3>6. QED
      BY <1>6, <2>1, <2>2, <2>4, <3>5
  <2>5. QED
    BY <2>3, <2>4
<1>9. QED
  BY <1>7, <1>8

LEMMA DoneSameRun ==
  ASSUME N \in Nat \ {0}, IInv, tpc = "done", NEW a \in Listed
  PROVE  SameRun(a)
<1>1. CodeOK /\ Threaded(a)
  BY DEF IInv, Blocks, Replaced
<1>2. \A c \in All : /\ Before(c) = Met(c) /\ After(c) = Met(c)
                     /\ Root(uf, c) \in All /\ Met(Root(uf, c)) = Met(c)
  BY BeforeIsMet, AfterIsMet, MetFacts DEF Met
<1>3. CASE code.jmp[a] = "ret0"
  <2>1. Passed(a) = Ret /\ Root(uf, Ret) = Ret
    BY <1>3, MetFacts, NumberFacts DEF Passed
  <2>2. QED
    BY <1>1, <1>3, <2>1 DEF SameRun, Threaded
<1>4. CASE code.jmp[a] = "hlt"
  BY <1>1, <1>4 DEF SameRun, Threaded
<1>5. CASE code.jmp[a] = "jmp"
  <2>1. Passed(a) = code.s1[a] /\ code.s1[a] \in All
    BY <1>1, <1>5, NumberFacts DEF Passed, CodeOK
  <2>2. jmp[a] = "jmp" /\ s1[a] = Root(uf, code.s1[a])
    BY <1>1, <1>5, <2>1 DEF Threaded
  <2>3. After(s1[a]) = Before(code.s1[a])
    BY <1>2, <2>1, <2>2
  <2>4. QED
    BY <1>5, <2>2, <2>3 DEF SameRun
<1>6. CASE code.jmp[a] = "br"
  <2>1. code.s1[a] \in All /\ code.s2[a] \in All
    BY <1>1, <1>6, NumberFacts DEF CodeOK
  <2>2. /\ s1[a] = Root(uf, code.s1[a])
        /\ \/ jmp[a] = "br" /\ s2[a] = Root(uf, code.s2[a])
           \/ jmp[a] = "jmp" /\ s1[a] = Root(uf, code.s2[a])
    BY <1>1, <1>6 DEF Threaded
  <2>3. After(s1[a]) = Before(code.s1[a])
    BY <1>2, <2>1, <2>2
  <2>4. After(IF jmp[a] = "jmp" THEN s1[a] ELSE s2[a]) = Before(code.s2[a])
    BY <1>2, <2>1, <2>2
  <2>5. QED
    BY <1>6, <2>3, <2>4 DEF SameRun
<1>7. QED
  BY <1>1, <1>3, <1>4, <1>5, <1>6 DEF CodeOK

(* A function whose jumps have been threaded does, behind every block,     *)
(* what the function that was allocated did.                               *)
THEOREM ThreadingKeepsRuns ==
  ThreadSpec => [](tpc = "done" => \A a \in Listed : SameRun(a))
<1>1. IInv => (tpc = "done" => \A a \in Listed : SameRun(a))
  BY NAssumption, DoneSameRun
<1>2. ThreadSpec => []IInv
  BY Invariance
<1>3. QED
  BY <1>1, <1>2, PTL

-----------------------------------------------------------------------------
(* The numbering.  Its inductive invariant, part by part.                  *)

(* The blocks of S, each once.                                             *)
Lists(s, S) == s \in Seq(Blk) /\ IsInjective(s) /\ ToSet(s) = S
(* The blocks in the list, those of them with an edge to b, and the blocks *)
(* that can be reached, in the list or not.                                *)
Inside == ToSet(link)
Into(b) == {a \in Inside : <<a, b>> \in edges}
Live == Closure({Start})

(* The successors of a block in the list are its edges, and its phi has an *)
(* argument for each edge that comes from the list.                        *)
Graph ==
  /\ link \in Seq(Blk) /\ IsInjective(link) /\ Start \in Inside
  /\ edges \subseteq Blk \X Blk
  /\ s1 \in [Blk -> Blk \cup {None}] /\ s2 \in [Blk -> Blk \cup {None}]
  /\ \A a \in Inside : Succs(a) = {b \in Blk : <<a, b>> \in edges}
  /\ DOMAIN phi \subseteq Blk /\ \A b \in DOMAIN phi : Lists(phi[b], Into(b))
(* Until the sweep, the list has every block with an edge.                 *)
Whole ==
  /\ nblk = Len(link) /\ edges \subseteq Inside \X Inside
  /\ \A a \in Blk \ Inside : Succs(a) = {}
(* And the predecessors are the blocks the arguments of a phi come from.   *)
Preds == pred \in [Blk -> Seq(Blk)] /\ \A b \in Blk : Lists(pred[b], Into(b))

(* Blocks whose visit has begun, and blocks that have their number.        *)
Open(b) == \E k \in 1 .. Len(stack) : stack[k] = Leave(b)
Finished == {b \in Blk : id[b] # Unset /\ ~Open(b)}
(* A block that waits for its number reaches all that waits above it; its  *)
(* successors have been visited or will be before its turn comes.  Every   *)
(* call but the first was made for an edge of a block that waits.          *)
Call == [blk : Blk \cup {None}, leave : BOOLEAN]
CallOK(k) ==
  /\ stack[k].leave => stack[k].blk # None /\ id[stack[k].blk] # Unset
  /\ stack[k].blk # None => stack[k].blk \in Live
  /\ stack[k].leave => \A c \in Blk : <<stack[k].blk, c>> \in edges =>
       id[c] # Unset \/ \E j \in 1 .. k - 1 : stack[j] = Visit(c)
  /\ stack[k].leave => \A j \in 1 .. k - 1 :
       /\ stack[j].blk # None => Reaches(stack[k].blk, stack[j].blk)
       /\ stack[j] # stack[k]
  /\ stack[k].blk \notin {None, Start} =>
       \E j \in k + 1 .. Len(stack) : stack[j].leave /\ <<stack[j].blk, stack[k].blk>> \in edges
(* Below all other calls is the one for the start block.                   *)
Bottom ==
  IF stack = <<>> THEN Start \in Finished /\ id[Start] = x + 1
  ELSE /\ stack[Len(stack)].blk = Start /\ Start \notin Finished
       /\ ~stack[Len(stack)].leave => Len(stack) = 1 /\ \A b \in Blk : id[b] = Unset
Calls == stack \in Seq(Call) /\ (\A k \in 1 .. Len(stack) : CallOK(k)) /\ Bottom
(* The numbers given are those above x, each once.  An edge of a finished  *)
(* block goes to a higher number, or to a block that reaches it, and one   *)
(* of the edges into it comes from a block that waits or has a lower one.  *)
Numbered ==
  /\ x \in -1 .. nblk - 1 /\ id \in [Blk -> Int]
  /\ \A b \in Blk : id[b] # Unset => b \in Live
  /\ \A b \in Finished : id[b] \in x + 1 .. nblk - 1
  /\ \A a, b \in Finished : id[a] = id[b] => a = b
  /\ \A i \in x + 1 .. nblk - 1 : \E b \in Finished : id[b] = i
  /\ \A a \in Finished, b \in Blk : <<a, b>> \in edges =>
       /\ id[b] # Unset
       /\ Reaches(b, a) \/ (b \in Finished /\ id[a] < id[b])
  /\ \A b \in Finished \ {Start} : \E a \in Blk :
       <<a, b>> \in edges /\ id[a] # Unset /\ (Open(a) \/ id[a] < id[b])

(* The sweep: the blocks passed have their final number, the others one    *)
(* that is greater by the blocks that were not reached.                    *)
Kept == {link[k] : k \in 1 .. at - 1}
Place(b) == IF b \in Kept THEN id[b] + gone ELSE id[b]
Sorted ==
  /\ at \in 1 .. Len(link) + 1 /\ gone \in Nat /\ nblk \in Nat
  /\ Kept \subseteq Live /\ Live \subseteq Inside
  /\ id \in [Blk -> Int] /\ \A b \in Blk \ Live : id[b] = Unset
  /\ \A b \in Live : Place(b) \in gone .. gone + nblk - 1
  /\ \A a, b \in Live : Place(a) = Place(b) => a = b
  /\ \A i \in gone .. gone + nblk - 1 : \E b \in Live : Place(b) = i
  /\ \A e \in edges : e[1] \in Live => Place(e[1]) < Place(e[2]) \/ Reaches(e[2], e[1])
  /\ \A b \in Live \ {Start} : \E a \in Live : <<a, b>> \in edges /\ Place(a) < Place(b)
  /\ Place(Start) = gone
  /\ rpo \in [1 .. nblk -> Blk \cup {None}] /\ \A b \in Kept : rpo[id[b] + 1] = b

(* The inductive invariant.                                                *)
RpoInv ==
  /\ pc \in {"preds", "number", "sweep", "done"}
  /\ Graph
  /\ pc \in {"preds", "number"} => Whole
  /\ pc # "preds" => Preds
  /\ pc = "number" => Calls /\ Numbered
  /\ pc \in {"sweep", "done"} => Sorted
  /\ pc = "done" => at = Len(link) + 1

(* A set that is enlarged step by step: the function its steps make.       *)
IsGrowth(step, base, k, w) ==
  w = [j \in 0 .. k |-> IF j = 0 THEN base ELSE step[w[j - 1]]]

LEMMA GrowthExists ==
  ASSUME NEW k \in Nat, NEW base, NEW step
  PROVE  \E w : IsGrowth(step, base, k, w)
<1> DEFINE S == {j \in Nat : \E w : IsGrowth(step, base, j, w)}
<1>1. 0 \in S
  <2> DEFINE w == [j \in 0 .. 0 |-> base]
  <2>1. IsGrowth(step, base, 0, w)
    BY DEF IsGrowth
  <2>2. QED
    BY <2>1
<1>2. ASSUME NEW j \in Nat, j \in S PROVE j + 1 \in S
  <2>1. PICK w : IsGrowth(step, base, j, w)
    BY <1>2
  <2> DEFINE h == [i \in 0 .. j + 1 |-> IF i = 0 THEN base ELSE step[w[i - 1]]]
  <2>2. \A i \in 0 .. j : h[i] = w[i]
    BY <2>1 DEF IsGrowth
  <2>3. \A i \in 0 .. j + 1 : i # 0 => i - 1 \in 0 .. j
    OBVIOUS
  <2>4. IsGrowth(step, base, j + 1, h)
    BY <2>2, <2>3 DEF IsGrowth
  <2>5. QED
    <3> HIDE DEF h
    <3>1. QED
      BY <2>4
<1>3. k \in S
  <2> HIDE DEF S
  <2>1. QED
    BY <1>1, <1>2, SetInduction
<1>4. QED
  BY <1>3

(* The k-th predecessor exists: the ranks of k numbers are 0 .. k - 1.     *)
LEMMA RankFacts ==
  ASSUME NEW S \in SUBSET Blk
  PROVE  /\ IsFiniteSet(S) /\ Cardinality(S) \in Nat
         /\ \A p \in S : Cardinality({q \in S : q < p}) \in 0 .. Cardinality(S) - 1
         /\ \A k \in 0 .. Cardinality(S) - 1 : \E p \in S : Cardinality({q \in S : q < p}) = k
         /\ \A p, r \in S : Cardinality({q \in S : q < p}) = Cardinality({q \in S : q < r}) => p = r
<1> DEFINE lower(p) == {q \in S : q < p}
           rank == [p \in S |-> Cardinality(lower(p))]
           c == Cardinality(S)
<1>1. \A b \in Blk : b \in Int
  BY DEF Blk
<1>2. IsFiniteSet(S) /\ c \in Nat
  <2>1. IsFiniteSet(Blk)
    BY NAssumption, FS_Interval DEF Blk
  <2>2. QED
    BY <2>1, FS_Subset, FS_CardinalityType
<1>3. ASSUME NEW T \in SUBSET S
      PROVE  /\ IsFiniteSet(T) /\ Cardinality(T) \in Nat /\ Cardinality(T) <= c
             /\ \A U \in SUBSET T : Cardinality(U) <= Cardinality(T) /\ (Cardinality(U) = Cardinality(T) => U = T)
  <2>1. IsFiniteSet(T) /\ Cardinality(T) <= c
    BY <1>2, FS_Subset
  <2>2. QED
    BY <2>1, FS_Subset, FS_CardinalityType
<1>4. \A p \in S : lower(p) \in SUBSET S /\ p \notin lower(p)
  BY <1>1
<1>5. \A p \in S : rank[p] \in 0 .. c - 1
  <2>1. ASSUME NEW p \in S PROVE rank[p] \in 0 .. c - 1
    <3>1. lower(p) \in SUBSET S /\ lower(p) # S
      BY <1>4
    <3> HIDE DEF lower
    <3>2. Cardinality(lower(p)) \in Nat /\ Cardinality(lower(p)) <= c
      BY <1>3, <3>1
    <3>3. Cardinality(lower(p)) # c
      BY <1>2, <3>1, FS_Subset
    <3>4. QED
      BY <1>2, <3>2, <3>3
  <2>2. QED
    BY <2>1
<1>6. ASSUME NEW p \in S, NEW r \in S, rank[p] = rank[r] PROVE p = r
  <2>1. ASSUME NEW u \in S, NEW v \in S, u < v PROVE rank[u] # rank[v]
    <3>1. lower(u) \in SUBSET lower(v) /\ u \in lower(v) /\ u \notin lower(u) /\ lower(v) \in SUBSET S
      BY <1>1, <2>1
    <3> HIDE DEF lower
    <3>2. QED
      BY <1>3, <3>1
  <2>2. p \in Int /\ r \in Int
    BY <1>1
  <2> HIDE DEF rank
  <2>3. QED
    BY <1>6, <2>1, <2>2
<1> HIDE DEF lower, c
<1>7. rank \in Injection(S, 0 .. c - 1)
  <2>1. rank \in [S -> 0 .. c - 1]
    BY <1>5
  <2> HIDE DEF rank
  <2>2. QED
    BY <1>6, <2>1 DEF Injection, IsInjective
<1>8. IsFiniteSet(0 .. c - 1) /\ Cardinality(0 .. c - 1) = c
  BY <1>2, FS_Interval
<1>9. rank \in Surjection(S, 0 .. c - 1)
  <2> HIDE DEF rank
  <2>1. QED
    BY <1>7, <1>8, FS_Injection DEF c
<1>10. \A k \in 0 .. c - 1 : \E p \in S : rank[p] = k
  <2> HIDE DEF rank
  <2>1. QED
    BY <1>9 DEF Surjection
<1>11. QED
  BY <1>2, <1>5, <1>6, <1>10 DEF c, lower

(* The blocks.                                                             *)
LEMMA BlkFacts ==
  /\ N \in Nat /\ N # 0 /\ Start \in Blk /\ Start = 0 /\ None = -1 /\ Unset = -1 /\ None \notin Blk
  /\ IsFiniteSet(Blk) /\ Cardinality(Blk) = N + 1 /\ Ret \in Blk /\ Blk = Listed \cup {Ret}
  /\ \A b \in Blk : b \in Int
<1>1. N \in Nat /\ N # 0
  BY NAssumption
<1>2. IsFiniteSet(0 .. N) /\ Cardinality(0 .. N) = N + 1
  BY <1>1, FS_Interval
<1>3. QED
  BY <1>1, <1>2 DEF Blk, Start, None, Unset, Listed, Ret

(* Sequences that list a set, each element once.                           *)
LEMMA ListsFacts ==
  ASSUME NEW s, NEW S, Lists(s, S)
  PROVE  /\ S \subseteq Blk /\ IsFiniteSet(S) /\ Len(s) \in Nat /\ Len(s) = Cardinality(S)
         /\ \A k \in 1 .. Len(s) : s[k] \in S
         /\ \A b \in S : \E k \in 1 .. Len(s) : s[k] = b
         /\ \A j, k \in 1 .. Len(s) : s[j] = s[k] => j = k
<1>1. s \in Seq(Blk) /\ Len(s) \in Nat /\ DOMAIN s = 1 .. Len(s)
  BY DEF Lists
<1>2. S = {s[k] : k \in 1 .. Len(s)}
  BY <1>1 DEF Lists, ToSet
<1>3. \A j, k \in 1 .. Len(s) : s[j] = s[k] => j = k
  BY <1>1 DEF Lists, IsInjective
<1>4. S \subseteq Blk
  BY <1>1, <1>2
<1>5. IsFiniteSet(S)
  BY <1>4, BlkFacts, FS_Subset
<1>6. s \in Bijection(1 .. Len(s), S)
  <2>1. s \in [1 .. Len(s) -> S]
    BY <1>1, <1>2
  <2>2. QED
    BY <1>1, <1>2, <1>3, <2>1 DEF Bijection, Injection, Surjection, IsInjective
<1>7. Cardinality(S) = Len(s)
  BY <1>1, <1>6, FS_CountingElements DEF ExistsBijection
<1>8. QED
  BY <1>1, <1>2, <1>3, <1>4, <1>5, <1>7

LEMMA ListsIntro ==
  ASSUME NEW S \in SUBSET Blk, NEW n \in Nat, NEW s, s = [k \in 1 .. n |-> s[k]],
         \A k \in 1 .. n : s[k] \in S,
         \A b \in S : \E k \in 1 .. n : s[k] = b,
         \A j, k \in 1 .. n : s[j] = s[k] => j = k
  PROVE  Lists(s, S) /\ Len(s) = n
<1>1. s \in [1 .. n -> Blk] /\ DOMAIN s = 1 .. n
  OBVIOUS
<1>2. s \in Seq(Blk) /\ Len(s) = n
  BY <1>1
<1>3. ToSet(s) = S
  BY <1>1 DEF ToSet
<1>4. IsInjective(s)
  BY <1>1 DEF IsInjective
<1>5. QED
  BY <1>2, <1>3, <1>4 DEF Lists

(* The lists the code makes of a set, and what qbe_edgedel leaves of one.  *)
LEMMA AscendingLists ==
  ASSUME NEW S \in SUBSET Blk
  PROVE  Lists(Ascending(S), S)
<1> DEFINE c == Cardinality(S)
           rank(p) == Cardinality({q \in S : q < p})
           s == Ascending(S)
<1>1. /\ c \in Nat
      /\ \A p \in S : rank(p) \in 0 .. c - 1
      /\ \A k \in 0 .. c - 1 : \E p \in S : rank(p) = k
      /\ \A p, r \in S : rank(p) = rank(r) => p = r
  BY RankFacts
<1>2. s = [k \in 1 .. c |-> CHOOSE p \in S : rank(p) = k - 1]
  BY DEF Ascending
<1> HIDE DEF c, rank, s
<1>3. \A k \in 1 .. c : s[k] \in S /\ rank(s[k]) = k - 1
  <2>1. ASSUME NEW k \in 1 .. c PROVE s[k] \in S /\ rank(s[k]) = k - 1
    <3>1. k - 1 \in 0 .. c - 1
      BY <1>1
    <3>2. \E p \in S : rank(p) = k - 1
      BY <1>1, <3>1
    <3>3. s[k] = CHOOSE p \in S : rank(p) = k - 1
      BY <1>2
    <3>4. QED
      BY <3>2, <3>3
  <2>2. QED
    BY <2>1
<1>4. \A b \in S : \E k \in 1 .. c : s[k] = b
  <2>1. ASSUME NEW b \in S PROVE \E k \in 1 .. c : s[k] = b
    <3>1. rank(b) + 1 \in 1 .. c /\ rank(b) + 1 - 1 = rank(b)
      BY <1>1
    <3>2. s[rank(b) + 1] = b
      BY <1>1, <1>3, <3>1
    <3>3. QED
      BY <3>1, <3>2
  <2>2. QED
    BY <2>1
<1>5. \A j, k \in 1 .. c : s[j] = s[k] => j = k
  <2>1. ASSUME NEW j \in 1 .. c, NEW k \in 1 .. c, s[j] = s[k] PROVE j = k
    <3>1. j - 1 = k - 1
      BY <1>3, <2>1
    <3>2. QED
      BY <1>1, <3>1
  <2>2. QED
    BY <2>1
<1>6. s = [k \in 1 .. c |-> s[k]]
  BY <1>2
<1>7. Lists(s, S)
  BY <1>1, <1>3, <1>4, <1>5, <1>6, ListsIntro
<1>8. QED
  BY <1>7 DEF s

LEMMA ReverseLists ==
  ASSUME NEW s, NEW S, Lists(s, S)
  PROVE  Lists(Reverse(s), S)
<1> DEFINE n == Len(s)
           r == Reverse(s)
<1>1. /\ S \in SUBSET Blk /\ n \in Nat
      /\ \A k \in 1 .. n : s[k] \in S
      /\ \A b \in S : \E k \in 1 .. n : s[k] = b
      /\ \A j, k \in 1 .. n : s[j] = s[k] => j = k
  BY ListsFacts
<1>2. r = [k \in 1 .. n |-> s[(n - k) + 1]]
  BY DEF Reverse
<1> HIDE DEF n, r
<1>3. \A k \in 1 .. n : (n - k) + 1 \in 1 .. n /\ (n - ((n - k) + 1)) + 1 = k
  BY <1>1
<1>4. \A k \in 1 .. n : r[k] = s[(n - k) + 1]
  BY <1>2
<1>5. \A k \in 1 .. n : r[k] \in S
  BY <1>1, <1>3, <1>4
<1>6. \A b \in S : \E k \in 1 .. n : r[k] = b
  <2>1. ASSUME NEW b \in S PROVE \E k \in 1 .. n : r[k] = b
    <3>1. PICK k \in 1 .. n : s[k] = b
      BY <1>1
    <3>2. r[(n - k) + 1] = b /\ (n - k) + 1 \in 1 .. n
      BY <1>3, <1>4, <3>1
    <3>3. QED
      BY <3>2
  <2>2. QED
    BY <2>1
<1>7. \A j, k \in 1 .. n : r[j] = r[k] => j = k
  <2>1. ASSUME NEW j \in 1 .. n, NEW k \in 1 .. n, r[j] = r[k] PROVE j = k
    <3>1. (n - j) + 1 = (n - k) + 1
      BY <1>1, <1>3, <1>4, <2>1
    <3>2. QED
      BY <1>1, <3>1
  <2>2. QED
    BY <2>1
<1>8. r = [k \in 1 .. n |-> r[k]]
  BY <1>2
<1>9. Lists(r, S)
  BY <1>1, <1>5, <1>6, <1>7, <1>8, ListsIntro
<1>10. QED
  BY <1>9 DEF r

LEMMA RemoveLists ==
  ASSUME NEW s, NEW S, Lists(s, S), NEW i \in 1 .. Len(s)
  PROVE  /\ Lists(RemoveFirst(s, s[i]), S \ {s[i]})
         /\ Len(RemoveFirst(s, s[i])) = Len(s) - 1
         /\ \A k \in 1 .. i - 1 : RemoveFirst(s, s[i])[k] = s[k]
         /\ Contains(s, s[i])
<1> DEFINE n == Len(s)
           e == s[i]
           r == RemoveFirst(s, e)
<1>1. /\ S \in SUBSET Blk /\ n \in Nat /\ s \in Seq(Blk)
      /\ \A k \in 1 .. n : s[k] \in S
      /\ \A b \in S : \E k \in 1 .. n : s[k] = b
      /\ \A j, k \in 1 .. n : s[j] = s[k] => j = k
  BY ListsFacts DEF Lists
<1>2. r = SubSeq(s, 1, i - 1) \o SubSeq(s, i + 1, n)
  <2> DEFINE I == {k \in 1 .. Len(s) : s[k] = e}
  <2>1. I = {i}
    BY <1>1
  <2>2. Min(I) = i
    <3> HIDE DEF I
    <3>1. \A y \in {i} : i <= y
      BY <1>1
    <3>2. QED
      BY <2>1, <3>1 DEF Min
  <2>3. SelectInSeq(s, LAMBDA v : v = e) = i
    BY <2>1, <2>2 DEF SelectInSeq
  <2>4. \E k \in 1 .. Len(s) : s[k] = e
    OBVIOUS
  <2>5. QED
    BY <2>3, <2>4 DEF RemoveFirst, RemoveAt
<1> HIDE DEF r
<1>3. /\ Len(r) = n - 1
      /\ r \in Seq(Blk)
      /\ \A k \in 1 .. n - 1 : r[k] = IF k < i THEN s[k] ELSE s[k + 1]
  <2> DEFINE a == SubSeq(s, 1, i - 1)
             b == SubSeq(s, i + 1, n)
  <2>1. i \in 1 .. n /\ n \in Nat
    BY <1>1
  <2>2. a \in Seq(Blk) /\ Len(a) = i - 1 /\ \A k \in 1 .. i - 1 : a[k] = s[k]
    BY <1>1, <2>1
  <2>3. b \in Seq(Blk) /\ Len(b) = n - i /\ \A k \in 1 .. n - i : b[k] = s[k + i]
    BY <1>1, <2>1
  <2> HIDE DEF a, b
  <2>4. r = a \o b
    BY <1>2 DEF a, b
  <2>5. r \in Seq(Blk) /\ Len(r) = (i - 1) + (n - i)
    <3>1. a \in Seq(Blk) /\ b \in Seq(Blk)
      BY <2>2, <2>3
    <3>2. a \o b \in Seq(Blk) /\ Len(a \o b) = Len(a) + Len(b)
      BY <3>1
    <3>3. QED
      BY <2>2, <2>3, <2>4, <3>2
  <2>6. \A k \in 1 .. (i - 1) + (n - i) : r[k] = IF k <= i - 1 THEN a[k] ELSE b[k - (i - 1)]
    BY <2>2, <2>3, <2>4
  <2>7. ASSUME NEW k \in 1 .. n - 1 PROVE r[k] = IF k < i THEN s[k] ELSE s[k + 1]
    <3>1. CASE k < i
      BY <2>1, <2>2, <2>6, <3>1
    <3>2. CASE ~ (k < i)
      <4>1. k - (i - 1) \in 1 .. n - i /\ (k - (i - 1)) + i = k + 1
        BY <2>1, <3>2
      <4>2. QED
        BY <2>1, <2>3, <2>6, <3>2, <4>1
    <3>3. QED
      BY <3>1, <3>2
  <2>8. QED
    BY <2>1, <2>5, <2>7
<1> HIDE DEF e, n
<1>4. n \in Nat /\ n - 1 \in Nat /\ i \in 1 .. n /\ i \in Int
  BY <1>1 DEF n
<1>5. \A k \in 1 .. n - 1 : r[k] \in S \ {e}
  <2>1. ASSUME NEW k \in 1 .. n - 1 PROVE r[k] \in S \ {e}
    <3>1. k \in 1 .. n /\ k + 1 \in 1 .. n /\ (k < i => k # i) /\ (~ (k < i) => k + 1 # i)
      BY <1>1, <1>4
    <3>2. \A j \in 1 .. n : j # i => s[j] \in S \ {e}
      BY <1>1, <1>4 DEF e
    <3>3. QED
      BY <1>3, <3>1, <3>2
  <2>2. QED
    BY <2>1
<1>6. \A b \in S \ {e} : \E k \in 1 .. n - 1 : r[k] = b
  <2>1. ASSUME NEW b \in S \ {e} PROVE \E k \in 1 .. n - 1 : r[k] = b
    <3>1. PICK k \in 1 .. n : s[k] = b
      BY <1>1
    <3>2. k # i
      BY <3>1 DEF e
    <3>3. CASE k < i
      <4>1. k \in 1 .. n - 1
        BY <1>4, <3>3
      <4>2. QED
        BY <1>3, <3>1, <3>3, <4>1
    <3>4. CASE k > i
      <4>1. k - 1 \in 1 .. n - 1 /\ ~ (k - 1 < i) /\ (k - 1) + 1 = k
        BY <1>4, <3>4
      <4>2. QED
        BY <1>3, <3>1, <4>1
    <3>5. QED
      BY <1>4, <3>2, <3>3, <3>4
  <2>2. QED
    BY <2>1
<1>7. \A j, k \in 1 .. n - 1 : r[j] = r[k] => j = k
  <2>1. ASSUME NEW j \in 1 .. n - 1, NEW k \in 1 .. n - 1, r[j] = r[k] PROVE j = k
    <3>1. /\ j \in 1 .. n /\ k \in 1 .. n /\ j + 1 \in 1 .. n /\ k + 1 \in 1 .. n
          /\ j \in Int /\ k \in Int
      BY <1>4
    <3>2. (IF j < i THEN j ELSE j + 1) = (IF k < i THEN k ELSE k + 1)
      BY <1>1, <1>3, <2>1, <3>1
    <3>3. QED
      BY <1>4, <3>1, <3>2
  <2>2. QED
    BY <2>1
<1>8. r = [k \in 1 .. n - 1 |-> r[k]]
  BY <1>3, <1>4
<1>9. Lists(r, S \ {e})
  <2>1. S \ {e} \in SUBSET Blk
    BY <1>1
  <2>2. QED
    BY <1>4, <1>5, <1>6, <1>7, <1>8, <2>1, ListsIntro
<1>10. \A k \in 1 .. i - 1 : r[k] = s[k]
  <2>1. \A k \in 1 .. i - 1 : k \in 1 .. n - 1 /\ k < i
    BY <1>4
  <2>2. QED
    BY <1>3, <2>1
<1>11. Contains(s, e)
  BY DEF Contains, e
<1>12. QED
  BY <1>3, <1>9, <1>10, <1>11 DEF r, e, n

(* Closed under the edges.  The closure is the least closed set: it grows  *)
(* in each step until it is closed, and there are only N + 1 blocks.       *)
Closed(T) == \A e \in edges : e[1] \in T => e[2] \in T

LEMMA ClosureFacts ==
  ASSUME edges \subseteq Blk \X Blk, NEW S \in SUBSET Blk, S # {}
  PROVE  /\ S \subseteq Closure(S) /\ Closure(S) \subseteq Blk
         /\ Closed(Closure(S))
         /\ \A T : S \subseteq T /\ Closed(T) => Closure(S) \subseteq T
<1> DEFINE More(T) == T \cup {e[2] : e \in {f \in edges : f[1] \in T}}
           step == [T \in SUBSET Blk |-> More(T)]
           base == S
           IsWithin(w) == w = [k \in 0 .. N |->
                                 IF k = 0 THEN S
                                 ELSE LET T == w[k - 1] IN T \cup {e[2] : e \in {f \in edges : f[1] \in T}}]
           w == CHOOSE v : IsWithin(v)
<1>0. N \in Nat /\ N # 0 /\ IsFiniteSet(Blk) /\ Cardinality(Blk) = N + 1
  BY BlkFacts
<1>1. PICK v : IsGrowth(step, base, N, v)
  BY <1>0, GrowthExists
<1>2. \A k \in 0 .. N : v[k] \in SUBSET Blk
  <2> DEFINE K == {k \in Nat : k <= N => v[k] \in SUBSET Blk}
  <2>1. 0 \in K
    BY <1>0, <1>1 DEF IsGrowth
  <2>2. ASSUME NEW k \in Nat, k \in K PROVE k + 1 \in K
    <3>1. SUFFICES ASSUME k + 1 <= N PROVE v[k + 1] \in SUBSET Blk
      OBVIOUS
    <3>2. k + 1 \in 0 .. N /\ k + 1 # 0 /\ k + 1 - 1 = k /\ v[k] \in SUBSET Blk
      BY <3>1, <2>2, <1>0
    <3>3. v[k + 1] = step[v[k]]
      <4> HIDE DEF step, base
      <4>1. \A j \in 0 .. N : v[j] = IF j = 0 THEN base ELSE step[v[j - 1]]
        BY <1>1 DEF IsGrowth
      <4>2. v[k + 1] = step[v[k + 1 - 1]]
        BY <4>1, <3>2
      <4>3. QED
        BY <4>2, <3>2
    <3>4. QED
      BY <3>2, <3>3
  <2>3. Nat \subseteq K
    <3> HIDE DEF K
    <3>1. QED
      BY <2>1, <2>2, SetInduction
  <2>4. QED
    BY <2>3
<1>3. IsWithin(v)
  <2>1. \A k \in 0 .. N : k # 0 => k - 1 \in 0 .. N
    BY <1>0
  <2>2. \A k \in 0 .. N : v[k] = IF k = 0 THEN base ELSE step[v[k - 1]]
    BY <1>1 DEF IsGrowth
  <2>3. \A k \in 0 .. N : k # 0 => step[v[k - 1]] = More(v[k - 1])
    BY <1>2, <2>1
  <2>4. \A k \in 0 .. N : v[k] = IF k = 0 THEN S ELSE More(v[k - 1])
    BY <2>2, <2>3
  <2>5. v = [k \in 0 .. N |-> v[k]]
    BY <1>1 DEF IsGrowth
  <2> HIDE DEF step, base
  <2>6. QED
    BY <2>4, <2>5
<1>4. IsWithin(w) /\ Closure(S) = w[N]
  <2>1. Closure(S) = w[N]
    BY DEF Closure
  <2> HIDE DEF IsWithin
  <2>2. QED
    BY <1>3, <2>1
<1> HIDE DEF w, step, base
<1>5. /\ w[0] = S
      /\ \A k \in 0 .. N : k # 0 => w[k] = More(w[k - 1])
  <2>1. \A k \in 0 .. N : w[k] = IF k = 0 THEN S ELSE More(w[k - 1])
    BY <1>4
  <2> HIDE DEF More
  <2>2. 0 \in 0 .. N
    BY <1>0
  <2>3. QED
    BY <2>1, <2>2
<1> HIDE DEF IsWithin
<1>6. ASSUME NEW k \in Nat, k <= N
      PROVE  /\ S \subseteq w[k] /\ w[k] \subseteq Blk
             /\ \A T : S \subseteq T /\ Closed(T) => w[k] \subseteq T
  <2> DEFINE Good(j) == /\ S \subseteq w[j] /\ w[j] \subseteq Blk
                        /\ \A T : S \subseteq T /\ Closed(T) => w[j] \subseteq T
             K == {j \in Nat : j <= N => Good(j)}
  <2>1. 0 \in K
    BY <1>5
  <2>2. ASSUME NEW j \in Nat, j \in K PROVE j + 1 \in K
    <3>1. SUFFICES ASSUME j + 1 <= N PROVE Good(j + 1)
      OBVIOUS
    <3>2. w[j + 1] = More(w[j]) /\ Good(j)
      BY <3>1, <1>5, <1>0, <2>2
    <3>3. QED
      BY <3>2 DEF Closed
  <2>3. Nat \subseteq K
    <3> HIDE DEF K
    <3>1. QED
      BY <2>1, <2>2, SetInduction
  <2>4. QED
    BY <2>3, <1>6
<1>7. Closed(w[N])
  <2>1. SUFFICES ASSUME ~ Closed(w[N]) PROVE FALSE
    OBVIOUS
  <2>2. \A k \in Nat : k <= N => IsFiniteSet(w[k])
    <3>1. \A k \in Nat : k <= N => w[k] \subseteq Blk
      BY <1>6
    <3>2. QED
      BY <3>1, <1>0, FS_Subset
  <2> DEFINE K == {k \in Nat : k <= N => Cardinality(w[N - k]) \in Nat /\ ~ Closed(w[N - k])}
  <2>3. 0 \in K
    BY <2>1, <2>2, <1>0, FS_CardinalityType
  <2>4. ASSUME NEW k \in Nat, k \in K PROVE k + 1 \in K
    <3>1. SUFFICES ASSUME k + 1 <= N
                   PROVE  Cardinality(w[N - (k + 1)]) \in Nat /\ ~ Closed(w[N - (k + 1)])
      OBVIOUS
    <3> DEFINE j == N - (k + 1)
    <3>2. j \in Nat /\ j <= N /\ N - k = j + 1 /\ j + 1 \in 0 .. N /\ j + 1 # 0 /\ j + 1 - 1 = j
      BY <3>1, <1>0
    <3>3. w[j + 1] = More(w[j])
      <4> HIDE DEF j
      <4>1. QED
        BY <3>2, <1>5
    <3>4. ~ Closed(w[j + 1])
      <4>1. k <= N /\ ~ Closed(w[N - k])
        BY <3>1, <1>0, <2>4
      <4>2. QED
        BY <4>1, <3>2
    <3> HIDE DEF j
    <3>5. ASSUME Closed(w[j]) PROVE FALSE
      <4>1. w[j + 1] = w[j]
        BY <3>3, <3>5 DEF Closed
      <4>2. QED
        BY <4>1, <3>4, <3>5
    <3>6. Cardinality(w[j]) \in Nat
      BY <3>2, <2>2, FS_CardinalityType
    <3>7. QED
      BY <3>5, <3>6 DEF j
  <2>5. \A k \in Nat : k <= N => Cardinality(w[k]) \in Nat /\ ~ Closed(w[k])
    <3>1. Nat \subseteq K
      <4> HIDE DEF K
      <4>1. QED
        BY <2>3, <2>4, SetInduction
    <3>2. ASSUME NEW k \in Nat, k <= N PROVE Cardinality(w[k]) \in Nat /\ ~ Closed(w[k])
      <4>1. N - k \in Nat /\ N - k <= N /\ N - (N - k) = k
        BY <3>2, <1>0
      <4>2. N - k \in K
        BY <4>1, <3>1
      <4>3. QED
        BY <4>1, <4>2
    <3>3. QED
      BY <3>2
  <2> DEFINE J == {k \in Nat : k <= N => Cardinality(w[k]) >= k + 1}
  <2>6. 0 \in J
    <3>1. w[0] = S /\ IsFiniteSet(S)
      BY <1>0, <1>5, FS_Subset
    <3>2. Cardinality(S) \in Nat /\ Cardinality(S) # 0
      BY <3>1, FS_CardinalityType, FS_EmptySet
    <3>3. QED
      BY <3>1, <3>2
  <2>7. ASSUME NEW k \in Nat, k \in J PROVE k + 1 \in J
    <3>1. SUFFICES ASSUME k + 1 <= N PROVE Cardinality(w[k + 1]) >= k + 1 + 1
      OBVIOUS
    <3>2. w[k + 1] = More(w[k]) /\ k <= N /\ Cardinality(w[k]) >= k + 1
      BY <3>1, <1>5, <1>0, <2>7
    <3>3. w[k] \subseteq w[k + 1] /\ w[k] # w[k + 1]
      <4>1. PICK e \in edges : e[1] \in w[k] /\ e[2] \notin w[k]
        BY <3>2, <2>5 DEF Closed
      <4>2. QED
        BY <4>1, <3>2
    <3>4. Cardinality(w[k]) <= Cardinality(w[k + 1]) /\ Cardinality(w[k]) # Cardinality(w[k + 1])
      BY <3>1, <3>3, <2>2, FS_Subset
    <3>5. Cardinality(w[k]) \in Nat /\ Cardinality(w[k + 1]) \in Nat
      <4>1. k + 1 \in Nat /\ k + 1 <= N /\ k <= N
        BY <3>1, <1>0
      <4>2. QED
        BY <4>1, <2>5
    <3>6. QED
      BY <3>2, <3>4, <3>5
  <2>8. Cardinality(w[N]) >= N + 1
    <3>1. Nat \subseteq J
      <4> HIDE DEF J
      <4>1. QED
        BY <2>6, <2>7, SetInduction
    <3>2. QED
      BY <3>1, <1>0
  <2>9. w[N] \subseteq Blk /\ w[N] \subseteq Blk
    BY <1>6, <1>0
  <2>10. w[N] = Blk
    BY <2>8, <2>9, <1>0, <2>5, FS_Subset
  <2>11. QED
    BY <2>1, <2>9, <2>10 DEF Closed
<1>8. QED
  BY <1>4, <1>6, <1>7, <1>0

(* Reaching is transitive.                                                 *)
LEMMA ReachesFacts ==
  ASSUME edges \subseteq Blk \X Blk
  PROVE  /\ \A a \in Blk : Reaches(a, a) /\ Closed(Closure({a})) /\ Closure({a}) \subseteq Blk
         /\ \A a, b, c : a \in Blk /\ Reaches(a, b) /\ <<b, c>> \in edges => Reaches(a, c)
         /\ \A a, b, c : a \in Blk /\ Reaches(a, b) /\ Reaches(b, c) => Reaches(a, c)
<1>1. ASSUME NEW a \in Blk
      PROVE  /\ a \in Closure({a}) /\ Closure({a}) \subseteq Blk /\ Closed(Closure({a}))
             /\ \A T : a \in T /\ Closed(T) => Closure({a}) \subseteq T
  <2>1. {a} \in SUBSET Blk /\ {a} # {}
    OBVIOUS
  <2>2. \A T : a \in T <=> {a} \subseteq T
    OBVIOUS
  <2>3. QED
    BY <2>1, <2>2, ClosureFacts
<1>2. ASSUME NEW a \in Blk, NEW b, NEW c, b \in Closure({a}), <<b, c>> \in edges PROVE c \in Closure({a})
  <2>1. <<b, c>>[1] = b /\ <<b, c>>[2] = c
    OBVIOUS
  <2>2. QED
    BY <1>1, <1>2, <2>1 DEF Closed
<1>3. ASSUME NEW a \in Blk, NEW b, NEW c, b \in Closure({a}), c \in Closure({b}) PROVE c \in Closure({a})
  BY <1>1, <1>3
<1>4. QED
  BY <1>1, <1>2, <1>3 DEF Reaches

-----------------------------------------------------------------------------
(* What the analysis starts from, before the predecessors are known.       *)
LEMMA GraphFacts ==
  ASSUME Graph
  PROVE  /\ Start \in Live /\ Live \subseteq Blk /\ Closed(Live)
         /\ \A T : Start \in T /\ Closed(T) => Live \subseteq T
         /\ \A b \in Live : Reaches(Start, b)
         /\ \A a, b : a \in Live /\ <<a, b>> \in edges => b \in Live
         /\ Inside \subseteq Blk /\ IsFiniteSet(Inside) /\ Cardinality(Inside) = Len(link)
         /\ Len(link) \in Nat /\ Len(link) # 0 /\ Lists(link, Inside)
         /\ \A b \in Blk : Into(b) \in SUBSET Blk
<1>1. {Start} \in SUBSET Blk /\ {Start} # {}
  BY BlkFacts
<1>2. /\ {Start} \subseteq Live /\ Live \subseteq Blk /\ Closed(Live)
      /\ \A T : {Start} \subseteq T /\ Closed(T) => Live \subseteq T
  BY <1>1, ClosureFacts DEF Graph, Live
<1>3. Lists(link, Inside)
  BY DEF Graph, Lists, Inside
<1>4. /\ Inside \subseteq Blk /\ IsFiniteSet(Inside) /\ Cardinality(Inside) = Len(link)
      /\ Len(link) \in Nat
  BY <1>3, ListsFacts
<1>5. Len(link) # 0
  <2>1. \E k \in 1 .. Len(link) : link[k] = Start
    BY <1>3, ListsFacts DEF Graph
  <2>2. QED
    BY <2>1
<1>6. \A b \in Live : Reaches(Start, b)
  BY DEF Reaches, Live
<1>7. ASSUME NEW a \in Live, NEW b, <<a, b>> \in edges PROVE b \in Live
  <2>1. <<a, b>>[1] = a /\ <<a, b>>[2] = b
    OBVIOUS
  <2>2. QED
    BY <1>2, <1>7, <2>1 DEF Closed
<1>8. \A b \in Blk : Into(b) \in SUBSET Blk
  BY <1>4 DEF Into
<1>9. QED
  BY <1>2, <1>3, <1>4, <1>5, <1>6, <1>7, <1>8

(* What is reached is in the list before the sweep.                        *)
LEMMA WholeFacts ==
  ASSUME Graph, Whole
  PROVE  Live \subseteq Inside
<1>1. Closed(Inside)
  BY DEF Whole, Closed
<1>2. QED
  BY <1>1, GraphFacts DEF Graph

(* What the graph is made of, and what follows from it, stays.             *)
LEMMA SameGraph ==
  ASSUME UNCHANGED <<link, s1, s2, edges, phi>>
  PROVE  /\ Graph' = Graph /\ Inside' = Inside /\ Live' = Live
         /\ nblk' = nblk => Whole' = Whole
         /\ pred' = pred => Preds' = Preds
         /\ \A a, b : Reaches(a, b)' = Reaches(a, b)
<1>1. Inside' = Inside /\ \A b : Into(b)' = Into(b)
  BY DEF Inside, Into
<1>2. \A b : Succs(b)' = Succs(b)
  BY DEF Succs
<1>3. \A S : Closure(S)' = Closure(S)
  BY DEF Closure
<1>4. Graph' = Graph
  <2>1. (\A a \in Inside : Succs(a) = {b \in Blk : <<a, b>> \in edges})'
          = (\A a \in Inside : Succs(a) = {b \in Blk : <<a, b>> \in edges})
    BY <1>1, <1>2
  <2>2. (\A b \in DOMAIN phi : Lists(phi[b], Into(b)))' = (\A b \in DOMAIN phi : Lists(phi[b], Into(b)))
    BY <1>1 DEF Lists
  <2>3. QED
    BY <1>1, <2>1, <2>2 DEF Graph
<1>5. ASSUME nblk' = nblk PROVE Whole' = Whole
  BY <1>1, <1>2, <1>5 DEF Whole
<1>6. ASSUME pred' = pred PROVE Preds' = Preds
  BY <1>1, <1>6 DEF Preds, Lists
<1>7. Live' = Live /\ \A a, b : Reaches(a, b)' = Reaches(a, b)
  BY <1>3 DEF Live, Reaches
<1>8. QED
  BY <1>1, <1>4, <1>5, <1>6, <1>7

(* The steps.                                                              *)
LEMMA FillPredsStep ==
  ASSUME RpoInv, FillPreds
  PROVE  RpoInv'
<1>1. Graph /\ Whole
  BY DEF RpoInv, FillPreds
<1>2. Graph' /\ Whole' /\ Live' = Live /\ Inside' = Inside
  <2>1. UNCHANGED <<link, s1, s2, edges, phi, nblk>>
    BY DEF FillPreds
  <2>2. QED
    BY <1>1, <2>1, SameGraph
<1>3. Preds'
  <2>1. ASSUME NEW b \in Blk PROVE Lists(pred'[b], Into(b)) /\ Into(b) = Into(b)'
    <3>1. {a \in Blk : b \in Succs(a)} = Into(b)
      <4>1. \A a \in Blk : b \in Succs(a) <=> a \in Into(b)
        BY <1>1, GraphFacts DEF Graph, Whole, Into
      <4>2. QED
        BY <1>1, <4>1, GraphFacts
    <3>2. pred'[b] = Ascending(Into(b))
      BY <3>1 DEF FillPreds
    <3>3. Into(b)' = Into(b)
      BY <1>2 DEF Into, FillPreds
    <3>4. QED
      BY <1>1, <3>2, <3>3, GraphFacts, AscendingLists
  <2>2. pred' = [b \in Blk |-> pred'[b]]
    BY DEF FillPreds
  <2>3. \A b \in Blk : pred'[b] \in Seq(Blk)
    BY <2>1 DEF Lists
  <2>4. pred' \in [Blk -> Seq(Blk)]
    BY <2>2, <2>3
  <2>5. \A b \in Blk : Lists(pred'[b], Into(b)')
    BY <2>1
  <2>6. QED
    BY <2>4, <2>5 DEF Preds, Lists
<1>4. /\ stack' = <<Visit(Start)>> /\ id' = [b \in Blk |-> Unset] /\ x' = nblk - 1 /\ nblk' = nblk
      /\ pc' = "number" /\ edges' = edges /\ pc \in {"preds", "number"}
  BY DEF FillPreds
<1>5. /\ nblk \in Nat /\ nblk # 0 /\ Start \in Live /\ Start # None /\ Start \in Blk
  BY <1>1, GraphFacts, BlkFacts DEF Whole
<1>6. stack' \in Seq([blk : Blk \cup {None}, leave : BOOLEAN]) /\ Len(stack') = 1 /\ stack'[1] = Visit(Start) /\ stack' # <<>>
  BY <1>4, <1>5 DEF Visit
<1>7. Visit(Start).blk = Start /\ Visit(Start).leave = FALSE
  BY DEF Visit
<1>8. Finished' = {}
  BY <1>4 DEF Finished, Unset
<1>9. Calls'
  BY <1>2, <1>4, <1>5, <1>6, <1>7, <1>8 DEF Calls, CallOK, Bottom, Call
<1>10. Numbered'
  BY <1>4, <1>5, <1>8 DEF Numbered, Unset
<1>11. QED
  BY <1>2, <1>3, <1>4, <1>9, <1>10 DEF RpoInv

(* The calls, as records and as a sequence.                                *)
LEMMA CallFacts ==
  /\ \A r \in Call : r = IF r.leave THEN Leave(r.blk) ELSE Visit(r.blk)
  /\ \A c : Visit(c).blk = c /\ Visit(c).leave = FALSE /\ Leave(c).blk = c /\ Leave(c).leave = TRUE
  /\ \A c, d : Visit(c) # Leave(d) /\ (Leave(c) = Leave(d) => c = d) /\ (Visit(c) = Visit(d) => c = d)
  /\ \A c \in Blk \cup {None} : Visit(c) \in Call /\ Leave(c) \in Call
<1>1. \A c : Visit(c).blk = c /\ Visit(c).leave = FALSE /\ Leave(c).blk = c /\ Leave(c).leave = TRUE
  BY DEF Visit, Leave
<1>2. \A r \in Call : r = IF r.leave THEN Leave(r.blk) ELSE Visit(r.blk)
  BY DEF Visit, Leave, Call
<1>3. \A c \in Blk \cup {None} : Visit(c) \in Call /\ Leave(c) \in Call
  BY DEF Visit, Leave, Call
<1>4. QED
  BY <1>1, <1>2, <1>3

LEMMA StackFacts ==
  ASSUME stack \in Seq(Call), stack # <<>>
  PROVE  /\ Len(stack) \in Nat /\ Len(stack) # 0 /\ Head(stack) = stack[1]
         /\ Tail(stack) \in Seq(Call) /\ Len(Tail(stack)) = Len(stack) - 1
         /\ \A k \in 1 .. Len(stack) - 1 : Tail(stack)[k] = stack[k + 1]
         /\ \A k \in 1 .. Len(stack) : stack[k] \in Call
  OBVIOUS

(* A call of rporec returns: the others wait for one less.                 *)
LEMMA PopFacts ==
  ASSUME Calls, stack # <<>>, stack' = Tail(stack), UNCHANGED <<link, s1, s2, phi, edges>>,
         \A c \in Blk : id[c] # Unset => id'[c] # Unset,
         \A c \in Blk : stack[1] = Visit(c) => id'[c] # Unset
  PROVE  /\ \A k \in 1 .. Len(stack) - 1 : CallOK(k)'
         /\ stack' \in Seq(Call) /\ Len(stack') = Len(stack) - 1
         /\ \A k \in 1 .. Len(stack) - 1 : stack'[k] = stack[k + 1]
         /\ \A c \in Blk : Open(c) <=> Open(c)' \/ stack[1] = Leave(c)
<1> DEFINE n == Len(stack)
<1>1. Live' = Live /\ \A a, b : Reaches(a, b)' = Reaches(a, b)
  BY SameGraph
<1>2. /\ n \in Nat /\ n # 0
      /\ stack' \in Seq(Call) /\ Len(stack') = n - 1
      /\ \A k \in 1 .. n - 1 : stack'[k] = stack[k + 1]
      /\ \A k \in 1 .. n : stack[k] \in Call /\ CallOK(k)
  BY StackFacts DEF Calls
<1>3. ASSUME NEW c \in Blk PROVE Open(c) <=> Open(c)' \/ stack[1] = Leave(c)
  <2>1. ASSUME Open(c), stack[1] # Leave(c) PROVE Open(c)'
    <3>1. PICK k \in 1 .. n : stack[k] = Leave(c)
      BY <2>1 DEF Open
    <3>2. k - 1 \in 1 .. n - 1 /\ (k - 1) + 1 = k
      BY <1>2, <2>1, <3>1
    <3>3. stack'[k - 1] = Leave(c)
      BY <1>2, <3>1, <3>2
    <3>4. QED
      BY <1>2, <3>2, <3>3 DEF Open
  <2>2. ASSUME Open(c)' PROVE Open(c)
    <3>1. PICK k \in 1 .. n - 1 : stack'[k] = Leave(c)
      BY <1>2, <2>2 DEF Open
    <3>2. k + 1 \in 1 .. n /\ stack[k + 1] = Leave(c)
      BY <1>2, <3>1
    <3>3. QED
      BY <3>2 DEF Open
  <2>3. stack[1] = Leave(c) => Open(c)
    <3>1. 1 \in 1 .. n
      BY <1>2
    <3>2. QED
      BY <3>1 DEF Open
  <2>4. QED
    BY <2>1, <2>2, <2>3
<1>4. \A k \in 1 .. n - 1 : CallOK(k)'
  <2>1. SUFFICES ASSUME NEW k \in 1 .. n - 1 PROVE CallOK(k)'
    OBVIOUS
  <2> DEFINE i == k + 1
             h == stack[i]
  <2>2. i \in 1 .. n /\ stack'[k] = h /\ CallOK(i) /\ h \in Call
    BY <1>2
  <2>3. /\ h.leave => h.blk # None /\ id[h.blk] # Unset
        /\ h.blk # None => h.blk \in Live
        /\ h.leave => \A c \in Blk : <<h.blk, c>> \in edges => id[c] # Unset \/ \E j \in 1 .. i - 1 : stack[j] = Visit(c)
        /\ h.leave => \A j \in 1 .. i - 1 : (stack[j].blk # None => Reaches(h.blk, stack[j].blk)) /\ stack[j] # h
        /\ h.blk \notin {None, Start} => \E j \in i + 1 .. n : stack[j].leave /\ <<stack[j].blk, h.blk>> \in edges
    BY <2>2 DEF CallOK
  <2>4. h.blk \in Blk \cup {None}
    BY <2>2 DEF Call
  <2> HIDE DEF h
  <2>5. ASSUME NEW c \in Blk, h.leave, <<h.blk, c>> \in edges
        PROVE  id'[c] # Unset \/ \E j \in 1 .. k - 1 : stack'[j] = Visit(c)
    <3>1. SUFFICES ASSUME id'[c] = Unset PROVE \E j \in 1 .. k - 1 : stack'[j] = Visit(c)
      OBVIOUS
    <3>2. PICK j \in 1 .. i - 1 : stack[j] = Visit(c)
      BY <2>3, <2>5, <3>1
    <3>3. j # 1
      BY <3>1, <3>2
    <3>4. j - 1 \in 1 .. k - 1 /\ j - 1 \in 1 .. n - 1 /\ (j - 1) + 1 = j
      BY <1>2, <3>3
    <3>5. QED
      BY <1>2, <3>2, <3>4
  <2>6. ASSUME NEW j \in 1 .. k - 1, h.leave
        PROVE  (stack'[j].blk # None => Reaches(h.blk, stack'[j].blk)) /\ stack'[j] # h
    <3>1. j + 1 \in 1 .. i - 1 /\ j \in 1 .. n - 1
      BY <1>2
    <3>2. stack'[j] = stack[j + 1]
      BY <1>2, <3>1
    <3>3. QED
      BY <2>3, <2>6, <3>1, <3>2
  <2>7. ASSUME h.blk \notin {None, Start}
        PROVE  \E j \in k + 1 .. n - 1 : stack'[j].leave /\ <<stack'[j].blk, h.blk>> \in edges
    <3>1. PICK j \in i + 1 .. n : stack[j].leave /\ <<stack[j].blk, h.blk>> \in edges
      BY <2>3, <2>7
    <3>2. j - 1 \in k + 1 .. n - 1 /\ j - 1 \in 1 .. n - 1 /\ (j - 1) + 1 = j
      BY <1>2
    <3>3. stack'[j - 1] = stack[j]
      BY <1>2, <3>2
    <3>4. QED
      BY <3>1, <3>2, <3>3
  <2>8. h.leave => id'[h.blk] # Unset
    BY <2>3, <2>4
  <2>9. QED
    BY <1>1, <1>2, <2>2, <2>3, <2>5, <2>6, <2>7, <2>8 DEF CallOK
<1>5. QED
  BY <1>2, <1>3, <1>4

(* A call of rporec that has nothing to do.                                *)
LEMMA EnterBackStep ==
  ASSUME RpoInv, Enter, Head(stack).blk = None \/ id[Head(stack).blk] # Unset
  PROVE  RpoInv'
<1> DEFINE n == Len(stack)
<1>1. Graph /\ Whole /\ Preds /\ Calls /\ Numbered /\ pc = "number"
  BY DEF RpoInv, Enter
<1>2. UNCHANGED <<pc, link, at, s1, s2, loop, phi, pred, rpo, nblk, x, gone, edges>>
  BY DEF Enter
<1>3. stack # <<>> /\ ~ Head(stack).leave /\ stack' = Tail(stack) /\ id' = id
  BY DEF Enter
<1>4. Graph' /\ Whole' /\ Preds' /\ Live' = Live /\ \A a, b : Reaches(a, b)' = Reaches(a, b)
  BY <1>1, <1>2, SameGraph
<1>5. n \in Nat /\ n # 0 /\ ~ stack[1].leave /\ (stack[1].blk = None \/ id[stack[1].blk] # Unset)
  BY <1>1, <1>3, StackFacts DEF Calls
<1>6. \A c \in Blk : stack[1] # Leave(c) /\ (stack[1] = Visit(c) => id[c] # Unset)
  BY <1>5, CallFacts, BlkFacts
<1>7. /\ \A k \in 1 .. n - 1 : CallOK(k)'
      /\ stack' \in Seq(Call) /\ Len(stack') = n - 1
      /\ \A k \in 1 .. n - 1 : stack'[k] = stack[k + 1]
      /\ \A c \in Blk : Open(c) <=> Open(c)'
  BY <1>1, <1>2, <1>3, <1>6, PopFacts
<1>8. Finished' = Finished
  BY <1>3, <1>7 DEF Finished
<1>9. Bottom'
  <2>1. stack[n].blk = Start /\ Start \notin Finished /\ (~ stack[n].leave => n = 1 /\ \A b \in Blk : id[b] = Unset)
    BY <1>1, <1>3 DEF Calls, Bottom
  <2>2. n # 1
    BY <1>5, <2>1, BlkFacts
  <2>3. n - 1 \in 1 .. n - 1 /\ (n - 1) + 1 = n /\ n - 1 # 0
    <3>1. n \in Nat /\ n # 0
      BY <1>5
    <3>2. \A m \in Nat : m # 0 /\ m # 1 => m - 1 \in 1 .. m - 1 /\ (m - 1) + 1 = m /\ m - 1 # 0
      OBVIOUS
    <3> HIDE DEF n
    <3>3. QED
      BY <3>1, <3>2, <2>2
  <2>4. stack'[n - 1] = stack[n] /\ stack' # <<>>
    BY <1>7, <2>3
  <2>5. QED
    BY <1>3, <1>7, <1>8, <2>1, <2>2, <2>4 DEF Bottom
<1>10. Calls'
  BY <1>7, <1>9 DEF Calls, Call
<1>11. Numbered'
  BY <1>1, <1>2, <1>3, <1>4, <1>7, <1>8 DEF Numbered
<1>12. QED
  BY <1>1, <1>2, <1>4, <1>10, <1>11 DEF RpoInv

(* A block that was left gets the next number, which is one still: there   *)
(* are as many as blocks in the list, and this block had none.             *)
LEMMA NumberStep ==
  ASSUME RpoInv, Number
  PROVE  RpoInv'
<1> DEFINE n == Len(stack)
<1>0. PICK b : b = stack[1].blk
  OBVIOUS
<1>1. Graph /\ Whole /\ Preds /\ Calls /\ Numbered /\ pc = "number"
  BY DEF RpoInv, Number
<1>2. UNCHANGED <<pc, link, at, s1, s2, loop, phi, pred, rpo, nblk, gone, edges>>
  BY DEF Number
<1>3. stack # <<>> /\ stack' = Tail(stack) /\ x' = x - 1
  BY DEF Number
<1>4. Graph' /\ Whole' /\ Preds' /\ Live' = Live /\ \A a, c : Reaches(a, c)' = Reaches(a, c)
  BY <1>1, <1>2, SameGraph
<1>5. /\ n \in Nat /\ n # 0 /\ Head(stack) = stack[1] /\ 1 \in 1 .. n
      /\ \A k \in 1 .. n : stack[k] \in Call /\ CallOK(k)
  BY <1>1, <1>3, StackFacts DEF Calls
<1>6. stack[1].leave /\ id' = [id EXCEPT ![b] = x]
  BY <1>0, <1>5 DEF Number
<1>7. /\ b \in Blk /\ b # None /\ id[b] # Unset /\ b \in Live /\ stack[1] = Leave(b)
      /\ \A c \in Blk : <<b, c>> \in edges => id[c] # Unset
      /\ b # Start => \E j \in 2 .. n : stack[j].leave /\ <<stack[j].blk, b>> \in edges
  <2>1. CallOK(1) /\ stack[1] \in Call
    BY <1>5
  <2>2. stack[1] = Leave(b)
    BY <1>0, <1>6, <2>1, CallFacts
  <2>3. b # None /\ b \in Blk
    BY <1>0, <2>1, <1>6 DEF CallOK, Call
  <2>4. QED
    BY <1>0, <2>1, <2>2, <2>3, <1>6 DEF CallOK
<1>8. \A k \in 2 .. n : stack[k] # Leave(b) /\ (stack[k].leave => stack[k].blk \in Blk /\ stack[k].blk # b /\ Reaches(stack[k].blk, b))
  <2>1. ASSUME NEW k \in 2 .. n, stack[k].leave
        PROVE  stack[k].blk \in Blk /\ stack[k] # Leave(b) /\ stack[k].blk # b /\ Reaches(stack[k].blk, b)
    <3>1. k \in 1 .. n /\ 1 \in 1 .. k - 1
      BY <1>5
    <3>2. CallOK(k) /\ stack[k] \in Call
      BY <1>5, <3>1
    <3>3. stack[1] # stack[k] /\ Reaches(stack[k].blk, b) /\ stack[k].blk # None
      BY <1>0, <2>1, <3>1, <3>2, <1>7 DEF CallOK
    <3>4. stack[k] = Leave(stack[k].blk)
      BY <2>1, <3>2, CallFacts
    <3>5. stack[k].blk \in Blk
      BY <3>2, <3>3 DEF Call
    <3>6. QED
      BY <1>7, <3>3, <3>4, <3>5
  <2>2. ASSUME NEW k \in 2 .. n, ~ stack[k].leave PROVE stack[k] # Leave(b)
    BY <2>2, CallFacts
  <2>3. QED
    BY <2>1, <2>2
<1>9. b \notin Finished /\ Open(b)
  BY <1>5, <1>7 DEF Finished, Open
<1>10. x \in 0 .. nblk - 1 /\ nblk = Len(link) /\ nblk \in Nat
  <2>1. Live \subseteq Inside /\ IsFiniteSet(Inside) /\ Cardinality(Inside) = nblk /\ nblk \in Nat /\ nblk = Len(link)
    BY <1>1, GraphFacts, WholeFacts DEF Whole
  <2>2. x \in -1 .. nblk - 1
    BY <1>1 DEF Numbered
  <2>3. ASSUME x = -1 PROVE FALSE
    <3> DEFINE f == [c \in Finished |-> id[c]]
    <3>1. Finished \subseteq Live
      BY <1>1 DEF Numbered, Finished
    <3>2. IsFiniteSet(Finished) /\ Cardinality(Finished) <= nblk /\ (Cardinality(Finished) = nblk => Finished = Inside)
      <4>1. Finished \subseteq Inside
        BY <2>1, <3>1
      <4>2. QED
        BY <2>1, <4>1, FS_Subset
    <3>3. f \in Surjection(Finished, 0 .. nblk - 1)
      <4>1. \A c \in Finished : id[c] \in 0 .. nblk - 1
        BY <1>1, <2>3 DEF Numbered
      <4>2. \A i \in 0 .. nblk - 1 : \E c \in Finished : id[c] = i
        BY <1>1, <2>3 DEF Numbered
      <4>3. f \in [Finished -> 0 .. nblk - 1]
        BY <4>1
      <4>4. \A i \in 0 .. nblk - 1 : \E c \in Finished : f[c] = i
        BY <4>2
      <4>5. QED
        BY <4>3, <4>4 DEF Surjection
    <3>4. Cardinality(0 .. nblk - 1) = nblk
      <4>1. nblk \in Nat /\ nblk - 1 \in Int /\ 0 \in Int
        BY <2>1
      <4>2. QED
        BY <4>1, FS_Interval
    <3>5. Cardinality(0 .. nblk - 1) <= Cardinality(Finished)
      BY <3>2, <3>3, FS_Surjection
    <3>6. Cardinality(Finished) \in Nat
      BY <3>2, FS_CardinalityType
    <3>7. Finished = Inside
      BY <2>1, <3>2, <3>4, <3>5, <3>6
    <3>8. QED
      BY <1>7, <1>9, <2>1, <3>7
  <2>4. QED
    BY <2>1, <2>2, <2>3
<1>11. /\ id' \in [Blk -> Int] /\ id'[b] = x /\ x # Unset /\ x \in Int
       /\ \A c \in Blk : c # b => id'[c] = id[c]
       /\ id \in [Blk -> Int]
  BY <1>1, <1>6, <1>7, <1>10, BlkFacts DEF Numbered
<1>12. \A c \in Blk : (id[c] # Unset => id'[c] # Unset) /\ stack[1] # Visit(c)
  BY <1>7, <1>11, CallFacts
<1>13. /\ \A k \in 1 .. n - 1 : CallOK(k)'
       /\ stack' \in Seq(Call) /\ Len(stack') = n - 1
       /\ \A k \in 1 .. n - 1 : stack'[k] = stack[k + 1]
       /\ \A c \in Blk : Open(c) <=> Open(c)' \/ stack[1] = Leave(c)
  BY <1>1, <1>2, <1>3, <1>12, PopFacts
<1>14. ~ Open(b)' /\ \A c \in Blk : c # b => (Open(c)' <=> Open(c))
  <2>1. ASSUME Open(b)' PROVE FALSE
    <3>1. PICK k \in 1 .. n - 1 : stack'[k] = Leave(b)
      BY <1>13, <2>1 DEF Open
    <3>2. k + 1 \in 2 .. n /\ stack[k + 1] = Leave(b)
      BY <1>5, <1>13, <3>1
    <3>3. QED
      BY <1>8, <3>2
  <2>2. QED
    BY <2>1, <1>7, <1>13, CallFacts
<1>15. Finished' = Finished \cup {b}
  BY <1>7, <1>9, <1>11, <1>14 DEF Finished
<1>16. Bottom'
  <2>1. stack[n].blk = Start /\ Start \notin Finished /\ (~ stack[n].leave => n = 1 /\ \A c \in Blk : id[c] = Unset)
    BY <1>1, <1>3 DEF Calls, Bottom
  <2>2. stack[n].leave
    BY <2>1, <1>6, <1>5
  <2>3. CASE n = 1
    <3>1. stack' = <<>>
      BY <2>3, <1>13
    <3>2. b = Start
      BY <1>0, <2>1, <2>3
    <3>3. QED
      BY <1>3, <1>10, <1>11, <1>15, <3>1, <3>2 DEF Bottom
  <2>4. CASE n # 1
    <3>1. n - 1 \in 1 .. n - 1 /\ (n - 1) + 1 = n /\ n - 1 # 0 /\ n \in 2 .. n
      <4>1. n \in Nat /\ n # 0
        BY <1>5
      <4>2. \A m \in Nat : m # 0 /\ m # 1 => m - 1 \in 1 .. m - 1 /\ (m - 1) + 1 = m /\ m - 1 # 0 /\ m \in 2 .. m
        OBVIOUS
      <4> HIDE DEF n
      <4>3. QED
        BY <4>1, <4>2, <2>4
    <3>2. stack'[n - 1] = stack[n] /\ stack' # <<>>
      BY <1>13, <3>1
    <3>3. b # Start
      BY <1>8, <2>1, <2>2, <3>1
    <3>4. QED
      BY <1>13, <1>15, <2>1, <2>2, <3>2, <3>3 DEF Bottom
  <2>5. QED
    BY <2>3, <2>4
<1>17. Calls'
  BY <1>13, <1>16 DEF Calls, Call
<1>18. ASSUME NEW a \in Finished', NEW c \in Blk, <<a, c>> \in edges
       PROVE  id'[c] # Unset /\ (Reaches(c, a) \/ (c \in Finished' /\ id'[a] < id'[c]))
  <2>1. CASE a = b
    <3>1. id[c] # Unset /\ id'[c] # Unset
      BY <1>7, <1>12, <1>18, <2>1
    <3>2. CASE c = b
      BY <3>1, <3>2, <2>1, <1>1, <1>7, ReachesFacts DEF Graph
    <3>3. CASE c # b /\ c \in Finished
      <4>1. id[c] \in x + 1 .. nblk - 1 /\ id'[c] = id[c]
        BY <1>1, <1>11, <3>3 DEF Numbered
      <4>2. QED
        BY <3>1, <3>3, <4>1, <2>1, <1>10, <1>11, <1>15
    <3>4. CASE c # b /\ c \notin Finished
      <4>1. Open(c)
        BY <3>1, <3>4 DEF Finished
      <4>2. PICK k \in 1 .. n : stack[k] = Leave(c)
        BY <4>1 DEF Open
      <4>3. k # 1
        BY <4>2, <3>4, <1>7, CallFacts
      <4>4. k \in 2 .. n /\ stack[k].leave /\ stack[k].blk = c
        BY <4>2, <4>3, <1>5, CallFacts
      <4>5. QED
        BY <3>1, <4>4, <2>1, <1>8
    <3>5. QED
      BY <3>2, <3>3, <3>4
  <2>2. CASE a # b
    <3>1. a \in Finished /\ a \in Blk
      BY <2>2, <1>15 DEF Finished
    <3>2. id[c] # Unset /\ (Reaches(c, a) \/ (c \in Finished /\ id[a] < id[c]))
      BY <1>1, <1>18, <3>1 DEF Numbered
    <3>3. c \in Finished => c # b
      BY <1>9
    <3>4. QED
      BY <2>2, <3>1, <3>2, <3>3, <1>11, <1>12, <1>15
  <2>3. QED
    BY <2>1, <2>2
<1>19. ASSUME NEW c \in Finished', c # Start
       PROVE  \E a \in Blk : <<a, c>> \in edges /\ id'[a] # Unset /\ (Open(a)' \/ id'[a] < id'[c])
  <2>1. CASE c = b
    <3>1. PICK j \in 2 .. n : stack[j].leave /\ <<stack[j].blk, b>> \in edges
      BY <1>7, <1>19, <2>1
    <3>0. PICK a : a = stack[j].blk
      OBVIOUS
    <3>2. a \in Blk /\ a # b /\ j \in 1 .. n
      BY <1>8, <1>5, <3>0, <3>1
    <3>3. id[a] # Unset /\ stack[j] = Leave(a)
      BY <1>5, <3>0, <3>1, <3>2, CallFacts DEF CallOK
    <3>4. Open(a)
      BY <3>2, <3>3 DEF Open
    <3>5. Open(a)' /\ id'[a] # Unset
      BY <3>2, <3>3, <3>4, <1>12, <1>14
    <3>6. <<a, b>> \in edges
      BY <3>0, <3>1
    <3>7. QED
      BY <2>1, <3>2, <3>5, <3>6
  <2>2. CASE c # b
    <3>1. c \in Finished /\ c \in Blk
      BY <2>2, <1>15 DEF Finished
    <3>2. PICK a \in Blk : <<a, c>> \in edges /\ id[a] # Unset /\ (Open(a) \/ id[a] < id[c])
      BY <1>1, <1>19, <3>1 DEF Numbered
    <3>3. id[c] \in x + 1 .. nblk - 1 /\ id'[c] = id[c]
      BY <1>1, <1>11, <2>2, <3>1 DEF Numbered
    <3>4. CASE a = b
      <4>1. id'[a] < id'[c]
        BY <3>3, <3>4, <1>10, <1>11
      <4>2. QED
        BY <3>2, <4>1, <1>12
    <3>5. CASE a # b
      BY <3>2, <3>3, <3>5, <1>11, <1>12, <1>14
    <3>6. QED
      BY <3>4, <3>5
  <2>3. QED
    BY <2>1, <2>2
<1>20. Numbered'
  <2>1. x' \in -1 .. nblk' - 1 /\ id' \in [Blk -> Int]
    BY <1>2, <1>3, <1>10, <1>11
  <2>2. \A c \in Blk : id'[c] # Unset => c \in Live'
    BY <1>1, <1>4, <1>7, <1>11 DEF Numbered
  <2>3. \A c \in Finished : c \in Blk /\ c # b /\ id[c] \in x + 1 .. nblk - 1 /\ id'[c] = id[c]
    BY <1>1, <1>9, <1>11 DEF Numbered, Finished
  <2>4. \A c \in Finished' : id'[c] \in x' + 1 .. nblk' - 1
    <3>1. \A c \in Finished : id'[c] \in x .. nblk - 1
      BY <2>3, <1>10
    <3>2. QED
      BY <3>1, <1>2, <1>3, <1>10, <1>11, <1>15
  <2>5. \A a, c \in Finished' : id'[a] = id'[c] => a = c
    <3>1. \A a, c \in Finished : id[a] = id[c] => a = c
      BY <1>1 DEF Numbered
    <3>2. \A c \in Finished : id'[c] # x
      BY <2>3, <1>10
    <3>3. QED
      BY <3>1, <3>2, <2>3, <1>11, <1>15
  <2>6. \A i \in x' + 1 .. nblk' - 1 : \E c \in Finished' : id'[c] = i
    <3>1. ASSUME NEW i \in x .. nblk - 1 PROVE \E c \in Finished' : id'[c] = i
      <4>1. CASE i = x
        BY <4>1, <1>11, <1>15
      <4>2. CASE i # x
        <5>1. i \in x + 1 .. nblk - 1
          BY <4>2, <1>10
        <5>2. PICK c \in Finished : id[c] = i
          BY <5>1, <1>1 DEF Numbered
        <5>3. QED
          BY <5>2, <2>3, <1>15
      <4>3. QED
        BY <4>1, <4>2
    <3>2. x' + 1 = x /\ nblk' = nblk
      BY <1>2, <1>3, <1>10
    <3>3. QED
      BY <3>1, <3>2
  <2>7. \A a \in Finished', c \in Blk : <<a, c>> \in edges' =>
          id'[c] # Unset /\ (Reaches(c, a)' \/ (c \in Finished' /\ id'[a] < id'[c]))
    BY <1>2, <1>4, <1>18
  <2>8. \A c \in Finished' \ {Start} : \E a \in Blk :
          <<a, c>> \in edges' /\ id'[a] # Unset /\ (Open(a)' \/ id'[a] < id'[c])
    BY <1>2, <1>19
  <2>9. QED
    BY <2>1, <2>2, <2>4, <2>5, <2>6, <2>7, <2>8 DEF Numbered
<1>21. QED
  BY <1>1, <1>2, <1>4, <1>17, <1>20 DEF RpoInv

(* Two sequences, one behind the other.                                    *)
LEMMA ConcatFacts ==
  ASSUME NEW S, NEW p \in Seq(S), NEW q \in Seq(S)
  PROVE  /\ p \o q \in Seq(S) /\ Len(p \o q) = Len(p) + Len(q)
         /\ \A k \in 1 .. Len(p) + Len(q) : (p \o q)[k] = IF k <= Len(p) THEN p[k] ELSE q[k - Len(p)]
<1>1. p \o q \in Seq(S) /\ Len(p \o q) = Len(p) + Len(q)
  OBVIOUS
<1>2. \A k \in 1 .. Len(p) + Len(q) : (p \o q)[k] = IF k <= Len(p) THEN p[k] ELSE q[k - Len(p)]
  OBVIOUS
<1>3. QED
  BY <1>1, <1>2

(* A block that is visited puts three calls in the place of one.           *)
LEMMA PushFacts ==
  ASSUME stack \in Seq(Call), stack # <<>>, NEW b \in Blk,
         s1[b] \in Blk \cup {None}, s2[b] \in Blk \cup {None},
         stack' = Order(b) \o <<Leave(b)>> \o Tail(stack)
  PROVE  /\ stack' \in Seq(Call) /\ Len(stack') = Len(stack) + 2
         /\ stack'[3] = Leave(b)
         /\ \A k \in 4 .. Len(stack) + 2 : stack'[k] = stack[k - 2]
         /\ \E c, d : /\ stack'[1] = Visit(c) /\ stack'[2] = Visit(d)
                      /\ {c, d} = {s1[b], s2[b]}
<1>1. PICK c, d : Order(b) = <<Visit(c), Visit(d)>> /\ {c, d} = {s1[b], s2[b]}
  BY DEF Order
<1> DEFINE v == Visit(c)
           w == Visit(d)
           l == Leave(b)
           t == Tail(stack)
           n == Len(stack)
<1>2. v \in Call /\ w \in Call /\ l \in Call
  BY <1>1, CallFacts
<1>3. /\ n \in Nat /\ n # 0 /\ t \in Seq(Call) /\ Len(t) = n - 1
      /\ \A k \in 1 .. n - 1 : t[k] = stack[k + 1]
  BY StackFacts
<1>4. stack' = <<v, w>> \o <<l>> \o t
  BY <1>1
<1> HIDE DEF v, w, l, t, n
<1> DEFINE a == <<v, w>> \o <<l>>
<1>5. /\ a \in Seq(Call) /\ Len(a) = 3 /\ a[1] = v /\ a[2] = w /\ a[3] = l
  <2> DEFINE p == <<v, w>>
             q == <<l>>
  <2>1. p \in Seq(Call) /\ q \in Seq(Call) /\ Len(p) = 2 /\ Len(q) = 1 /\ p[1] = v /\ p[2] = w /\ q[1] = l
    BY <1>2
  <2> HIDE DEF p, q
  <2>2. /\ p \o q \in Seq(Call) /\ Len(p \o q) = 3
        /\ \A k \in 1 .. 3 : (p \o q)[k] = IF k <= 2 THEN p[k] ELSE q[k - 2]
    <3>1. /\ p \o q \in Seq(Call) /\ Len(p \o q) = Len(p) + Len(q)
          /\ \A k \in 1 .. Len(p) + Len(q) : (p \o q)[k] = IF k <= Len(p) THEN p[k] ELSE q[k - Len(p)]
      BY <2>1, ConcatFacts
    <3>2. QED
      BY <2>1, <3>1
  <2>3. a = p \o q
    BY DEF p, q
  <2> HIDE DEF a
  <2>4. QED
    BY <2>1, <2>2, <2>3
<1>6. stack' = a \o t
  BY <1>4
<1> HIDE DEF a
<1>7. /\ stack' \in Seq(Call) /\ Len(stack') = 3 + (n - 1)
      /\ \A k \in 1 .. 3 + (n - 1) : stack'[k] = IF k <= 3 THEN a[k] ELSE t[k - 3]
  <2>1. /\ a \o t \in Seq(Call) /\ Len(a \o t) = Len(a) + Len(t)
        /\ \A k \in 1 .. Len(a) + Len(t) : (a \o t)[k] = IF k <= Len(a) THEN a[k] ELSE t[k - Len(a)]
    BY <1>3, <1>5, ConcatFacts
  <2>2. QED
    BY <1>3, <1>5, <1>6, <2>1
<1>8. 1 \in 1 .. 3 + (n - 1) /\ 2 \in 1 .. 3 + (n - 1) /\ 3 \in 1 .. 3 + (n - 1) /\ 3 + (n - 1) = n + 2
  BY <1>3
<1>9. stack'[1] = v /\ stack'[2] = w /\ stack'[3] = l
  BY <1>5, <1>7, <1>8
<1>10. ASSUME NEW k \in 4 .. n + 2 PROVE stack'[k] = stack[k - 2]
  <2>1. k \in 1 .. 3 + (n - 1) /\ ~ (k <= 3) /\ k - 3 \in 1 .. n - 1 /\ (k - 3) + 1 = k - 2
    BY <1>3
  <2>2. stack'[k] = t[k - 3]
    BY <1>7, <2>1
  <2>3. QED
    BY <1>3, <2>1, <2>2
<1>11. QED
  BY <1>1, <1>7, <1>8, <1>9, <1>10 DEF v, w, l, n

(* A call of rporec on a block that has not been visited.                  *)
LEMMA EnterVisitStep ==
  ASSUME RpoInv, Enter, ~ (Head(stack).blk = None \/ id[Head(stack).blk] # Unset)
  PROVE  RpoInv'
<1> DEFINE n == Len(stack)
<1>0. PICK b : b = Head(stack).blk
  OBVIOUS
<1>1. Graph /\ Whole /\ Preds /\ Calls /\ Numbered /\ pc = "number"
  BY DEF RpoInv, Enter
<1>2. UNCHANGED <<pc, link, at, s1, s2, loop, phi, pred, rpo, nblk, x, gone, edges>>
  BY DEF Enter
<1>3. /\ stack # <<>> /\ ~ Head(stack).leave /\ id' = [id EXCEPT ![b] = 1]
      /\ stack' = Order(b) \o <<Leave(b)>> \o Tail(stack)
  BY <1>0 DEF Enter
<1>4. Graph' /\ Whole' /\ Preds' /\ Live' = Live /\ \A a, c : Reaches(a, c)' = Reaches(a, c)
  BY <1>1, <1>2, SameGraph
<1>5. /\ n \in Nat /\ n # 0 /\ Head(stack) = stack[1] /\ 1 \in 1 .. n
      /\ \A k \in 1 .. n : stack[k] \in Call /\ CallOK(k)
  BY <1>1, <1>3, StackFacts DEF Calls
<1>6. /\ b \in Blk /\ b \in Live /\ id[b] = Unset /\ b # None /\ ~ stack[1].leave /\ stack[1] = Visit(b)
      /\ b # Start => \E j \in 2 .. n : stack[j].leave /\ <<stack[j].blk, b>> \in edges
  <2>1. CallOK(1) /\ stack[1] \in Call
    BY <1>5
  <2>2. b # None /\ b \in Blk /\ id[b] = Unset /\ b = stack[1].blk
    BY <1>0, <1>5, <2>1 DEF Call
  <2>3. stack[1] = Visit(b) /\ ~ stack[1].leave
    BY <1>3, <1>5, <2>1, <2>2, CallFacts
  <2>4. QED
    BY <2>1, <2>2, <2>3 DEF CallOK
<1>7. /\ id' \in [Blk -> Int] /\ id'[b] = 1 /\ id \in [Blk -> Int] /\ 1 # Unset
      /\ \A c \in Blk : c # b => id'[c] = id[c]
  BY <1>1, <1>3, <1>6, BlkFacts DEF Numbered
<1>8. Succs(b) = {c \in Blk : <<b, c>> \in edges} /\ s1[b] \in Blk \cup {None} /\ s2[b] \in Blk \cup {None}
  BY <1>1, <1>6, WholeFacts DEF Graph
<1>9. /\ stack' \in Seq(Call) /\ Len(stack') = n + 2 /\ stack'[3] = Leave(b)
      /\ \A k \in 4 .. n + 2 : stack'[k] = stack[k - 2]
      /\ \E c, d : stack'[1] = Visit(c) /\ stack'[2] = Visit(d) /\ {c, d} = {s1[b], s2[b]}
  BY <1>1, <1>3, <1>6, <1>8, PushFacts DEF Calls
<1>10. PICK s, d : stack'[1] = Visit(s) /\ stack'[2] = Visit(d) /\ {s, d} = {s1[b], s2[b]}
  BY <1>9
<1>11. \A c \in Blk : <<b, c>> \in edges <=> c \in {s, d} \ {None}
  BY <1>8, <1>10 DEF Succs
<1>12. s \in Blk \cup {None} /\ d \in Blk \cup {None}
  BY <1>8, <1>10
<1>13. \A c \in Blk : c # b => (Open(c)' <=> Open(c))
  <2>1. ASSUME NEW c \in Blk, Open(c) PROVE Open(c)'
    <3>1. PICK k \in 1 .. n : stack[k] = Leave(c)
      BY <2>1 DEF Open
    <3>2. k # 1
      BY <1>6, <3>1, CallFacts
    <3>3. k + 2 \in 4 .. n + 2 /\ k + 2 \in 1 .. n + 2 /\ (k + 2) - 2 = k
      BY <1>5, <3>2
    <3>4. stack'[k + 2] = Leave(c)
      BY <1>9, <3>1, <3>3
    <3>5. QED
      BY <1>9, <3>3, <3>4 DEF Open
  <2>2. ASSUME NEW c \in Blk, c # b, Open(c)' PROVE Open(c)
    <3>1. PICK k \in 1 .. n + 2 : stack'[k] = Leave(c)
      BY <1>9, <2>2 DEF Open
    <3>2. k # 1 /\ k # 2 /\ k # 3
      BY <1>9, <1>10, <2>2, <3>1, CallFacts
    <3>3. k \in 4 .. n + 2 /\ k - 2 \in 1 .. n
      BY <1>5, <3>2
    <3>4. stack[k - 2] = Leave(c)
      BY <1>9, <3>1, <3>3
    <3>5. QED
      BY <3>3, <3>4 DEF Open
  <2>3. QED
    BY <2>1, <2>2
<1>14. Open(b)'
  <2>1. 3 \in 1 .. Len(stack')
    BY <1>5, <1>9
  <2>2. QED
    BY <1>9, <2>1 DEF Open
<1>15. Finished' = Finished /\ b \notin Finished
  BY <1>6, <1>7, <1>13, <1>14 DEF Finished
<1>16. ASSUME NEW k \in 4 .. n + 2 PROVE CallOK(k)'
  <2> DEFINE i == k - 2
  <2>0. PICK h : h = stack[i]
    OBVIOUS
  <2>1. i \in 1 .. n /\ i # 1 /\ stack'[k] = h /\ CallOK(i) /\ h \in Call
    BY <1>5, <1>9, <2>0
  <2>2. /\ h.leave => h.blk # None /\ id[h.blk] # Unset
        /\ h.blk # None => h.blk \in Live
        /\ h.leave => \A c \in Blk : <<h.blk, c>> \in edges => id[c] # Unset \/ \E j \in 1 .. i - 1 : stack[j] = Visit(c)
        /\ h.leave => \A j \in 1 .. i - 1 : (stack[j].blk # None => Reaches(h.blk, stack[j].blk)) /\ stack[j] # h
        /\ h.blk \notin {None, Start} => \E j \in i + 1 .. n : stack[j].leave /\ <<stack[j].blk, h.blk>> \in edges
    BY <2>0, <2>1 DEF CallOK
  <2>3. h.blk \in Blk \cup {None} /\ (h.leave => h.blk \in Blk)
    BY <2>1, <2>2 DEF Call
  <2>4. h.leave => id'[h.blk] # Unset
    BY <2>2, <2>3, <1>7
  <2>5. ASSUME NEW c \in Blk, h.leave, <<h.blk, c>> \in edges
        PROVE  id'[c] # Unset \/ \E j \in 1 .. k - 1 : stack'[j] = Visit(c)
    <3>1. SUFFICES ASSUME id'[c] = Unset PROVE \E j \in 1 .. k - 1 : stack'[j] = Visit(c)
      OBVIOUS
    <3>2. c # b /\ id[c] = Unset
      BY <3>1, <1>7
    <3>3. PICK j \in 1 .. i - 1 : stack[j] = Visit(c)
      BY <2>2, <2>5, <3>2
    <3>4. j # 1
      BY <1>6, <3>2, <3>3, CallFacts
    <3>5. j + 2 \in 1 .. k - 1 /\ j + 2 \in 4 .. n + 2 /\ (j + 2) - 2 = j
      BY <1>5, <3>4
    <3>6. QED
      BY <1>9, <3>3, <3>5
  <2>6. ASSUME NEW j \in 1 .. k - 1, h.leave
        PROVE  (stack'[j].blk # None => Reaches(h.blk, stack'[j].blk)) /\ stack'[j] # h
    <3>1. Reaches(h.blk, b)
      <4>1. 1 \in 1 .. i - 1 /\ stack[1].blk = b
        BY <2>1, <1>0, <1>5
      <4>2. QED
        BY <4>1, <2>2, <2>6, <1>6
    <3>2. \A c \in Blk : c \in {s, d} => Reaches(h.blk, c)
      <4>1. \A c \in Blk : c \in {s, d} => <<b, c>> \in edges
        BY <1>11, BlkFacts
      <4>2. h.blk \in Blk
        BY <2>3, <2>6
      <4>3. QED
        BY <4>1, <4>2, <3>1, <1>1, ReachesFacts DEF Graph
    <3>3. CASE j = 1 \/ j = 2
      <4>1. stack'[j] \in {Visit(s), Visit(d)}
        BY <1>10, <3>3
      <4>2. stack'[j].blk \in {s, d} /\ ~ stack'[j].leave
        BY <4>1, CallFacts
      <4>3. QED
        BY <4>2, <3>2, <1>12, <2>6
    <3>4. CASE j = 3
      <4>1. stack'[j] = Leave(b) /\ stack'[j].blk = b
        BY <1>9, <3>4, CallFacts
      <4>2. h # Leave(b)
        BY <2>2, <2>6, <1>6, CallFacts
      <4>3. QED
        BY <4>1, <4>2, <3>1
    <3>5. CASE j \notin {1, 2, 3}
      <4>1. j \in 4 .. n + 2 /\ j - 2 \in 1 .. i - 1
        BY <1>5, <3>5
      <4>2. stack'[j] = stack[j - 2]
        BY <1>9, <4>1
      <4>3. QED
        BY <2>2, <2>6, <4>1, <4>2
    <3>6. QED
      BY <3>3, <3>4, <3>5
  <2>7. ASSUME h.blk \notin {None, Start}
        PROVE  \E j \in k + 1 .. n + 2 : stack'[j].leave /\ <<stack'[j].blk, h.blk>> \in edges
    <3>1. PICK j \in i + 1 .. n : stack[j].leave /\ <<stack[j].blk, h.blk>> \in edges
      BY <2>2, <2>7
    <3>2. j + 2 \in k + 1 .. n + 2 /\ j + 2 \in 4 .. n + 2 /\ (j + 2) - 2 = j
      BY <1>5
    <3>3. stack'[j + 2] = stack[j]
      BY <1>9, <3>2
    <3>4. QED
      BY <3>1, <3>2, <3>3
  <2>8. QED
    BY <1>2, <1>4, <1>9, <2>1, <2>2, <2>4, <2>5, <2>6, <2>7 DEF CallOK
<1>17. CallOK(3)'
  <2>1. stack'[3].blk = b /\ stack'[3].leave
    BY <1>9, CallFacts
  <2>2. 1 \in 1 .. 3 - 1 /\ 2 \in 1 .. 3 - 1 /\ \A j \in 1 .. 3 - 1 : j = 1 \/ j = 2
    OBVIOUS
  <2>3. \A c \in Blk : <<b, c>> \in edges => \E j \in 1 .. 3 - 1 : stack'[j] = Visit(c)
    BY <1>10, <1>11, <2>2
  <2>4. ASSUME NEW j \in 1 .. 3 - 1
        PROVE  (stack'[j].blk # None => Reaches(b, stack'[j].blk)) /\ stack'[j] # Leave(b)
    <3>1. stack'[j] \in {Visit(s), Visit(d)}
      BY <1>10, <2>2
    <3>2. stack'[j].blk \in {s, d} /\ stack'[j] # Leave(b)
      BY <3>1, CallFacts
    <3>3. stack'[j].blk # None => <<b, stack'[j].blk>> \in edges
      BY <3>2, <1>11, <1>12
    <3>4. \A c : <<b, c>> \in edges => Reaches(b, c)
      BY <1>1, <1>6, ReachesFacts DEF Graph
    <3>5. QED
      BY <3>2, <3>3, <3>4
  <2>5. ASSUME b # Start
        PROVE  \E j \in 3 + 1 .. n + 2 : stack'[j].leave /\ <<stack'[j].blk, b>> \in edges
    <3>1. PICK j \in 2 .. n : stack[j].leave /\ <<stack[j].blk, b>> \in edges
      BY <1>6, <2>5
    <3>2. j + 2 \in 3 + 1 .. n + 2 /\ j + 2 \in 4 .. n + 2 /\ (j + 2) - 2 = j
      BY <1>5
    <3>3. stack'[j + 2] = stack[j]
      BY <1>9, <3>2
    <3>4. QED
      BY <3>1, <3>2, <3>3
  <2>6. QED
    BY <1>2, <1>4, <1>6, <1>7, <1>9, <2>1, <2>3, <2>4, <2>5 DEF CallOK
<1>18. ASSUME NEW k \in 1 .. 2 PROVE CallOK(k)'
  <2>1. stack'[k] \in {Visit(s), Visit(d)}
    BY <1>10
  <2>2. stack'[k].blk \in {s, d} /\ ~ stack'[k].leave
    BY <2>1, CallFacts
  <2>3. stack'[k].blk # None => stack'[k].blk \in Blk /\ <<b, stack'[k].blk>> \in edges
    BY <2>2, <1>11, <1>12
  <2>4. stack'[k].blk # None => stack'[k].blk \in Live
    BY <2>3, <1>1, <1>6, GraphFacts
  <2>5. stack'[k].blk # None => \E j \in k + 1 .. n + 2 : stack'[j].leave /\ <<stack'[j].blk, stack'[k].blk>> \in edges
    <3>1. stack'[3].blk = b /\ stack'[3].leave /\ 3 \in k + 1 .. n + 2
      BY <1>5, <1>9, CallFacts
    <3>2. QED
      BY <3>1, <2>3
  <2>6. QED
    BY <1>2, <1>4, <1>9, <2>2, <2>4, <2>5 DEF CallOK
<1>19. \A k \in 1 .. n + 2 : CallOK(k)'
  <2>1. \A k \in 1 .. n + 2 : k \in 1 .. 2 \/ k = 3 \/ k \in 4 .. n + 2
    BY <1>5
  <2>2. QED
    BY <2>1, <1>16, <1>17, <1>18
<1>20. Bottom'
  <2>1. stack[n].blk = Start /\ Start \notin Finished /\ (~ stack[n].leave => n = 1 /\ \A c \in Blk : id[c] = Unset)
    BY <1>1, <1>3 DEF Calls, Bottom
  <2>2. stack' # <<>>
    BY <1>5, <1>9
  <2>3. stack'[n + 2].blk = Start /\ stack'[n + 2].leave
    <3>1. CASE n = 1
      <4>1. b = Start
        BY <1>0, <1>5, <2>1, <3>1
      <4>2. QED
        BY <4>1, <3>1, <1>9, CallFacts
    <3>2. CASE n # 1
      <4>1. n + 2 \in 4 .. n + 2 /\ (n + 2) - 2 = n
        <5>1. \A m \in Nat : m # 0 /\ m # 1 => m + 2 \in 4 .. m + 2 /\ (m + 2) - 2 = m
          OBVIOUS
        <5> HIDE DEF n
        <5>2. QED
          BY <1>5, <3>2, <5>1
      <4>2. stack'[n + 2] = stack[n]
        BY <1>9, <4>1
      <4>3. QED
        BY <2>1, <3>2, <4>2
    <3>3. QED
      BY <3>1, <3>2
  <2>4. QED
    BY <1>9, <1>15, <2>1, <2>2, <2>3 DEF Bottom
<1>21. Calls'
  BY <1>9, <1>19, <1>20 DEF Calls, Call
<1>22. Numbered'
  <2>1. x' \in -1 .. nblk' - 1 /\ id' \in [Blk -> Int] /\ \A c \in Blk : id'[c] # Unset => c \in Live'
    BY <1>1, <1>2, <1>4, <1>6, <1>7 DEF Numbered
  <2>2. \A c \in Finished : c \in Blk /\ c # b /\ id'[c] = id[c]
    BY <1>7, <1>15 DEF Finished
  <2>3. /\ \A c \in Finished' : id'[c] \in x' + 1 .. nblk' - 1
        /\ \A a, c \in Finished' : id'[a] = id'[c] => a = c
        /\ \A i \in x' + 1 .. nblk' - 1 : \E c \in Finished' : id'[c] = i
    BY <1>1, <1>2, <1>15, <2>2 DEF Numbered
  <2>4. ASSUME NEW a \in Finished, NEW c \in Blk, <<a, c>> \in edges
        PROVE  id'[c] # Unset /\ (Reaches(c, a) \/ (c \in Finished /\ id'[a] < id'[c]))
    <3>1. id[c] # Unset /\ (Reaches(c, a) \/ (c \in Finished /\ id[a] < id[c]))
      BY <1>1, <2>4 DEF Numbered
    <3>2. QED
      BY <3>1, <2>2, <1>7
  <2>5. ASSUME NEW c \in Finished \ {Start}
        PROVE  \E a \in Blk : <<a, c>> \in edges /\ id'[a] # Unset /\ (Open(a)' \/ id'[a] < id'[c])
    <3>1. PICK a \in Blk : <<a, c>> \in edges /\ id[a] # Unset /\ (Open(a) \/ id[a] < id[c])
      BY <1>1 DEF Numbered
    <3>2. a # b
      BY <3>1, <1>6
    <3>3. id'[a] = id[a] /\ (Open(a)' <=> Open(a)) /\ id'[c] = id[c]
      BY <3>2, <2>2, <1>7, <1>13
    <3>4. QED
      BY <3>1, <3>3
  <2>6. QED
    BY <1>2, <1>4, <1>15, <2>1, <2>3, <2>4, <2>5 DEF Numbered
<1>23. QED
  BY <1>1, <1>2, <1>4, <1>21, <1>22 DEF RpoInv

(* No call is left: the numbered blocks are closed under the edges, so     *)
(* they are the blocks that can be reached.                                *)
LEMMA ReachedStep ==
  ASSUME RpoInv, Reached
  PROVE  RpoInv'
<1>1. Graph /\ Whole /\ Preds /\ Calls /\ Numbered /\ pc = "number" /\ stack = <<>>
  BY DEF RpoInv, Reached
<1>2. UNCHANGED <<link, s1, s2, phi, pred, id, edges>> /\ pc' = "sweep" /\ at' = 1
  BY DEF Reached
<1>3. gone' = x + 1 /\ nblk' = nblk - (x + 1) /\ rpo' = [k \in 1 .. nblk' |-> None]
  BY DEF Reached
<1>4. Graph' /\ Preds' /\ Live' = Live /\ Inside' = Inside /\ \A a, b : Reaches(a, b)' = Reaches(a, b)
  BY <1>1, <1>2, SameGraph
<1>5. /\ Live \subseteq Inside /\ Live \subseteq Blk /\ nblk \in Nat /\ Len(link) \in Nat
      /\ \A T : Start \in T /\ Closed(T) => Live \subseteq T
  BY <1>1, GraphFacts, WholeFacts DEF Whole
<1>6. \A b \in Blk : ~ Open(b)
  <2>1. Len(stack) = 0
    BY <1>1
  <2>2. QED
    BY <2>1 DEF Open
<1>7. \A b \in Blk : b \in Finished <=> id[b] # Unset
  BY <1>6 DEF Finished
<1>8. Finished = Live
  <2>1. Start \in Finished
    BY <1>1 DEF Calls, Bottom
  <2>2. ASSUME NEW e \in edges, e[1] \in Finished PROVE e[2] \in Finished
    <3>1. e = <<e[1], e[2]>> /\ e[1] \in Blk /\ e[2] \in Blk
      BY <1>1 DEF Graph
    <3>2. id[e[2]] # Unset
      BY <1>1, <2>2, <3>1 DEF Numbered
    <3>3. QED
      BY <1>7, <3>1, <3>2
  <2>3. Closed(Finished)
    BY <2>2 DEF Closed
  <2>4. Finished \subseteq Live
    BY <1>1 DEF Numbered, Finished
  <2>5. QED
    BY <1>5, <2>1, <2>3, <2>4
<1>9. x \in -1 .. nblk - 1 /\ gone' \in Nat /\ nblk' \in Nat /\ gone' + nblk' = nblk
  BY <1>1, <1>3, <1>5 DEF Numbered
<1>10. Kept' = {}
  <2>1. 1 .. at' - 1 = {}
    BY <1>2
  <2>2. QED
    BY <2>1 DEF Kept
<1>11. \A b : Place(b)' = id[b]
  BY <1>2, <1>10 DEF Place
<1>12. Sorted'
  <2>1. at' \in 1 .. Len(link') + 1 /\ Live' \subseteq Inside' /\ id' \in [Blk -> Int]
    BY <1>1, <1>2, <1>4, <1>5 DEF Numbered
  <2>2. \A b \in Blk \ Live : id[b] = Unset
    BY <1>7, <1>8
  <2>3. \A b \in Live : id[b] \in gone' .. gone' + nblk' - 1
    BY <1>1, <1>3, <1>8, <1>9 DEF Numbered
  <2>4. \A a, b \in Live : id[a] = id[b] => a = b
    BY <1>1, <1>8 DEF Numbered
  <2>5. \A i \in gone' .. gone' + nblk' - 1 : \E b \in Live : id[b] = i
    BY <1>1, <1>3, <1>8, <1>9 DEF Numbered
  <2>6. ASSUME NEW e \in edges, e[1] \in Live PROVE id[e[1]] < id[e[2]] \/ Reaches(e[2], e[1])
    <3>1. e = <<e[1], e[2]>> /\ e[1] \in Blk /\ e[2] \in Blk
      BY <1>1 DEF Graph
    <3>2. QED
      BY <1>1, <1>8, <2>6, <3>1 DEF Numbered
  <2>7. ASSUME NEW b \in Live \ {Start} PROVE \E a \in Live : <<a, b>> \in edges /\ id[a] < id[b]
    <3>1. PICK a \in Blk : <<a, b>> \in edges /\ id[a] # Unset /\ (Open(a) \/ id[a] < id[b])
      BY <1>1, <1>8 DEF Numbered
    <3>2. QED
      BY <3>1, <1>6, <1>7, <1>8
  <2>8. id[Start] = gone'
    BY <1>1, <1>3 DEF Calls, Bottom
  <2>9. rpo' \in [1 .. nblk' -> Blk \cup {None}]
    BY <1>3
  <2>10. QED
    BY <1>2, <1>4, <1>9, <1>10, <1>11, <2>1, <2>2, <2>3, <2>4, <2>5, <2>6, <2>7, <2>8, <2>9 DEF Sorted
<1>13. QED
  BY <1>2, <1>4, <1>12 DEF RpoInv

(* The sweep: its end, and a block that stays.                             *)
LEMMA SweepEndStep ==
  ASSUME RpoInv, SweepEnd
  PROVE  RpoInv'
<1>1. Graph /\ Preds /\ Sorted /\ pc = "sweep" /\ at > Len(link) /\ pc' = "done"
  BY DEF RpoInv, SweepEnd
<1>2. UNCHANGED <<link, at, s1, s2, phi, pred, id, rpo, nblk, gone, edges>>
  BY DEF SweepEnd
<1>3. Graph' /\ Preds' /\ Live' = Live /\ Inside' = Inside /\ \A a, b : Reaches(a, b)' = Reaches(a, b)
  BY <1>1, <1>2, SameGraph
<1>4. Kept' = Kept
  BY <1>2 DEF Kept
<1>5. \A b : Place(b)' = Place(b)
  BY <1>2, <1>4 DEF Place
<1>6. Sorted'
  BY <1>1, <1>2, <1>3, <1>4, <1>5 DEF Sorted
<1>7. at' = Len(link') + 1
  <2>1. Len(link) \in Nat
    BY <1>1, GraphFacts
  <2>2. at \in 1 .. Len(link) + 1
    BY <1>1 DEF Sorted
  <2>3. QED
    BY <1>1, <1>2, <2>1, <2>2
<1>8. QED
  BY <1>1, <1>3, <1>6, <1>7 DEF RpoInv

LEMMA SweepKeepStep ==
  ASSUME RpoInv, SweepKeep
  PROVE  RpoInv'
<1>0. PICK b : b = link[at]
  OBVIOUS
<1>1. Graph /\ Preds /\ Sorted /\ pc = "sweep" /\ at <= Len(link) /\ id[b] # Unset
  BY <1>0 DEF RpoInv, SweepKeep
<1>2. UNCHANGED <<pc, link, s1, s2, phi, pred, nblk, gone, edges>>
  BY DEF SweepKeep
<1>3. /\ id' = [id EXCEPT ![b] = id[b] - gone]
      /\ rpo' = [rpo EXCEPT ![id[b] - gone + 1] = b]
      /\ at' = at + 1
  BY <1>0 DEF SweepKeep
<1>4. Graph' /\ Preds' /\ Live' = Live /\ Inside' = Inside /\ \A a, c : Reaches(a, c)' = Reaches(a, c)
  BY <1>1, <1>2, SameGraph
<1>5. /\ Live \subseteq Blk /\ Len(link) \in Nat /\ Lists(link, Inside)
      /\ at \in 1 .. Len(link) + 1 /\ gone \in Nat /\ nblk \in Nat /\ id \in [Blk -> Int]
      /\ \A c \in Live : Place(c) \in gone .. gone + nblk - 1
      /\ \A a, c \in Live : Place(a) = Place(c) => a = c
      /\ rpo \in [1 .. nblk -> Blk \cup {None}]
  BY <1>1, GraphFacts DEF Sorted
<1>6. at \in 1 .. Len(link) /\ \A k \in 1 .. at - 1 : k \in 1 .. Len(link) /\ k # at
  BY <1>1, <1>5
<1>7. b \in Inside /\ b \in Blk /\ b \notin Kept
  <2>1. /\ \A k \in 1 .. Len(link) : link[k] \in Inside
        /\ \A j, k \in 1 .. Len(link) : link[j] = link[k] => j = k
        /\ Inside \subseteq Blk
    BY <1>5, ListsFacts
  <2>2. QED
    BY <1>0, <1>6, <2>1 DEF Kept
<1>8. b \in Live
  BY <1>1, <1>7 DEF Sorted
<1>9. Kept' = Kept \cup {b}
  <2>1. 1 .. at' - 1 = (1 .. at - 1) \cup {at}
    BY <1>3, <1>6
  <2>2. QED
    BY <1>0, <1>2, <2>1 DEF Kept
<1>10. /\ id' \in [Blk -> Int] /\ id'[b] = id[b] - gone /\ \A c \in Blk : c # b => id'[c] = id[c]
       /\ id[b] \in Int
  BY <1>3, <1>5, <1>7
<1>11. Place(b) = id[b] /\ id[b] \in gone .. gone + nblk - 1
  BY <1>5, <1>7, <1>8 DEF Place
<1>12. \A c \in Live : Place(c)' = Place(c)
  <2>1. ASSUME NEW c \in Live PROVE Place(c)' = Place(c)
    <3>1. CASE c = b
      <4>1. Place(c)' = id'[b] + gone
        BY <3>1, <1>2, <1>9 DEF Place
      <4>2. QED
        BY <4>1, <3>1, <1>5, <1>10, <1>11
    <3>2. CASE c # b
      <4>1. c \in Blk /\ (c \in Kept' <=> c \in Kept) /\ id'[c] = id[c] /\ gone' = gone
        BY <3>2, <1>2, <1>5, <1>9, <1>10
      <4>2. QED
        BY <4>1 DEF Place
    <3>3. QED
      BY <3>1, <3>2
  <2>2. QED
    BY <2>1
<1>13. /\ id[b] - gone + 1 \in 1 .. nblk
       /\ rpo' \in [1 .. nblk -> Blk \cup {None}]
       /\ rpo'[id[b] - gone + 1] = b
       /\ \A k \in 1 .. nblk : k # id[b] - gone + 1 => rpo'[k] = rpo[k]
  <2>1. id[b] - gone + 1 \in 1 .. nblk
    BY <1>5, <1>11
  <2>2. QED
    BY <1>3, <1>5, <1>7, <2>1
<1>14. ASSUME NEW c \in Kept' PROVE rpo'[id'[c] + 1] = c
  <2>1. CASE c = b
    BY <2>1, <1>10, <1>13
  <2>2. CASE c # b
    <3>1. c \in Kept /\ c \in Live /\ c \in Blk /\ rpo[id[c] + 1] = c /\ id'[c] = id[c] /\ id[c] \in Int
      BY <2>2, <1>1, <1>5, <1>9, <1>10 DEF Sorted
    <3>2. Place(c) = id[c] + gone /\ Place(c) # id[b]
      <4>1. Place(c) # Place(b)
        BY <2>2, <3>1, <1>5, <1>8
      <4>2. QED
        BY <3>1, <4>1, <1>11 DEF Place
    <3>3. Place(c) \in gone .. gone + nblk - 1
      BY <3>1, <1>5
    <3>4. id[c] + 1 \in 1 .. nblk /\ id[c] + 1 # id[b] - gone + 1
      BY <3>1, <3>2, <3>3, <1>5, <1>10
    <3>5. QED
      BY <3>1, <3>4, <1>13
  <2>3. QED
    BY <2>1, <2>2
<1>15. Sorted'
  <2>1. at' \in 1 .. Len(link') + 1 /\ gone' \in Nat /\ nblk' \in Nat
    BY <1>2, <1>3, <1>5, <1>6
  <2>2. Kept' \subseteq Live' /\ Live' \subseteq Inside'
    BY <1>1, <1>4, <1>8, <1>9 DEF Sorted
  <2>3. \A c \in Blk \ Live : id'[c] = Unset
    BY <1>1, <1>8, <1>10 DEF Sorted
  <2>4. /\ \A c \in Live : Place(c)' \in gone .. gone + nblk - 1
        /\ \A a, c \in Live : Place(a)' = Place(c)' => a = c
        /\ \A i \in gone .. gone + nblk - 1 : \E c \in Live : Place(c)' = i
        /\ \A c \in Live \ {Start} : \E a \in Live : <<a, c>> \in edges /\ Place(a)' < Place(c)'
    <3>1. \A c \in Live : Place(c)' \in gone .. gone + nblk - 1
      BY <1>5, <1>12
    <3>2. \A a, c \in Live : Place(a)' = Place(c)' => a = c
      BY <1>5, <1>12
    <3>3. \A i \in gone .. gone + nblk - 1 : \E c \in Live : Place(c) = i
      BY <1>1 DEF Sorted
    <3>4. \A i \in gone .. gone + nblk - 1 : \E c \in Live : Place(c)' = i
      BY <3>3, <1>12
    <3>5. \A c \in Live \ {Start} : \E a \in Live : <<a, c>> \in edges /\ Place(a) < Place(c)
      BY <1>1 DEF Sorted
    <3>6. \A c \in Live \ {Start} : \E a \in Live : <<a, c>> \in edges /\ Place(a)' < Place(c)'
      BY <3>5, <1>12
    <3>7. QED
      BY <3>1, <3>2, <3>4, <3>6
  <2>5. \A e \in edges : e[1] \in Live => Place(e[1])' < Place(e[2])' \/ Reaches(e[2], e[1])
    <3>1. SUFFICES ASSUME NEW e \in edges, e[1] \in Live
                   PROVE  Place(e[1])' < Place(e[2])' \/ Reaches(e[2], e[1])
      OBVIOUS
    <3>2. e = <<e[1], e[2]>>
      BY <1>1 DEF Graph
    <3>3. PICK u, v : u = e[1] /\ v = e[2]
      OBVIOUS
    <3>4. u \in Live /\ v \in Live
      BY <1>1, <3>1, <3>2, <3>3, GraphFacts
    <3>5. Place(u) < Place(v) \/ Reaches(v, u)
      BY <1>1, <3>1, <3>3 DEF Sorted
    <3>6. Place(u)' = Place(u) /\ Place(v)' = Place(v)
      BY <3>4, <1>12
    <3>7. e[1]' = e[1] /\ e[2]' = e[2]
      OBVIOUS
    <3>8. QED
      BY <3>3, <3>5, <3>6
  <2>6. Start \in Live /\ Place(Start)' = gone
    BY <1>1, <1>12, GraphFacts DEF Sorted
  <2>7. QED
    BY <1>2, <1>4, <1>10, <1>13, <1>14, <2>1, <2>2, <2>3, <2>4, <2>5, <2>6 DEF Sorted
<1>16. QED
  BY <1>1, <1>2, <1>4, <1>15 DEF RpoInv

(* What qbe_edgedel does to the phis and predecessors m of a function      *)
(* whose edges into a block d come from P[d].                              *)
Holds(m, P) ==
  /\ m = [phi |-> m.phi, pred |-> m.pred, ok |-> TRUE]
  /\ DOMAIN m.phi \subseteq Blk /\ m.pred \in [Blk -> Seq(Blk)]
  /\ \A d \in Blk : Lists(m.pred[d], P[d])
  /\ \A d \in DOMAIN m.phi : Lists(m.phi[d], P[d])

LEMMA ContainsFacts ==
  ASSUME NEW s, NEW S, Lists(s, S), NEW a \in S
  PROVE  /\ Contains(s, a) /\ Lists(RemoveFirst(s, a), S \ {a})
<1>1. PICK k \in 1 .. Len(s) : s[k] = a
  BY ListsFacts
<1>2. QED
  BY <1>1, RemoveLists

LEMMA EdgeDelFacts ==
  ASSUME NEW m, NEW P, Holds(m, P), NEW bs \in Blk, NEW bd \in Blk \cup {None}, NEW other,
         bd # None /\ bd # other => bs \in P[bd]
  PROVE  Holds(EdgeDel(m, bs, bd, other),
               [d \in Blk |-> IF d = bd /\ d # other THEN P[d] \ {bs} ELSE P[d]])
<1> DEFINE Q == [d \in Blk |-> IF d = bd /\ d # other THEN P[d] \ {bs} ELSE P[d]]
           r == EdgeDel(m, bs, bd, other)
<1>1. CASE bd = None \/ bd = other
  <2>1. r = m /\ \A d \in Blk : Q[d] = P[d]
    BY <1>1, BlkFacts DEF EdgeDel
  <2> HIDE DEF r, Q
  <2>2. Holds(r, Q)
    BY <2>1 DEF Holds
  <2>3. QED
    BY <2>2 DEF r, Q
<1>2. CASE ~ (bd = None \/ bd = other)
  <2>1. bd \in Blk /\ bs \in P[bd]
    BY <1>2
  <2>2. /\ Lists(m.pred[bd], P[bd])
        /\ bd \in DOMAIN m.phi => Lists(m.phi[bd], P[bd])
    BY <2>1 DEF Holds
  <2>3. /\ Contains(m.pred[bd], bs) /\ Lists(RemoveFirst(m.pred[bd], bs), P[bd] \ {bs})
        /\ bd \in DOMAIN m.phi => Contains(m.phi[bd], bs) /\ Lists(RemoveFirst(m.phi[bd], bs), P[bd] \ {bs})
    BY <2>1, <2>2, ContainsFacts
  <2>4. Finds(m, bs, bd)
    BY <2>3 DEF Finds
  <2>5. PICK f, g : /\ f = [b \in DOMAIN m.phi |-> IF b = bd THEN RemoveFirst(m.phi[b], bs) ELSE m.phi[b]]
                    /\ g = [m.pred EXCEPT ![bd] = RemoveFirst(m.pred[bd], bs)]
    OBVIOUS
  <2>6. r = [phi |-> f, pred |-> g, ok |-> TRUE]
    <3>1. r = [m EXCEPT !.phi = f, !.pred[bd] = RemoveFirst(@, bs)]
      BY <1>2, <2>4, <2>5 DEF EdgeDel
    <3>2. PICK u, v : m = [phi |-> u, pred |-> v, ok |-> TRUE]
      BY DEF Holds
    <3>3. r = [m EXCEPT !.phi = f, !.pred = g]
      BY <3>1, <3>2, <2>5
    <3>4. QED
      BY <3>2, <3>3
  <2>7. \A d \in Blk : Q[d] = IF d = bd THEN P[d] \ {bs} ELSE P[d]
    BY <1>2
  <2> HIDE DEF r, Q
  <2>8. /\ g \in [Blk -> Seq(Blk)]
        /\ \A d \in Blk : Lists(g[d], Q[d])
    <3>1. RemoveFirst(m.pred[bd], bs) \in Seq(Blk)
      BY <2>3 DEF Lists
    <3>2. m.pred \in [Blk -> Seq(Blk)] /\ \A d \in Blk : Lists(m.pred[d], P[d])
      BY DEF Holds
    <3>3. g \in [Blk -> Seq(Blk)] /\ \A d \in Blk : g[d] = IF d = bd THEN RemoveFirst(m.pred[bd], bs) ELSE m.pred[d]
      BY <2>1, <2>5, <3>1, <3>2
    <3>4. QED
      BY <2>1, <2>3, <2>7, <3>2, <3>3
  <2>9. /\ DOMAIN f = DOMAIN m.phi
        /\ \A d \in DOMAIN f : Lists(f[d], Q[d])
    <3>1. DOMAIN f = DOMAIN m.phi /\ \A d \in DOMAIN f : f[d] = IF d = bd THEN RemoveFirst(m.phi[bd], bs) ELSE m.phi[d]
      BY <2>5
    <3>2. DOMAIN m.phi \subseteq Blk /\ \A d \in DOMAIN m.phi : Lists(m.phi[d], P[d])
      BY DEF Holds
    <3>3. QED
      BY <2>3, <2>7, <3>1, <3>2
  <2>10. r.phi = f /\ r.pred = g /\ r = [phi |-> r.phi, pred |-> r.pred, ok |-> TRUE]
    BY <2>6
  <2>11. DOMAIN f \subseteq Blk
    BY <2>9 DEF Holds
  <2>12. Holds(r, Q)
    BY <2>8, <2>9, <2>10, <2>11 DEF Holds
  <2>13. QED
    BY <2>12 DEF r, Q
<1>3. QED
  BY <1>1, <1>2

(* A block that goes: both assertions hold, and no block that is reached   *)
(* notices.                                                                *)
LEMMA SweepDeleteStep ==
  ASSUME RpoInv, SweepDelete
  PROVE  RpoInv' /\ \A a \in Live : s1'[a] = s1[a] /\ s2'[a] = s2[a]
<1>0. PICK b : b = link[at]
  OBVIOUS
<1>1. Graph /\ Preds /\ Sorted /\ pc = "sweep" /\ at <= Len(link) /\ id[b] = Unset
  BY <1>0 DEF RpoInv, SweepDelete
<1>2. UNCHANGED <<at, id, rpo, nblk, gone, edges>>
  BY DEF SweepDelete
<1> DEFINE m  == [phi |-> phi, pred |-> pred, ok |-> TRUE]
           m1 == EdgeDel(m, b, s1[b], s2[b])
           m2 == EdgeDel(m1, b, s2[b], None)
<1>3. /\ phi' = m2.phi /\ pred' = m2.pred /\ pc' = IF m2.ok THEN pc ELSE "abort"
      /\ s1' = [s1 EXCEPT ![b] = None] /\ s2' = [s2 EXCEPT ![b] = None]
      /\ link' = RemoveFirst(link, b)
  BY <1>0 DEF SweepDelete
<1>4. /\ Live \subseteq Blk /\ Len(link) \in Nat /\ Lists(link, Inside) /\ Inside \subseteq Blk
      /\ at \in 1 .. Len(link) + 1 /\ gone \in Nat /\ nblk \in Nat
      /\ \A c \in Live : Place(c) \in gone .. gone + nblk - 1
      /\ Start \in Live /\ Live \subseteq Inside
  BY <1>1, GraphFacts DEF Sorted
<1>5. at \in 1 .. Len(link) /\ \A k \in 1 .. at - 1 : k \in 1 .. Len(link) /\ k # at
  BY <1>1, <1>4
<1>6. b \in Inside /\ b \in Blk /\ b \notin Kept
  <2>1. /\ \A k \in 1 .. Len(link) : link[k] \in Inside
        /\ \A j, k \in 1 .. Len(link) : link[j] = link[k] => j = k
    BY <1>4, ListsFacts
  <2>2. QED
    BY <1>0, <1>4, <1>5, <2>1 DEF Kept
<1>7. b \notin Live /\ b # Start
  <2>1. ASSUME b \in Live PROVE FALSE
    <3>1. Place(b) = -1
      BY <1>1, <1>6 DEF Place, Unset
    <3>2. QED
      BY <2>1, <3>1, <1>4
  <2>2. QED
    BY <2>1, <1>4
<1>8. /\ s1[b] \in Blk \cup {None} /\ s2[b] \in Blk \cup {None}
      /\ \A d \in Blk : <<b, d>> \in edges <=> d = s1[b] \/ d = s2[b]
  BY <1>1, <1>6, BlkFacts DEF Graph, Succs
<1> DEFINE P  == [d \in Blk |-> Into(d)]
           P1 == [d \in Blk |-> IF d = s1[b] /\ d # s2[b] THEN P[d] \ {b} ELSE P[d]]
           P2 == [d \in Blk |-> IF d = s2[b] /\ d # None THEN P1[d] \ {b} ELSE P1[d]]
<1>9. Holds(m, P)
  <2>2. \A d \in Blk : P[d] = Into(d)
    OBVIOUS
  <2>3. m.phi = phi /\ m.pred = pred /\ m = [phi |-> m.phi, pred |-> m.pred, ok |-> TRUE]
    OBVIOUS
  <2> HIDE DEF m, P
  <2>4. DOMAIN phi \subseteq Blk /\ \A d \in DOMAIN phi : Lists(phi[d], P[d])
    BY <1>1, <2>2 DEF Graph
  <2>5. pred \in [Blk -> Seq(Blk)] /\ \A d \in Blk : Lists(pred[d], P[d])
    BY <1>1, <2>2 DEF Preds
  <2>6. QED
    BY <2>3, <2>4, <2>5 DEF Holds
<1>10. \A d \in Blk : d = s1[b] \/ d = s2[b] => b \in P[d]
  BY <1>6, <1>8 DEF Into
<1>11. Holds(m1, P1)
  <2> HIDE DEF m, P
  <2>1. QED
    BY <1>6, <1>8, <1>9, <1>10, EdgeDelFacts
<1>12. Holds(m2, P2)
  <2>1. s2[b] # None /\ s2[b] # None => b \in P1[s2[b]]
    <3> HIDE DEF P
    <3>1. QED
      BY <1>8, <1>10
  <2> HIDE DEF m1, P1
  <2>2. QED
    BY <1>6, <1>8, <1>11, <2>1, EdgeDelFacts
<1>13. \A d \in Blk : P2[d] = Into(d) \ {b}
  <2>1. ASSUME NEW d \in Blk PROVE P2[d] = Into(d) \ {b}
    <3>1. CASE d = s1[b] \/ d = s2[b]
      <4>1. d # None
        BY BlkFacts
      <4>2. QED
        BY <3>1, <4>1
    <3>2. CASE ~ (d = s1[b] \/ d = s2[b])
      <4>1. b \notin Into(d)
        BY <3>2, <1>8 DEF Into
      <4>2. QED
        BY <3>2, <4>1
    <3>3. QED
      BY <3>1, <3>2
  <2>2. QED
    BY <2>1
<1> HIDE DEF m, m1, m2, P, P1, P2
<1>14. /\ pc' = "sweep" /\ pred' \in [Blk -> Seq(Blk)] /\ DOMAIN phi' \subseteq Blk
       /\ \A d \in Blk : Lists(pred'[d], Into(d) \ {b})
       /\ \A d \in DOMAIN phi' : Lists(phi'[d], Into(d) \ {b})
  <2>1. m2.ok = TRUE
    BY <1>12 DEF Holds
  <2>2. QED
    BY <1>1, <1>3, <1>12, <1>13, <2>1 DEF Holds
<1>15. /\ Lists(link', Inside \ {b}) /\ Len(link') = Len(link) - 1
       /\ \A k \in 1 .. at - 1 : link'[k] = link[k]
  BY <1>0, <1>3, <1>4, <1>5, RemoveLists
<1>16. Inside' = Inside \ {b} /\ \A d : Into(d)' = Into(d) \ {b}
  <2>1. Inside' = Inside \ {b}
    BY <1>15 DEF Inside, Lists
  <2>2. QED
    BY <2>1, <1>2 DEF Into
<1>17. Live' = Live /\ \A a, c : Reaches(a, c)' = Reaches(a, c)
  BY <1>2 DEF Live, Reaches, Closure
<1>18. /\ s1' \in [Blk -> Blk \cup {None}] /\ s2' \in [Blk -> Blk \cup {None}]
       /\ \A a \in Blk : a # b => s1'[a] = s1[a] /\ s2'[a] = s2[a]
  <2>1. s1 \in [Blk -> Blk \cup {None}] /\ s2 \in [Blk -> Blk \cup {None}]
    BY <1>1 DEF Graph
  <2>2. QED
    BY <2>1, <1>3, <1>6
<1>19. Graph'
  <2>1. link' \in Seq(Blk) /\ IsInjective(link') /\ Start \in Inside'
    BY <1>4, <1>7, <1>15, <1>16 DEF Lists
  <2>2. ASSUME NEW a \in Inside \ {b} PROVE Succs(a)' = {c \in Blk : <<a, c>> \in edges}
    <3>1. Succs(a)' = Succs(a)
      BY <1>4, <1>18 DEF Succs
    <3>2. QED
      BY <3>1, <1>1 DEF Graph
  <2>3. \A d \in DOMAIN phi' : Lists(phi'[d], Into(d)')
    BY <1>14, <1>16
  <2>4. (\A d \in DOMAIN phi : Lists(phi[d], Into(d)))'
    BY <2>3 DEF Lists
  <2>5. edges' \subseteq Blk \X Blk
    BY <1>1, <1>2 DEF Graph
  <2>6. QED
    BY <1>2, <1>14, <1>16, <1>18, <2>1, <2>2, <2>4, <2>5 DEF Graph
<1>20. Preds'
  <2>1. \A d \in Blk : Lists(pred'[d], Into(d)')
    BY <1>14, <1>16
  <2>2. QED
    BY <1>14, <2>1 DEF Preds, Lists
<1>21. Kept' = Kept
  BY <1>2, <1>15 DEF Kept
<1>22. \A c : Place(c)' = Place(c)
  BY <1>2, <1>21 DEF Place
<1>23. Sorted'
  <2>1. at' \in 1 .. Len(link') + 1
    BY <1>2, <1>4, <1>5, <1>15
  <2>2. Live' \subseteq Inside'
    BY <1>4, <1>7, <1>16, <1>17
  <2>3. QED
    BY <1>1, <1>2, <1>17, <1>21, <1>22, <2>1, <2>2 DEF Sorted
<1>24. RpoInv'
  BY <1>14, <1>19, <1>20, <1>23 DEF RpoInv
<1>25. QED
  BY <1>4, <1>7, <1>18, <1>24

(* When all is done, the list has just the blocks that are reached.        *)
LEMMA DoneFacts ==
  ASSUME RpoInv, pc = "done"
  PROVE  /\ RetreatingEdgesAreLoops /\ PhisMatchEdges
         /\ Inside = Live /\ Len(rpo) = nblk /\ nblk = Len(link) /\ nblk # 0 /\ ToSet(rpo) = Live /\ IsInjective(rpo)
         /\ Head(rpo) = Start
         /\ \A a \in Live : Succs(a) \subseteq Live
<1>1. Graph /\ Preds /\ Sorted /\ at = Len(link) + 1
  BY DEF RpoInv
<1>2. /\ Start \in Live /\ Live \subseteq Blk /\ Len(link) \in Nat /\ Lists(link, Inside)
      /\ IsFiniteSet(Inside) /\ Cardinality(Inside) = Len(link) /\ Len(link) # 0
      /\ \A b \in Live : Reaches(Start, b)
      /\ \A a, b : a \in Live /\ <<a, b>> \in edges => b \in Live
  BY <1>1, GraphFacts
<1>3. Kept = Inside
  <2>1. DOMAIN link = 1 .. Len(link) /\ 1 .. at - 1 = 1 .. Len(link)
    BY <1>1, <1>2 DEF Lists
  <2>2. QED
    BY <2>1 DEF Kept, Inside, ToSet
<1>4. Inside = Live
  BY <1>1, <1>3 DEF Sorted
<1>5. /\ gone \in Nat /\ nblk \in Nat /\ id \in [Blk -> Int]
      /\ \A b \in Live : Place(b) = id[b] + gone
  BY <1>1, <1>3, <1>4 DEF Sorted, Place
<1>6. /\ \A b \in Live : id[b] \in 0 .. nblk - 1
      /\ \A a, b \in Live : id[a] = id[b] => a = b
      /\ \A i \in 0 .. nblk - 1 : \E b \in Live : id[b] = i
      /\ id[Start] = 0
      /\ \A b \in Live : rpo[id[b] + 1] = b
  <2>1. \A b \in Live : id[b] \in Int
    BY <1>2, <1>5
  <2>2. \A b \in Live : Place(b) \in gone .. gone + nblk - 1
    BY <1>1 DEF Sorted
  <2>3. \A b \in Live : id[b] \in 0 .. nblk - 1
    BY <1>5, <2>1, <2>2
  <2>4. \A a, b \in Live : id[a] = id[b] => a = b
    <3>1. \A a, b \in Live : Place(a) = Place(b) => a = b
      BY <1>1 DEF Sorted
    <3>2. QED
      BY <3>1, <1>5
  <2>5. ASSUME NEW i \in 0 .. nblk - 1 PROVE \E b \in Live : id[b] = i
    <3>1. i + gone \in gone .. gone + nblk - 1
      BY <1>5
    <3>2. PICK b \in Live : Place(b) = i + gone
      BY <1>1, <3>1 DEF Sorted
    <3>3. id[b] = i
      BY <3>2, <2>1, <1>5
    <3>4. QED
      BY <3>3
  <2>6. id[Start] = 0
    <3>1. Place(Start) = gone
      BY <1>1 DEF Sorted
    <3>2. QED
      BY <3>1, <1>2, <1>5, <2>1
  <2>7. \A b \in Live : rpo[id[b] + 1] = b
    BY <1>1, <1>3, <1>4 DEF Sorted
  <2>8. QED
    BY <2>3, <2>4, <2>5, <2>6, <2>7
<1>7. RetreatingEdgesAreLoops
  <2>1. ASSUME NEW e \in edges, Reaches(Start, e[1]), id[e[1]] >= id[e[2]]
        PROVE  Reaches(e[2], e[1])
    <3>1. PICK u, v : u = e[1] /\ v = e[2]
      OBVIOUS
    <3>2. e = <<u, v>>
      BY <3>1, <1>1 DEF Graph
    <3>3. u \in Live
      BY <2>1, <3>1 DEF Reaches, Live
    <3>4. v \in Live
      BY <1>2, <3>2, <3>3
    <3>5. Place(u) < Place(v) \/ Reaches(v, u)
      BY <1>1, <3>1, <3>3 DEF Sorted
    <3>6. id[u] \in Int /\ id[v] \in Int /\ id[u] >= id[v]
      BY <2>1, <3>1, <3>3, <3>4, <1>2, <1>5
    <3>7. ~ (Place(u) < Place(v))
      BY <3>3, <3>4, <3>6, <1>5
    <3>8. QED
      BY <3>1, <3>5, <3>7
  <2>2. ASSUME NEW b \in Live \ {Start}
        PROVE  \E e \in edges : e[2] = b /\ Reaches(Start, e[1]) /\ id[e[1]] < id[b]
    <3>1. PICK a \in Live : <<a, b>> \in edges /\ Place(a) < Place(b)
      BY <1>1 DEF Sorted
    <3>2. id[a] \in Int /\ id[b] \in Int /\ id[a] < id[b]
      BY <3>1, <1>2, <1>5
    <3>3. <<a, b>>[1] = a /\ <<a, b>>[2] = b /\ Reaches(Start, a)
      BY <1>2
    <3>4. QED
      BY <3>1, <3>2, <3>3
  <2>3. QED
    BY <2>1, <2>2 DEF RetreatingEdgesAreLoops, Live
<1>8. PhisMatchEdges
  <2>1. ASSUME NEW b \in Live
        PROVE  LET P == {a \in Live : <<a, b>> \in edges}
               IN /\ b \in DOMAIN phi => Len(phi[b]) = Cardinality(P) /\ ToSet(phi[b]) = P
                  /\ Len(pred[b]) = Cardinality(P) /\ ToSet(pred[b]) = P
    <3> DEFINE P == {a \in Live : <<a, b>> \in edges}
    <3>1. P = Into(b) /\ b \in Blk
      BY <1>2, <1>4 DEF Into
    <3> HIDE DEF P
    <3>2. Lists(pred[b], P) /\ (b \in DOMAIN phi => Lists(phi[b], P))
      BY <1>1, <3>1 DEF Graph, Preds
    <3>3. QED
      BY <3>2, ListsFacts DEF Lists, P
  <2>2. QED
    BY <2>1 DEF PhisMatchEdges, Live
<1>9. /\ \A k \in 1 .. nblk : rpo[k] \in Live /\ id[rpo[k]] + 1 = k
      /\ DOMAIN rpo = 1 .. nblk /\ rpo = [k \in 1 .. nblk |-> rpo[k]]
  <2>1. ASSUME NEW k \in 1 .. nblk PROVE rpo[k] \in Live /\ id[rpo[k]] + 1 = k
    <3>1. k - 1 \in 0 .. nblk - 1
      BY <1>5
    <3>2. PICK b \in Live : id[b] = k - 1
      BY <1>6, <3>1
    <3>3. rpo[id[b] + 1] = b /\ id[b] + 1 = k
      BY <1>6, <3>2
    <3>4. QED
      BY <3>2, <3>3
  <2>2. QED
    BY <2>1, <1>1 DEF Sorted
<1>10. Lists(rpo, Live) /\ Len(rpo) = nblk
  <2>1. \A b \in Live : \E k \in 1 .. nblk : rpo[k] = b
    <3>1. \A b \in Live : id[b] + 1 \in 1 .. nblk
      BY <1>5, <1>6
    <3>2. QED
      BY <1>6, <3>1
  <2>2. \A j, k \in 1 .. nblk : rpo[j] = rpo[k] => j = k
    BY <1>9
  <2>3. /\ Live \in SUBSET Blk /\ nblk \in Nat /\ rpo = [k \in 1 .. nblk |-> rpo[k]]
        /\ \A k \in 1 .. nblk : rpo[k] \in Live
    BY <1>2, <1>5, <1>9
  <2>4. QED
    BY <2>1, <2>2, <2>3, ListsIntro
<1>11. nblk = Len(link)
  BY <1>2, <1>4, <1>10, ListsFacts
<1>12. Head(rpo) = Start
  <2>1. rpo \in Seq(Blk) /\ Len(rpo) # 0
    BY <1>2, <1>10, <1>11 DEF Lists
  <2>2. Head(rpo) = rpo[1]
    BY <2>1
  <2>3. rpo[1] = Start
    BY <1>2, <1>6
  <2>4. QED
    BY <2>2, <2>3
<1>13. ASSUME NEW a \in Live PROVE Succs(a) \subseteq Live
  BY <1>1, <1>2, <1>4 DEF Graph
<1>14. QED
  BY <1>2, <1>4, <1>7, <1>8, <1>10, <1>11, <1>12, <1>13 DEF Lists

LEMMA RpoSame ==
  ASSUME RpoInv, UNCHANGED vars
  PROVE  RpoInv'
<1>1. UNCHANGED <<pc, link, at, s1, s2, phi, pred, id, rpo, nblk, x, gone, stack, edges>>
  BY DEF vars
<1>2. /\ Graph' = Graph /\ Whole' = Whole /\ Preds' = Preds /\ Inside' = Inside /\ Live' = Live
      /\ \A a, b : Reaches(a, b)' = Reaches(a, b)
  BY <1>1, SameGraph
<1>3. \A b : Open(b)' = Open(b)
  BY <1>1 DEF Open
<1>4. Finished' = Finished
  BY <1>1, <1>3 DEF Finished
<1>5. \A k : CallOK(k)' = CallOK(k)
  BY <1>1, <1>2 DEF CallOK
<1>6. Calls' = Calls
  BY <1>1, <1>4, <1>5 DEF Calls, Bottom, Call
<1>7. Numbered' = Numbered
  BY <1>1, <1>2, <1>3, <1>4 DEF Numbered
<1>8. Kept' = Kept /\ \A b : Place(b)' = Place(b)
  BY <1>1 DEF Kept, Place
<1>9. Sorted' = Sorted
  BY <1>1, <1>2, <1>8 DEF Sorted
<1>10. QED
  BY <1>1, <1>2, <1>6, <1>7, <1>9 DEF RpoInv

LEMMA RpoStep ==
  ASSUME RpoInv, Next
  PROVE  RpoInv'
<1>1. CASE FillPreds
  BY <1>1, FillPredsStep
<1>2. CASE Enter
  BY <1>2, EnterBackStep, EnterVisitStep
<1>3. CASE Number
  BY <1>3, NumberStep
<1>4. CASE Reached
  BY <1>4, ReachedStep
<1>5. CASE SweepDelete
  BY <1>5, SweepDeleteStep
<1>6. CASE SweepKeep
  BY <1>6, SweepKeepStep
<1>7. CASE SweepEnd
  BY <1>7, SweepEndStep
<1>8. QED
  BY <1>1, <1>2, <1>3, <1>4, <1>5, <1>6, <1>7 DEF Next

LEMMA RpoStart ==
  ASSUME Init
  PROVE  RpoInv
<1>1. N \in Nat /\ N # 0 /\ Listed = 0 .. N - 1 /\ Blk = 0 .. N /\ Start = 0 /\ None = -1
  BY NAssumption DEF Listed, Blk, Start, None
<1>2. link = [k \in 1 .. N |-> k - 1] /\ nblk = N /\ pc = "preds"
  BY DEF Init
<1>3. Lists(link, Listed) /\ Len(link) = N
  <2>1. Listed \in SUBSET Blk
    BY DEF Listed
  <2>2. /\ \A k \in 1 .. N : link[k] \in Listed
        /\ \A b \in Listed : b + 1 \in 1 .. N /\ link[b + 1] = b
        /\ \A j, k \in 1 .. N : link[j] = link[k] => j = k
        /\ link = [k \in 1 .. N |-> link[k]]
    BY <1>1, <1>2
  <2>3. \A b \in Listed : \E k \in 1 .. N : link[k] = b
    BY <2>2
  <2>4. N \in Nat
    BY <1>1
  <2>5. QED
    BY <2>1, <2>2, <2>3, <2>4, ListsIntro
<1>4. Inside = Listed
  BY <1>3 DEF Lists, Inside
<1>5. PICK j \in [Listed -> Jumps] :
        /\ s1 = [b \in Blk |-> IF b \in Listed THEN j[b][1] ELSE None]
        /\ s2 = [b \in Blk |-> IF b \in Listed THEN j[b][2] ELSE None]
  BY DEF Init
<1>6. \A u \in Jumps : u[1] \in Listed \cup {None} /\ u[2] \in Listed \cup {None}
  BY DEF Jumps
<1>7. /\ s1 \in [Blk -> Listed \cup {None}] /\ s2 \in [Blk -> Listed \cup {None}]
      /\ \A a \in Blk \ Listed : s1[a] = None /\ s2[a] = None
  BY <1>5, <1>6
<1>8. edges = {e \in Blk \X Blk : e[2] \in Succs(e[1])}
  BY DEF Init
<1>9. \A a, b \in Blk : <<a, b>> \in edges <=> b \in Succs(a)
  BY <1>8
<1>10. \A a \in Blk : Succs(a) \subseteq Listed
  BY <1>7 DEF Succs
<1>11. \A a \in Blk \ Listed : Succs(a) = {}
  BY <1>7 DEF Succs
<1>12. Listed \subseteq Blk
  BY DEF Listed
<1>13. edges \subseteq Listed \X Listed
  <2>1. ASSUME NEW e \in edges PROVE e \in Listed \X Listed
    <3>1. e \in Blk \X Blk /\ e[2] \in Succs(e[1])
      BY <1>8
    <3>2. e[1] \in Listed /\ e[2] \in Listed
      BY <3>1, <1>10, <1>11
    <3>3. QED
      BY <3>1, <3>2
  <2>2. QED
    BY <2>1
<1>14. DOMAIN phi = Listed /\ \A b \in Listed : Lists(phi[b], Into(b))
  <2>1. phi = [b \in Listed |-> Reverse(Ascending({a \in Blk : <<a, b>> \in edges}))]
    BY DEF Init
  <2>2. ASSUME NEW b \in Listed PROVE Lists(phi[b], Into(b))
    <3>1. {a \in Blk : <<a, b>> \in edges} = Into(b)
      BY <1>4, <1>12, <1>13 DEF Into
    <3>2. phi[b] = Reverse(Ascending(Into(b)))
      BY <2>1, <3>1
    <3>3. Into(b) \in SUBSET Blk
      BY <1>4, <1>12 DEF Into
    <3>4. QED
      BY <3>2, <3>3, AscendingLists, ReverseLists
  <2>3. QED
    BY <2>1, <2>2
<1>15. Graph
  <2>1. link \in Seq(Blk) /\ IsInjective(link) /\ Start \in Inside
    BY <1>1, <1>3, <1>4 DEF Lists
  <2>2. s1 \in [Blk -> Blk \cup {None}] /\ s2 \in [Blk -> Blk \cup {None}] /\ edges \subseteq Blk \X Blk
    BY <1>7, <1>12, <1>8
  <2>3. \A a \in Inside : Succs(a) = {b \in Blk : <<a, b>> \in edges}
    BY <1>4, <1>9, <1>10, <1>12
  <2>4. QED
    BY <1>12, <1>14, <2>1, <2>2, <2>3 DEF Graph
<1>16. Whole
  BY <1>2, <1>3, <1>4, <1>11, <1>13 DEF Whole
<1>17. QED
  BY <1>2, <1>15, <1>16 DEF RpoInv

(* qbe_fillpreds and qbe_fillrpo keep the invariant on any parsed          *)
(* function: no number is given twice, no write misses rpo, and no         *)
(* assertion of qbe_edgedel fails.                                         *)
THEOREM RpoInvariance == Spec => []RpoInv
<1>1. Init => RpoInv
  BY RpoStart
<1>2. RpoInv /\ [Next]_vars => RpoInv'
  <2>1. SUFFICES ASSUME RpoInv, [Next]_vars PROVE RpoInv'
    OBVIOUS
  <2>2. CASE Next
    BY <2>1, <2>2, RpoStep
  <2>3. CASE UNCHANGED vars
    BY <2>1, <2>3, RpoSame
  <2>4. QED
    BY <2>1, <2>2, <2>3
<1>3. QED
  BY <1>1, <1>2, PTL DEF Spec

-----------------------------------------------------------------------------
(* The blocks in order, once their jumps have been threaded.               *)

(* What is known of a threaded block that is reached; its targets exist.   *)
Runs ==
  /\ jmp[Ret] = "ret0"
  /\ \A a \in Live \ {Ret} : /\ SameRun(a)
                             /\ code.jmp[a] \in {"ret0", "hlt", "jmp", "br"} /\ jmp[a] \in {"hlt", "jmp", "br"}
                             /\ code.jmp[a] = "br" => jmp[a] # "hlt"
                             /\ jmp[a] \in {"jmp", "br"} => s1[a] # None
                             /\ jmp[a] = "br" => s2[a] # None
Laid ==
  /\ ToSet(link) = Live /\ IsInjective(link) /\ Len(link) = nblk /\ Head(link) = Start
  /\ \A a \in Live : Succs(a) \subseteq Live

OrderInv ==
  /\ pc \in {"thread", "preds", "number", "sweep", "done", "laid"}
  /\ Ordered(uf)
  /\ pc = "thread" => /\ IInv /\ tpc \in {"first", "second"}
                      /\ link = [k \in 1 .. N |-> k - 1] /\ nblk = N /\ phi = <<>>
  /\ pc \in {"preds", "number", "sweep", "done"} => RpoInv
  /\ pc = "preds" => tpc = "none" \/ (tpc = "done" /\ IInv)
  /\ pc \in {"number", "sweep", "done"} => tpc = "none" \/ (tpc = "done" /\ Runs)
  /\ pc = "laid" => tpc = "done" /\ Runs /\ Laid

(* The function that was parsed, and the one that was allocated.           *)
LEMMA OrderStart == OrderInit => OrderInv
<1>1. N \in Nat \ {0} /\ All = Blk /\ None \notin All /\ Ret \in All
  BY NAssumption, NumberFacts DEF All, Listed, Ret, Blk
<1>2. ASSUME Parsed PROVE OrderInv
  <2>1. Init /\ tpc = "none" /\ uf = [a \in Blk |-> None]
    BY <1>2 DEF Parsed
  <2>2. RpoInv /\ pc = "preds"
    BY <2>1, RpoStart DEF Init
  <2>3. Ordered(uf)
    BY <1>1, <2>1 DEF Ordered
  <2>4. QED
    BY <2>1, <2>2, <2>3 DEF OrderInv
<1>3. ASSUME Allocated PROVE OrderInv
  <2>1. ThreadInit /\ pc = "thread" /\ link = [k \in 1 .. N |-> k - 1] /\ nblk = N /\ phi = <<>>
    BY <1>3 DEF Allocated
  <2>2. IInv /\ tpc = "first"
    BY <1>1, <2>1, InitInv DEF ThreadInit
  <2>3. Ordered(uf)
    BY <2>2 DEF IInv, Trees
  <2>4. QED
    BY <2>1, <2>2, <2>3 DEF OrderInv
<1>4. QED
  BY <1>2, <1>3 DEF OrderInit

(* The graph the second order is made from: every block is in the list.    *)
LEMMA ThreadStep ==
  ASSUME OrderInv, Thread
  PROVE  OrderInv'
<1>1. /\ pc = "thread" /\ IInv /\ tpc \in {"first", "second"} /\ ThreadNext
      /\ link = [k \in 1 .. N |-> k - 1] /\ nblk = N /\ phi = <<>>
      /\ UNCHANGED <<at, loop, phi, pred, id, rpo, x, gone, stack>>
  BY DEF Thread, OrderInv
<1>2. N \in Nat \ {0} /\ All = Blk /\ None \notin All
  BY NAssumption, NumberFacts DEF All, Listed, Ret, Blk
<1>3. IInv'
  BY <1>1, <1>2, FirstInv, FirstEndInv, SecondInv, SecondEndInv DEF ThreadNext
<1>4. Ordered(uf)' /\ tpc' \in {"first", "second", "done"}
  BY <1>3 DEF IInv, Trees, Ordered
<1>5. CASE tpc' # "done"
  <2>1. pc' = pc /\ link' = link /\ nblk' = nblk
    BY <1>5 DEF Thread
  <2>2. QED
    BY <1>1, <1>3, <1>4, <1>5, <2>1 DEF OrderInv
<1>6. CASE tpc' = "done"
  <2>1. /\ pc' = "preds" /\ link' = Append(link, Ret) /\ nblk' = nblk + 1
        /\ edges' = {e \in Blk \X Blk : e[2] \in {s1[e[1]], s2[e[1]]}}
    BY <1>6 DEF Thread
  <2>2. s1' = s1 /\ s2' = s2
    BY <1>1, <1>6 DEF ThreadNext, First, FirstEnd, Second, SecondEnd
  <2>3. s1' \in [Blk -> Blk \cup {None}] /\ s2' \in [Blk -> Blk \cup {None}]
    BY <1>2, <1>3 DEF IInv, Blocks
  <2>4. /\ DOMAIN link = 1 .. N /\ Len(link) = N /\ link \in Seq(Blk)
        /\ \A k \in 1 .. N : link[k] = k - 1
    <3>1. link \in [1 .. N -> Blk]
      BY <1>1, <1>2 DEF Blk
    <3>2. QED
      BY <1>1, <1>2, <3>1
  <2>5. Len(link') = N + 1 /\ link' \in Seq(Blk) /\ \A k \in 1 .. N + 1 : link'[k] = k - 1
    <3>1. Ret \in Blk /\ Ret = N
      BY <1>2 DEF Ret, Blk
    <3>2. Len(link') = N + 1 /\ link' \in Seq(Blk)
      BY <2>1, <2>4, <3>1
    <3>3. ASSUME NEW k \in 1 .. N + 1 PROVE link'[k] = k - 1
      <4>1. CASE k = N + 1
        BY <1>2, <2>1, <2>4, <3>1, <4>1
      <4>2. CASE k # N + 1
        <5>1. k \in 1 .. N
          BY <1>2, <4>2
        <5>2. link'[k] = link[k]
          BY <2>1, <2>4, <5>1
        <5>3. QED
          BY <2>4, <5>1, <5>2
      <4>3. QED
        BY <4>1, <4>2
    <3>4. QED
      BY <3>2, <3>3
  <2>6. Lists(link', Blk)
    <3>1. \A k \in 1 .. N + 1 : link'[k] \in Blk
      BY <1>2, <2>5 DEF Blk
    <3>2. \A b \in Blk : \E k \in 1 .. N + 1 : link'[k] = b
      <4>1. \A b \in Blk : b + 1 \in 1 .. N + 1 /\ (b + 1) - 1 = b
        BY <1>2 DEF Blk
      <4>2. QED
        BY <2>5, <4>1
    <3>3. \A j, k \in 1 .. N + 1 : link'[j] = link'[k] => j = k
      BY <1>2, <2>5
    <3>4. link' = [k \in 1 .. N + 1 |-> link'[k]]
      BY <2>5
    <3>5. N + 1 \in Nat
      BY <1>2
    <3>6. Blk \in SUBSET Blk
      OBVIOUS
    <3>7. QED
      BY <3>1, <3>2, <3>3, <3>4, <3>5, <3>6, ListsIntro
  <2>7. Inside' = Blk
    BY <2>6 DEF Inside, Lists
  <2>8. edges' \subseteq Blk \X Blk /\ \A a \in Blk : Succs(a)' = {b \in Blk : <<a, b>> \in edges'}
    <3>1. edges' \subseteq Blk \X Blk
      BY <2>1
    <3>2. ASSUME NEW a \in Blk PROVE Succs(a)' = {b \in Blk : <<a, b>> \in edges'}
      <4>1. Succs(a)' = {s1'[a], s2'[a]} \ {None}
        BY DEF Succs
      <4>2. \A b \in Blk : <<a, b>> \in edges' <=> b \in {s1[a], s2[a]}
        BY <2>1
      <4>3. s1[a] \in Blk \cup {None} /\ s2[a] \in Blk \cup {None}
        BY <2>2, <2>3
      <4>4. QED
        BY <1>2, <2>2, <4>1, <4>2, <4>3
    <3>3. QED
      BY <3>1, <3>2
  <2>9. DOMAIN phi' = {}
    BY <1>1
  <2>10. Graph'
    BY <2>3, <2>6, <2>7, <2>8, <2>9, BlkFacts DEF Graph, Lists
  <2>11. Whole'
    BY <1>1, <2>1, <2>5, <2>7, <2>8 DEF Whole
  <2>12. RpoInv'
    BY <2>1, <2>10, <2>11 DEF RpoInv
  <2>13. QED
    BY <1>3, <1>4, <1>6, <2>1, <2>12 DEF OrderInv
<1>7. QED
  BY <1>5, <1>6

(* What a run meets depends on the targets of the blocks it comes through. *)
LEMMA MeetsAgree ==
  ASSUME NEW j, NEW t, NEW u, NEW L \in SUBSET All,
         \A c \in L : t[c] = u[c] /\ (Passes(j, c) => t[c] \in L)
  PROVE  \A a \in L : Meets(j, t, a) = Meets(j, u, a)
<1>1. N \in Nat
  BY NAssumption
<1> DEFINE Goes(i, v) ==
             \E go : /\ \A a : Meets(i, v, a) = go[N + 1][a]
                     /\ \A k \in 0 .. N + 1 : \A c \in All :
                          go[k][c] = IF ~ Passes(i, c) THEN Ending(i, c)
                                     ELSE IF k = 0 THEN None ELSE go[k - 1][v[c]]
<1>0. Goes(j, t) /\ Goes(j, u)
  <2>1. \A i, v : Goes(i, v)
    BY <1>1, GoFacts
  <2> HIDE DEF Goes
  <2>2. QED
    BY <2>1
<1>2. PICK go : /\ \A a : Meets(j, t, a) = go[N + 1][a]
                /\ \A k \in 0 .. N + 1 : \A c \in All :
                     go[k][c] = IF ~ Passes(j, c) THEN Ending(j, c)
                                ELSE IF k = 0 THEN None ELSE go[k - 1][t[c]]
  BY <1>0
<1>3. PICK ho : /\ \A a : Meets(j, u, a) = ho[N + 1][a]
                /\ \A k \in 0 .. N + 1 : \A c \in All :
                     ho[k][c] = IF ~ Passes(j, c) THEN Ending(j, c)
                                ELSE IF k = 0 THEN None ELSE ho[k - 1][u[c]]
  BY <1>0
<1> DEFINE S == {k \in Nat : k <= N + 1 => \A c \in L : go[k][c] = ho[k][c]}
<1>4. 0 \in S
  <2>1. 0 \in 0 .. N + 1
    BY <1>1
  <2>2. \A c \in L : go[0][c] = ho[0][c]
    BY <1>2, <1>3, <2>1
  <2>3. QED
    BY <2>2
<1>5. ASSUME NEW k \in Nat, k \in S PROVE k + 1 \in S
  <2>1. SUFFICES ASSUME k + 1 <= N + 1, NEW c \in L PROVE go[k + 1][c] = ho[k + 1][c]
    OBVIOUS
  <2>2. k + 1 \in 0 .. N + 1 /\ k + 1 # 0 /\ k + 1 - 1 = k /\ k <= N + 1
    BY <1>1, <2>1
  <2>3. c \in All /\ \A d \in L : go[k][d] = ho[k][d]
    BY <1>5, <2>2
  <2>4. /\ go[k + 1][c] = IF ~ Passes(j, c) THEN Ending(j, c) ELSE go[k][t[c]]
        /\ ho[k + 1][c] = IF ~ Passes(j, c) THEN Ending(j, c) ELSE ho[k][u[c]]
    BY <1>2, <1>3, <2>2, <2>3
  <2>5. QED
    BY <2>3, <2>4
<1>6. N + 1 \in S
  <2> HIDE DEF S
  <2>1. QED
    BY <1>1, <1>4, <1>5, SetInduction
<1>7. QED
  BY <1>1, <1>2, <1>3, <1>6

(* The sweep leaves the blocks that are reached as they are.               *)
LEMMA RunsStay ==
  ASSUME Runs, Graph, Live \subseteq Inside, jmp' = jmp, code' = code, Live' = Live,
         \A a \in Live : s1'[a] = s1[a] /\ s2'[a] = s2[a]
  PROVE  Runs'
<1>1. Live \subseteq All /\ Live \subseteq Blk /\ None \notin Blk
  BY GraphFacts, BlkFacts DEF All
<1>2. ASSUME NEW a \in Live
      PROVE  (s1[a] # None => s1[a] \in Live) /\ (s2[a] # None => s2[a] \in Live)
  <2>1. Succs(a) = {b \in Blk : <<a, b>> \in edges}
    BY DEF Graph
  <2>2. \A b \in Succs(a) : b \in Live
    BY <2>1, GraphFacts
  <2>3. QED
    BY <2>2 DEF Succs
<1>3. \A c \in Live : Passes(jmp, c) => s1[c] \in Live
  <2>1. ASSUME NEW c \in Live, Passes(jmp, c) PROVE s1[c] \in Live
    <3>1. c # Ret /\ jmp[c] = "jmp"
      BY <2>1 DEF Passes, Runs
    <3>2. QED
      BY <3>1, <1>2 DEF Runs
  <2>2. QED
    BY <2>1
<1>4. \A a \in Live : Meets(jmp, s1, a) = Meets(jmp, s1', a)
  BY <1>1, <1>3, MeetsAgree
<1>5. \A a \in Live : After(a)' = After(a)
  <2>1. \A a : After(a)' = Meets(jmp, s1', a)
    BY DEF After, Meets
  <2>2. QED
    BY <1>4, <2>1 DEF After
<1>6. \A a : Before(a)' = Before(a)
  BY DEF Before, Meets
<1>7. ASSUME NEW a \in Live \ {Ret}
      PROVE  /\ SameRun(a)'
             /\ code'.jmp[a] \in {"ret0", "hlt", "jmp", "br"} /\ jmp'[a] \in {"hlt", "jmp", "br"}
             /\ code'.jmp[a] = "br" => jmp'[a] # "hlt"
             /\ jmp'[a] \in {"jmp", "br"} => s1'[a] # None
             /\ jmp'[a] = "br" => s2'[a] # None
  <2>1. /\ SameRun(a) /\ (jmp[a] \in {"jmp", "br"} => s1[a] # None)
        /\ jmp[a] = "br" => s2[a] # None
        /\ code.jmp[a] \in {"ret0", "hlt", "jmp", "br"} /\ jmp[a] \in {"hlt", "jmp", "br"}
        /\ code.jmp[a] = "br" => jmp[a] # "hlt"
    BY DEF Runs
  <2>2. s1'[a] = s1[a] /\ s2'[a] = s2[a] /\ jmp'[a] = jmp[a]
    OBVIOUS
  <2>3. PICK u, v : u = s1[a] /\ v = s2[a]
    OBVIOUS
  <2>4. (u # None => u \in Live) /\ (v # None => v \in Live)
    BY <1>2, <2>3
  <2>5. /\ u # None => After(u)' = After(u)
        /\ v # None => After(v)' = After(v)
    BY <1>5, <2>4
  <2>6. SameRun(a)'
    <3>1. CASE code.jmp[a] = "ret0"
      BY <2>1, <2>2, <3>1 DEF SameRun
    <3>2. CASE code.jmp[a] = "hlt"
      BY <2>1, <2>2, <3>2 DEF SameRun
    <3>3. CASE code.jmp[a] = "jmp"
      <4>1. jmp[a] = "jmp" /\ After(u) = Before(code.s1[a]) /\ u # None
        BY <2>1, <2>3, <3>3 DEF SameRun
      <4>2. After(u)' = After(u) /\ Before(code.s1[a])' = Before(code.s1[a]) /\ s1'[a] = u
        BY <1>6, <2>2, <2>3, <2>5, <4>1
      <4>3. QED
        BY <2>2, <3>3, <4>1, <4>2 DEF SameRun
    <3>4. CASE code.jmp[a] = "br"
      <4>1. /\ After(u) = Before(code.s1[a])
            /\ After(IF jmp[a] = "jmp" THEN u ELSE v) = Before(code.s2[a])
        BY <2>1, <2>3, <3>4 DEF SameRun
      <4>2. /\ After(u)' = After(u) /\ (jmp[a] = "br" => After(v)' = After(v))
            /\ Before(code.s1[a])' = Before(code.s1[a]) /\ Before(code.s2[a])' = Before(code.s2[a])
        BY <1>6, <2>1, <2>3, <2>5, <3>4
      <4>3. CASE jmp[a] = "jmp"
        BY <2>1, <2>2, <2>3, <3>4, <4>1, <4>2, <4>3 DEF SameRun
      <4>4. CASE jmp[a] = "br"
        BY <2>1, <2>2, <2>3, <3>4, <4>1, <4>2, <4>4 DEF SameRun
      <4>5. QED
        BY <2>1, <3>4, <4>3, <4>4
    <3>5. QED
      BY <2>1, <3>1, <3>2, <3>3, <3>4
  <2>7. QED
    BY <2>1, <2>2, <2>6
<1>8. QED
  BY <1>7 DEF Runs

(* The graph is numbered, and the list follows.                            *)
LEMMA ThreadedRuns ==
  ASSUME IInv, tpc = "done", Live \subseteq Inside, Graph
  PROVE  Runs
<1>1. N \in Nat \ {0} /\ Live \subseteq All /\ All = Listed \cup {Ret} /\ None \notin All
  BY NAssumption, NumberFacts, GraphFacts, BlkFacts DEF All
<1>2. CodeOK /\ jmp[Ret] = "ret0" /\ \A a \in Listed : Threaded(a)
  BY DEF IInv, Blocks, Replaced
<1>3. ASSUME NEW a \in Live \ {Ret}
      PROVE  /\ SameRun(a)
             /\ code.jmp[a] \in {"ret0", "hlt", "jmp", "br"} /\ jmp[a] \in {"hlt", "jmp", "br"}
             /\ code.jmp[a] = "br" => jmp[a] # "hlt"
             /\ jmp[a] \in {"jmp", "br"} => s1[a] # None
             /\ jmp[a] = "br" => s2[a] # None
  <2>1. a \in Listed /\ Threaded(a) /\ code.jmp[a] \in {"ret0", "hlt", "jmp", "br"}
    BY <1>1, <1>2 DEF CodeOK
  <2>2. \A c \in All : Root(uf, c) # None
    BY <1>1, MetFacts
  <2>3. /\ code.jmp[a] \in {"ret0", "jmp"} => Passed(a) \in All
        /\ code.jmp[a] = "br" => code.s1[a] \in All /\ code.s2[a] \in All
    BY <1>1, <1>2, <2>1, NumberFacts DEF CodeOK, Passed
  <2>4. QED
    BY <1>1, <2>1, <2>2, <2>3, DoneSameRun DEF Threaded
<1>4. QED
  BY <1>2, <1>3 DEF Runs

LEMMA FillRpoStep ==
  ASSUME OrderInv, FillRpo
  PROVE  OrderInv'
<1>1. Next /\ UNCHANGED <<tpc, tb, jmp, uf, code>>
  BY DEF FillRpo, threading
<1>2. /\ pc \in {"preds", "number", "sweep"}
      /\ pc' \in {"number", "sweep", "done", "abort"}
  BY <1>1 DEF Next, FillPreds, Enter, Number, Reached, SweepDelete, SweepKeep, SweepEnd
<1>3. RpoInv /\ Ordered(uf)
  BY <1>2 DEF OrderInv
<1>4. RpoInv' /\ Ordered(uf)'
  BY <1>1, <1>3, RpoStep DEF Ordered
<1>5. pc' \in {"number", "sweep", "done"}
  BY <1>2, <1>4 DEF RpoInv
<1>6. Graph /\ Live \subseteq Inside
  <2>1. Graph
    BY <1>3 DEF RpoInv
  <2>2. CASE pc \in {"preds", "number"}
    BY <1>3, <2>1, <2>2, WholeFacts DEF RpoInv
  <2>3. CASE pc = "sweep"
    BY <1>3, <2>3 DEF RpoInv, Sorted
  <2>4. QED
    BY <1>2, <2>1, <2>2, <2>3
<1>7. Live' = Live /\ \A a \in Live : s1'[a] = s1[a] /\ s2'[a] = s2[a]
  <2>1. edges' = edges
    BY <1>1 DEF Next, FillPreds, Enter, Number, Reached, SweepDelete, SweepKeep, SweepEnd
  <2>2. Live' = Live
    BY <2>1 DEF Live, Closure
  <2>3. CASE SweepDelete
    BY <1>3, <2>2, <2>3, SweepDeleteStep
  <2>4. CASE ~ SweepDelete
    <3>1. s1' = s1 /\ s2' = s2
      BY <1>1, <2>4 DEF Next, FillPreds, Enter, Number, Reached, SweepKeep, SweepEnd
    <3>2. QED
      BY <2>2, <3>1
  <2>5. QED
    BY <2>3, <2>4
<1>8. CASE tpc = "none"
  BY <1>1, <1>4, <1>5, <1>8 DEF OrderInv
<1>9. CASE tpc = "done"
  <2>1. Runs
    <3>1. CASE pc = "preds"
      <4>1. IInv
        BY <1>9, <3>1 DEF OrderInv
      <4>2. QED
        BY <1>6, <1>9, <4>1, ThreadedRuns
    <3>2. CASE pc # "preds"
      BY <1>2, <1>9, <3>2 DEF OrderInv
    <3>3. QED
      BY <3>1, <3>2
  <2>2. Runs'
    BY <1>1, <1>6, <1>7, <2>1, RunsStay
  <2>3. QED
    BY <1>1, <1>4, <1>5, <1>9, <2>2 DEF OrderInv
<1>10. QED
  BY <1>2, <1>8, <1>9 DEF OrderInv

LEMMA RelinkStep ==
  ASSUME OrderInv, Relink
  PROVE  OrderInv'
<1>1. /\ pc = "done" /\ tpc = "done" /\ pc' = "laid" /\ link' = rpo
      /\ UNCHANGED <<s1, s2, rpo, nblk, edges, tpc, jmp, uf, code>>
  BY DEF Relink, threading
<1>2. RpoInv /\ Runs /\ Ordered(uf)
  BY <1>1 DEF OrderInv
<1>3. /\ Inside = Live /\ Len(rpo) = nblk /\ ToSet(rpo) = Live /\ IsInjective(rpo)
      /\ Head(rpo) = Start
      /\ \A a \in Live : Succs(a) \subseteq Live
  BY <1>1, <1>2, DoneFacts
<1>4. Live' = Live /\ \A a : Succs(a)' = Succs(a)
  BY <1>1 DEF Live, Closure, Succs
<1>5. Laid'
  BY <1>1, <1>3, <1>4 DEF Laid, IsInjective
<1>6. Graph
  BY <1>1, <1>2 DEF RpoInv
<1>7. Runs'
  BY <1>1, <1>2, <1>3, <1>4, <1>6, RunsStay
<1>8. Ordered(uf)'
  BY <1>1, <1>2 DEF Ordered
<1>9. QED
  BY <1>1, <1>5, <1>7, <1>8 DEF OrderInv

LEMMA OrderSame ==
  ASSUME OrderInv, UNCHANGED <<vars, threading>>
  PROVE  OrderInv'
<1>1. UNCHANGED <<pc, link, s1, s2, phi, rpo, nblk, edges, tpc, tb, jmp, uf, code>> /\ UNCHANGED vars /\ UNCHANGED threadVars
  BY DEF vars, threading, threadVars
<1>2. pc \in {"preds", "number", "sweep", "done"} => RpoInv'
  BY <1>1, RpoSame DEF OrderInv
<1>3. IInv => IInv'
  BY <1>1, StutterInv
<1>4. Live' = Live /\ \A a : Succs(a)' = Succs(a) /\ SameRun(a)' = SameRun(a)
  BY <1>1 DEF Live, Closure, Succs, SameRun, After, Before, Meets
<1>5. Runs' = Runs
  BY <1>1, <1>4 DEF Runs
<1>6. Laid' = Laid
  BY <1>1, <1>4 DEF Laid
<1>7. Ordered(uf)'
  BY <1>1 DEF OrderInv, Ordered
<1>8. QED
  BY <1>1, <1>2, <1>3, <1>5, <1>6, <1>7 DEF OrderInv

(* The two orders of a function keep it, and the threading between them.   *)
THEOREM OrderInvariance == OrderSpec => []OrderInv
<1>1. OrderInit => OrderInv
  BY OrderStart
<1>2. OrderInv /\ [OrderNext]_<<vars, threading>> => OrderInv'
  BY ThreadStep, FillRpoStep, RelinkStep, OrderSame DEF OrderNext
<1>3. QED
  BY <1>1, <1>2, PTL DEF OrderSpec

(* The numbering of qbe_fillrpo is a reverse postorder: only the edges of  *)
(* loops do not go to a higher id, and every block but the start has a     *)
(* predecessor before it.                                                  *)
THEOREM RetreatingEdges == OrderSpec => []RetreatingEdgesAreLoops
<1>1. OrderInv => RetreatingEdgesAreLoops
  BY DoneFacts DEF OrderInv, RetreatingEdgesAreLoops
<1>2. QED
  BY <1>1, OrderInvariance, PTL

(* The sweep of qbe_fillrpo takes from phis and predecessors just what     *)
(* belonged to the blocks that go, and every assertion of qbe_edgedel      *)
(* holds.                                                                  *)
THEOREM PhisFollowEdges == OrderSpec => []PhisMatchEdges
<1>1. OrderInv => PhisMatchEdges
  BY DoneFacts DEF OrderInv, PhisMatchEdges
<1>2. QED
  BY <1>1, OrderInvariance, PTL

(* uffind returns, whichever of the two orders is made.                    *)
THEOREM OrderFindReturns == OrderSpec => []Forest
<1>1. OrderInv => Forest
  BY NAssumption, OrderedForest DEF OrderInv
<1>2. QED
  BY <1>1, OrderInvariance, PTL

(* The function that is emitted, threaded by qbe_simpljmp and in the order *)
(* of qbe_fillrpo, does what the one that was allocated did.               *)
THEOREM OrderKeepsRuns == OrderSpec => []SameRuns
<1>1. OrderInv => SameRuns
  <2>1. SUFFICES ASSUME OrderInv, pc = "laid" PROVE SameRuns
    BY DEF SameRuns
  <2>2. Runs /\ Laid
    BY <2>1 DEF OrderInv
  <2>3. QED
    BY <2>2 DEF SameRuns, Runs, Laid
<1>2. QED
  BY <1>1, OrderInvariance, PTL
=============================================================================
