------------------------ MODULE BlockAnalysesProofs ------------------------
(***************************************************************************)
(* Proofs about Dominators and Loops, for graphs of any number of blocks:  *)
(* what the iterations of cfg.c arrive at is what the paths say.           *)
(***************************************************************************)
EXTENDS BlockAnalyses, FiniteSetTheorems, WellFoundedInduction, TLAPS

-----------------------------------------------------------------------------
(* Induction over the numbers, for sets.                                   *)
LEMMA Least ==
  ASSUME NEW T \in SUBSET Nat, T # {}
  PROVE  \E z \in T : \A y \in T : z <= y
<1> DEFINE R == OpToRel(<, Nat)
<1>1. IsWellFoundedOn(R, Nat)
  BY NatLessThanWellFounded
<1>2. \A z, y \in Nat : <<z, y>> \in R <=> z < y
  BY DEF OpToRel
<1> HIDE DEF R
<1>3. PICK z \in T : \A y \in T : ~ (<<y, z>> \in R)
  BY <1>1, WFMin
<1>4. \A y \in T : z \in Nat /\ y \in Nat /\ ~ (y < z)
  BY <1>2, <1>3
<1>5. QED
  BY <1>4

LEMMA SetInduction ==
  ASSUME NEW S, 0 \in S, \A k \in Nat : k \in S => k + 1 \in S
  PROVE  Nat \subseteq S
<1> DEFINE T == Nat \ S
<1>1. SUFFICES ASSUME T # {} PROVE FALSE
  OBVIOUS
<1>2. PICK z \in T : \A y \in T : z <= y
  BY <1>1, Least
<1>3. z \in Nat /\ z # 0
  BY <1>2
<1>4. z - 1 \in Nat /\ z - 1 \notin T
  BY <1>2, <1>3
<1>5. z - 1 + 1 \in S
  BY <1>4
<1>6. QED
  BY <1>5, <1>3

(* What holds of a block if it holds of all before it holds of all blocks. *)
LEMMA BlockInduction ==
  ASSUME NEW S, \A b \in Blk : (\A c \in Blk : c < b => c \in S) => b \in S
  PROVE  Blk \subseteq S
<1> DEFINE T == Blk \ S
<1>1. SUFFICES ASSUME T # {} PROVE FALSE
  OBVIOUS
<1>2. T \in SUBSET Nat
  BY GraphAssumption DEF Blk
<1>3. PICK z \in T : \A y \in T : z <= y
  BY <1>1, <1>2, Least
<1>4. \A c \in Blk : c < z => c \in S
  BY <1>3, GraphAssumption DEF Blk
<1>5. QED
  BY <1>3, <1>4

(* A set that is enlarged step by step: the function its steps make.       *)
IsGrowth(step, base, k, w) ==
  w = [j \in 0 .. k |-> IF j = 0 THEN base ELSE step[w[j - 1]]]

LEMMA GrowthExists ==
  ASSUME NEW k \in Nat, NEW base, NEW step
  PROVE  \E w : IsGrowth(step, base, k, w)
<1> DEFINE S == {j \in Nat : \E w : IsGrowth(step, base, j, w)}
<1>1. 0 \in S
  <2> DEFINE w == [j \in 0 .. 0 |-> base]
  <2>1. IsGrowth(step, base, 0, w)
    BY DEF IsGrowth
  <2>2. QED
    BY <2>1
<1>2. ASSUME NEW j \in Nat, j \in S PROVE j + 1 \in S
  <2>1. PICK w : IsGrowth(step, base, j, w)
    BY <1>2
  <2> DEFINE h == [i \in 0 .. j + 1 |-> IF i = 0 THEN base ELSE step[w[i - 1]]]
  <2>2. \A i \in 0 .. j : h[i] = w[i]
    BY <2>1 DEF IsGrowth
  <2>3. \A i \in 0 .. j + 1 : i # 0 => i - 1 \in 0 .. j
    OBVIOUS
  <2>4. IsGrowth(step, base, j + 1, h)
    BY <2>2, <2>3 DEF IsGrowth
  <2>5. QED
    <3> HIDE DEF h
    <3>1. QED
      BY <2>4
<1>3. k \in S
  <2> HIDE DEF S
  <2>1. QED
    BY <1>1, <1>2, SetInduction
<1>4. QED
  BY <1>3

(* Closed under the steps inside A that a graph allows.                    *)
ClosedIn(g, A, T) == \A b \in A : g[b] \cap T # {} => b \in T

(* The closure is the least closed set: it grows in each step until it is  *)
(* closed, and there are only N blocks.                                    *)
LEMMA ClosureFacts ==
  ASSUME NEW g, NEW S, NEW A \in SUBSET Blk
  PROVE  /\ S \cap A \subseteq Closure(g, S, A) /\ Closure(g, S, A) \subseteq A
         /\ ClosedIn(g, A, Closure(g, S, A))
         /\ \A T : S \cap A \subseteq T /\ ClosedIn(g, A, T) => Closure(g, S, A) \subseteq T
<1> DEFINE More(T) == T \cup {b \in A : g[b] \cap T # {}}
           step == [T \in SUBSET A |-> More(T)]
           base == S \cap A
           IsWithin(w) == w = [k \in 0 .. N |->
                                 IF k = 0 THEN S \cap A
                                 ELSE LET T == w[k - 1] IN T \cup {b \in A : g[b] \cap T # {}}]
           w == CHOOSE v : IsWithin(v)
<1>0. N \in Nat /\ N # 0 /\ IsFiniteSet(Blk) /\ Cardinality(Blk) = N
  BY GraphAssumption, FS_Interval DEF Blk
<1>1. PICK v : IsGrowth(step, base, N, v)
  BY <1>0, GrowthExists
<1>2. \A k \in 0 .. N : v[k] \in SUBSET A
  <2> DEFINE K == {k \in Nat : k <= N => v[k] \in SUBSET A}
  <2>1. 0 \in K
    BY <1>0, <1>1 DEF IsGrowth
  <2>2. ASSUME NEW k \in Nat, k \in K PROVE k + 1 \in K
    <3>1. SUFFICES ASSUME k + 1 <= N PROVE v[k + 1] \in SUBSET A
      OBVIOUS
    <3>2. k + 1 \in 0 .. N /\ k + 1 # 0 /\ k + 1 - 1 = k /\ v[k] \in SUBSET A
      BY <3>1, <2>2, <1>0
    <3>3. v[k + 1] = step[v[k]]
      <4> HIDE DEF step, base
      <4>1. \A j \in 0 .. N : v[j] = IF j = 0 THEN base ELSE step[v[j - 1]]
        BY <1>1 DEF IsGrowth
      <4>2. v[k + 1] = step[v[k + 1 - 1]]
        BY <4>1, <3>2
      <4>3. QED
        BY <4>2, <3>2
    <3>4. QED
      BY <3>2, <3>3
  <2>3. Nat \subseteq K
    <3> HIDE DEF K
    <3>1. QED
      BY <2>1, <2>2, SetInduction
  <2>4. QED
    BY <2>3
<1>3. IsWithin(v)
  <2>1. \A k \in 0 .. N : k # 0 => k - 1 \in 0 .. N
    BY <1>0
  <2>2. \A k \in 0 .. N : v[k] = IF k = 0 THEN base ELSE step[v[k - 1]]
    BY <1>1 DEF IsGrowth
  <2>3. \A k \in 0 .. N : k # 0 => step[v[k - 1]] = More(v[k - 1])
    BY <1>2, <2>1
  <2>4. \A k \in 0 .. N : v[k] = IF k = 0 THEN S \cap A ELSE More(v[k - 1])
    BY <2>2, <2>3
  <2>5. v = [k \in 0 .. N |-> v[k]]
    BY <1>1 DEF IsGrowth
  <2> HIDE DEF step, base
  <2>6. QED
    BY <2>4, <2>5
<1>4. IsWithin(w) /\ Closure(g, S, A) = w[N]
  <2>1. Closure(g, S, A) = w[N]
    BY DEF Closure
  <2> HIDE DEF IsWithin
  <2>2. QED
    BY <1>3, <2>1
<1> HIDE DEF w, step, base
<1>5. /\ w[0] = S \cap A
      /\ \A k \in 0 .. N : k # 0 => w[k] = More(w[k - 1])
  <2>1. \A k \in 0 .. N : w[k] = IF k = 0 THEN S \cap A ELSE More(w[k - 1])
    BY <1>4
  <2> HIDE DEF More
  <2>2. 0 \in 0 .. N
    BY <1>0
  <2>3. QED
    BY <2>1, <2>2
<1> HIDE DEF IsWithin
<1>6. ASSUME NEW k \in Nat, k <= N
      PROVE  /\ S \cap A \subseteq w[k] /\ w[k] \subseteq A
             /\ \A T : S \cap A \subseteq T /\ ClosedIn(g, A, T) => w[k] \subseteq T
  <2> DEFINE Good(j) == /\ S \cap A \subseteq w[j] /\ w[j] \subseteq A
                        /\ \A T : S \cap A \subseteq T /\ ClosedIn(g, A, T) => w[j] \subseteq T
             K == {j \in Nat : j <= N => Good(j)}
  <2>1. 0 \in K
    BY <1>5
  <2>2. ASSUME NEW j \in Nat, j \in K PROVE j + 1 \in K
    <3>1. SUFFICES ASSUME j + 1 <= N PROVE Good(j + 1)
      OBVIOUS
    <3>2. w[j + 1] = More(w[j]) /\ Good(j)
      BY <3>1, <1>5, <1>0, <2>2
    <3>3. QED
      BY <3>2 DEF ClosedIn
  <2>3. Nat \subseteq K
    <3> HIDE DEF K
    <3>1. QED
      BY <2>1, <2>2, SetInduction
  <2>4. QED
    BY <2>3, <1>6
<1>7. ClosedIn(g, A, w[N])
  <2>1. SUFFICES ASSUME ~ ClosedIn(g, A, w[N]) PROVE FALSE
    OBVIOUS
  <2>2. \A k \in Nat : k <= N => IsFiniteSet(w[k])
    <3>1. \A k \in Nat : k <= N => w[k] \subseteq Blk
      BY <1>6
    <3>2. QED
      BY <3>1, <1>0, FS_Subset
  <2> DEFINE K == {k \in Nat : k <= N => Cardinality(w[N - k]) \in Nat /\ ~ ClosedIn(g, A, w[N - k])}
  <2>3. 0 \in K
    BY <2>1, <2>2, <1>0, FS_CardinalityType
  <2>4. ASSUME NEW k \in Nat, k \in K PROVE k + 1 \in K
    <3>1. SUFFICES ASSUME k + 1 <= N
                   PROVE  Cardinality(w[N - (k + 1)]) \in Nat /\ ~ ClosedIn(g, A, w[N - (k + 1)])
      OBVIOUS
    <3> DEFINE j == N - (k + 1)
    <3>2. j \in Nat /\ j <= N /\ N - k = j + 1 /\ j + 1 \in 0 .. N /\ j + 1 # 0 /\ j + 1 - 1 = j
      BY <3>1, <1>0
    <3>3. w[j + 1] = More(w[j])
      <4> HIDE DEF j
      <4>1. QED
        BY <3>2, <1>5
    <3>4. ~ ClosedIn(g, A, w[j + 1])
      <4>1. k <= N /\ ~ ClosedIn(g, A, w[N - k])
        BY <3>1, <1>0, <2>4
      <4>2. QED
        BY <4>1, <3>2
    <3> HIDE DEF j
    <3>5. ASSUME ClosedIn(g, A, w[j]) PROVE FALSE
      <4>1. w[j + 1] = w[j]
        BY <3>3, <3>5 DEF ClosedIn
      <4>2. QED
        BY <4>1, <3>4, <3>5
    <3>6. Cardinality(w[j]) \in Nat
      BY <3>2, <2>2, FS_CardinalityType
    <3>7. QED
      BY <3>5, <3>6 DEF j
  <2>5. \A k \in Nat : k <= N => Cardinality(w[k]) \in Nat /\ ~ ClosedIn(g, A, w[k])
    <3>1. Nat \subseteq K
      <4> HIDE DEF K
      <4>1. QED
        BY <2>3, <2>4, SetInduction
    <3>2. ASSUME NEW k \in Nat, k <= N PROVE Cardinality(w[k]) \in Nat /\ ~ ClosedIn(g, A, w[k])
      <4>1. N - k \in Nat /\ N - k <= N /\ N - (N - k) = k
        BY <3>2, <1>0
      <4>2. N - k \in K
        BY <4>1, <3>1
      <4>3. QED
        BY <4>1, <4>2
    <3>3. QED
      BY <3>2
  <2> DEFINE J == {k \in Nat : k <= N => Cardinality(w[k]) >= k}
  <2>6. 0 \in J
    BY <2>5, <1>0
  <2>7. ASSUME NEW k \in Nat, k \in J PROVE k + 1 \in J
    <3>1. SUFFICES ASSUME k + 1 <= N PROVE Cardinality(w[k + 1]) >= k + 1
      OBVIOUS
    <3>2. w[k + 1] = More(w[k]) /\ k <= N /\ Cardinality(w[k]) >= k
      BY <3>1, <1>5, <1>0, <2>7
    <3>3. w[k] \subseteq w[k + 1] /\ w[k] # w[k + 1]
      <4>1. PICK b \in A : g[b] \cap w[k] # {} /\ b \notin w[k]
        BY <3>2, <2>5 DEF ClosedIn
      <4>2. QED
        BY <4>1, <3>2
    <3>4. Cardinality(w[k]) <= Cardinality(w[k + 1]) /\ Cardinality(w[k]) # Cardinality(w[k + 1])
      BY <3>1, <3>3, <2>2, FS_Subset
    <3>5. Cardinality(w[k]) \in Nat /\ Cardinality(w[k + 1]) \in Nat
      <4>1. k + 1 \in Nat /\ k + 1 <= N /\ k <= N
        BY <3>1, <1>0
      <4>2. QED
        BY <4>1, <2>5
    <3>6. QED
      BY <3>2, <3>4, <3>5
  <2>8. Cardinality(w[N]) >= N
    <3>1. Nat \subseteq J
      <4> HIDE DEF J
      <4>1. QED
        BY <2>6, <2>7, SetInduction
    <3>2. QED
      BY <3>1, <1>0
  <2>9. w[N] \subseteq A /\ w[N] \subseteq Blk
    BY <1>6, <1>0
  <2>10. w[N] = Blk
    BY <2>8, <2>9, <1>0, <2>5, FS_Subset
  <2>11. QED
    BY <2>1, <2>9, <2>10 DEF ClosedIn
<1>8. QED
  BY <1>4, <1>6, <1>7, <1>0

-----------------------------------------------------------------------------
(* Dominance, of the graphs that Rpo numbers.                              *)
IsGraph(g) ==
  /\ g \in [Blk -> SUBSET Blk] /\ g[Start] = {}
  /\ \A b \in Blk \ {Start} : \E a \in g[b] : a < b

LEMMA BlkFacts ==
  /\ N \in Nat /\ N # 0 /\ Start \in Blk /\ None \notin Blk /\ None = -1 /\ Start = 0
  /\ \A b \in Blk : b \in Int /\ 0 <= b /\ b < N /\ b # None
  /\ \A b \in Int : 0 <= b /\ b < N => b \in Blk
BY GraphAssumption DEF Blk, Start, None

LEMMA DominatesFacts ==
  ASSUME NEW g, IsGraph(g), NEW a \in Blk
  PROVE  /\ Dominates(g, a, a)
         /\ \A b \in Blk : Dominates(g, a, b) /\ b # a => \A p \in g[b] : Dominates(g, a, p)
         /\ Dominates(g, a, Start) => a = Start
         /\ \A b \in Blk : Dominates(g, Start, b)
         /\ \A b \in Blk : Dominates(g, a, b) => a <= b
<1> DEFINE A == Blk \ {a}
           C == Closure(g, {Start}, A)
<1>1. {Start} \cap A \subseteq C /\ C \subseteq A /\ ClosedIn(g, A, C)
  BY ClosureFacts
<1>2. \A b : Dominates(g, a, b) <=> b \notin C
  BY DEF Dominates
<1> HIDE DEF C
<1>3. \A b \in Blk : Dominates(g, a, b) /\ b # a => \A p \in g[b] : Dominates(g, a, p)
  BY <1>1, <1>2 DEF ClosedIn
<1>4. Dominates(g, a, Start) => a = Start
  BY <1>1, <1>2, BlkFacts
<1>5. \A b \in Blk : Dominates(g, Start, b)
  <2> DEFINE B == Blk \ {Start}
  <2>1. Closure(g, {Start}, B) \subseteq {}
    <3>1. {Start} \cap B \subseteq {} /\ ClosedIn(g, B, {})
      BY DEF ClosedIn
    <3> HIDE DEF B
    <3>2. B \in SUBSET Blk
      BY DEF B
    <3>3. QED
      BY <3>1, <3>2, ClosureFacts
  <2>2. QED
    BY <2>1 DEF Dominates
<1>6. \A b \in Blk : Dominates(g, a, b) => a <= b
  <2> DEFINE S == {b \in Blk : Dominates(g, a, b) => a <= b}
  <2>1. ASSUME NEW b \in Blk, \A c \in Blk : c < b => c \in S PROVE b \in S
    <3>1. SUFFICES ASSUME Dominates(g, a, b), b < a PROVE FALSE
      BY BlkFacts
    <3>2. b # Start
      BY <1>4, <3>1, BlkFacts
    <3>3. PICK p \in g[b] : p < b
      BY <3>2 DEF IsGraph
    <3>4. p \in Blk /\ Dominates(g, a, p)
      BY <1>3, <3>1, <3>3, BlkFacts DEF IsGraph
    <3>5. a <= p
      BY <2>1, <3>3, <3>4
    <3>6. QED
      BY <3>1, <3>3, <3>4, <3>5, BlkFacts
  <2>2. Blk \subseteq S
    <3> HIDE DEF S
    <3>1. QED
      BY <2>1, BlockInduction
  <2>3. QED
    BY <2>2
<1>7. QED
  BY <1>1, <1>2, <1>3, <1>4, <1>5, <1>6

(* b is reached from a by blocks behind a.                                 *)
Down(g, a, b) == b \in Closure(g, {a}, {c \in Blk : c >= a})

LEMMA DownFacts ==
  ASSUME NEW g, IsGraph(g), NEW a \in Blk
  PROVE  /\ Down(g, a, a)
         /\ \A b : Down(g, a, b) => b \in Blk /\ b >= a
         /\ \A b \in Blk : \A p : Down(g, a, p) /\ p \in g[b] /\ b >= a => Down(g, a, b)
         /\ \A b \in Blk : \A c : Down(g, a, b) /\ Down(g, b, c) => Down(g, a, c)
         /\ \A x \in Blk, b \in Blk : x < a /\ Down(g, a, b) /\ Dominates(g, x, b) => Dominates(g, x, a)
<1> DEFINE A == {c \in Blk : c >= a}
           C == Closure(g, {a}, A)
<1>1. /\ {a} \cap A \subseteq C /\ C \subseteq A /\ ClosedIn(g, A, C)
      /\ \A T : {a} \cap A \subseteq T /\ ClosedIn(g, A, T) => C \subseteq T
  BY ClosureFacts
<1>2. \A b : Down(g, a, b) <=> b \in C
  BY DEF Down
<1> HIDE DEF C
<1>3. a \in A
  BY BlkFacts
<1>4. \A b \in Blk : \A p : Down(g, a, p) /\ p \in g[b] /\ b >= a => Down(g, a, b)
  BY <1>1, <1>2 DEF ClosedIn
<1>5. ASSUME NEW b \in Blk, NEW c, Down(g, a, b), Down(g, b, c) PROVE Down(g, a, c)
  <2> DEFINE B == {x \in Blk : x >= b}
  <2>1. b \in C /\ b >= a
    BY <1>1, <1>2, <1>5
  <2>2. B \subseteq A
    <3>1. \A x \in Blk : x >= b => x >= a
      BY <2>1, BlkFacts
    <3>2. QED
      BY <3>1
  <2>3. {b} \cap B \subseteq C /\ ClosedIn(g, B, C)
    BY <1>1, <2>1, <2>2 DEF ClosedIn
  <2> HIDE DEF A
  <2>4. B \in SUBSET Blk
    OBVIOUS
  <2>5. c \in Closure(g, {b}, B)
    BY <1>5 DEF Down
  <2> HIDE DEF B
  <2>6. QED
    BY <1>2, <2>3, <2>4, <2>5, ClosureFacts
<1>6. ASSUME NEW x \in Blk, NEW b \in Blk, x < a, Down(g, a, b), ~ Dominates(g, x, a)
      PROVE  ~ Dominates(g, x, b)
  <2> DEFINE X == Blk \ {x}
             D == Closure(g, {Start}, X)
  <2>1. ClosedIn(g, X, D)
    BY ClosureFacts
  <2>2. a \in D
    BY <1>6 DEF Dominates
  <2>3. A \subseteq X
    BY <1>6, BlkFacts
  <2> HIDE DEF D
  <2>4. {a} \cap A \subseteq D /\ ClosedIn(g, A, D)
    BY <2>1, <2>2, <2>3 DEF ClosedIn
  <2> HIDE DEF A
  <2>5. b \in D
    BY <1>1, <1>2, <1>6, <2>4
  <2>6. QED
    BY <2>5 DEF Dominates, D
<1>7. QED
  BY <1>1, <1>2, <1>3, <1>4, <1>5, <1>6

-----------------------------------------------------------------------------
(* Trees of blocks, as idom is one: from each block up to None.            *)
IsTree(f) == f \in [Blk -> Blk \cup {None}] /\ \A b \in Blk : f[b] < b

LEMMA TreeRecursion ==
  ASSUME NEW f, IsTree(f), NEW V, NEW base \in V, NEW step \in [Blk -> [V -> V]]
  PROVE  \E u \in [Blk \cup {None} -> V] :
           u[None] = base /\ \A c \in Blk : u[c] = step[c][u[f[c]]]
<1> DEFINE Solves(u, k) == u[None] = base /\ \A c \in Blk : c < k => u[c] = step[c][u[f[c]]]
           S == {k \in Nat : \E u \in [Blk \cup {None} -> V] : Solves(u, k)}
<1>1. \A c \in Blk : f[c] \in Blk \cup {None} /\ f[c] < c
  BY DEF IsTree
<1>2. 0 \in S
  <2> DEFINE u == [c \in Blk \cup {None} |-> base]
  <2>1. u \in [Blk \cup {None} -> V] /\ Solves(u, 0)
    BY BlkFacts
  <2>2. QED
    BY <2>1
<1>3. ASSUME NEW k \in Nat, k \in S PROVE k + 1 \in S
  <2>1. PICK u \in [Blk \cup {None} -> V] : Solves(u, k)
    BY <1>3
  <2>2. CASE k \notin Blk
    <3>1. \A c \in Blk : c < k + 1 => c < k
      BY <2>2, BlkFacts
    <3>2. Solves(u, k + 1)
      BY <2>1, <3>1
    <3>3. QED
      BY <3>2
  <2>3. CASE k \in Blk
    <3> DEFINE h == [u EXCEPT ![k] = step[k][u[f[k]]]]
    <3>1. h \in [Blk \cup {None} -> V] /\ h[k] = step[k][u[f[k]]]
      BY <1>1, <2>3
    <3>2. \A c \in Blk \cup {None} : c # k => h[c] = u[c]
      OBVIOUS
    <3> HIDE DEF h
    <3>3. h[None] = base
      BY <2>1, <2>3, <3>2, BlkFacts
    <3>4. ASSUME NEW c \in Blk, c < k + 1 PROVE h[c] = step[c][h[f[c]]]
      <4>1. f[c] # k /\ h[f[c]] = u[f[c]]
        <5>1. f[c] \in Blk \cup {None} /\ f[c] < c
          BY <1>1
        <5>2. c \in Int /\ \A b \in Blk \cup {None} : b \in Int
          BY BlkFacts
        <5>3. f[c] \in Int
          BY <5>1, <5>2
        <5>4. f[c] # k
          BY <3>4, <5>1, <5>2, <5>3
        <5>5. QED
          BY <3>2, <5>1, <5>4
      <4>2. CASE c = k
        BY <4>1, <4>2, <3>1
      <4>3. CASE c # k
        BY <4>1, <4>3, <3>2, <3>4, <2>1, BlkFacts
      <4>4. QED
        BY <4>2, <4>3
    <3>5. QED
      BY <3>1, <3>3, <3>4
  <2>4. QED
    BY <2>2, <2>3
<1>4. N \in S
  <2> HIDE DEF S
  <2>1. QED
    BY <1>2, <1>3, SetInduction, BlkFacts
<1>5. QED
  BY <1>4, BlkFacts

(* The chain of a tree from a block upwards.                               *)
ChainOf(f, b) ==
  LET up[c \in Blk \cup {None}] == IF c = None THEN {} ELSE {c} \cup up[f[c]]
  IN up[b]

LEMMA ChainStep ==
  ASSUME NEW f, IsTree(f)
  PROVE  ChainOf(f, None) = {} /\ \A b \in Blk : ChainOf(f, b) = {b} \cup ChainOf(f, f[b])
<1> DEFINE IsUp(u) == u = [c \in Blk \cup {None} |-> IF c = None THEN {} ELSE {c} \cup u[f[c]]]
           step == [c \in Blk |-> [T \in SUBSET Blk |-> {c} \cup T]]
           w == CHOOSE u : IsUp(u)
<1>1. \A c \in Blk : f[c] \in Blk \cup {None}
  BY DEF IsTree
<1>2. PICK u \in [Blk \cup {None} -> SUBSET Blk] :
        u[None] = {} /\ \A c \in Blk : u[c] = step[c][u[f[c]]]
  <2>1. step \in [Blk -> [SUBSET Blk -> SUBSET Blk]] /\ {} \in SUBSET Blk
    OBVIOUS
  <2> HIDE DEF step
  <2> DEFINE Solved(V) ==
               \A bs \in V, st \in [Blk -> [V -> V]] :
                 \E u \in [Blk \cup {None} -> V] :
                   u[None] = bs /\ \A c \in Blk : u[c] = st[c][u[f[c]]]
  <2>2. \A V : Solved(V)
    BY TreeRecursion
  <2>3. Solved(SUBSET Blk)
    <3> HIDE DEF Solved
    <3>1. QED
      BY <2>2
  <2>4. QED
    BY <2>1, <2>3
<1>3. IsUp(u)
  <2>1. \A c \in Blk \cup {None} : u[c] = IF c = None THEN {} ELSE {c} \cup u[f[c]]
    BY <1>1, <1>2, BlkFacts
  <2>2. QED
    BY <2>1
<1>4. \A b : ChainOf(f, b) = w[b]
  BY DEF ChainOf
<1>5. IsUp(w)
  <2> HIDE DEF IsUp
  <2>1. QED
    BY <1>3
<1> HIDE DEF w
<1>6. \A c \in Blk \cup {None} : w[c] = IF c = None THEN {} ELSE {c} \cup w[f[c]]
  BY <1>5
<1>7. QED
  BY <1>4, <1>6, BlkFacts

LEMMA ChainFacts ==
  ASSUME NEW f, IsTree(f)
  PROVE  \A b \in Blk :
           /\ b \in ChainOf(f, b) /\ ChainOf(f, b) \subseteq Blk
           /\ \A a \in ChainOf(f, b) : a <= b /\ ChainOf(f, a) \subseteq ChainOf(f, b)
<1> DEFINE Good(b) == /\ b \in ChainOf(f, b) /\ ChainOf(f, b) \subseteq Blk
                      /\ \A a \in ChainOf(f, b) : a <= b /\ ChainOf(f, a) \subseteq ChainOf(f, b)
           S == {b \in Blk : Good(b)}
<1>1. ASSUME NEW b \in Blk, \A c \in Blk : c < b => c \in S PROVE b \in S
  <2>1. ChainOf(f, b) = {b} \cup ChainOf(f, f[b])
    BY ChainStep
  <2>2. f[b] \in Blk \cup {None} /\ f[b] < b
    BY DEF IsTree
  <2>3. CASE f[b] = None
    <3>1. ChainOf(f, b) = {b}
      BY <2>1, <2>3, ChainStep
    <3>2. QED
      BY <3>1, BlkFacts
  <2>4. CASE f[b] \in Blk
    <3>1. Good(f[b])
      BY <1>1, <2>2, <2>4
    <3>2. \A a \in ChainOf(f, b) : a <= b
      <4>1. \A a \in ChainOf(f, f[b]) : a \in Int /\ a <= f[b]
        BY <3>1, BlkFacts
      <4>2. f[b] \in Int /\ b \in Int
        BY <2>4, BlkFacts
      <4>3. QED
        BY <2>1, <2>2, <4>1, <4>2
    <3>3. QED
      BY <2>1, <3>1, <3>2
  <2>5. QED
    BY <2>2, <2>3, <2>4
<1>2. Blk \subseteq S
  <2> HIDE DEF S
  <2>1. QED
    BY <1>1, BlockInduction
<1>3. QED
  BY <1>2

(* A new father of k changes the chains through k, above k.                *)
LEMMA ChainUpdate ==
  ASSUME NEW f, IsTree(f), NEW k \in Blk, NEW e \in Blk \cup {None}, e < k,
         NEW h, h = [f EXCEPT ![k] = e]
  PROVE  /\ IsTree(h)
         /\ ChainOf(h, k) = {k} \cup ChainOf(f, e)
         /\ \A c \in Blk : IF k \in ChainOf(f, c)
                           THEN /\ ChainOf(h, k) \subseteq ChainOf(h, c)
                                /\ \A x \in ChainOf(f, c) : x >= k => x \in ChainOf(h, c)
                           ELSE ChainOf(h, c) = ChainOf(f, c)
<1>1. h \in [Blk -> Blk \cup {None}] /\ h[k] = e /\ \A c \in Blk : c # k => h[c] = f[c]
  BY DEF IsTree
<1>2. IsTree(h)
  BY <1>1 DEF IsTree
<1> DEFINE Good(c) == IF k \in ChainOf(f, c)
                      THEN /\ ChainOf(h, k) \subseteq ChainOf(h, c)
                           /\ \A x \in ChainOf(f, c) : x >= k => x \in ChainOf(h, c)
                      ELSE ChainOf(h, c) = ChainOf(f, c)
           S == {c \in Blk : Good(c)}
<1>3. ASSUME NEW c \in Blk, \A b \in Blk : b < c => b \in S PROVE c \in S
  <2>1. ChainOf(f, c) = {c} \cup ChainOf(f, f[c]) /\ ChainOf(h, c) = {c} \cup ChainOf(h, h[c])
    BY <1>2, ChainStep
  <2>2. f[c] \in Blk \cup {None} /\ f[c] < c
    BY DEF IsTree
  <2>3. CASE c = k
    <3>1. \A x \in ChainOf(f, c) : x >= k => x = k
      <4>1. \A x \in ChainOf(f, k) : x \in Blk /\ x <= k
        BY ChainFacts
      <4>2. \A x \in Blk : x \in Int
        BY BlkFacts
      <4>3. QED
        BY <2>3, <4>1, <4>2
    <3>2. QED
      BY <2>1, <2>3, <3>1
  <2>4. CASE c # k /\ f[c] = None
    <3>1. ChainOf(f, c) = {c} /\ ChainOf(h, c) = {c}
      BY <1>1, <1>2, <2>1, <2>4, ChainStep
    <3>2. QED
      BY <3>1, <2>4
  <2>5. CASE c # k /\ f[c] \in Blk
    <3>1. Good(f[c]) /\ h[c] = f[c]
      BY <1>1, <1>3, <2>2, <2>5
    <3>2. QED
      BY <2>1, <2>5, <3>1
  <2>6. QED
    BY <2>2, <2>3, <2>4, <2>5
<1>4. Blk \subseteq S
  <2> HIDE DEF S
  <2>1. QED
    BY <1>3, BlockInduction
<1>5. ChainOf(h, k) = {k} \cup ChainOf(f, e)
  <2>1. ChainOf(h, k) = {k} \cup ChainOf(h, e)
    BY <1>1, <1>2, ChainStep
  <2>2. CASE e = None
    BY <2>1, <2>2, <1>2, ChainStep
  <2>3. CASE e \in Blk
    <3>1. k \notin ChainOf(f, e)
      BY <2>3, ChainFacts, BlkFacts
    <3>2. QED
      BY <2>1, <2>3, <3>1, <1>4
  <2>4. QED
    BY <2>2, <2>3
<1>6. QED
  BY <1>2, <1>4, <1>5

-----------------------------------------------------------------------------
(* The inductive invariant of qbe_filldom.  The tree of idoms, right or    *)
(* not yet, is made of paths that do not go below the upper end, and no    *)
(* dominator is missing from the chain of a block.                         *)
TreeInv ==
  /\ IsGraph(pred) /\ IsTree(idom)
  /\ \A b \in Blk : idom[b] # None => Known(idom[b]) /\ Down(pred, idom[b], b)
  /\ \A b \in Blk : Known(b) => \A a \in Blk : Dominates(pred, a, b) => a \in Chain(b)

(* Of the predecessors of n that have been looked at, d has what their     *)
(* chains have in common, or the two blocks of inter still have it.        *)
Looked == {p \in pred[n] \ left : Known(p)}
Shared(a) == \A p \in Looked : a \in Chain(p)
Common ==
  IF d = None THEN Looked = {}
  ELSE d \in Blk /\ Known(d) /\ Shared(d) /\ \A a \in Blk : Shared(a) => a \in Chain(d)
Meeting ==
  /\ d \in Blk /\ b1 \in Blk /\ b2 \in Blk /\ Known(b1) /\ Known(b2)
  /\ \E p \in Looked :
       /\ \A q \in Looked \ {p} : d \in Chain(q)
       /\ \/ b1 \in Chain(d) /\ b2 \in Chain(p)
          \/ b2 \in Chain(d) /\ b1 \in Chain(p)
  /\ \A a \in Blk : Shared(a) => a \in Chain(b1) /\ a \in Chain(b2)

(* A pass that has changed nothing so far has found the blocks before n in *)
(* order: the idom of each is on the chains of its predecessors.           *)
Stable(b) == \A p \in pred[b] : Known(p) => idom[b] \in Chain(p)
PassInv ==
  /\ n \in 1 .. N /\ ch \in BOOLEAN
  /\ \A b \in Blk : b < n => Known(b)
  /\ ~ch => \A b \in Blk : 0 < b /\ b < n => Stable(b)
  /\ n < N => left \subseteq pred[n]
  /\ IF n < N THEN pc = "pass" => Common ELSE d = None
  /\ pc = "walk" => n < N /\ Meeting

(* When the passes are over the chains are exact; a climb has passed the   *)
(* blocks of the chain of its edge's source that do not dominate the       *)
(* target.                                                                 *)
Exact ==
  /\ \A a, b \in Blk : a \in Chain(b) <=> Dominates(pred, a, b)
  /\ dom = [a \in Blk |-> {b \in Blk : idom[b] = a}]
InFron(a, p, b) == Dominates(pred, a, p) /\ ~StrictlyDominates(pred, a, b)
FrontInv ==
  /\ left \subseteq Edges(pred)
  /\ fron = [a \in Blk |-> {b \in Blk : \E p \in pred[b] : <<p, b>> \notin left /\ InFron(a, p, b)}]
ClimbInv ==
  /\ left \subseteq Edges(pred) /\ b1 \in Blk /\ b2 \in Blk
  /\ \E s \in pred[b2] :
       /\ <<s, b2>> \notin left /\ b1 \in Chain(s)
       /\ \A a \in Chain(s) \ Chain(b1) : ~StrictlyDominates(pred, a, b2)
       /\ fron = [a \in Blk |->
                    {b \in Blk : \/ \E p \in pred[b] : /\ <<p, b>> \notin left /\ <<p, b>> # <<s, b2>>
                                                       /\ InFron(a, p, b)
                                 \/ (b = b2 /\ a \in Chain(s) \ Chain(b1))}]

DomInv ==
  /\ pc \in {"pass", "walk", "front", "climb", "done"}
  /\ TreeInv
  /\ pc \in {"pass", "walk"} => PassInv
  /\ pc \in {"front", "climb", "done"} => Exact
  /\ pc \in {"front", "done"} => FrontInv
  /\ pc = "climb" => ClimbInv
  /\ pc = "done" => left = {}

(* Steps that leave the graph and the tree alone.                          *)
LEMMA ChainIs == \A b : Chain(b) = ChainOf(idom, b) /\ Chain(b)' = ChainOf(idom', b)
BY DEF Chain, ChainOf

LEMMA TreeSame ==
  ASSUME TreeInv, UNCHANGED <<pred, idom>>
  PROVE  /\ TreeInv'
         /\ \A b : Chain(b)' = Chain(b) /\ (Known(b)' <=> Known(b))
<1>1. \A b : Chain(b)' = Chain(b) /\ (Known(b)' <=> Known(b))
  BY ChainIs DEF Known
<1>2. TreeInv'
  BY <1>1 DEF TreeInv
<1>3. QED
  BY <1>1, <1>2

(* The chains of a tree of paths: they are paths, and begin at the start.  *)
LEMMA TreeFacts ==
  ASSUME TreeInv
  PROVE  /\ \A b \in Blk : /\ Chain(b) = {b} \cup Chain(idom[b]) /\ Chain(b) \subseteq Blk /\ b \in Chain(b)
                           /\ \A a \in Chain(b) : /\ a <= b /\ Chain(a) \subseteq Chain(b)
                                                  /\ Down(pred, a, b)
         /\ Chain(None) = {}
         /\ \A b \in Blk : idom[b] \in Blk \cup {None} /\ idom[b] < b
         /\ idom[Start] = None /\ Known(Start) /\ \A b \in Blk : Known(b) => Start \in Chain(b)
<1>1. IsTree(idom) /\ IsGraph(pred)
  BY DEF TreeInv
<1>2. \A b \in Blk : idom[b] \in Blk \cup {None} /\ idom[b] < b
  BY <1>1 DEF IsTree
<1>3. idom[Start] = None
  <2>1. idom[Start] \in Blk \cup {None} /\ idom[Start] < Start
    BY <1>2, BlkFacts
  <2>2. \A b \in Blk : ~ (b < Start)
    BY BlkFacts
  <2>3. QED
    BY <2>1, <2>2
<1>4. /\ \A b \in Blk : Chain(b) = {b} \cup Chain(idom[b]) /\ Chain(b) \subseteq Blk /\ b \in Chain(b)
      /\ \A b \in Blk : \A a \in Chain(b) : a <= b /\ Chain(a) \subseteq Chain(b)
      /\ Chain(None) = {}
  BY <1>1, ChainIs, ChainStep, ChainFacts
<1>5. \A b \in Blk : \A a \in Chain(b) : Down(pred, a, b)
  <2> DEFINE S == {b \in Blk : \A a \in Chain(b) : Down(pred, a, b)}
  <2>1. ASSUME NEW b \in Blk, \A c \in Blk : c < b => c \in S PROVE b \in S
    <3>1. SUFFICES ASSUME NEW a \in Chain(b) PROVE Down(pred, a, b)
      OBVIOUS
    <3>2. a \in Blk
      BY <1>4
    <3>3. CASE a = b
      BY <1>1, <3>3, DownFacts
    <3>4. CASE a \in Chain(idom[b])
      <4>1. idom[b] \in Blk
        BY <1>2, <1>4, <3>4
      <4>2. Down(pred, a, idom[b])
        BY <2>1, <1>2, <3>4, <4>1
      <4>3. Down(pred, idom[b], b)
        BY <4>1, BlkFacts DEF TreeInv
      <4>4. QED
        BY <1>1, <3>2, <4>1, <4>2, <4>3, DownFacts
    <3>5. QED
      BY <1>4, <3>3, <3>4
  <2>2. Blk \subseteq S
    <3> HIDE DEF S
    <3>1. QED
      BY <2>1, BlockInduction
  <2>3. QED
    BY <2>2
<1>6. Known(Start)
  BY DEF Known
<1>7. \A b \in Blk : Known(b) => Start \in Chain(b)
  BY <1>1, DominatesFacts, BlkFacts DEF TreeInv
<1>8. QED
  BY <1>2, <1>3, <1>4, <1>5, <1>6, <1>7

LEMMA DomInitInv == DomInit => DomInv
<1> SUFFICES ASSUME DomInit PROVE DomInv
  OBVIOUS
<1>1. IsGraph(pred)
  BY DEF DomInit, Graphs, IsGraph
<1>2. IsTree(idom) /\ \A b \in Blk : idom[b] = None
  <2>1. \A b \in Blk : None < b
    BY BlkFacts
  <2>2. idom \in [Blk -> Blk \cup {None}] /\ \A b \in Blk : idom[b] = None
    BY DEF DomInit
  <2>3. QED
    BY <2>1, <2>2 DEF IsTree
<1>3. \A b \in Blk : Known(b) => b = Start
  BY <1>2 DEF Known
<1>4. Chain(Start) = {Start}
  <2>1. Chain(Start) = {Start} \cup Chain(None)
    BY <1>2, ChainIs, ChainStep, BlkFacts
  <2>2. QED
    BY <2>1, <1>2, ChainIs, ChainStep
<1>5. TreeInv
  <2>1. \A a \in Blk : Dominates(pred, a, Start) => a = Start
    BY <1>1, DominatesFacts
  <2>2. QED
    BY <1>1, <1>2, <1>3, <1>4, <2>1 DEF TreeInv
<1>6. PassInv
  <2>1. n = 1 /\ ch = FALSE /\ pc = "pass" /\ d = None
    BY DEF DomInit
  <2>2. n \in 1 .. N /\ \A b \in Blk : b < n => b = Start
    BY <2>1, BlkFacts
  <2>3. \A b \in Blk : ~ (0 < b /\ b < n)
    BY <2>1, BlkFacts
  <2>4. n < N => Looked = {} /\ left \subseteq pred[n]
    BY <2>1, BlkFacts DEF DomInit, Looked
  <2>5. Known(Start)
    BY DEF Known
  <2>6. QED
    BY <2>1, <2>2, <2>3, <2>4, <2>5 DEF PassInv, Common
<1>7. QED
  BY <1>5, <1>6 DEF DomInit, DomInv

LEMMA LookAtInv ==
  ASSUME DomInv, NEW p \in Blk, LookAt(p)
  PROVE  DomInv'
<1>1. /\ pc = "pass" /\ n < N /\ p \in left /\ left' = left \ {p}
      /\ pred' = pred /\ idom' = idom /\ n' = n /\ ch' = ch
  BY DEF LookAt
<1>2. TreeInv /\ PassInv /\ Common
  BY <1>1 DEF DomInv, PassInv
<1>3. TreeInv' /\ \A b : Chain(b)' = Chain(b) /\ (Known(b)' <=> Known(b))
  BY <1>1, <1>2, TreeSame
<1>4. /\ n' \in 1 .. N /\ ch' \in BOOLEAN
      /\ \A b \in Blk : b < n' => Known(b)'
      /\ ~ch' => \A b \in Blk : 0 < b /\ b < n' => Stable(b)'
      /\ left' \subseteq pred'[n'] /\ p \in pred[n]
  BY <1>1, <1>2, <1>3 DEF PassInv, Stable
<1>5. Looked' \subseteq Looked \cup {p} /\ Looked \subseteq Looked' /\ (Known(p) \/ Looked' = Looked)
  BY <1>1, <1>3 DEF Looked
<1>6. Known(p) => p \in Looked'
  BY <1>1, <1>3, <1>4 DEF Looked
<1>7. CASE ~Known(p) /\ UNCHANGED <<pc, d, b1, b2>>
  <2>1. Common'
    BY <1>2, <1>3, <1>5, <1>7 DEF Common, Shared
  <2>2. PassInv'
    BY <1>1, <1>4, <1>7, <2>1 DEF PassInv
  <2>3. QED
    BY <1>1, <1>3, <1>7, <2>2 DEF DomInv
<1>8. CASE Known(p) /\ d = None /\ d' = p /\ UNCHANGED <<pc, b1, b2>>
  <2>1. Looked' \subseteq {p}
    BY <1>2, <1>5, <1>8 DEF Common
  <2>2. Common'
    <3>1. d' \in Blk /\ Known(d)' /\ d' # None
      BY <1>3, <1>8, BlkFacts DEF Known
    <3>2. p \in Chain(p)
      BY <1>2, TreeFacts
    <3>3. Shared(d)'
      BY <1>3, <1>8, <2>1, <3>2 DEF Shared
    <3>4. QED
      BY <1>3, <1>8, <2>1, <3>1, <3>3, <1>6 DEF Common, Shared
  <2>3. PassInv'
    BY <1>1, <1>4, <1>8, <2>2 DEF PassInv
  <2>4. QED
    BY <1>1, <1>3, <1>8, <2>3 DEF DomInv
<1>9. CASE Known(p) /\ d # None /\ pc' = "walk" /\ b1' = d /\ b2' = p /\ UNCHANGED d
  <2>1. d \in Blk /\ Known(d) /\ Shared(d) /\ \A a \in Blk : Shared(a) => a \in Chain(d)
    BY <1>2, <1>9 DEF Common
  <2>2. d \in Chain(d) /\ p \in Chain(p)
    BY <1>2, <2>1, TreeFacts
  <2>3. Known(d)' /\ Known(p)'
    BY <1>3, <1>9, <2>1 DEF Known
  <2>4. \A q \in Looked' \ {p} : d \in Chain(q)'
    BY <1>3, <1>5, <2>1 DEF Shared
  <2>5. \A a \in Blk : Shared(a)' => a \in Chain(d)' /\ a \in Chain(p)'
    BY <1>3, <1>5, <1>6, <1>9, <2>1 DEF Shared
  <2>6. Meeting'
    <3>1. p \in Looked' /\ b1' = d /\ b2' = p /\ d' = d
      BY <1>6, <1>9
    <3>2. \A b : Chain(b)' = Chain(b)
      BY <1>3
    <3>3. (b1 \in Chain(d))' /\ (b2 \in Chain(p))'
      BY <1>9, <2>2, ChainIs, <1>1
    <3>4. \A q \in Looked' \ {p} : (d \in Chain(q))'
      BY <2>4, <3>1
    <3>5. Known(b1)' /\ Known(b2)'
      BY <2>3, <3>1 DEF Known
    <3>6. \A a \in Blk : Shared(a)' => (a \in Chain(b1))' /\ (a \in Chain(b2))'
      BY <1>9, <2>5, ChainIs, <1>1
    <3>7. QED
      BY <2>1, <3>1, <3>3, <3>4, <3>5, <3>6 DEF Meeting
  <2>7. PassInv'
    BY <1>1, <1>4, <1>9, <2>6 DEF PassInv
  <2>8. QED
    BY <1>1, <1>3, <1>9, <2>7 DEF DomInv
<1>10. QED
  BY <1>7, <1>8, <1>9 DEF LookAt

LEMMA WalkInv ==
  ASSUME DomInv, Walk
  PROVE  DomInv'
<1> DEFINE lo == IF b1 < b2 THEN b1 ELSE b2
           hi == IF b1 < b2 THEN b2 ELSE b1
<1>1. /\ pc = "walk" /\ b1 # b2 /\ b1' = idom[hi] /\ b2' = lo
      /\ pc' = IF idom[hi] = None THEN "abort" ELSE pc
      /\ pred' = pred /\ idom' = idom /\ n' = n /\ ch' = ch /\ left' = left /\ d' = d
  BY DEF Walk
<1>2. TreeInv /\ PassInv /\ Meeting /\ n < N
  BY <1>1 DEF DomInv, PassInv
<1>3. TreeInv' /\ \A b : Chain(b)' = Chain(b) /\ (Known(b)' <=> Known(b))
  BY <1>1, <1>2, TreeSame
<1>4. /\ b1 \in Blk /\ b2 \in Blk /\ Known(b1) /\ Known(b2)
      /\ {lo, hi} = {b1, b2} /\ lo < hi
  BY <1>1, <1>2, BlkFacts DEF Meeting
<1> HIDE DEF lo, hi
<1>5. lo \in Blk /\ hi \in Blk /\ Known(lo) /\ Known(hi) /\ hi # Start
  BY <1>4, BlkFacts
<1>6. Chain(hi) = {hi} \cup Chain(idom[hi])
  BY <1>2, <1>5, TreeFacts
<1>7. idom[hi] \in Blk /\ idom[hi] # None /\ Known(idom[hi])
  <2>1. Start \in Chain(hi)
    BY <1>2, <1>5, TreeFacts
  <2>2. idom[hi] # None
    BY <1>2, <1>5, <1>6, <2>1, TreeFacts
  <2>3. QED
    BY <1>2, <1>5, <2>2, TreeFacts DEF TreeInv
<1>8. Looked' = Looked /\ \A a : Shared(a)' <=> Shared(a)
  BY <1>1, <1>3 DEF Looked, Shared
<1>9. \A a \in Blk : Shared(a) => a \in Chain(idom[hi]) /\ a \in Chain(lo)
  <2>1. ASSUME NEW a \in Blk, Shared(a) PROVE a \in Chain(idom[hi]) /\ a \in Chain(lo)
    <3>1. a \in Chain(hi) /\ a \in Chain(lo)
      BY <1>2, <1>4, <2>1 DEF Meeting
    <3>2. a <= lo
      BY <1>2, <1>5, <3>1, TreeFacts
    <3>3. a # hi
      BY <1>4, <1>5, <3>2, BlkFacts
    <3>4. QED
      BY <1>6, <3>1, <3>3
  <2>2. QED
    BY <2>1
<1>10. PICK p \in Looked :
         /\ \A q \in Looked \ {p} : d \in Chain(q)
         /\ \/ hi \in Chain(d) /\ lo \in Chain(p)
            \/ lo \in Chain(d) /\ hi \in Chain(p)
  BY <1>2, <1>4 DEF Meeting
<1>11. p \in Blk /\ d \in Blk
  <2>1. p \in pred[n] /\ n \in Blk
    BY <1>2, BlkFacts DEF Looked, PassInv
  <2>2. QED
    BY <1>2, <2>1 DEF Meeting, TreeInv, IsGraph
<1>12. \/ idom[hi] \in Chain(d) /\ lo \in Chain(p)
       \/ lo \in Chain(d) /\ idom[hi] \in Chain(p)
  <2>1. idom[hi] \in Chain(hi)
    BY <1>2, <1>6, <1>7, TreeFacts
  <2>2. \A c \in Blk : hi \in Chain(c) => idom[hi] \in Chain(c)
    BY <1>2, <2>1, TreeFacts
  <2>3. QED
    BY <1>10, <1>11, <2>2
<1>13. Meeting'
  <2>1. d' \in Blk /\ b1' \in Blk /\ b2' \in Blk /\ Known(b1)' /\ Known(b2)'
    BY <1>1, <1>3, <1>5, <1>7, <1>11 DEF Known
  <2>2. /\ p \in Looked' /\ \A q \in Looked' \ {p} : (d \in Chain(q))'
        /\ \/ (b1 \in Chain(d))' /\ (b2 \in Chain(p))'
           \/ (b2 \in Chain(d))' /\ (b1 \in Chain(p))'
    BY <1>1, <1>8, <1>10, <1>12, ChainIs
  <2>3. \A a \in Blk : Shared(a)' => (a \in Chain(b1))' /\ (a \in Chain(b2))'
    BY <1>1, <1>8, <1>9, ChainIs
  <2>4. QED
    BY <2>1, <2>2, <2>3 DEF Meeting
<1>14. PassInv'
  BY <1>1, <1>2, <1>3, <1>7, <1>13 DEF PassInv, Stable
<1>15. QED
  BY <1>1, <1>3, <1>7, <1>14 DEF DomInv

LEMMA MeetInv ==
  ASSUME DomInv, Meet
  PROVE  DomInv'
<1>1. /\ pc = "walk" /\ b1 = b2 /\ d' = b1 /\ pc' = "pass"
      /\ pred' = pred /\ idom' = idom /\ n' = n /\ ch' = ch /\ left' = left
  BY DEF Meet
<1>2. TreeInv /\ PassInv /\ Meeting /\ n < N
  BY <1>1 DEF DomInv, PassInv
<1>3. TreeInv' /\ \A b : Chain(b)' = Chain(b) /\ (Known(b)' <=> Known(b))
  BY <1>1, <1>2, TreeSame
<1>4. PICK p \in Looked : /\ \A q \in Looked \ {p} : d \in Chain(q)
                          /\ b1 \in Chain(d) /\ b1 \in Chain(p)
  BY <1>1, <1>2 DEF Meeting
<1>5. Looked \subseteq Blk /\ b1 \in Blk /\ Known(b1) /\ d \in Blk
  <2>1. n \in Blk /\ Looked \subseteq pred[n]
    BY <1>2, BlkFacts DEF Looked, PassInv
  <2>2. QED
    BY <1>2, <2>1 DEF Meeting, TreeInv, IsGraph
<1>6. Shared(b1)
  <2>1. \A q \in Blk : d \in Chain(q) => b1 \in Chain(q)
    BY <1>2, <1>4, <1>5, TreeFacts
  <2>2. QED
    BY <1>4, <1>5, <2>1 DEF Shared
<1>7. Looked' = Looked /\ \A a : Shared(a)' <=> \A q \in Looked : a' \in Chain(q)
  BY <1>1, <1>3 DEF Looked, Shared
<1>8. Common'
  <2>1. d' # None /\ d' \in Blk /\ Known(d)'
    BY <1>1, <1>3, <1>5, BlkFacts DEF Known
  <2>2. Shared(d)'
    BY <1>1, <1>3, <1>6, <1>7 DEF Shared
  <2>3. \A a \in Blk : Shared(a)' => (a \in Chain(d))'
    BY <1>1, <1>2, <1>3, <1>7, ChainIs DEF Meeting, Shared
  <2>4. QED
    BY <2>1, <2>2, <2>3 DEF Common
<1>9. PassInv'
  BY <1>1, <1>2, <1>3, <1>8 DEF PassInv, Stable
<1>10. QED
  BY <1>1, <1>3, <1>9 DEF DomInv

(* The new idom of n: of the chains that go through n only the part above  *)
(* n changes, and what dominates a block of such a chain and comes before  *)
(* n dominates n as well.                                                  *)
LEMMA SetIdomInv ==
  ASSUME DomInv, SetIdom
  PROVE  DomInv'
<1>1. /\ pc = "pass" /\ n < N /\ left = {} /\ idom' = [idom EXCEPT ![n] = d]
      /\ ch' = (ch \/ d # idom[n]) /\ n' = n + 1 /\ d' = None
      /\ left' = (IF n + 1 < N THEN pred[n + 1] ELSE {})
      /\ pred' = pred /\ pc' = pc
  BY DEF SetIdom
<1>2. TreeInv /\ PassInv /\ Common
  BY <1>1 DEF DomInv, PassInv
<1>3. n \in Blk /\ n # Start /\ n \in Int /\ n + 1 \in 1 .. N /\ n' \in 1 .. N
  BY <1>1, <1>2, BlkFacts DEF PassInv
<1>4. IsGraph(pred) /\ IsTree(idom) /\ pred[n] \subseteq Blk
  BY <1>2, <1>3 DEF TreeInv, IsGraph
<1>5. Looked = {p \in pred[n] : Known(p)}
  BY <1>1 DEF Looked
<1>6. PICK s \in pred[n] : s < n /\ s \in Blk /\ Known(s)
  BY <1>2, <1>3, <1>4 DEF IsGraph, PassInv
<1>7. d \in Blk /\ d # None /\ Known(d) /\ Shared(d) /\ \A a \in Blk : Shared(a) => a \in Chain(d)
  BY <1>2, <1>5, <1>6, BlkFacts DEF Common
<1>8. d \in Chain(s) /\ d < n /\ Down(pred, d, n)
  <2>1. d \in Chain(s)
    BY <1>5, <1>6, <1>7 DEF Shared
  <2>2. d <= s /\ Down(pred, d, s)
    BY <1>2, <1>6, <2>1, TreeFacts
  <2>3. d < n
    BY <1>3, <1>6, <1>7, <2>2, BlkFacts
  <2>4. QED
    BY <1>3, <1>4, <1>6, <1>7, <2>1, <2>2, <2>3, BlkFacts, DownFacts
<1>9. /\ IsTree(idom')
      /\ ChainOf(idom', n) = {n} \cup Chain(d)
      /\ \A c \in Blk : IF n \in Chain(c)
                        THEN /\ ChainOf(idom', n) \subseteq ChainOf(idom', c)
                             /\ \A x \in Chain(c) : x >= n => x \in ChainOf(idom', c)
                        ELSE ChainOf(idom', c) = Chain(c)
  <2>1. \A h : h = [idom EXCEPT ![n] = d] =>
          /\ IsTree(h)
          /\ ChainOf(h, n) = {n} \cup ChainOf(idom, d)
          /\ \A c \in Blk : IF n \in ChainOf(idom, c)
                            THEN /\ ChainOf(h, n) \subseteq ChainOf(h, c)
                                 /\ \A x \in ChainOf(idom, c) : x >= n => x \in ChainOf(h, c)
                            ELSE ChainOf(h, c) = ChainOf(idom, c)
    <3>1. IsTree(idom) /\ n \in Blk /\ d \in Blk \cup {None} /\ d < n
      BY <1>3, <1>4, <1>7, <1>8
    <3> DEFINE Upd(f, k, e, h) ==
                 /\ IsTree(h)
                 /\ ChainOf(h, k) = {k} \cup ChainOf(f, e)
                 /\ \A c \in Blk : IF k \in ChainOf(f, c)
                                   THEN /\ ChainOf(h, k) \subseteq ChainOf(h, c)
                                        /\ \A x \in ChainOf(f, c) : x >= k => x \in ChainOf(h, c)
                                   ELSE ChainOf(h, c) = ChainOf(f, c)
    <3>2. \A f : IsTree(f) => \A k \in Blk, e \in Blk \cup {None} : e < k => Upd(f, k, e, [f EXCEPT ![k] = e])
      BY ChainUpdate
    <3> HIDE DEF Upd
    <3>3. Upd(idom, n, d, [idom EXCEPT ![n] = d])
      BY <3>1, <3>2
    <3>4. QED
      BY <3>3 DEF Upd
  <2>2. QED
    BY <1>1, <2>1, ChainIs
<1>10. \A b \in Blk : idom'[b] = IF b = n THEN d ELSE idom[b]
  BY <1>1, <1>3, <1>4 DEF IsTree
<1>11. \A b \in Blk : Known(b)' <=> Known(b) \/ b = n
  BY <1>7, <1>10 DEF Known
(* What dominates n is on its chain.                                       *)
<1>12. ASSUME NEW a \in Blk, Dominates(pred, a, n) PROVE a \in ChainOf(idom', n)
  <2>1. CASE a = n
    BY <1>9, <2>1
  <2>2. CASE a # n
    <3>1. \A p \in pred[n] : Dominates(pred, a, p)
      BY <1>3, <1>4, <1>12, <2>2, DominatesFacts
    <3>2. Shared(a)
      BY <1>2, <1>4, <1>5, <3>1 DEF TreeInv, Shared
    <3>3. QED
      BY <1>7, <1>9, <3>2
  <2>3. QED
    BY <2>1, <2>2
<1>13. ASSUME NEW b \in Blk, Known(b), NEW a \in Blk, Dominates(pred, a, b)
       PROVE  a \in ChainOf(idom', b)
  <2>1. a \in Chain(b)
    BY <1>2, <1>13 DEF TreeInv
  <2>2. CASE n \notin Chain(b)
    BY <1>9, <2>1, <2>2
  <2>3. CASE n \in Chain(b) /\ a >= n
    BY <1>9, <2>1, <2>3
  <2>4. CASE n \in Chain(b) /\ ~ (a >= n)
    <3>1. Down(pred, n, b)
      BY <1>2, <2>4, TreeFacts
    <3>2. a < n
      BY <1>3, <2>4, BlkFacts
    <3>3. Dominates(pred, a, n)
      BY <1>3, <1>4, <1>13, <3>1, <3>2, DownFacts
    <3>4. QED
      BY <1>9, <1>12, <2>4, <3>3
  <2>5. QED
    BY <2>2, <2>3, <2>4
<1>14. TreeInv'
  <2>1. \A b \in Blk : Known(b)' => \A a \in Blk : Dominates(pred, a, b) => a \in ChainOf(idom', b)
    BY <1>11, <1>12, <1>13
  <2>2. \A b \in Blk : idom'[b] # None =>
          /\ idom'[idom'[b]] # None \/ idom'[b] = Start
          /\ Down(pred, idom'[b], b)
    <3>1. ASSUME NEW b \in Blk, idom'[b] # None
          PROVE  (idom'[idom'[b]] # None \/ idom'[b] = Start) /\ Down(pred, idom'[b], b)
      <4>1. CASE b = n
        <5>1. idom'[b] = d
          BY <1>10, <4>1
        <5>2. Known(d) => idom'[d] # None \/ d = Start
          BY <1>7, <1>10 DEF Known
        <5>3. QED
          BY <1>7, <1>8, <4>1, <5>1, <5>2
      <4>2. CASE b # n
        <5>1. idom'[b] = idom[b] /\ idom[b] \in Blk
          BY <1>4, <1>10, <3>1, <4>2 DEF IsTree
        <5>2. Known(idom[b]) /\ Down(pred, idom[b], b)
          BY <1>2, <3>1, <5>1 DEF TreeInv
        <5>3. idom'[idom[b]] # None \/ idom[b] = Start
          BY <1>7, <1>10, <5>1, <5>2 DEF Known
        <5>4. QED
          BY <5>1, <5>2, <5>3
      <4>3. QED
        BY <4>1, <4>2
    <3>2. QED
      BY <3>1
  <2>3. QED
    BY <1>1, <1>4, <1>9, <2>1, <2>2, ChainIs DEF TreeInv, Known
<1>15. ASSUME ~ch' PROVE idom' = idom /\ \A b \in Blk : 0 < b /\ b < n' => Stable(b)'
  <2>1. ~ch /\ d = idom[n] /\ idom' = idom
    BY <1>1, <1>4, <1>15 DEF IsTree
  <2>2. Stable(n)
    BY <1>5, <1>7, <2>1 DEF Stable, Shared
  <2>3. \A b \in Blk : 0 < b /\ b < n => Stable(b)
    BY <1>2, <2>1 DEF PassInv
  <2>4. \A b \in Blk : b < n' => b < n \/ b = n
    BY <1>1, <1>3, BlkFacts
  <2>5. \A b \in Blk : 0 < b /\ b < n' => Stable(b)
    BY <2>2, <2>3, <2>4
  <2>6. \A b : Stable(b)' <=> Stable(b)
    BY <1>1, <2>1, ChainIs DEF Stable, Known
  <2>7. QED
    BY <2>1, <2>5, <2>6
<1>16. PassInv'
  <2>1. \A b \in Blk : b < n' => Known(b)'
    <3>1. \A b \in Blk : b < n' => b < n \/ b = n
      BY <1>1, <1>3, BlkFacts
    <3>2. QED
      BY <1>2, <1>11, <3>1 DEF PassInv
  <2>2. n' < N => left' = pred'[n'] /\ Looked' = {}
    BY <1>1 DEF Looked
  <2>3. n' < N => Common'
    BY <1>1, <2>2 DEF Common
  <2>4. QED
    BY <1>1, <1>2, <1>3, <1>15, <2>1, <2>2, <2>3 DEF PassInv
<1>17. QED
  BY <1>1, <1>14, <1>16 DEF DomInv

LEMMA AgainInv ==
  ASSUME DomInv, Again
  PROVE  DomInv'
<1>1. /\ pc = "pass" /\ n >= N /\ n' = 1 /\ ch' = FALSE
      /\ left' = (IF N > 1 THEN pred[1] ELSE {}) /\ pred' = pred /\ idom' = idom /\ d' = d /\ pc' = pc
  BY DEF Again
<1>2. TreeInv /\ PassInv
  BY <1>1 DEF DomInv
<1>3. TreeInv' /\ \A b : Chain(b)' = Chain(b) /\ (Known(b)' <=> Known(b))
  BY <1>1, <1>2, TreeSame
<1>4. PassInv'
  <2>1. Known(Start)' /\ \A b \in Blk : b < n' => b = Start
    BY <1>1, BlkFacts DEF Known
  <2>2. n' < N => left' = pred'[n'] /\ Looked' = {}
    BY <1>1, BlkFacts DEF Looked
  <2>3. n' \in 1 .. N /\ \A b \in Blk : ~ (0 < b /\ b < n')
    BY <1>1, BlkFacts
  <2>4. \A b \in Blk : b < n' => Known(b)'
    BY <2>1
  <2>5. QED
    <3>1. d' = None
      BY <1>1, <1>2, BlkFacts DEF PassInv
    <3>2. n' < N => Common'
      BY <2>2, <3>1 DEF Common
    <3>3. QED
      BY <1>1, <2>2, <2>3, <2>4, <3>1, <3>2 DEF PassInv
<1>5. QED
  BY <1>1, <1>3, <1>4 DEF DomInv

(* A pass that changed nothing: the idom of a block is on the chains of    *)
(* all its predecessors, so that what is on its chain is on each path.     *)
LEMMA StableExact ==
  ASSUME TreeInv, \A b \in Blk : Known(b), \A b \in Blk \ {Start} : Stable(b)
  PROVE  \A a, b \in Blk : a \in Chain(b) <=> Dominates(pred, a, b)
<1> SUFFICES ASSUME NEW a \in Blk, NEW b \in Blk
             PROVE  a \in Chain(b) <=> Dominates(pred, a, b)
  OBVIOUS
<1>1. Dominates(pred, a, b) => a \in Chain(b)
  BY DEF TreeInv
<1>2. ASSUME a \in Chain(b), ~ Dominates(pred, a, b) PROVE FALSE
  <2> DEFINE A == Blk \ {a}
             T == {c \in Blk : a \notin Chain(c)}
  <2>1. b \in Closure(pred, {Start}, A)
    BY <1>2 DEF Dominates
  <2>2. {Start} \cap A \subseteq T
    <3>1. Chain(Start) = {Start}
      BY TreeFacts, BlkFacts
    <3>2. QED
      BY <3>1, BlkFacts
  <2>3. ClosedIn(pred, A, T)
    <3>1. SUFFICES ASSUME NEW c \in A, NEW p \in pred[c], p \in T PROVE c \in T
      BY DEF ClosedIn
    <3>2. c \in Blk /\ c # Start /\ c # a /\ p \in Blk
      BY <3>1 DEF TreeInv, IsGraph
    <3>3. idom[c] \in Chain(p)
      BY <3>1, <3>2 DEF Stable
    <3>4. Chain(idom[c]) \subseteq Chain(p)
      BY <3>2, <3>3, TreeFacts
    <3>5. Chain(c) = {c} \cup Chain(idom[c])
      BY <3>2, TreeFacts
    <3>6. QED
      BY <3>1, <3>2, <3>4, <3>5
  <2>4. A \in SUBSET Blk
    OBVIOUS
  <2>5. Closure(pred, {Start}, A) \subseteq T
    <3> HIDE DEF A, T
    <3>1. QED
      BY <2>2, <2>3, <2>4, ClosureFacts
  <2>6. QED
    BY <1>2, <2>1, <2>5
<1>3. QED
  BY <1>1, <1>2

LEMMA TreeInvStep ==
  ASSUME DomInv, Tree
  PROVE  DomInv'
<1>1. /\ pc = "pass" /\ n >= N /\ ~ch
      /\ dom' = [a \in Blk |-> {b \in Blk : idom[b] = a}]
      /\ fron' = [b \in Blk |-> {}]
      /\ pc' = "front" /\ left' = Edges(pred) /\ pred' = pred /\ idom' = idom
  BY DEF Tree
<1>2. TreeInv /\ PassInv
  BY <1>1 DEF DomInv
<1>3. TreeInv' /\ \A b : Chain(b)' = Chain(b) /\ (Known(b)' <=> Known(b))
  BY <1>1, <1>2, TreeSame
<1>4. \A b \in Blk : b < n /\ (b # Start => 0 < b)
  BY <1>1, <1>2, BlkFacts DEF PassInv
<1>5. \A a, b \in Blk : a \in Chain(b) <=> Dominates(pred, a, b)
  <2>1. (\A b \in Blk : Known(b)) /\ \A b \in Blk \ {Start} : Stable(b)
    BY <1>1, <1>2, <1>4 DEF PassInv
  <2>2. QED
    BY <1>2, <2>1, StableExact
<1>6. Exact'
  BY <1>1, <1>3, <1>5 DEF Exact
<1>7. FrontInv'
  <2>1. \A b \in Blk : \A p \in pred[b] : <<p, b>> \in left'
    <3>1. ASSUME NEW b \in Blk, NEW p \in pred[b] PROVE <<p, b>> \in Edges(pred)
      <4>1. p \in Blk
        BY <1>2 DEF TreeInv, IsGraph
      <4>2. QED
        BY <4>1 DEF Edges
    <3>2. QED
      BY <1>1, <3>1
  <2>2. QED
    BY <1>1, <2>1 DEF FrontInv
<1>8. QED
  BY <1>1, <1>3, <1>6, <1>7 DEF DomInv

-----------------------------------------------------------------------------
(* qbe_sdom asks whether a is on the chain of b.                           *)
StopOf(f, a, b) ==
  LET up[c \in Blk \cup {None}] == IF c > a THEN up[f[c]] ELSE c IN up[b]

LEMMA StopStep ==
  ASSUME NEW f, IsTree(f), NEW a \in Blk
  PROVE  /\ StopOf(f, a, None) = None
         /\ \A b \in Blk : StopOf(f, a, b) = IF b > a THEN StopOf(f, a, f[b]) ELSE b
<1> DEFINE IsUp(u) == u = [c \in Blk \cup {None} |-> IF c > a THEN u[f[c]] ELSE c]
           V == Blk \cup {None}
           step == [c \in Blk |-> [v \in V |-> IF c > a THEN v ELSE c]]
           w == CHOOSE u : IsUp(u)
<1>1. (\A c \in Blk : f[c] \in V) /\ ~ (None > a)
  BY BlkFacts DEF IsTree
<1>2. PICK u \in [V -> V] : u[None] = None /\ \A c \in Blk : u[c] = step[c][u[f[c]]]
  <2>1. step \in [Blk -> [V -> V]] /\ None \in V
    OBVIOUS
  <2> HIDE DEF step, V
  <2> DEFINE Solved(W) ==
               \A bs \in W, st \in [Blk -> [W -> W]] :
                 \E u \in [Blk \cup {None} -> W] :
                   u[None] = bs /\ \A c \in Blk : u[c] = st[c][u[f[c]]]
  <2>2. \A W : Solved(W)
    BY TreeRecursion
  <2>3. Solved(V)
    <3> HIDE DEF Solved
    <3>1. QED
      BY <2>2
  <2>4. QED
    BY <2>1, <2>3 DEF V
<1>3. IsUp(u)
  <2>1. \A c \in Blk : u[c] = IF c > a THEN u[f[c]] ELSE c
    BY <1>1, <1>2
  <2>2. \A c \in V : u[c] = IF c > a THEN u[f[c]] ELSE c
    BY <1>1, <1>2, <2>1
  <2>3. QED
    BY <2>2
<1>4. \A b : StopOf(f, a, b) = w[b]
  BY DEF StopOf
<1>5. IsUp(w)
  <2> HIDE DEF IsUp
  <2>1. QED
    BY <1>3
<1> HIDE DEF w
<1>6. \A c \in Blk \cup {None} : w[c] = IF c > a THEN w[f[c]] ELSE c
  BY <1>5
<1>7. QED
  BY <1>1, <1>4, <1>6, BlkFacts

LEMMA StopFacts ==
  ASSUME NEW f, IsTree(f), NEW a \in Blk
  PROVE  \A b \in Blk : StopOf(f, a, b) = a <=> a \in ChainOf(f, b)
<1> DEFINE S == {b \in Blk : StopOf(f, a, b) = a <=> a \in ChainOf(f, b)}
<1>1. ASSUME NEW b \in Blk, \A c \in Blk : c < b => c \in S PROVE b \in S
  <2>1. ChainOf(f, b) = {b} \cup ChainOf(f, f[b]) /\ f[b] \in Blk \cup {None} /\ f[b] < b
    BY ChainStep DEF IsTree
  <2>2. StopOf(f, a, b) = IF b > a THEN StopOf(f, a, f[b]) ELSE b
    BY StopStep
  <2>3. CASE ~ (b > a)
    <3>1. a \in ChainOf(f, b) => a = b
      <4>1. a \in ChainOf(f, b) => a <= b
        BY ChainFacts
      <4>2. QED
        BY <2>3, <4>1, BlkFacts
    <3>2. QED
      BY <2>1, <2>2, <2>3, <3>1
  <2>4. CASE b > a /\ f[b] = None
    <3>1. StopOf(f, a, b) = None /\ ChainOf(f, b) = {b} /\ a # b
      BY <2>1, <2>2, <2>4, ChainStep, StopStep, BlkFacts
    <3>2. QED
      BY <3>1, BlkFacts
  <2>5. CASE b > a /\ f[b] \in Blk
    <3>1. a # b /\ f[b] \in S
      <4>1. \A x \in Blk : ~ (x > x)
        BY BlkFacts
      <4>2. QED
        BY <1>1, <2>1, <2>5, <4>1
    <3>2. QED
      BY <2>1, <2>2, <2>5, <3>1
  <2>6. QED
    BY <2>1, <2>3, <2>4, <2>5
<1>2. Blk \subseteq S
  <2> HIDE DEF S
  <2>1. QED
    BY <1>1, BlockInduction
<1>3. QED
  BY <1>2

LEMMA SDomFacts ==
  ASSUME TreeInv, Exact
  PROVE  \A a, b \in Blk : SDom(a, b) <=> StrictlyDominates(pred, a, b)
<1>1. \A a, b : Stop(a, b) = StopOf(idom, a, b)
  BY DEF Stop, StopOf
<1>2. \A a, b \in Blk : StopOf(idom, a, b) = a <=> a \in Chain(b)
  BY ChainIs, StopFacts DEF TreeInv
<1>3. QED
  BY <1>1, <1>2 DEF SDom, StrictlyDominates, Exact

-----------------------------------------------------------------------------
(* qbe_fillfron.                                                           *)
LEMMA TakeEdgeInv ==
  ASSUME DomInv, TakeEdge
  PROVE  DomInv'
<1> DEFINE IsFirst(f) == \A g \in left : N * f[1] + f[2] <= N * g[1] + g[2]
           e == CHOOSE f \in left : IsFirst(f)
<1>1. /\ pc = "front" /\ left # {} /\ left' = left \ {e} /\ b1' = e[1] /\ b2' = e[2] /\ pc' = "climb"
      /\ pred' = pred /\ idom' = idom /\ dom' = dom /\ fron' = fron
  BY DEF TakeEdge
<1>2. TreeInv /\ Exact /\ FrontInv
  BY <1>1 DEF DomInv
<1>3. TreeInv' /\ \A b : Chain(b)' = Chain(b) /\ (Known(b)' <=> Known(b))
  BY <1>1, <1>2, TreeSame
<1>4. left \subseteq Edges(pred)
  BY <1>2 DEF FrontInv
<1>5. e \in left
  <2> DEFINE rank(f) == N * f[1] + f[2]
             R == {rank(f) : f \in left}
  <2>1. \A f \in left : rank(f) \in Nat
    <3>1. ASSUME NEW f \in left PROVE rank(f) \in Nat
      <4>1. f[1] \in Blk /\ f[2] \in Blk
        BY <1>4 DEF Edges
      <4>2. \A b \in Blk : b \in Nat
        BY DEF Blk
      <4>3. f[1] \in Nat /\ f[2] \in Nat
        BY <4>1, <4>2
      <4>4. N \in Nat
        BY BlkFacts
      <4>5. QED
        BY <4>3, <4>4
    <3>2. QED
      BY <3>1
  <2> HIDE DEF rank
  <2>2. R \in SUBSET Nat /\ R # {}
    BY <2>1, <1>1
  <2>3. PICK z \in R : \A y \in R : z <= y
    <3> HIDE DEF R
    <3>1. QED
      BY <2>2, Least
  <2>4. PICK f \in left : z = rank(f)
    BY <2>3
  <2>5. \A g \in left : rank(f) <= rank(g)
    BY <2>3, <2>4
  <2>6. IsFirst(f)
    BY <2>5 DEF rank
  <2> HIDE DEF IsFirst
  <2>7. QED
    BY <2>4, <2>6
<1> HIDE DEF e
<1>6. PICK r \in Blk, t \in Blk : /\ r \in pred[t] /\ <<r, t>> \in left /\ left' = left \ {<<r, t>>}
                                  /\ b1' = r /\ b2' = t
  <2>1. e[1] \in Blk /\ e[2] \in Blk /\ e[1] \in pred[e[2]] /\ e = <<e[1], e[2]>>
    BY <1>4, <1>5 DEF Edges
  <2>2. QED
    BY <1>1, <1>5, <2>1
<1>7. Exact'
  BY <1>1, <1>2, <1>3 DEF Exact
<1> DEFINE Others(a, b) == \E p \in pred[b] : <<p, b>> \notin left' /\ <<p, b>> # <<r, t>> /\ InFron(a, p, b)
<1>8. fron' = [a \in Blk |-> {b \in Blk : Others(a, b) \/ (b = t /\ a \in Chain(r) \ Chain(r))}]
  <2>1. \A b, p : <<p, b>> \notin left <=> <<p, b>> \notin left' /\ <<p, b>> # <<r, t>>
    BY <1>6
  <2>2. QED
    BY <1>1, <1>2, <2>1 DEF FrontInv
<1>9. ClimbInv'
  <2>1. left' \subseteq Edges(pred)' /\ b1' \in Blk /\ b2' \in Blk
    BY <1>1, <1>4, <1>6 DEF Edges
  <2>2. r \in pred'[b2'] /\ <<r, b2'>> \notin left'
    BY <1>1, <1>6
  <2>3. Chain(r)' = Chain(r) /\ Chain(b1)' = Chain(r) /\ r \in Chain(r)
    BY <1>1, <1>2, <1>6, TreeFacts, ChainIs
  <2>4. \A a, p, b : InFron(a, p, b)' <=> InFron(a, p, b)
    BY <1>1 DEF InFron
  <2>5. (b1 \in Chain(r))'
    BY <1>6, <2>3
  <2>6. fron' = [a \in Blk |-> {b \in Blk : Others(a, b) \/ (b = b2' /\ a \in Chain(r)' \ Chain(b1)')}]
    BY <1>6, <1>8, <2>3
  <2>7. \A a \in Chain(r)' \ Chain(b1)' : ~StrictlyDominates(pred', a, b2')
    BY <2>3
  <2>8. fron' = [a \in Blk |->
                  {b \in Blk : \/ \E p \in pred'[b] : /\ <<p, b>> \notin left' /\ <<p, b>> # <<r, b2'>>
                                                      /\ InFron(a, p, b)'
                               \/ (b = b2' /\ a \in Chain(r)' \ Chain(b1)')}]
    BY <1>1, <1>6, <2>4, <2>6
  <2>9. QED
    BY <2>1, <2>2, <2>5, <2>7, <2>8 DEF ClimbInv
<1>10. QED
  BY <1>1, <1>3, <1>7, <1>9 DEF DomInv

LEMMA ClimbStep ==
  ASSUME DomInv, Climb
  PROVE  DomInv'
<1>1. /\ pc = "climb" /\ pred' = pred /\ idom' = idom /\ dom' = dom /\ left' = left /\ b2' = b2
  BY DEF Climb
<1>2. TreeInv /\ Exact /\ ClimbInv
  BY <1>1 DEF DomInv
<1>3. TreeInv' /\ \A b : Chain(b)' = Chain(b) /\ (Known(b)' <=> Known(b))
  BY <1>1, <1>2, TreeSame
<1>4. Exact'
  BY <1>1, <1>2, <1>3 DEF Exact
<1>5. \A a, p, b : InFron(a, p, b)' <=> InFron(a, p, b)
  BY <1>1 DEF InFron
<1> DEFINE Others(s, a, b) ==
             \E p \in pred[b] : <<p, b>> \notin left /\ <<p, b>> # <<s, b2>> /\ InFron(a, p, b)
<1>6. PICK s \in pred[b2] :
        /\ <<s, b2>> \notin left /\ b1 \in Chain(s)
        /\ \A a \in Chain(s) \ Chain(b1) : ~StrictlyDominates(pred, a, b2)
        /\ fron = [a \in Blk |-> {b \in Blk : Others(s, a, b) \/ (b = b2 /\ a \in Chain(s) \ Chain(b1))}]
  BY <1>2 DEF ClimbInv
<1>7. b1 \in Blk /\ b2 \in Blk /\ b2 # Start /\ s \in Blk /\ left \subseteq Edges(pred) /\ b1 # None
  BY <1>2, <1>6, BlkFacts DEF ClimbInv, TreeInv, IsGraph
<1>8. SDom(b1, b2) <=> StrictlyDominates(pred, b1, b2)
  BY <1>2, <1>7, SDomFacts
<1>9. CASE SDom(b1, b2)
  <2>1. pc' = "front" /\ b1' = b1 /\ fron' = fron
    BY <1>7, <1>9 DEF Climb
  <2>2. \A a \in Chain(b1) : StrictlyDominates(pred, a, b2)
    <3>1. SUFFICES ASSUME NEW a \in Chain(b1) PROVE StrictlyDominates(pred, a, b2)
      OBVIOUS
    <3>2. b1 \in Chain(b2) /\ b1 # b2
      BY <1>2, <1>7, <1>8, <1>9 DEF Exact, StrictlyDominates
    <3>3. a \in Chain(b2) /\ a \in Blk /\ a <= b1 /\ b1 <= b2
      BY <1>2, <1>7, <3>1, <3>2, TreeFacts
    <3>4. a # b2
      <4>1. \A x \in Blk : x \in Int
        BY DEF Blk
      <4>2. a \in Int /\ b1 \in Int /\ b2 \in Int
        BY <1>7, <3>3, <4>1
      <4>3. QED
        BY <3>2, <3>3, <4>2
    <3>5. QED
      BY <1>2, <1>7, <3>3, <3>4 DEF Exact, StrictlyDominates
  <2>3. \A a \in Blk : a \in Chain(s) \ Chain(b1) <=> InFron(a, s, b2)
    BY <1>2, <1>6, <1>7, <2>2 DEF InFron, Exact
  <2>4. \A a \in Blk, b \in Blk :
          Others(s, a, b) \/ (b = b2 /\ a \in Chain(s) \ Chain(b1))
          <=> \E p \in pred[b] : <<p, b>> \notin left /\ InFron(a, p, b)
    BY <1>6, <2>3
  <2>5. fron = [a \in Blk |-> {b \in Blk : \E p \in pred[b] : <<p, b>> \notin left /\ InFron(a, p, b)}]
    <3> HIDE DEF Others
    <3>1. QED
      BY <1>6, <2>4
  <2>6. FrontInv'
    BY <1>1, <1>5, <1>7, <2>1, <2>5 DEF FrontInv
  <2>7. QED
    BY <1>1, <1>3, <1>4, <2>1, <2>6 DEF DomInv
<1>10. CASE ~SDom(b1, b2)
  <2>1. pc' = pc /\ b1' = idom[b1] /\ fron' = [fron EXCEPT ![b1] = @ \cup {b2}]
    BY <1>7, <1>10 DEF Climb
  <2>2. ~StrictlyDominates(pred, b1, b2)
    BY <1>8, <1>10
  <2>3. b1 # Start
    <3>1. Dominates(pred, Start, b2)
      BY <1>2, <1>7, DominatesFacts, BlkFacts DEF TreeInv
    <3>2. QED
      BY <1>7, <2>2, <3>1 DEF StrictlyDominates
  <2>4. Chain(b1) = {b1} \cup Chain(idom[b1])
    BY <1>2, <1>7, TreeFacts
  <2>5. idom[b1] \in Blk
    <3>1. Start \in Chain(b1)
      <4>1. Dominates(pred, Start, b1)
        BY <1>2, <1>7, DominatesFacts, BlkFacts DEF TreeInv
      <4>2. QED
        BY <1>2, <1>7, <4>1, BlkFacts DEF Exact
    <3>2. idom[b1] # None
      BY <1>2, <2>3, <2>4, <3>1, TreeFacts
    <3>3. QED
      BY <1>2, <1>7, <3>2, TreeFacts
  <2>6. b1 \notin Chain(idom[b1])
    <3>1. idom[b1] < b1 /\ \A a \in Chain(idom[b1]) : a <= idom[b1]
      BY <1>2, <1>7, <2>5, TreeFacts
    <3>2. \A x \in Blk : x \in Int
      BY DEF Blk
    <3>3. idom[b1] \in Int /\ b1 \in Int
      BY <1>7, <2>5, <3>2
    <3>4. QED
      BY <3>1, <3>3
  <2>7. /\ idom[b1] \in Chain(s)
        /\ Chain(s) \ Chain(idom[b1]) = (Chain(s) \ Chain(b1)) \cup {b1}
    <3>1. idom[b1] \in Chain(b1) /\ Chain(b1) \subseteq Chain(s)
      BY <1>2, <1>6, <1>7, <2>4, <2>5, TreeFacts
    <3>2. QED
      BY <1>6, <2>4, <2>6, <3>1
  <2>8. fron' = [a \in Blk |-> {b \in Blk : Others(s, a, b) \/ (b = b2 /\ a \in Chain(s) \ Chain(idom[b1]))}]
    <3> HIDE DEF Others
    <3>1. fron' = [a \in Blk |-> IF a = b1 THEN fron[b1] \cup {b2} ELSE fron[a]]
      BY <1>6, <1>7, <2>1
    <3>2. \A a \in Blk : fron[a] = {b \in Blk : Others(s, a, b) \/ (b = b2 /\ a \in Chain(s) \ Chain(b1))}
      BY <1>6
    <3>3. \A a \in Blk : a # b1 => (a \in Chain(s) \ Chain(idom[b1]) <=> a \in Chain(s) \ Chain(b1))
      BY <2>7
    <3>4. \A a \in Blk : fron'[a] = {b \in Blk : Others(s, a, b) \/ (b = b2 /\ a \in Chain(s) \ Chain(idom[b1]))}
      BY <1>7, <2>7, <3>1, <3>2, <3>3
    <3>5. fron' = [a \in Blk |-> fron'[a]]
      BY <3>1
    <3>6. QED
      BY <3>4, <3>5
  <2>9. ClimbInv'
    <3>1. /\ left' \subseteq Edges(pred)' /\ b1' \in Blk /\ b2' \in Blk
          /\ s \in pred'[b2'] /\ <<s, b2'>> \notin left'
      BY <1>1, <1>6, <1>7, <2>1, <2>5 DEF Edges
    <3>2. Chain(b1)' = Chain(idom[b1]) /\ Chain(s)' = Chain(s)
      BY <1>1, <2>1, ChainIs
    <3>3. (b1 \in Chain(s))'
      BY <1>1, <2>1, <2>7, ChainIs
    <3>4. \A a \in Chain(s) \ Chain(idom[b1]) : ~StrictlyDominates(pred, a, b2)
      BY <1>6, <2>2, <2>7
    <3>5. QED
      BY <1>1, <1>5, <2>8, <3>1, <3>2, <3>3, <3>4 DEF ClimbInv
  <2>10. QED
    BY <1>1, <1>3, <1>4, <2>1, <2>9 DEF DomInv
<1>11. QED
  BY <1>9, <1>10

LEMMA FronEndInv ==
  ASSUME DomInv, FronEnd
  PROVE  DomInv'
<1>1. /\ pc = "front" /\ left = {} /\ pc' = "done"
      /\ UNCHANGED <<pred, idom, left, dom, fron>>
  BY DEF FronEnd
<1>2. TreeInv /\ Exact /\ FrontInv
  BY <1>1 DEF DomInv
<1>3. TreeInv' /\ \A b : Chain(b)' = Chain(b) /\ (Known(b)' <=> Known(b))
  BY <1>1, <1>2, TreeSame
<1>4. Exact' /\ FrontInv'
  BY <1>1, <1>2, <1>3 DEF Exact, FrontInv, InFron
<1>5. QED
  BY <1>1, <1>3, <1>4 DEF DomInv

LEMMA DomStutterInv ==
  ASSUME DomInv, UNCHANGED domVars
  PROVE  DomInv'
<1>1. /\ UNCHANGED <<pc, pred, idom, n, left, d, b1, b2, ch, dom, fron>>
  BY DEF domVars
<1>2. TreeInv
  BY DEF DomInv
<1>3. TreeInv' /\ \A b : Chain(b)' = Chain(b) /\ (Known(b)' <=> Known(b))
  BY <1>1, <1>2, TreeSame
<1>4. PassInv => PassInv'
  BY <1>1, <1>3 DEF PassInv, Common, Meeting, Shared, Looked, Stable
<1>5. Exact => Exact'
  BY <1>1, <1>3 DEF Exact
<1>6. FrontInv => FrontInv'
  BY <1>1 DEF FrontInv, InFron
<1>7. ClimbInv => ClimbInv'
  <2>1. Chain(b1)' = Chain(b1)
    BY <1>1, ChainIs
  <2>2. \A x : (b1 \in Chain(x))' <=> b1 \in Chain(x)
    BY <1>1, <1>3
  <2>3. \A a, p, b : InFron(a, p, b)' <=> InFron(a, p, b)
    BY <1>1 DEF InFron
  <2>4. SUFFICES ASSUME ClimbInv PROVE ClimbInv'
    OBVIOUS
  <2>5. PICK s \in pred[b2] :
       /\ <<s, b2>> \notin left /\ b1 \in Chain(s)
       /\ \A a \in Chain(s) \ Chain(b1) : ~StrictlyDominates(pred, a, b2)
       /\ fron = [a \in Blk |->
                    {b \in Blk : \/ \E p \in pred[b] : /\ <<p, b>> \notin left /\ <<p, b>> # <<s, b2>>
                                                       /\ InFron(a, p, b)
                                 \/ (b = b2 /\ a \in Chain(s) \ Chain(b1))}]
    BY <2>4 DEF ClimbInv
  <2>6. /\ s \in pred'[b2'] /\ <<s, b2'>> \notin left' /\ (b1 \in Chain(s))'
        /\ \A a \in Chain(s)' \ Chain(b1)' : ~StrictlyDominates(pred', a, b2')
    BY <1>1, <1>3, <2>1, <2>2, <2>5
  <2>7. fron' = [a \in Blk |->
                    {b \in Blk : \/ \E p \in pred'[b] : /\ <<p, b>> \notin left' /\ <<p, b>> # <<s, b2'>>
                                                       /\ InFron(a, p, b)'
                                 \/ (b = b2' /\ a \in Chain(s)' \ Chain(b1)')}]
    BY <1>1, <1>3, <2>1, <2>3, <2>5
  <2>8. QED
    BY <1>1, <2>4, <2>6, <2>7 DEF ClimbInv
<1>8. QED
  BY <1>1, <1>3, <1>4, <1>5, <1>6, <1>7 DEF DomInv

THEOREM DomInvariance == DomSpec => []DomInv
<1>1. DomInv /\ [DomNext]_domVars => DomInv'
  BY LookAtInv, WalkInv, MeetInv, SetIdomInv, AgainInv, TreeInvStep, TakeEdgeInv, ClimbStep, FronEndInv,
     DomStutterInv DEF DomNext
<1>2. QED
  BY <1>1, DomInitInv, PTL DEF DomSpec

(* When qbe_filldom and qbe_fillfron are done, the idoms make the chains   *)
(* of the dominators that the paths of the graph define, and qbe_sdom      *)
(* answers for any two blocks what the paths say.                          *)
THEOREM DominatorsAreExact == DomSpec => []IdomExact
<1>1. DomInv => IdomExact
  <2> SUFFICES ASSUME DomInv, pc = "done", NEW b \in Blk
               PROVE  /\ Chain(b) = {a \in Blk : Dominates(pred, a, b)}
                      /\ \A a \in Blk : SDom(a, b) <=> StrictlyDominates(pred, a, b)
                      /\ b # Start => \E a \in Blk : b \in dom[a] /\ \A c \in Blk : b \in dom[c] => c = a
    BY DEF IdomExact
  <2>1. TreeInv /\ Exact
    BY DEF DomInv
  <2>2. Chain(b) = {a \in Blk : Dominates(pred, a, b)}
    BY <2>1, TreeFacts DEF Exact
  <2>3. ASSUME b # Start PROVE \E a \in Blk : b \in dom[a] /\ \A c \in Blk : b \in dom[c] => c = a
    <3>1. Start \in Chain(b)
      BY <2>1, DominatesFacts, BlkFacts DEF Exact, TreeInv
    <3>2. idom[b] \in Blk
      BY <2>1, <2>3, <3>1, TreeFacts
    <3>3. QED
      BY <2>1, <3>2 DEF Exact
  <2>4. QED
    BY <2>1, <2>2, <2>3, SDomFacts
<1>2. QED
  BY <1>1, DomInvariance, PTL

(* And the frontier of a block is that of the paths: the targets of the    *)
(* edges that leave what it dominates, so that no phi is missing.          *)
THEOREM FrontiersAreExact == DomSpec => []FrontierExact
<1>1. DomInv => FrontierExact
  <2> SUFFICES ASSUME DomInv, pc = "done", NEW a \in Blk
               PROVE  fron[a] = {e[2] : e \in {f \in Edges(pred) : Dominates(pred, a, f[1])
                                                                   /\ ~StrictlyDominates(pred, a, f[2])}}
    BY DEF FrontierExact
  <2>1. TreeInv /\ FrontInv /\ left = {}
    BY DEF DomInv
  <2>2. fron[a] = {b \in Blk : \E p \in pred[b] : InFron(a, p, b)}
    BY <2>1 DEF FrontInv
  <2> DEFINE E == {f \in Edges(pred) : Dominates(pred, a, f[1]) /\ ~StrictlyDominates(pred, a, f[2])}
  <2>3. ASSUME NEW b \in Blk, NEW p \in pred[b], InFron(a, p, b) PROVE b \in {e[2] : e \in E}
    <3>1. p \in Blk
      BY <2>1 DEF TreeInv, IsGraph
    <3>2. <<p, b>> \in E /\ <<p, b>>[2] = b
      BY <2>3, <3>1 DEF Edges, InFron
    <3> HIDE DEF E
    <3>3. QED
      BY <3>2
  <2>4. ASSUME NEW e \in E PROVE e[2] \in Blk /\ e[1] \in pred[e[2]] /\ InFron(a, e[1], e[2])
    BY DEF Edges, InFron
  <2> HIDE DEF E
  <2>5. fron[a] = {e[2] : e \in E}
    BY <2>2, <2>3, <2>4
  <2>6. QED
    BY <2>5 DEF E
<1>2. QED
  BY <1>1, DomInvariance, PTL

-----------------------------------------------------------------------------
(* The inductive invariant of qbe_fillloop.  What loopmark marks for a     *)
(* header, reducible or not: the blocks from it on that reach the source   *)
(* of one of its back edges through such blocks.  A marking goes no        *)
(* further, and what it owes a block it has marked waits on the stack.     *)
LoopOf(h) == Reaching(Sources(h), {b \in Blk : b >= h})
In(s, p) == \E k \in 1 .. Len(s) : s[k] = p
Owed(p) == p < m \/ visit[p] = m \/ In(stack, p)
Headers(b) == {h \in Blk : calls[<<h, b>>] = 1}

MarkInv ==
  /\ from \subseteq pred[m]
  /\ \A b \in Blk : visit[b] = m => b \in LoopOf(m) /\ \A p \in pred[b] : Owed(p)
  /\ \A p \in pred[m] : p \in from \/ Owed(p)
  /\ \A p \in Blk : In(stack, p) => p < m \/ p \in LoopOf(m)

LoopInv ==
  /\ IsGraph(pred)
  /\ at \in {"scan", "mark", "done"} /\ m \in 0 .. N /\ (at = "done" <=> m = N)
  /\ stack \in Seq(Blk) /\ (at # "mark" => stack = <<>>)
  /\ visit \in [Blk -> Int] /\ (\A b \in Blk : visit[b] <= m)
  /\ loop \in [Blk -> Nat] /\ calls \in [Blk \X Blk -> {0, 1}]
  /\ \A b \in Blk : loop[b] = Power10(Cardinality(Headers(b)))
  /\ \A h, b \in Blk : h \in Headers(b) <=> IF h = m THEN visit[b] = m ELSE h < m /\ b \in LoopOf(h)
  /\ m < N => MarkInv

(* What reaches, by induction over the paths.                              *)
LEMMA ReachingFacts ==
  ASSUME pred \in [Blk -> SUBSET Blk], NEW S, NEW A \in SUBSET Blk
  PROVE  /\ S \cap A \subseteq Reaching(S, A) /\ Reaching(S, A) \subseteq A
         /\ \A b \in Reaching(S, A) : pred[b] \cap A \subseteq Reaching(S, A)
         /\ \A T : S \cap A \subseteq T /\ (\A b \in T \cap Blk : pred[b] \cap A \subseteq T)
                   => Reaching(S, A) \subseteq T
<1> DEFINE g == [a \in Blk |-> Succ(pred, a)]
           R == Closure(g, S, A)
<1>1. Reaching(S, A) = R
  BY DEF Reaching
<1>2. \A a \in Blk : \A b : b \in g[a] <=> b \in Blk /\ a \in pred[b]
  BY DEF Succ
<1>3. /\ S \cap A \subseteq R /\ R \subseteq A /\ ClosedIn(g, A, R)
      /\ \A T : S \cap A \subseteq T /\ ClosedIn(g, A, T) => R \subseteq T
  BY ClosureFacts
<1> HIDE DEF g, R
<1>4. \A b \in R : pred[b] \cap A \subseteq R
  BY <1>2, <1>3 DEF ClosedIn
<1>5. ASSUME NEW T, \A b \in T \cap Blk : pred[b] \cap A \subseteq T PROVE ClosedIn(g, A, T)
  BY <1>2, <1>5 DEF ClosedIn
<1>6. QED
  BY <1>1, <1>3, <1>4, <1>5

LEMMA LoopOfFacts ==
  ASSUME pred \in [Blk -> SUBSET Blk], NEW h \in Blk
  PROVE  /\ LoopOf(h) \subseteq {b \in Blk : b >= h}
         /\ \A p \in pred[h] : p >= h => p \in LoopOf(h)
         /\ \A b \in LoopOf(h) : \A p \in pred[b] : p >= h => p \in LoopOf(h)
         /\ \A T : /\ \A p \in pred[h] : p >= h => p \in T
                   /\ \A b \in T \cap Blk : \A p \in pred[b] : p >= h => p \in T
                   => LoopOf(h) \subseteq T
<1> DEFINE A == {b \in Blk : b >= h}
<1>1. A \in SUBSET Blk /\ LoopOf(h) = Reaching(Sources(h), A)
  BY DEF LoopOf
<1>2. \A b \in Blk : pred[b] \cap A = {p \in pred[b] : p >= h}
  OBVIOUS
<1>3. Sources(h) \cap A = {p \in pred[h] : p >= h}
  BY DEF Sources
<1>4. LoopOf(h) \subseteq A
  BY <1>1, ReachingFacts
<1>5. QED
  BY <1>1, <1>2, <1>3, <1>4, ReachingFacts

(* When loops have one entry, what is marked is the natural loop: nothing  *)
(* in it is before the header, which dominates it all, and a marking that  *)
(* starts at all comes to the header.                                      *)
LEMMA NaturalLoopMarked ==
  ASSUME IsGraph(pred), Reducible, NEW h \in Blk
  PROVE  LoopOf(h) = NaturalLoop(h)
<1> DEFINE A == Blk \ {h}
           R == Reaching(Sources(h), A)
<1>0. pred \in [Blk -> SUBSET Blk]
  BY DEF IsGraph
<1>1. /\ Sources(h) \cap A \subseteq R /\ R \subseteq A /\ \A b \in R : pred[b] \cap A \subseteq R
      /\ \A T : Sources(h) \cap A \subseteq T /\ (\A b \in T \cap Blk : pred[b] \cap A \subseteq T) => R \subseteq T
  <2>1. A \in SUBSET Blk
    OBVIOUS
  <2> HIDE DEF A
  <2>2. QED
    BY <1>0, <2>1, ReachingFacts
<1>2. NaturalLoop(h) = IF Sources(h) = {} THEN {} ELSE {h} \cup R
  BY DEF NaturalLoop
<1> HIDE DEF R
<1>3. \A x \in Blk : x \in Int
  BY DEF Blk
<1>4. \A p \in Sources(h) : p \in Blk /\ p \in pred[h] /\ p >= h /\ Dominates(pred, h, p)
  <2>1. ASSUME NEW p \in Sources(h) PROVE p \in Blk /\ p \in pred[h] /\ p >= h /\ Dominates(pred, h, p)
    <3>1. p \in pred[h] /\ p >= h /\ p \in Blk
      BY <1>0 DEF Sources
    <3>2. <<p, h>> \in Edges(pred)
      BY <3>1 DEF Edges
    <3>3. QED
      BY <3>1, <3>2 DEF Reducible
  <2>2. QED
    BY <2>1
<1>5. \A b \in R : Dominates(pred, h, b)
  <2> DEFINE T == {b \in Blk : Dominates(pred, h, b)}
  <2>1. Sources(h) \cap A \subseteq T
    BY <1>4
  <2>2. ASSUME NEW b \in T \cap Blk, NEW p \in pred[b] \cap A PROVE p \in T \/ b = h
    BY <1>0, DominatesFacts
  <2>3. QED
    <3> DEFINE U == R \cap T
    <3>1. Sources(h) \cap A \subseteq U
      BY <1>1, <2>1
    <3>2. \A b \in U \cap Blk : pred[b] \cap A \subseteq U
      BY <1>1, <2>2
    <3> HIDE DEF T
    <3>3. R \subseteq U
      <4> HIDE DEF U
      <4>1. QED
        BY <1>1, <3>1, <3>2
    <3>4. QED
      BY <3>3 DEF T
<1>6. \A b \in R : b \in Blk /\ b >= h
  BY <1>1, <1>3, <1>5, DominatesFacts
<1>7. LoopOf(h) \subseteq {h} \cup R
  <2>1. \A p \in pred[h] : p >= h => p \in {h} \cup R
    BY <1>0, <1>1 DEF Sources
  <2>2. \A b \in ({h} \cup R) \cap Blk : \A p \in pred[b] : p >= h => p \in {h} \cup R
    BY <1>0, <1>1, <2>1
  <2>3. QED
    BY <1>0, <2>1, <2>2, LoopOfFacts
<1>8. R \subseteq LoopOf(h)
  <2>1. Sources(h) \cap A \subseteq R \cap LoopOf(h)
    BY <1>0, <1>1, LoopOfFacts DEF Sources
  <2>2. \A b \in (R \cap LoopOf(h)) \cap Blk : pred[b] \cap A \subseteq R \cap LoopOf(h)
    BY <1>0, <1>1, <1>6, LoopOfFacts
  <2>3. QED
    BY <1>1, <2>1, <2>2
<1>9. Sources(h) = {} => LoopOf(h) = {}
  <2>1. SUFFICES ASSUME Sources(h) = {} PROVE LoopOf(h) \subseteq {}
    OBVIOUS
  <2>2. \A p \in pred[h] : ~ (p >= h)
    BY <2>1 DEF Sources
  <2>3. \A b \in {} \cap Blk : \A p \in pred[b] : p >= h => p \in {}
    OBVIOUS
  <2>4. \A p \in pred[h] : p >= h => p \in {}
    BY <2>2
  <2> DEFINE T == {}
  <2>5. (\A p \in pred[h] : p >= h => p \in T) /\ (\A b \in T \cap Blk : \A p \in pred[b] : p >= h => p \in T)
    BY <2>3, <2>4
  <2> HIDE DEF T
  <2>6. LoopOf(h) \subseteq T
    BY <1>0, <2>5, LoopOfFacts
  <2>7. QED
    BY <2>6 DEF T
<1>10. ASSUME Sources(h) # {} PROVE h \in LoopOf(h)
  <2> DEFINE L == LoopOf(h)
  <2>1. L \subseteq Blk /\ L # {}
    BY <1>0, <1>4, <1>10, LoopOfFacts
  <2>2. PICK z \in L : \A y \in L : z <= y
    <3>1. L \in SUBSET Nat
      BY <2>1 DEF Blk
    <3> HIDE DEF L
    <3>2. QED
      BY <2>1, <3>1, Least
  <2>3. SUFFICES ASSUME z # h PROVE FALSE
    BY <2>2
  <2>4. z \in R /\ z \in Blk /\ Dominates(pred, h, z)
    BY <1>5, <1>7, <2>1, <2>2, <2>3
  <2>5. z # Start
    BY <2>3, <2>4, DominatesFacts
  <2>6. PICK a \in pred[z] : a < z
    BY <2>4, <2>5 DEF IsGraph
  <2>7. a \in Blk /\ Dominates(pred, h, a)
    BY <1>0, <2>3, <2>4, <2>6, DominatesFacts
  <2>8. h <= a
    BY <2>7, DominatesFacts
  <2>9. a \in Int /\ h \in Int /\ z \in Int
    BY <1>3, <2>4, <2>7
  <2>10. a \in L
    BY <1>0, <2>2, <2>6, <2>8, <2>9, LoopOfFacts
  <2>11. z <= a
    BY <2>2, <2>10
  <2>12. QED
    BY <2>6, <2>9, <2>11
<1>11. QED
  BY <1>2, <1>7, <1>8, <1>9, <1>10

(* The k-th predecessor exists: the ranks of k numbers are 0 .. k - 1.     *)
LEMMA RankFacts ==
  ASSUME NEW S \in SUBSET Blk
  PROVE  /\ IsFiniteSet(S) /\ Cardinality(S) \in Nat
         /\ \A p \in S : Cardinality({q \in S : q < p}) \in 0 .. Cardinality(S) - 1
         /\ \A k \in 0 .. Cardinality(S) - 1 : \E p \in S : Cardinality({q \in S : q < p}) = k
         /\ \A p, r \in S : Cardinality({q \in S : q < p}) = Cardinality({q \in S : q < r}) => p = r
<1> DEFINE lower(p) == {q \in S : q < p}
           rank == [p \in S |-> Cardinality(lower(p))]
           c == Cardinality(S)
<1>1. \A b \in Blk : b \in Int
  BY DEF Blk
<1>2. IsFiniteSet(S) /\ c \in Nat
  <2>1. IsFiniteSet(Blk)
    BY GraphAssumption, FS_Interval DEF Blk
  <2>2. QED
    BY <2>1, FS_Subset, FS_CardinalityType
<1>3. ASSUME NEW T \in SUBSET S
      PROVE  /\ IsFiniteSet(T) /\ Cardinality(T) \in Nat /\ Cardinality(T) <= c
             /\ \A U \in SUBSET T : Cardinality(U) <= Cardinality(T) /\ (Cardinality(U) = Cardinality(T) => U = T)
  <2>1. IsFiniteSet(T) /\ Cardinality(T) <= c
    BY <1>2, FS_Subset
  <2>2. QED
    BY <2>1, FS_Subset, FS_CardinalityType
<1>4. \A p \in S : lower(p) \in SUBSET S /\ p \notin lower(p)
  BY <1>1
<1>5. \A p \in S : rank[p] \in 0 .. c - 1
  <2>1. ASSUME NEW p \in S PROVE rank[p] \in 0 .. c - 1
    <3>1. lower(p) \in SUBSET S /\ lower(p) # S
      BY <1>4
    <3> HIDE DEF lower
    <3>2. Cardinality(lower(p)) \in Nat /\ Cardinality(lower(p)) <= c
      BY <1>3, <3>1
    <3>3. Cardinality(lower(p)) # c
      BY <1>2, <3>1, FS_Subset
    <3>4. QED
      BY <1>2, <3>2, <3>3
  <2>2. QED
    BY <2>1
<1>6. ASSUME NEW p \in S, NEW r \in S, rank[p] = rank[r] PROVE p = r
  <2>1. ASSUME NEW x \in S, NEW y \in S, x < y PROVE rank[x] # rank[y]
    <3>1. lower(x) \in SUBSET lower(y) /\ x \in lower(y) /\ x \notin lower(x) /\ lower(y) \in SUBSET S
      BY <1>1, <2>1
    <3> HIDE DEF lower
    <3>2. QED
      BY <1>3, <3>1
  <2>2. p \in Int /\ r \in Int
    BY <1>1
  <2> HIDE DEF rank
  <2>3. QED
    BY <1>6, <2>1, <2>2
<1> HIDE DEF lower, c
<1>7. rank \in Injection(S, 0 .. c - 1)
  <2>1. rank \in [S -> 0 .. c - 1]
    BY <1>5
  <2> HIDE DEF rank
  <2>2. QED
    BY <1>6, <2>1 DEF Injection, IsInjective
<1>8. IsFiniteSet(0 .. c - 1) /\ Cardinality(0 .. c - 1) = c
  BY <1>2, FS_Interval
<1>9. rank \in Surjection(S, 0 .. c - 1)
  <2> HIDE DEF rank
  <2>1. QED
    BY <1>7, <1>8, FS_Injection DEF c
<1>10. \A k \in 0 .. c - 1 : \E p \in S : rank[p] = k
  <2> HIDE DEF rank
  <2>1. QED
    BY <1>9 DEF Surjection
<1>11. QED
  BY <1>2, <1>5, <1>6, <1>10 DEF c, lower

LEMMA PredsFacts ==
  ASSUME pred \in [Blk -> SUBSET Blk], NEW b \in Blk
  PROVE  /\ Preds(b) \in Seq(Blk)
         /\ \A p : In(Preds(b), p) <=> p \in pred[b]
<1> DEFINE S == pred[b]
           c == Cardinality(S)
           rank(p) == Cardinality({q \in S : q < p})
<1>1. S \in SUBSET Blk
  OBVIOUS
<1>2. /\ c \in Nat
      /\ \A p \in S : rank(p) \in 0 .. c - 1
      /\ \A k \in 0 .. c - 1 : \E p \in S : rank(p) = k
      /\ \A p, r \in S : rank(p) = rank(r) => p = r
  <2> HIDE DEF S
  <2>1. QED
    BY <1>1, RankFacts
<1>3. Preds(b) = [k \in 1 .. c |-> CHOOSE p \in S : rank(p) = k - 1]
  BY DEF Preds
<1> HIDE DEF S, c, rank
<1>4. \A k \in 1 .. c : Preds(b)[k] \in S /\ rank(Preds(b)[k]) = k - 1
  <2>1. ASSUME NEW k \in 1 .. c PROVE Preds(b)[k] \in S /\ rank(Preds(b)[k]) = k - 1
    <3>1. k - 1 \in 0 .. c - 1
      BY <1>2
    <3>2. \E p \in S : rank(p) = k - 1
      BY <1>2, <3>1
    <3>3. Preds(b)[k] = CHOOSE p \in S : rank(p) = k - 1
      BY <1>3
    <3>4. QED
      BY <3>2, <3>3
  <2>2. QED
    BY <2>1
<1>5. Preds(b) \in Seq(Blk) /\ Len(Preds(b)) = c
  <2>1. Preds(b) \in [1 .. c -> Blk]
    BY <1>1, <1>3, <1>4
  <2>2. QED
    BY <1>2, <2>1
<1>6. ASSUME NEW p \in S PROVE In(Preds(b), p)
  <2>1. rank(p) + 1 \in 1 .. c
    BY <1>2
  <2>2. rank(Preds(b)[rank(p) + 1]) = rank(p)
    BY <1>2, <1>4, <2>1
  <2>3. Preds(b)[rank(p) + 1] = p
    BY <1>2, <1>4, <2>1, <2>2
  <2>4. QED
    BY <1>5, <2>1, <2>3 DEF In
<1>7. ASSUME NEW p, In(Preds(b), p) PROVE p \in S
  BY <1>4, <1>5, <1>7 DEF In
<1>8. QED
  BY <1>5, <1>6, <1>7 DEF S

LEMMA PowerFacts ==
  /\ Power10(0) = 1
  /\ \A k \in 0 .. N : Power10(k) \in Nat
  /\ \A k \in 0 .. N - 1 : Power10(k + 1) = Power10(k) * 10
<1> DEFINE step == [x \in Nat |-> 10 * x]
           IsPower(w) == w = [i \in 0 .. N |-> IF i = 0 THEN 1 ELSE 10 * w[i - 1]]
           p == CHOOSE w : IsPower(w)
<1>0. N \in Nat
  BY BlkFacts
<1>1. PICK v : IsGrowth(step, 1, N, v)
  BY <1>0, GrowthExists
<1>2. \A k \in 0 .. N : v[k] \in Nat
  <2> DEFINE K == {k \in Nat : k <= N => v[k] \in Nat}
  <2>1. 0 \in K
    BY <1>0, <1>1 DEF IsGrowth
  <2>2. ASSUME NEW k \in Nat, k \in K PROVE k + 1 \in K
    <3>1. SUFFICES ASSUME k + 1 <= N PROVE v[k + 1] \in Nat
      OBVIOUS
    <3>2. k + 1 \in 0 .. N /\ k + 1 # 0 /\ k + 1 - 1 = k /\ v[k] \in Nat
      BY <1>0, <2>2, <3>1
    <3>3. v[k + 1] = step[v[k]]
      <4> HIDE DEF step
      <4>1. \A j \in 0 .. N : v[j] = IF j = 0 THEN 1 ELSE step[v[j - 1]]
        BY <1>1 DEF IsGrowth
      <4>2. v[k + 1] = step[v[k + 1 - 1]]
        BY <3>2, <4>1
      <4>3. QED
        BY <3>2, <4>2
    <3>4. QED
      BY <3>2, <3>3
  <2>3. Nat \subseteq K
    <3> HIDE DEF K
    <3>1. QED
      BY <2>1, <2>2, SetInduction
  <2>4. QED
    BY <2>3
<1>3. IsPower(v)
  <2>1. \A k \in 0 .. N : k # 0 => k - 1 \in 0 .. N
    BY <1>0
  <2>2. \A k \in 0 .. N : k # 0 => step[v[k - 1]] = 10 * v[k - 1]
    BY <1>2, <2>1
  <2> HIDE DEF step
  <2>3. QED
    BY <1>1, <2>2 DEF IsGrowth
<1>4. IsPower(p) /\ \A k : Power10(k) = p[k]
  <2>1. \A k : Power10(k) = p[k]
    BY DEF Power10
  <2> HIDE DEF IsPower
  <2>2. QED
    BY <1>3, <2>1
<1> HIDE DEF p
<1>5. \A k \in 0 .. N : p[k] = IF k = 0 THEN 1 ELSE 10 * p[k - 1]
  BY <1>4
<1> HIDE DEF IsPower
<1>6. p[0] = 1
  BY <1>0, <1>5
<1>7. \A k \in 0 .. N - 1 : p[k + 1] = 10 * p[k]
  <2>1. ASSUME NEW k \in 0 .. N - 1 PROVE p[k + 1] = 10 * p[k]
    <3>1. k + 1 \in 0 .. N /\ k + 1 # 0 /\ k + 1 - 1 = k
      BY <1>0
    <3>2. QED
      BY <1>5, <3>1
  <2>2. QED
    BY <2>1
<1>8. \A k \in 0 .. N : p[k] \in Nat
  <2> DEFINE K == {k \in Nat : k <= N => p[k] \in Nat}
  <2>1. 0 \in K
    BY <1>6
  <2>2. ASSUME NEW k \in Nat, k \in K PROVE k + 1 \in K
    <3>1. SUFFICES ASSUME k + 1 <= N PROVE p[k + 1] \in Nat
      OBVIOUS
    <3>2. k \in 0 .. N - 1 /\ p[k] \in Nat
      BY <1>0, <2>2, <3>1
    <3>3. QED
      BY <1>7, <3>2
  <2>3. Nat \subseteq K
    <3> HIDE DEF K
    <3>1. QED
      BY <2>1, <2>2, SetInduction
  <2>4. QED
    BY <2>3
<1>9. \A k \in 0 .. N - 1 : k \in 0 .. N
  BY <1>0
<1>10. QED
  BY <1>4, <1>6, <1>7, <1>8, <1>9

LEMMA StackFacts ==
  ASSUME NEW s \in Seq(Blk), s # <<>>, NEW t \in Seq(Blk)
  PROVE  /\ Head(s) \in Blk /\ Tail(s) \in Seq(Blk) /\ t \o Tail(s) \in Seq(Blk)
         /\ \A p : In(s, p) <=> p = Head(s) \/ In(Tail(s), p)
         /\ \A p : In(t \o Tail(s), p) <=> In(t, p) \/ In(Tail(s), p)
<1>1. Head(s) \in Blk /\ Tail(s) \in Seq(Blk) /\ Len(s) \in Nat /\ Len(s) # 0 /\ Len(Tail(s)) = Len(s) - 1
  OBVIOUS
<1>2. \A k \in 1 .. Len(s) - 1 : Tail(s)[k] = s[k + 1]
  OBVIOUS
<1>3. Head(s) = s[1]
  OBVIOUS
<1>4. ASSUME NEW p PROVE In(s, p) <=> p = Head(s) \/ In(Tail(s), p)
  <2>1. ASSUME NEW k \in 1 .. Len(s), s[k] = p, p # Head(s) PROVE In(Tail(s), p)
    <3>1. k # 1 /\ k - 1 \in 1 .. Len(s) - 1 /\ k - 1 + 1 = k
      BY <1>1, <1>3, <2>1
    <3>2. Tail(s)[k - 1] = p
      BY <1>2, <2>1, <3>1
    <3>3. QED
      BY <1>1, <3>1, <3>2 DEF In
  <2>2. ASSUME NEW k \in 1 .. Len(Tail(s)), Tail(s)[k] = p PROVE In(s, p)
    <3>1. k + 1 \in 1 .. Len(s) /\ s[k + 1] = p
      BY <1>1, <1>2, <2>2
    <3>2. QED
      BY <3>1 DEF In
  <2>3. p = Head(s) => In(s, p)
    BY <1>1, <1>3 DEF In
  <2>4. QED
    BY <2>1, <2>2, <2>3 DEF In
<1> DEFINE u == Tail(s)
<1>5. ASSUME NEW v \in Seq(Blk), NEW p
      PROVE  In(t \o v, p) <=> In(t, p) \/ In(v, p)
  <2>1. /\ Len(t) \in Nat /\ Len(v) \in Nat /\ Len(t \o v) = Len(t) + Len(v)
        /\ \A k \in 1 .. Len(t) + Len(v) : (t \o v)[k] = IF k <= Len(t) THEN t[k] ELSE v[k - Len(t)]
    OBVIOUS
  <2>2. ASSUME NEW k \in 1 .. Len(t \o v), (t \o v)[k] = p PROVE In(t, p) \/ In(v, p)
    <3>1. CASE k <= Len(t)
      BY <2>1, <2>2, <3>1 DEF In
    <3>2. CASE ~ (k <= Len(t))
      <4>1. k - Len(t) \in 1 .. Len(v) /\ v[k - Len(t)] = p
        BY <2>1, <2>2, <3>2
      <4>2. QED
        BY <4>1 DEF In
    <3>3. QED
      BY <3>1, <3>2
  <2>3. ASSUME NEW k \in 1 .. Len(t), t[k] = p PROVE In(t \o v, p)
    BY <2>1, <2>3 DEF In
  <2>4. ASSUME NEW k \in 1 .. Len(v), v[k] = p PROVE In(t \o v, p)
    <3>1. Len(t) + k \in 1 .. Len(t) + Len(v) /\ ~ (Len(t) + k <= Len(t)) /\ Len(t) + k - Len(t) = k
      BY <2>1
    <3>2. (t \o v)[Len(t) + k] = p
      BY <2>1, <2>4, <3>1
    <3>3. QED
      BY <2>1, <3>1, <3>2 DEF In
  <2>5. QED
    BY <2>2, <2>3, <2>4 DEF In
<1>6. t \o Tail(s) \in Seq(Blk)
  BY <1>1
<1>7. QED
  BY <1>1, <1>4, <1>5, <1>6

LEMMA LoopSame ==
  ASSUME UNCHANGED pred
  PROVE  \A h : LoopOf(h)' = LoopOf(h)
BY DEF LoopOf, Reaching, Sources, Succ

LEMMA EmptyStack == <<>> \in Seq(Blk) /\ \A p : ~ In(<<>>, p)
<1>1. <<>> \in Seq(Blk) /\ Len(<<>>) = 0
  OBVIOUS
<1>2. QED
  BY <1>1 DEF In

LEMMA LoopInitInv ==
  ASSUME LoopInit
  PROVE  LoopInv
<1>1. /\ pred \in Graphs /\ at = "scan" /\ m = 0 /\ from = pred[0] /\ stack = <<>>
      /\ visit = [b \in Blk |-> None] /\ loop = [b \in Blk |-> 1]
      /\ calls = [e \in Blk \X Blk |-> 0]
  BY DEF LoopInit
<1>2. IsGraph(pred)
  BY <1>1 DEF Graphs, IsGraph
<1>3. \A b \in Blk : Headers(b) = {}
  BY <1>1 DEF Headers
<1>4. \A b \in Blk : loop[b] = Power10(Cardinality(Headers(b)))
  BY <1>1, <1>3, PowerFacts, FS_EmptySet
<1>5. \A b \in Blk : visit[b] = -1
  BY <1>1, BlkFacts
<1>6. \A h \in Blk : h \in Int /\ 0 <= h
  BY DEF Blk
<1>7. \A h, b \in Blk : h \in Headers(b) <=> IF h = m THEN visit[b] = m ELSE h < m /\ b \in LoopOf(h)
  BY <1>1, <1>3, <1>5, <1>6
<1>8. MarkInv
  BY <1>1, <1>2, <1>5, EmptyStack, BlkFacts DEF MarkInv, IsGraph
<1>9. m \in 0 .. N /\ (at = "done" <=> m = N) /\ at \in {"scan", "mark", "done"}
  BY <1>1, BlkFacts
<1>10. visit \in [Blk -> Int] /\ \A b \in Blk : visit[b] <= m
  BY <1>1, <1>5, BlkFacts
<1>11. loop \in [Blk -> Nat] /\ calls \in [Blk \X Blk -> {0, 1}]
  BY <1>1
<1>12. QED
  BY <1>1, <1>2, <1>4, <1>7, <1>8, <1>9, <1>10, <1>11, EmptyStack DEF LoopInv

LEMMA ScanInv ==
  ASSUME LoopInv, NEW p \in Blk, Scan(p)
  PROVE  LoopInv'
<1>1. /\ at = "scan" /\ m < N /\ p \in from /\ from' = from \ {p}
      /\ IF p >= m THEN at' = "mark" /\ stack' = <<p>> ELSE UNCHANGED <<at, stack>>
      /\ UNCHANGED <<pred, m, visit, loop, calls>>
  BY DEF Scan
<1>2. MarkInv /\ IsGraph(pred) /\ stack = <<>> /\ m \in Int
  BY <1>1 DEF LoopInv
<1>3. m \in Blk /\ p \in Int /\ pred \in [Blk -> SUBSET Blk] /\ \A x \in Blk : x \in Int
  <2>1. m \in 0 .. N /\ N \in Nat
    BY BlkFacts DEF LoopInv
  <2>2. QED
    BY <1>1, <1>2, <2>1 DEF Blk, IsGraph
<1>4. stack' \in Seq(Blk) /\ \A x : In(stack', x) <=> p >= m /\ x = p
  <2>1. CASE p >= m
    <3>1. <<p>> \in Seq(Blk) /\ Len(<<p>>) = 1 /\ <<p>>[1] = p
      OBVIOUS
    <3>2. stack' = <<p>>
      BY <1>1, <2>1
    <3>3. QED
      BY <2>1, <3>1, <3>2 DEF In
  <2>2. CASE ~ (p >= m)
    BY <1>1, <1>2, <2>2, EmptyStack
  <2>3. QED
    BY <2>1, <2>2
<1>5. \A x : (Owed(x)' <=> x < m \/ visit[x] = m \/ In(stack', x)) /\ (Owed(x) => Owed(x)')
  BY <1>1, <1>2, EmptyStack DEF Owed
<1>6. p \in pred[m]
  BY <1>1, <1>2 DEF MarkInv
<1>7. MarkInv'
  <2>1. from' \subseteq pred'[m']
    BY <1>1, <1>2 DEF MarkInv
  <2>2. \A b \in Blk : visit'[b] = m' => b \in LoopOf(m)' /\ \A q \in pred'[b] : Owed(q)'
    BY <1>1, <1>2, <1>5, LoopSame DEF MarkInv
  <2>3. \A q \in pred'[m'] : q \in from' \/ Owed(q)'
    BY <1>1, <1>2, <1>3, <1>4, <1>5 DEF MarkInv
  <2>4. \A q \in Blk : In(stack', q) => q < m' \/ q \in LoopOf(m)'
    BY <1>1, <1>3, <1>4, <1>6, LoopSame, LoopOfFacts
  <2>5. QED
    BY <2>1, <2>2, <2>3, <2>4 DEF MarkInv
<1>8. \A b : Headers(b)' = Headers(b)
  BY <1>1 DEF Headers
<1>9. QED
  BY <1>1, <1>2, <1>4, <1>7, <1>8, LoopSame DEF LoopInv

LEMMA NextBlockInv ==
  ASSUME LoopInv, NextBlock
  PROVE  LoopInv'
<1>1. /\ at = "scan" /\ m < N /\ from = {} /\ m' = m + 1
      /\ from' = IF m + 1 < N THEN pred[m + 1] ELSE {}
      /\ at' = IF m + 1 < N THEN at ELSE "done"
      /\ UNCHANGED <<pred, stack, visit, loop, calls>>
  BY DEF NextBlock
<1>2. MarkInv /\ IsGraph(pred) /\ stack = <<>>
  BY <1>1 DEF LoopInv
<1>3. m \in 0 .. N /\ N \in Nat
  BY BlkFacts DEF LoopInv
<1>4. m \in Blk /\ pred \in [Blk -> SUBSET Blk] /\ \A x \in Blk : x \in Int
  BY <1>1, <1>2, <1>3 DEF Blk, IsGraph
<1>5. \A p : Owed(p) <=> p < m \/ visit[p] = m
  BY <1>2, EmptyStack DEF Owed
<1>6. \A b \in Blk : visit[b] = m <=> b \in LoopOf(m)
  <2> DEFINE T == {b \in Blk : visit[b] = m}
  <2>1. \A p \in pred[m] : p >= m => p \in T
    BY <1>1, <1>2, <1>4, <1>5 DEF MarkInv
  <2>2. \A b \in T \cap Blk : \A p \in pred[b] : p >= m => p \in T
    BY <1>1, <1>2, <1>4, <1>5 DEF MarkInv
  <2>3. LoopOf(m) \subseteq T
    <3> HIDE DEF T
    <3>1. QED
      BY <1>4, <2>1, <2>2, LoopOfFacts
  <2>4. QED
    BY <1>2, <2>3 DEF MarkInv
<1>7. \A b : Headers(b)' = Headers(b)
  BY <1>1 DEF Headers
<1>8. \A b \in Blk : visit[b] \in Int /\ visit[b] <= m
  BY DEF LoopInv
<1>9. \A h, b \in Blk : h \in Headers(b)' <=> IF h = m' THEN visit'[b] = m' ELSE h < m' /\ b \in LoopOf(h)'
  <2>1. \A h, b \in Blk : h \in Headers(b) <=> IF h = m THEN visit[b] = m ELSE h < m /\ b \in LoopOf(h)
    BY DEF LoopInv
  <2>2. \A h, b \in Blk : h \in Headers(b) <=> h <= m /\ b \in LoopOf(h)
    BY <1>3, <1>4, <1>6, <2>1
  <2>3. \A h, b \in Blk : h \in Headers(b) <=> IF h = m + 1 THEN visit[b] = m + 1 ELSE h < m + 1 /\ b \in LoopOf(h)
    BY <1>3, <1>4, <1>8, <2>2
  <2>4. QED
    BY <1>1, <1>7, <2>3, LoopSame
<1>10. ASSUME m' < N PROVE MarkInv'
  <2>1. from' = pred'[m'] /\ stack' = <<>>
    BY <1>1, <1>2, <1>10
  <2>2. \A b \in Blk : visit'[b] # m'
    BY <1>1, <1>3, <1>8
  <2>3. QED
    BY <2>1, <2>2, EmptyStack DEF MarkInv
<1>11. m' \in 0 .. N /\ (at' = "done" <=> m' = N) /\ at' \in {"scan", "mark", "done"} /\ at' # "mark"
  BY <1>1, <1>3
<1>12. visit' \in [Blk -> Int] /\ \A b \in Blk : visit'[b] <= m'
  BY <1>1, <1>3, <1>8 DEF LoopInv
<1>13. /\ IsGraph(pred)' /\ stack' \in Seq(Blk) /\ stack' = <<>>
       /\ loop' \in [Blk -> Nat] /\ calls' \in [Blk \X Blk -> {0, 1}]
       /\ \A b \in Blk : loop'[b] = Power10(Cardinality(Headers(b)'))
  BY <1>1, <1>2, <1>7, EmptyStack DEF LoopInv
<1>14. QED
  BY <1>9, <1>10, <1>11, <1>12, <1>13 DEF LoopInv

(* A block that is marked is in one loop more, and what reaches it waits.  *)
LEMMA MarkStepInv ==
  ASSUME LoopInv, Mark
  PROVE  LoopInv'
<1> DEFINE b == Head(stack)
<1>1. /\ at = "mark" /\ stack # <<>> /\ UNCHANGED <<at, pred, m, from>>
      /\ IF Outside(b)
         THEN stack' = Tail(stack) /\ UNCHANGED <<visit, loop, calls>>
         ELSE /\ visit' = [visit EXCEPT ![b] = m]
              /\ loop' = [loop EXCEPT ![b] = @ * 10]
              /\ calls' = [calls EXCEPT ![<<m, b>>] = @ + 1]
              /\ stack' = Preds(b) \o Tail(stack)
  BY DEF Mark
<1>2. /\ IsGraph(pred) /\ stack \in Seq(Blk) /\ m \in 0 .. N /\ m # N
      /\ visit \in [Blk -> Int] /\ loop \in [Blk -> Nat] /\ calls \in [Blk \X Blk -> {0, 1}]
  BY <1>1 DEF LoopInv
<1>3. /\ m \in Blk /\ m < N /\ pred \in [Blk -> SUBSET Blk] /\ N \in Nat
      /\ \A x \in Blk : x \in Int /\ x >= 0
  <2>1. N \in Nat
    BY BlkFacts
  <2>2. QED
    BY <1>2, <2>1 DEF Blk, IsGraph
<1>4. MarkInv
  BY <1>3 DEF LoopInv
<1>5. b \in Blk /\ \A p : In(stack, p) <=> p = b \/ In(Tail(stack), p)
  BY <1>1, <1>2, EmptyStack, StackFacts
<1>6. /\ Tail(stack) \in Seq(Blk) /\ Preds(b) \in Seq(Blk) /\ Preds(b) \o Tail(stack) \in Seq(Blk)
      /\ \A p : In(Preds(b) \o Tail(stack), p) <=> p \in pred[b] \/ In(Tail(stack), p)
  <2>1. Preds(b) \in Seq(Blk) /\ \A p : In(Preds(b), p) <=> p \in pred[b]
    BY <1>3, <1>5, PredsFacts
  <2>2. QED
    BY <1>1, <1>2, <2>1, StackFacts
<1>7. \A h, x \in Blk : h \in Headers(x) <=> IF h = m THEN visit[x] = m ELSE h < m /\ x \in LoopOf(h)
  BY DEF LoopInv
<1>8. \A x \in Blk : visit[x] <= m /\ loop[x] = Power10(Cardinality(Headers(x)))
  BY DEF LoopInv
<1> HIDE DEF b
<1>9. CASE Outside(b)
  <2>1. stack' = Tail(stack) /\ UNCHANGED <<visit, loop, calls>>
    BY <1>1, <1>9
  <2>2. \A x : Owed(x) => Owed(x)'
    BY <1>1, <1>5, <1>9, <2>1 DEF Owed, Outside
  <2>3. MarkInv'
    <3>1. from' \subseteq pred'[m'] /\ \A p \in pred'[m'] : p \in from' \/ Owed(p)'
      BY <1>1, <1>4, <2>2 DEF MarkInv
    <3>2. \A x \in Blk : visit'[x] = m' => x \in LoopOf(m)' /\ \A q \in pred'[x] : Owed(q)'
      BY <1>1, <1>4, <2>1, <2>2, LoopSame DEF MarkInv
    <3>3. \A q \in Blk : In(stack', q) => q < m' \/ q \in LoopOf(m)'
      BY <1>1, <1>4, <1>5, <2>1, LoopSame DEF MarkInv
    <3>4. QED
      BY <3>1, <3>2, <3>3 DEF MarkInv
  <2>4. \A x : Headers(x)' = Headers(x)
    BY <2>1 DEF Headers
  <2>5. \A h, x \in Blk : h \in Headers(x)' <=> IF h = m' THEN visit'[x] = m' ELSE h < m' /\ x \in LoopOf(h)'
    BY <1>1, <1>7, <2>1, <2>4, LoopSame
  <2>6. stack' \in Seq(Blk)
    BY <1>6, <2>1
  <2>7. QED
    BY <1>1, <2>1, <2>3, <2>4, <2>5, <2>6 DEF LoopInv
<1>10. CASE ~ Outside(b)
  <2>1. /\ visit' = [visit EXCEPT ![b] = m] /\ loop' = [loop EXCEPT ![b] = @ * 10]
        /\ calls' = [calls EXCEPT ![<<m, b>>] = @ + 1] /\ stack' = Preds(b) \o Tail(stack)
    BY <1>1, <1>10
  <2>2. b >= m /\ visit[b] # m
    BY <1>3, <1>5, <1>10 DEF Outside
  <2>3. b \in LoopOf(m) /\ m \notin Headers(b)
    BY <1>3, <1>4, <1>5, <1>7, <2>2 DEF MarkInv
  <2>4. calls[<<m, b>>] = 0
    BY <1>2, <1>3, <1>5, <2>3 DEF Headers
  <2>5. calls' \in [Blk \X Blk -> {0, 1}] /\ \A h, x \in Blk : calls'[<<h, x>>] = IF h = m /\ x = b THEN 1 ELSE calls[<<h, x>>]
    BY <1>2, <1>3, <1>5, <2>1, <2>4
  <2>6. \A x \in Blk : Headers(x)' = IF x = b THEN Headers(x) \cup {m} ELSE Headers(x)
    BY <1>3, <2>5 DEF Headers
  <2>7. visit' \in [Blk -> Int] /\ \A x \in Blk : visit'[x] = IF x = b THEN m ELSE visit[x]
    BY <1>2, <1>3, <1>5, <2>1
  <2>8. \A h, x \in Blk : h \in Headers(x)' <=> IF h = m' THEN visit'[x] = m' ELSE h < m' /\ x \in LoopOf(h)'
    BY <1>1, <1>7, <2>6, <2>7, LoopSame
  <2>9. \A x \in Blk : loop'[x] \in Nat /\ loop'[x] = Power10(Cardinality(Headers(x)'))
    <3>1. \A x \in Blk : x # b => loop'[x] = loop[x] /\ Headers(x)' = Headers(x)
      BY <1>2, <2>1, <2>6
    <3>2. loop'[b] = loop[b] * 10
      BY <1>2, <1>5, <2>1
    <3>3. IsFiniteSet(Blk) /\ Cardinality(Blk) = N
      BY <1>3, FS_Interval DEF Blk
    <3>4. IsFiniteSet(Headers(b)) /\ Cardinality(Headers(b) \cup {m}) <= N
      <4>1. Headers(b) \in SUBSET Blk
        BY DEF Headers
      <4>2. Headers(b) \cup {m} \in SUBSET Blk
        BY <1>3, <4>1
      <4>3. QED
        BY <3>3, <4>1, <4>2, FS_Subset
    <3>5. Cardinality(Headers(b)) \in Nat /\ Cardinality(Headers(b) \cup {m}) = Cardinality(Headers(b)) + 1
      BY <2>3, <3>4, FS_AddElement, FS_CardinalityType
    <3>6. Cardinality(Headers(b)) \in 0 .. N - 1
      BY <1>3, <3>4, <3>5
    <3>7. loop'[b] = Power10(Cardinality(Headers(b)) + 1) /\ loop'[b] \in Nat
      BY <1>2, <1>5, <1>8, <3>2, <3>6, PowerFacts
    <3>8. \A x \in Blk : loop[x] \in Nat
      BY <1>2
    <3>9. QED
      BY <1>5, <1>8, <2>6, <3>1, <3>5, <3>7, <3>8
  <2>10. loop' \in [Blk -> Nat]
    <3>1. DOMAIN loop' = Blk /\ loop' = [x \in DOMAIN loop' |-> loop'[x]]
      BY <1>2, <2>1
    <3>2. QED
      BY <2>9, <3>1
  <2>11. stack' \in Seq(Blk) /\ \A p : In(stack', p) <=> p \in pred[b] \/ In(Tail(stack), p)
    BY <1>6, <2>1
  <2>12. \A p \in Blk : (Owed(p) => Owed(p)') /\ (p \in pred[b] => Owed(p)')
    BY <1>1, <1>5, <2>7, <2>11 DEF Owed
  <2>13. MarkInv'
    <3>1. from' \subseteq pred'[m'] /\ \A p \in pred'[m'] : p \in from' \/ Owed(p)'
      BY <1>1, <1>3, <1>4, <2>12 DEF MarkInv
    <3>2. \A x \in Blk : visit'[x] = m' => x \in LoopOf(m)' /\ \A q \in pred'[x] : Owed(q)'
      <4>1. ASSUME NEW x \in Blk, visit'[x] = m PROVE x \in LoopOf(m) /\ \A q \in pred[x] : Owed(q)'
        BY <1>3, <1>4, <2>3, <2>7, <2>12, <4>1 DEF MarkInv
      <4>2. QED
        BY <1>1, <4>1, LoopSame
    <3>3. \A q \in Blk : In(stack', q) => q < m' \/ q \in LoopOf(m)'
      <4>1. \A q \in pred[b] : q < m \/ q \in LoopOf(m)
        BY <1>3, <1>5, <2>3, LoopOfFacts
      <4>2. QED
        BY <1>1, <1>4, <1>5, <2>11, <4>1, LoopSame DEF MarkInv
    <3>4. QED
      BY <3>1, <3>2, <3>3 DEF MarkInv
  <2>14. \A x \in Blk : visit'[x] <= m'
    BY <1>1, <1>3, <1>8, <2>7
  <2>15. IsGraph(pred)' /\ at' = "mark" /\ m' = m
    BY <1>1, <1>2
  <2>16. QED
    BY <1>2, <1>3, <2>5, <2>7, <2>8, <2>9, <2>10, <2>11, <2>13, <2>14, <2>15 DEF LoopInv
<1>11. QED
  BY <1>9, <1>10

LEMMA LoopStutterInv ==
  ASSUME LoopInv, Marked \/ UNCHANGED loopVars
  PROVE  LoopInv'
<1>1. UNCHANGED <<pred, m, from, stack, visit, loop, calls>>
  BY DEF Marked, loopVars
<1>2. at' = at \/ (at = "mark" /\ at' = "scan" /\ stack = <<>>)
  BY DEF Marked, loopVars
<1>3. \A b : Headers(b)' = Headers(b)
  BY <1>1 DEF Headers
<1>4. MarkInv => MarkInv'
  BY <1>1, LoopSame DEF MarkInv, Owed
<1>5. QED
  BY <1>1, <1>2, <1>3, <1>4, LoopSame DEF LoopInv

THEOREM LoopInvariance == LoopSpec => []LoopInv
<1>1. LoopInv /\ [LoopNext]_loopVars => LoopInv'
  BY ScanInv, NextBlockInv, MarkStepInv, LoopStutterInv DEF LoopNext
<1>2. QED
  BY <1>1, LoopInitInv, PTL DEF LoopSpec

(* qbe_fillloop hands a block to the caller once for each loop it is in,   *)
(* and the depth it leaves in a block of a reducible function is ten to    *)
(* the number of natural loops around it.                                  *)
THEOREM LoopsAreExact == LoopSpec => []LoopsExact
<1>1. LoopInv => LoopsExact
  <2>1. SUFFICES ASSUME LoopInv PROVE LoopsExact
    OBVIOUS
  <2>2. \A e \in Blk \X Blk : calls[e] <= 1
    <3>1. \A e \in Blk \X Blk : calls[e] \in {0, 1}
      BY <2>1 DEF LoopInv
    <3>2. QED
      BY <3>1
  <2>3. ASSUME at = "done", Reducible, NEW b \in Blk
        PROVE  loop[b] = Power10(Cardinality({h \in Blk : b \in NaturalLoop(h)}))
    <3>1. m = N /\ IsGraph(pred) /\ loop[b] = Power10(Cardinality(Headers(b)))
      BY <2>1, <2>3 DEF LoopInv
    <3>2. \A h \in Blk : h < m /\ h # m
      BY <3>1, BlkFacts
    <3>3. \A h \in Blk : h \in Headers(b) <=> b \in LoopOf(h)
      BY <2>1, <3>2 DEF LoopInv
    <3>4. \A h \in Blk : LoopOf(h) = NaturalLoop(h)
      BY <2>3, <3>1, NaturalLoopMarked
    <3>5. Headers(b) = {h \in Blk : b \in NaturalLoop(h)}
      BY <3>3, <3>4 DEF Headers
    <3>6. QED
      BY <3>1, <3>5
  <2>4. QED
    BY <2>2, <2>3 DEF LoopsExact
<1>2. QED
  BY <1>1, LoopInvariance, PTL

(* The two together, as qbe_generate calls them: FillDom takes the steps   *)
(* of the one and FillLoop those of the other, and neither touches what    *)
(* the other keeps.                                                        *)
THEOREM AnalysesAreExact == Spec => [](IdomExact /\ FrontierExact /\ LoopsExact)
<1>1. Init /\ [][Next]_vars => DomSpec /\ LoopSpec
  <2>1. Init => DomInit /\ LoopInit
    BY DEF Init
  <2>2. [Next]_vars => [DomNext]_domVars /\ [LoopNext]_loopVars
    <3>1. DomNext => UNCHANGED pred
      BY DEF DomNext, LookAt, Walk, Meet, SetIdom, Again, Tree, TakeEdge, Climb, FronEnd
    <3>2. LoopNext => UNCHANGED pred
      BY DEF LoopNext, Scan, NextBlock, Mark, Marked
    <3>3. QED
      BY <3>1, <3>2 DEF Next, FillDom, FillLoop, vars, dominators, loops, domVars, loopVars
  <2>3. QED
    BY <2>1, <2>2, PTL DEF DomSpec, LoopSpec
<1>2. QED
  BY <1>1, DominatorsAreExact, FrontiersAreExact, LoopsAreExact, PTL DEF Spec
=============================================================================
