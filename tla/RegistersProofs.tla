-------------------------- MODULE RegistersProofs --------------------------
(***************************************************************************)
(* Proofs about two of the passes around the allocation of registers:      *)
(* liveness (Live, as it runs in Registers), for any function, and the     *)
(* packing of stack slots (StackSlots), for any frame.                     *)
(***************************************************************************)
EXTENDS Registers, StackSlots, FiniteSetTheorems, WellFoundedInduction, TLAPS

-----------------------------------------------------------------------------
(* Induction over the numbers, for sets.                                   *)
LEMMA Least ==
  ASSUME NEW T \in SUBSET Nat, T # {}
  PROVE  \E z \in T : \A y \in T : z <= y
<1> DEFINE lt == OpToRel(<, Nat)
<1>1. IsWellFoundedOn(lt, Nat)
  BY NatLessThanWellFounded
<1>2. \A z, y \in Nat : <<z, y>> \in lt <=> z < y
  BY DEF OpToRel
<1> HIDE DEF lt
<1>3. PICK z \in T : \A y \in T : ~ (<<y, z>> \in lt)
  BY <1>1, WFMin
<1>4. \A y \in T : z \in Nat /\ y \in Nat /\ ~ (y < z)
  BY <1>2, <1>3
<1>5. QED
  BY <1>4

LEMMA SetInduction ==
  ASSUME NEW S, 0 \in S, \A k \in Nat : k \in S => k + 1 \in S
  PROVE  Nat \subseteq S
<1> DEFINE T == Nat \ S
<1>1. SUFFICES ASSUME T # {} PROVE FALSE
  OBVIOUS
<1>2. PICK z \in T : \A y \in T : z <= y
  BY <1>1, Least
<1>3. z \in Nat /\ z # 0
  BY <1>2
<1>4. z - 1 \in Nat /\ z - 1 \notin T
  BY <1>2, <1>3
<1>5. z - 1 + 1 \in S
  BY <1>4
<1>6. QED
  BY <1>5, <1>3

(* A set that is enlarged step by step: the function its steps make.       *)
IsGrowth(step, base, k, w) ==
  w = [j \in 0 .. k |-> IF j = 0 THEN base ELSE step[w[j - 1]]]

LEMMA GrowthExists ==
  ASSUME NEW k \in Nat, NEW base, NEW step
  PROVE  \E w : IsGrowth(step, base, k, w)
<1> DEFINE S == {j \in Nat : \E w : IsGrowth(step, base, j, w)}
<1>1. 0 \in S
  <2> DEFINE w == [j \in 0 .. 0 |-> base]
  <2>1. IsGrowth(step, base, 0, w)
    BY DEF IsGrowth
  <2>2. QED
    BY <2>1
<1>2. ASSUME NEW j \in Nat, j \in S PROVE j + 1 \in S
  <2>1. PICK w : IsGrowth(step, base, j, w)
    BY <1>2
  <2> DEFINE h == [i \in 0 .. j + 1 |-> IF i = 0 THEN base ELSE step[w[i - 1]]]
  <2>2. \A i \in 0 .. j : h[i] = w[i]
    BY <2>1 DEF IsGrowth
  <2>3. \A i \in 0 .. j + 1 : i # 0 => i - 1 \in 0 .. j
    OBVIOUS
  <2>4. IsGrowth(step, base, j + 1, h)
    BY <2>2, <2>3 DEF IsGrowth
  <2>5. QED
    <3> HIDE DEF h
    <3>1. QED
      BY <2>4
<1>3. k \in S
  <2> HIDE DEF S
  <2>1. QED
    BY <1>1, <1>2, SetInduction
<1>4. QED
  BY <1>3

(* Closed under the steps inside A that a graph allows.                    *)
ClosedIn(g, A, T) == \A b \in A : g[b] \cap T # {} => b \in T

(* The closure is the least closed set: it grows in each step until it is  *)
(* closed, and there are only N blocks.                                    *)
LEMMA ClosureFacts ==
  ASSUME NEW g, NEW S, NEW A \in SUBSET Blk
  PROVE  /\ S \cap A \subseteq Closure(g, S, A) /\ Closure(g, S, A) \subseteq A
         /\ ClosedIn(g, A, Closure(g, S, A))
         /\ \A T : S \cap A \subseteq T /\ ClosedIn(g, A, T) => Closure(g, S, A) \subseteq T
<1> DEFINE More(T) == T \cup {b \in A : g[b] \cap T # {}}
           step == [T \in SUBSET A |-> More(T)]
           base == S \cap A
           IsWithin(w) == w = [k \in 0 .. N |->
                                 IF k = 0 THEN S \cap A
                                 ELSE LET T == w[k - 1] IN T \cup {b \in A : g[b] \cap T # {}}]
           w == CHOOSE v : IsWithin(v)
<1>0. N \in Nat /\ N # 0 /\ IsFiniteSet(Blk) /\ Cardinality(Blk) = N
  BY GraphAssumption, FS_Interval DEF Blk
<1>1. PICK v : IsGrowth(step, base, N, v)
  BY <1>0, GrowthExists
<1>2. \A k \in 0 .. N : v[k] \in SUBSET A
  <2> DEFINE K == {k \in Nat : k <= N => v[k] \in SUBSET A}
  <2>1. 0 \in K
    BY <1>0, <1>1 DEF IsGrowth
  <2>2. ASSUME NEW k \in Nat, k \in K PROVE k + 1 \in K
    <3>1. SUFFICES ASSUME k + 1 <= N PROVE v[k + 1] \in SUBSET A
      OBVIOUS
    <3>2. k + 1 \in 0 .. N /\ k + 1 # 0 /\ k + 1 - 1 = k /\ v[k] \in SUBSET A
      BY <3>1, <2>2, <1>0
    <3>3. v[k + 1] = step[v[k]]
      <4> HIDE DEF step, base
      <4>1. \A j \in 0 .. N : v[j] = IF j = 0 THEN base ELSE step[v[j - 1]]
        BY <1>1 DEF IsGrowth
      <4>2. v[k + 1] = step[v[k + 1 - 1]]
        BY <4>1, <3>2
      <4>3. QED
        BY <4>2, <3>2
    <3>4. QED
      BY <3>2, <3>3
  <2>3. Nat \subseteq K
    <3> HIDE DEF K
    <3>1. QED
      BY <2>1, <2>2, SetInduction
  <2>4. QED
    BY <2>3
<1>3. IsWithin(v)
  <2>1. \A k \in 0 .. N : k # 0 => k - 1 \in 0 .. N
    BY <1>0
  <2>2. \A k \in 0 .. N : v[k] = IF k = 0 THEN base ELSE step[v[k - 1]]
    BY <1>1 DEF IsGrowth
  <2>3. \A k \in 0 .. N : k # 0 => step[v[k - 1]] = More(v[k - 1])
    BY <1>2, <2>1
  <2>4. \A k \in 0 .. N : v[k] = IF k = 0 THEN S \cap A ELSE More(v[k - 1])
    BY <2>2, <2>3
  <2>5. v = [k \in 0 .. N |-> v[k]]
    BY <1>1 DEF IsGrowth
  <2> HIDE DEF step, base
  <2>6. QED
    BY <2>4, <2>5
<1>4. IsWithin(w) /\ Closure(g, S, A) = w[N]
  <2>1. Closure(g, S, A) = w[N]
    BY DEF Closure
  <2> HIDE DEF IsWithin
  <2>2. QED
    BY <1>3, <2>1
<1> HIDE DEF w, step, base
<1>5. /\ w[0] = S \cap A
      /\ \A k \in 0 .. N : k # 0 => w[k] = More(w[k - 1])
  <2>1. \A k \in 0 .. N : w[k] = IF k = 0 THEN S \cap A ELSE More(w[k - 1])
    BY <1>4
  <2> HIDE DEF More
  <2>2. 0 \in 0 .. N
    BY <1>0
  <2>3. QED
    BY <2>1, <2>2
<1> HIDE DEF IsWithin
<1>6. ASSUME NEW k \in Nat, k <= N
      PROVE  /\ S \cap A \subseteq w[k] /\ w[k] \subseteq A
             /\ \A T : S \cap A \subseteq T /\ ClosedIn(g, A, T) => w[k] \subseteq T
  <2> DEFINE Good(j) == /\ S \cap A \subseteq w[j] /\ w[j] \subseteq A
                        /\ \A T : S \cap A \subseteq T /\ ClosedIn(g, A, T) => w[j] \subseteq T
             K == {j \in Nat : j <= N => Good(j)}
  <2>1. 0 \in K
    BY <1>5
  <2>2. ASSUME NEW j \in Nat, j \in K PROVE j + 1 \in K
    <3>1. SUFFICES ASSUME j + 1 <= N PROVE Good(j + 1)
      OBVIOUS
    <3>2. w[j + 1] = More(w[j]) /\ Good(j)
      BY <3>1, <1>5, <1>0, <2>2
    <3>3. QED
      BY <3>2 DEF ClosedIn
  <2>3. Nat \subseteq K
    <3> HIDE DEF K
    <3>1. QED
      BY <2>1, <2>2, SetInduction
  <2>4. QED
    BY <2>3, <1>6
<1>7. ClosedIn(g, A, w[N])
  <2>1. SUFFICES ASSUME ~ ClosedIn(g, A, w[N]) PROVE FALSE
    OBVIOUS
  <2>2. \A k \in Nat : k <= N => IsFiniteSet(w[k])
    <3>1. \A k \in Nat : k <= N => w[k] \subseteq Blk
      BY <1>6
    <3>2. QED
      BY <3>1, <1>0, FS_Subset
  <2> DEFINE K == {k \in Nat : k <= N => Cardinality(w[N - k]) \in Nat /\ ~ ClosedIn(g, A, w[N - k])}
  <2>3. 0 \in K
    BY <2>1, <2>2, <1>0, FS_CardinalityType
  <2>4. ASSUME NEW k \in Nat, k \in K PROVE k + 1 \in K
    <3>1. SUFFICES ASSUME k + 1 <= N
                   PROVE  Cardinality(w[N - (k + 1)]) \in Nat /\ ~ ClosedIn(g, A, w[N - (k + 1)])
      OBVIOUS
    <3> DEFINE j == N - (k + 1)
    <3>2. j \in Nat /\ j <= N /\ N - k = j + 1 /\ j + 1 \in 0 .. N /\ j + 1 # 0 /\ j + 1 - 1 = j
      BY <3>1, <1>0
    <3>3. w[j + 1] = More(w[j])
      <4> HIDE DEF j
      <4>1. QED
        BY <3>2, <1>5
    <3>4. ~ ClosedIn(g, A, w[j + 1])
      <4>1. k <= N /\ ~ ClosedIn(g, A, w[N - k])
        BY <3>1, <1>0, <2>4
      <4>2. QED
        BY <4>1, <3>2
    <3> HIDE DEF j
    <3>5. ASSUME ClosedIn(g, A, w[j]) PROVE FALSE
      <4>1. w[j + 1] = w[j]
        BY <3>3, <3>5 DEF ClosedIn
      <4>2. QED
        BY <4>1, <3>4, <3>5
    <3>6. Cardinality(w[j]) \in Nat
      BY <3>2, <2>2, FS_CardinalityType
    <3>7. QED
      BY <3>5, <3>6 DEF j
  <2>5. \A k \in Nat : k <= N => Cardinality(w[k]) \in Nat /\ ~ ClosedIn(g, A, w[k])
    <3>1. Nat \subseteq K
      <4> HIDE DEF K
      <4>1. QED
        BY <2>3, <2>4, SetInduction
    <3>2. ASSUME NEW k \in Nat, k <= N PROVE Cardinality(w[k]) \in Nat /\ ~ ClosedIn(g, A, w[k])
      <4>1. N - k \in Nat /\ N - k <= N /\ N - (N - k) = k
        BY <3>2, <1>0
      <4>2. N - k \in K
        BY <4>1, <3>1
      <4>3. QED
        BY <4>1, <4>2
    <3>3. QED
      BY <3>2
  <2> DEFINE J == {k \in Nat : k <= N => Cardinality(w[k]) >= k}
  <2>6. 0 \in J
    BY <2>5, <1>0
  <2>7. ASSUME NEW k \in Nat, k \in J PROVE k + 1 \in J
    <3>1. SUFFICES ASSUME k + 1 <= N PROVE Cardinality(w[k + 1]) >= k + 1
      OBVIOUS
    <3>2. w[k + 1] = More(w[k]) /\ k <= N /\ Cardinality(w[k]) >= k
      BY <3>1, <1>5, <1>0, <2>7
    <3>3. w[k] \subseteq w[k + 1] /\ w[k] # w[k + 1]
      <4>1. PICK b \in A : g[b] \cap w[k] # {} /\ b \notin w[k]
        BY <3>2, <2>5 DEF ClosedIn
      <4>2. QED
        BY <4>1, <3>2
    <3>4. Cardinality(w[k]) <= Cardinality(w[k + 1]) /\ Cardinality(w[k]) # Cardinality(w[k + 1])
      BY <3>1, <3>3, <2>2, FS_Subset
    <3>5. Cardinality(w[k]) \in Nat /\ Cardinality(w[k + 1]) \in Nat
      <4>1. k + 1 \in Nat /\ k + 1 <= N /\ k <= N
        BY <3>1, <1>0
      <4>2. QED
        BY <4>1, <2>5
    <3>6. QED
      BY <3>2, <3>4, <3>5
  <2>8. Cardinality(w[N]) >= N
    <3>1. Nat \subseteq J
      <4> HIDE DEF J
      <4>1. QED
        BY <2>6, <2>7, SetInduction
    <3>2. QED
      BY <3>1, <1>0
  <2>9. w[N] \subseteq A /\ w[N] \subseteq Blk
    BY <1>6, <1>0
  <2>10. w[N] = Blk
    BY <2>8, <2>9, <1>0, <2>5, FS_Subset
  <2>11. QED
    BY <2>1, <2>9, <2>10 DEF ClosedIn
<1>8. QED
  BY <1>4, <1>6, <1>7, <1>0
-----------------------------------------------------------------------------
(* Liveness.  What is known on the way back through a block.               *)
Vals == Regs \cup Tmps
States == [in : SUBSET Vals, nlv : Int, max : Int, gen : SUBSET Tmps]

LEMMA ValsFacts ==
  /\ IsFiniteSet(Vals) /\ N \in Nat /\ N # 0 /\ Blk \subseteq Int
  /\ \A b \in Blk : b >= 0 /\ b <= N - 1
  /\ \A S \in SUBSET Vals : IsFiniteSet(S) /\ Cardinality(S) \in Nat
<1>1. IsFiniteSet(Vals)
  BY RegsAssumption, FS_Union DEF Vals
<1>2. \A S \in SUBSET Vals : IsFiniteSet(S) /\ Cardinality(S) \in Nat
  BY <1>1, FS_Subset, FS_CardinalityType
<1>3. QED
  BY <1>1, <1>2, GraphAssumption DEF Blk

LEMMA CardSteps ==
  ASSUME NEW S \in SUBSET Vals, NEW D \in SUBSET Vals, NEW U \in SUBSET Vals
  PROVE  /\ Cardinality(S \ D) = Cardinality(S) - Cardinality(D \cap S)
         /\ Cardinality(U \cup S) = Cardinality(S) + Cardinality(U \ S)
<1>1. IsFiniteSet(S) /\ IsFiniteSet(D) /\ IsFiniteSet(U) /\ IsFiniteSet(U \ S)
  BY ValsFacts, FS_Difference
<1>2. Cardinality(S \ D) = Cardinality(S) - Cardinality(S \cap D)
  BY <1>1, FS_Difference
<1>3. S \cap D = D \cap S
  OBVIOUS
<1>4. Cardinality(U \ S) = Cardinality(U) - Cardinality(U \cap S)
  BY <1>1, FS_Difference
<1>5. Cardinality(U \cup S) = Cardinality(U) + Cardinality(S) - Cardinality(U \cap S)
  BY <1>1, FS_Union
<1>6. Cardinality(U) \in Nat /\ Cardinality(S) \in Nat /\ Cardinality(U \cap S) \in Nat
  BY ValsFacts, <1>1, FS_CardinalityType
<1> DEFINE u == Cardinality(U)
           s == Cardinality(S)
           us == Cardinality(U \cap S)
<1>7. /\ Cardinality(U \ S) = u - us /\ Cardinality(U \cup S) = u + s - us
      /\ u \in Nat /\ s \in Nat /\ us \in Nat
  BY <1>4, <1>5, <1>6
<1> HIDE DEF u, us
<1>8. Cardinality(U \cup S) = Cardinality(S) + Cardinality(U \ S)
  BY <1>7
<1>9. QED
  BY <1>2, <1>3, <1>8

IsMax(m, S) == m \in S /\ \A x \in S : m >= x

LEMMA MaxIs ==
  ASSUME NEW S \in SUBSET Int, NEW m, IsMax(m, S)
  PROVE  Max(S) = m
<1> DEFINE P(x) == x \in S /\ \A y \in S : x >= y
<1>1. P(m)
  BY DEF IsMax
<1>2. Max(S) = CHOOSE x \in S : \A y \in S : x >= y
  BY DEF Max
<1>3. P(Max(S))
  BY <1>1, <1>2
<1>4. Max(S) >= m /\ m >= Max(S) /\ Max(S) \in Int /\ m \in Int
  BY <1>1, <1>3
<1>5. QED
  BY <1>4

(* Whatever set a maximum is added to, it is reached.                      *)
LEMMA MaxOfThree ==
  ASSUME NEW a \in Int, NEW b \in Int, NEW S \in SUBSET Int, S = {} \/ \E c \in Int : S = {c}
  PROVE  IsMax(Max({a, b} \cup S), {a, b} \cup S)
<1> DEFINE T == {a, b} \cup S
<1>1. \E m : IsMax(m, T)
  <2>1. CASE S = {}
    <3>1. CASE a >= b
      BY <2>1, <3>1 DEF IsMax
    <3>2. CASE ~ (a >= b)
      BY <2>1, <3>2 DEF IsMax
    <3>3. QED
      BY <3>1, <3>2
  <2>2. CASE \E c \in Int : S = {c}
    <3>1. PICK c \in Int : S = {c}
      BY <2>2
    <3>2. CASE a >= b /\ a >= c
      BY <3>1, <3>2 DEF IsMax
    <3>3. CASE ~ (a >= b) /\ b >= c
      BY <3>1, <3>3 DEF IsMax
    <3>4. CASE ~ (a >= c) /\ ~ (b >= c)
      BY <3>1, <3>4 DEF IsMax
    <3>5. QED
      BY <3>2, <3>3, <3>4
  <2>3. QED
    BY <2>1, <2>2
<1>2. PICK m : IsMax(m, T)
  BY <1>1
<1>3. T \in SUBSET Int
  OBVIOUS
<1> HIDE DEF T
<1>4. Max(T) = m
  BY <1>2, <1>3, MaxIs
<1>5. IsMax(Max(T), T)
  BY <1>2, <1>4
<1>6. QED
  BY <1>5 DEF T

LEMMA InsFacts ==
  ASSUME NEW i \in Instr
  PROVE  /\ Use(i) \in SUBSET Vals /\ Def(i) \in SUBSET Vals
         /\ Cardinality(Def(i)) \in Nat /\ Cardinality(RSave) \in Nat
<1>1. Use(i) \in SUBSET Vals
  <2>1. i.args \in Seq(Regs \cup Tmps)
    BY DEF Instr
  <2>2. \A k \in DOMAIN i.args : i.args[k] \in Vals
    BY <2>1 DEF Vals
  <2>3. QED
    BY <2>2 DEF Use, ToSet
<1>2. Def(i) \in SUBSET Vals
  <2>1. i.rets \in SUBSET Regs /\ i.to \in Regs \cup Tmps \cup {"none"}
    BY DEF Instr
  <2>2. QED
    BY <2>1 DEF Def, Vals
<1>3. RSave \in SUBSET Vals
  BY RegsAssumption DEF Vals
<1>4. QED
  BY <1>1, <1>2, <1>3, ValsFacts

LEMMA BsetFacts ==
  ASSUME NEW ts \in SUBSET Vals, NEW st \in States
  PROVE  /\ Bset(ts, st) \in States
         /\ Bset(ts, st).in = ts \cup st.in
         /\ Bset(ts, st).max = st.max
         /\ st.nlv = Cardinality(st.in) => Bset(ts, st).nlv = Cardinality(ts \cup st.in)
<1>1. /\ st.in \in SUBSET Vals /\ st.nlv \in Int /\ st.max \in Int /\ st.gen \in SUBSET Tmps
      /\ st = [in |-> st.in, nlv |-> st.nlv, max |-> st.max, gen |-> st.gen]
  BY DEF States
<1>2. Bset(ts, st) = [in |-> st.in \cup ts, nlv |-> st.nlv + Cardinality(ts \ st.in), max |-> st.max,
                      gen |-> st.gen \cup (ts \cap Tmps)]
  <2>1. PICK x, k, m, g : st = [in |-> x, nlv |-> k, max |-> m, gen |-> g]
    BY <1>1
  <2>2. Bset(ts, st) = [in |-> x \cup ts, nlv |-> k + Cardinality(ts \ x), max |-> m, gen |-> g \cup (ts \cap Tmps)]
    <3>1. st.in = x
      BY <2>1
    <3>2. Bset(ts, st) = [st EXCEPT !.in = @ \cup ts, !.nlv = @ + Cardinality(ts \ x), !.gen = @ \cup (ts \cap Tmps)]
      BY <3>1 DEF Bset
    <3>3. QED
      BY <3>2, <2>1
  <2>3. st.in = x /\ st.nlv = k /\ st.max = m /\ st.gen = g
    BY <2>1
  <2>4. QED
    BY <2>2, <2>3
<1>3. Cardinality(ts \ st.in) \in Nat
  BY ValsFacts
<1>4. Bset(ts, st) \in States
  BY <1>1, <1>2, <1>3 DEF States
<1>5. Bset(ts, st).in = ts \cup st.in /\ Bset(ts, st).max = st.max
      /\ Bset(ts, st).nlv = st.nlv + Cardinality(ts \ st.in)
  BY <1>2
<1>6. Cardinality(ts \cup st.in) = Cardinality(st.in) + Cardinality(ts \ st.in)
  BY <1>1, CardSteps
<1>7. QED
  BY <1>4, <1>5, <1>6

LEMMA BeforeFacts ==
  ASSUME NEW i \in Instr, NEW st \in States
  PROVE  /\ Before(i, st) \in States
         /\ Before(i, st).in = st.in \ Def(i)
         /\ Before(i, st).max = st.max
         /\ st.nlv = Cardinality(st.in) /\ (IsCall(i) => Def(i) \subseteq st.in)
              => Before(i, st).nlv = Cardinality(st.in \ Def(i))
<1>1. /\ st.in \in SUBSET Vals /\ st.nlv \in Int /\ st.max \in Int /\ st.gen \in SUBSET Tmps
      /\ st = [in |-> st.in, nlv |-> st.nlv, max |-> st.max, gen |-> st.gen]
  BY DEF States
<1>2. Def(i) \in SUBSET Vals /\ Cardinality(Def(i)) \in Nat /\ Cardinality(Def(i) \cap st.in) \in Nat
  BY <1>1, InsFacts, ValsFacts
<1>3. Cardinality(st.in \ Def(i)) = Cardinality(st.in) - Cardinality(Def(i) \cap st.in)
  BY <1>1, <1>2, CardSteps
<1>4. CASE IsCall(i)
  <2>1. Before(i, st) = [in |-> st.in \ Def(i), nlv |-> st.nlv - Cardinality(Def(i)), max |-> st.max,
                         gen |-> st.gen]
    BY <1>1, <1>4 DEF Before
  <2>2. Before(i, st) \in States
    BY <1>1, <1>2, <2>1 DEF States
  <2>3. ASSUME Def(i) \subseteq st.in PROVE Def(i) \cap st.in = Def(i)
    BY <2>3
  <2>4. /\ Before(i, st).in = st.in \ Def(i) /\ Before(i, st).max = st.max
        /\ Before(i, st).nlv = st.nlv - Cardinality(Def(i))
    BY <2>1
  <2>5. QED
    BY <2>2, <2>3, <2>4, <1>3, <1>4
<1>5. CASE ~ IsCall(i)
  <2>1. Before(i, st) = [in |-> st.in \ Def(i), nlv |-> st.nlv - Cardinality(Def(i) \cap st.in), max |-> st.max,
                         gen |-> st.gen \cup (Def(i) \cap Tmps)]
    BY <1>1, <1>5 DEF Before
  <2>2. Before(i, st) \in States
    BY <1>1, <1>2, <2>1 DEF States
  <2>3. /\ Before(i, st).in = st.in \ Def(i) /\ Before(i, st).max = st.max
        /\ Before(i, st).nlv = st.nlv - Cardinality(Def(i) \cap st.in)
    BY <2>1
  <2>4. QED
    BY <2>2, <2>3, <1>3
<1>6. QED
  BY <1>4, <1>5

(* In the middle of a call the registers it may overwrite count too.       *)
AtCall(i, k) == IF IsCall(i) THEN {k - Cardinality(Def(i)) + Cardinality(RSave)} ELSE {}

LEMMA InsStepFacts ==
  ASSUME NEW i \in Instr, NEW st \in States
  PROVE  /\ InsStep(i, st) \in States
         /\ InsStep(i, st).in = Use(i) \cup (st.in \ Def(i))
         /\ st.nlv = Cardinality(st.in) /\ (IsCall(i) => Def(i) \subseteq st.in)
              => InsStep(i, st).nlv = Cardinality(Use(i) \cup (st.in \ Def(i)))
         /\ IsMax(InsStep(i, st).max, {st.max, InsStep(i, st).nlv} \cup AtCall(i, st.nlv))
<1> DEFINE B == Before(i, st)
           u == Bset(Use(i), B)
           T == {u.max, u.nlv} \cup (IF IsCall(i) THEN {MidCall(i, st.nlv)} ELSE {})
<1>1. Use(i) \in SUBSET Vals /\ Cardinality(Def(i)) \in Nat /\ Cardinality(RSave) \in Nat /\ st.nlv \in Int
  BY InsFacts DEF States
<1>2. /\ B \in States /\ B.in = st.in \ Def(i) /\ B.max = st.max
      /\ st.nlv = Cardinality(st.in) /\ (IsCall(i) => Def(i) \subseteq st.in)
           => B.nlv = Cardinality(st.in \ Def(i))
  BY BeforeFacts
<1> HIDE DEF B
<1>3. /\ u \in States /\ u.in = Use(i) \cup B.in /\ u.max = B.max
      /\ B.nlv = Cardinality(B.in) => u.nlv = Cardinality(Use(i) \cup B.in)
  BY <1>1, <1>2, BsetFacts
<1> HIDE DEF u
<1>4. InsStep(i, st) = [u EXCEPT !.max = Max(T)]
  BY DEF InsStep, u, B
<1>5. u.max \in Int /\ u.nlv \in Int /\ u.in \in SUBSET Vals /\ u.gen \in SUBSET Tmps
      /\ u = [in |-> u.in, nlv |-> u.nlv, max |-> u.max, gen |-> u.gen]
  BY <1>3 DEF States
<1>6. AtCall(i, st.nlv) \in SUBSET Int /\ (AtCall(i, st.nlv) = {} \/ \E c \in Int : AtCall(i, st.nlv) = {c})
  BY <1>1 DEF AtCall
<1>7. T = {u.max, u.nlv} \cup AtCall(i, st.nlv)
  BY DEF AtCall, MidCall
<1> HIDE DEF T
<1>8. IsMax(Max(T), T)
  BY <1>5, <1>6, <1>7, MaxOfThree
<1>9. Max(T) \in Int
  BY <1>5, <1>6, <1>7, <1>8 DEF IsMax
<1>10. InsStep(i, st) = [in |-> u.in, nlv |-> u.nlv, max |-> Max(T), gen |-> u.gen]
  BY <1>4, <1>5
<1>11. InsStep(i, st) \in States
  BY <1>5, <1>9, <1>10 DEF States
<1>12. InsStep(i, st).in = u.in /\ InsStep(i, st).nlv = u.nlv /\ InsStep(i, st).max = Max(T)
  BY <1>10
<1>13. IsMax(InsStep(i, st).max, {st.max, InsStep(i, st).nlv} \cup AtCall(i, st.nlv))
  BY <1>2, <1>3, <1>7, <1>8, <1>12
<1>14. QED
  BY <1>2, <1>3, <1>11, <1>12, <1>13

LEMMA JumpStepFacts ==
  ASSUME NEW b \in Blk, NEW o \in SUBSET Vals, jmp[b] \in SUBSET Vals
  PROVE  /\ JumpStep(b, o) \in States
         /\ JumpStep(b, o).in = o \cup jmp[b]
         /\ jmp[b] # RetRegs => /\ JumpStep(b, o).nlv = Cardinality(o \cup jmp[b])
                                /\ JumpStep(b, o).max = Cardinality(o \cup jmp[b])
<1> DEFINE st == [in |-> o, nlv |-> Cardinality(o), max |-> 0, gen |-> {}]
           j == IF jmp[b] = RetRegs THEN [st EXCEPT !.in = @ \cup RetRegs, !.nlv = Cardinality(RetRegs)]
                ELSE Bset(jmp[b], st)
<1>1. Cardinality(o) \in Nat /\ Cardinality(jmp[b]) \in Nat
  BY ValsFacts
<1>2. st \in States /\ st.in = o /\ st.nlv = Cardinality(o)
  BY <1>1 DEF States
<1>3. JumpStep(b, o) = [j EXCEPT !.max = j.nlv]
  BY DEF JumpStep
<1>4. j \in States /\ j.in = o \cup jmp[b] /\ (jmp[b] # RetRegs => j.nlv = Cardinality(o \cup jmp[b]))
  <2>1. CASE jmp[b] = RetRegs
    <3>1. j = [in |-> o \cup RetRegs, nlv |-> Cardinality(RetRegs), max |-> 0, gen |-> {}]
      BY <2>1
    <3>2. j \in States
      <4>1. o \cup RetRegs \in SUBSET Vals
        BY <2>1
      <4>2. Cardinality(RetRegs) \in Int /\ 0 \in Int /\ {} \in SUBSET Tmps
        BY <1>1, <2>1
      <4> HIDE DEF j
      <4>3. QED
        BY <3>1, <4>1, <4>2 DEF States
    <3>3. QED
      BY <3>1, <3>2, <2>1
  <2>2. CASE jmp[b] # RetRegs
    <3> HIDE DEF st
    <3>1. j = Bset(jmp[b], st)
      BY <2>2
    <3>2. jmp[b] \cup st.in = o \cup jmp[b]
      BY <1>2
    <3>3. st.nlv = Cardinality(st.in)
      BY <1>2
    <3>4. j \in States /\ j.in = jmp[b] \cup st.in /\ j.nlv = Cardinality(jmp[b] \cup st.in)
      <4> HIDE DEF j
      <4>1. QED
        BY <3>1, <3>3, <1>2, BsetFacts
    <3> HIDE DEF j
    <3>5. QED
      BY <3>2, <3>4
  <2>3. QED
    BY <2>1, <2>2
<1> HIDE DEF j
<1>5. /\ j.in \in SUBSET Vals /\ j.nlv \in Int /\ j.max \in Int /\ j.gen \in SUBSET Tmps
      /\ j = [in |-> j.in, nlv |-> j.nlv, max |-> j.max, gen |-> j.gen]
  BY <1>4 DEF States
<1>6. JumpStep(b, o) = [in |-> j.in, nlv |-> j.nlv, max |-> j.nlv, gen |-> j.gen]
  BY <1>3, <1>5
<1>7. JumpStep(b, o) \in States
  BY <1>5, <1>6 DEF States
<1>8. JumpStep(b, o).in = j.in /\ JumpStep(b, o).nlv = j.nlv /\ JumpStep(b, o).max = j.nlv
  BY <1>6
<1>9. QED
  BY <1>4, <1>7, <1>8

(* The recursion of Through: the states before each instruction.           *)
IsBack(w, b, o, j) ==
  w = [k \in j .. Len(ins[b]) + 1 |->
         IF k = Len(ins[b]) + 1 THEN JumpStep(b, o) ELSE InsStep(ins[b][k], w[k + 1])]

LEMMA BlockFacts ==
  ASSUME Selected, NEW b \in Blk
  PROVE  /\ Len(ins[b]) \in Nat /\ DOMAIN ins[b] = 1 .. Len(ins[b])
         /\ \A k \in 1 .. Len(ins[b]) : ins[b][k] \in Instr
         /\ jmp[b] \in SUBSET Vals
<1>1. ins[b] \in Seq(Instr) /\ jmp[b] \in SUBSET Vals
  BY DEF Selected, Vals
<1>2. Len(ins[b]) \in Nat /\ DOMAIN ins[b] = 1 .. Len(ins[b])
  BY <1>1
<1>3. \A k \in 1 .. Len(ins[b]) : ins[b][k] \in Instr
  BY <1>1, <1>2
<1>4. QED
  BY <1>1, <1>2, <1>3

LEMMA BackExists ==
  ASSUME Selected, NEW b \in Blk, NEW o
  PROVE  \E w : IsBack(w, b, o, 1)
<1> DEFINE L == Len(ins[b])
           P(j) == \E w : IsBack(w, b, o, j)
           S == {d \in Nat : d <= L => P(L + 1 - d)}
<1>0. L \in Nat
  BY BlockFacts
<1>1. 0 \in S
  <2> DEFINE w == [k \in L + 1 .. L + 1 |-> JumpStep(b, o)]
  <2>1. L + 1 - 0 = L + 1
    BY <1>0
  <2>2. \A k \in L + 1 .. L + 1 : k = L + 1
    BY <1>0
  <2>3. IsBack(w, b, o, L + 1)
    BY <2>2 DEF IsBack
  <2>4. QED
    BY <2>1, <2>3
<1>2. ASSUME NEW d \in Nat, d \in S PROVE d + 1 \in S
  <2>1. SUFFICES ASSUME d + 1 <= L PROVE P(L + 1 - (d + 1))
    <3> HIDE DEF P, L
    <3>1. d + 1 \in Nat
      OBVIOUS
    <3>2. QED
      BY <3>1
  <2>2. PICK w : IsBack(w, b, o, L + 1 - d)
    <3> HIDE DEF P, L
    <3>1. P(L + 1 - d)
      BY <1>0, <1>2, <2>1
    <3>2. QED
      BY <3>1 DEF P
  <2> DEFINE j == L - d
             h == [k \in j .. L + 1 |-> IF k = j THEN InsStep(ins[b][j], w[j + 1]) ELSE w[k]]
  <2>3. j \in Nat /\ j # 0 /\ j <= L /\ L + 1 - d = j + 1 /\ L + 1 - (d + 1) = j
    <3> HIDE DEF L
    <3>1. QED
      BY <1>0, <2>1
  <2> HIDE DEF j
  <2>4. \A k \in j + 1 .. L + 1 : w[k] = IF k = L + 1 THEN JumpStep(b, o) ELSE InsStep(ins[b][k], w[k + 1])
    BY <2>2, <2>3 DEF IsBack
  <2>5. \A k \in j + 1 .. L + 1 : h[k] = w[k] /\ k \in j .. L + 1 /\ k # j
    BY <2>3, <1>0
  <2>6. \A k \in j .. L + 1 : k = j \/ k \in j + 1 .. L + 1
    BY <2>3, <1>0
  <2>7. \A k \in j .. L + 1 : k # L + 1 => k + 1 \in j + 1 .. L + 1
    BY <2>3, <1>0
  <2>8. h[j] = InsStep(ins[b][j], w[j + 1]) /\ j # L + 1
    BY <2>3, <1>0
  <2>9. h = [k \in j .. L + 1 |-> h[k]]
    OBVIOUS
  <2> HIDE DEF h, L
  <2>10. \A k \in j .. L + 1 : h[k] = IF k = L + 1 THEN JumpStep(b, o) ELSE InsStep(ins[b][k], h[k + 1])
    BY <2>4, <2>5, <2>6, <2>7, <2>8
  <2>11. IsBack(h, b, o, j)
    <3>1. h = [k \in j .. L + 1 |-> IF k = L + 1 THEN JumpStep(b, o) ELSE InsStep(ins[b][k], h[k + 1])]
      BY <2>9, <2>10
    <3>2. QED
      BY <3>1 DEF IsBack, L
  <2>12. QED
    BY <2>11, <2>3
<1>3. L \in S
  <2> HIDE DEF S, L, P
  <2>1. QED
    BY <1>0, <1>1, <1>2, SetInduction
<1>4. L + 1 - L = 1
  BY <1>0
<1>5. QED
  BY <1>0, <1>3, <1>4

(* What is live before the k-th instruction of b if o is live behind it.   *)
Alive(b, o, k) == {v \in Vals : Exposed(b, k, v)} \cup {v \in o : Passes(b, k, v)}

LEMMA EndFacts ==
  ASSUME Selected, NEW b \in Blk, NEW v
  PROVE  /\ Exposed(b, Ends(b), v) <=> v \in jmp[b]
         /\ Passes(b, Ends(b), v)
<1>1. Ends(b) \in Nat /\ Ends(b) = Len(ins[b]) + 1 /\ Ends(b) > Len(ins[b])
  BY BlockFacts DEF Ends
<1>2. Uses(b, Ends(b)) = jmp[b] /\ Defs(b, Ends(b)) = {}
  BY <1>1, BlockFacts DEF Uses, Defs
<1>3. \A j \in Ends(b) .. Ends(b) : j = Ends(b)
  BY <1>1
<1>4. Ends(b) \in Ends(b) .. Ends(b) /\ \A h \in Ends(b) .. Ends(b) - 1 : FALSE
  BY <1>1
<1>5. QED
  BY <1>2, <1>3, <1>4 DEF Exposed, Passes

LEMMA StepFacts ==
  ASSUME Selected, NEW b \in Blk, NEW k \in 1 .. Len(ins[b]), NEW v
  PROVE  /\ Exposed(b, k, v) <=> v \in Use(ins[b][k]) \/ (v \notin Def(ins[b][k]) /\ Exposed(b, k + 1, v))
         /\ Passes(b, k, v) <=> v \notin Def(ins[b][k]) /\ Passes(b, k + 1, v)
         /\ Uses(b, k) = Use(ins[b][k]) /\ Defs(b, k) = Def(ins[b][k])
<1>1. /\ Len(ins[b]) \in Nat /\ Ends(b) = Len(ins[b]) + 1 /\ k \in Nat /\ k <= Len(ins[b]) /\ k >= 1
  BY BlockFacts DEF Ends
<1>2. Uses(b, k) = Use(ins[b][k]) /\ Defs(b, k) = Def(ins[b][k])
  BY <1>1 DEF Uses, Defs
<1>3. \A j \in k .. Ends(b) : j = k \/ j \in k + 1 .. Ends(b)
  BY <1>1
<1>4. k \in k .. Ends(b) /\ \A j \in k + 1 .. Ends(b) : j \in k .. Ends(b)
  BY <1>1
<1>5. Exposed(b, k, v) <=> v \in Uses(b, k) \/ (v \notin Defs(b, k) /\ Exposed(b, k + 1, v))
  <2>1. ASSUME Exposed(b, k, v), v \notin Uses(b, k) PROVE v \notin Defs(b, k) /\ Exposed(b, k + 1, v)
    <3>1. PICK j \in k .. Ends(b) : v \in Uses(b, j) /\ \A h \in k .. j - 1 : v \notin Defs(b, h)
      BY <2>1 DEF Exposed
    <3>2. j \in k + 1 .. Ends(b)
      BY <3>1, <2>1, <1>3
    <3>3. k \in k .. j - 1 /\ \A h \in k + 1 .. j - 1 : h \in k .. j - 1
      BY <3>2, <1>1
    <3>4. QED
      BY <3>1, <3>2, <3>3 DEF Exposed
  <2>2. ASSUME v \in Uses(b, k) PROVE Exposed(b, k, v)
    <3>1. \A h \in k .. k - 1 : FALSE
      BY <1>1
    <3>2. QED
      BY <2>2, <3>1, <1>4 DEF Exposed
  <2>3. ASSUME v \notin Defs(b, k), Exposed(b, k + 1, v) PROVE Exposed(b, k, v)
    <3>1. PICK j \in k + 1 .. Ends(b) : v \in Uses(b, j) /\ \A h \in k + 1 .. j - 1 : v \notin Defs(b, h)
      BY <2>3 DEF Exposed
    <3>2. \A h \in k .. j - 1 : h = k \/ h \in k + 1 .. j - 1
      BY <1>1
    <3>3. QED
      BY <2>3, <3>1, <3>2, <1>4 DEF Exposed
  <2>4. QED
    BY <2>1, <2>2, <2>3
<1>6. Passes(b, k, v) <=> v \notin Defs(b, k) /\ Passes(b, k + 1, v)
  BY <1>3, <1>4 DEF Passes
<1>7. QED
  BY <1>2, <1>5, <1>6

LEMMA AliveFacts ==
  ASSUME Selected, NEW b \in Blk, NEW o \in SUBSET Vals
  PROVE  /\ Alive(b, o, Len(ins[b]) + 1) = o \cup jmp[b]
         /\ \A k \in 1 .. Len(ins[b]) :
              /\ Alive(b, o, k) = Use(ins[b][k]) \cup (Alive(b, o, k + 1) \ Def(ins[b][k]))
              /\ IsCall(ins[b][k]) => Def(ins[b][k]) \subseteq Alive(b, o, k + 1)
<1>1. Alive(b, o, Len(ins[b]) + 1) = o \cup jmp[b]
  <2>1. jmp[b] \in SUBSET Vals /\ Len(ins[b]) + 1 = Ends(b)
    BY BlockFacts DEF Ends
  <2>2. \A v : (Exposed(b, Ends(b), v) <=> v \in jmp[b]) /\ Passes(b, Ends(b), v)
    BY EndFacts
  <2>3. QED
    BY <2>1, <2>2 DEF Alive
<1>2. ASSUME NEW k \in 1 .. Len(ins[b])
      PROVE  /\ Alive(b, o, k) = Use(ins[b][k]) \cup (Alive(b, o, k + 1) \ Def(ins[b][k]))
             /\ IsCall(ins[b][k]) => Def(ins[b][k]) \subseteq Alive(b, o, k + 1)
  <2>1. Use(ins[b][k]) \in SUBSET Vals /\ ins[b][k] \in Instr
    BY BlockFacts, InsFacts
  <2>2. \A v : /\ Exposed(b, k, v) <=> v \in Use(ins[b][k]) \/ (v \notin Def(ins[b][k]) /\ Exposed(b, k + 1, v))
               /\ Passes(b, k, v) <=> v \notin Def(ins[b][k]) /\ Passes(b, k + 1, v)
    BY StepFacts
  <2>3. Alive(b, o, k) = Use(ins[b][k]) \cup (Alive(b, o, k + 1) \ Def(ins[b][k]))
    BY <2>1, <2>2 DEF Alive
  <2>4. ASSUME IsCall(ins[b][k]) PROVE Def(ins[b][k]) \subseteq Alive(b, o, k + 1)
    <3>1. k \in DOMAIN ins[b] /\ Def(ins[b][k]) = ins[b][k].rets
      BY <2>4, BlockFacts DEF Def
    <3>2. \A r \in ins[b][k].rets : Exposed(b, k + 1, r)
      BY <2>4, <3>1 DEF Selected
    <3>3. ins[b][k].rets \subseteq Vals
      BY <2>1 DEF Instr, Vals
    <3>4. QED
      BY <3>1, <3>2, <3>3 DEF Alive
  <2>5. QED
    BY <2>3, <2>4
<1>3. QED
  BY <1>1, <1>2

(* How many are alive at once from the k-th instruction of b on.           *)
Pressure(b, o, k) ==
  {Cardinality(Alive(b, o, j)) : j \in k .. Len(ins[b]) + 1}
  \cup {Cardinality(Alive(b, o, j + 1) \ Def(ins[b][j])) + Cardinality(RSave) :
          j \in {j \in k .. Len(ins[b]) : IsCall(ins[b][j])}}

LEMMA PressureFacts ==
  ASSUME Selected, NEW b \in Blk, NEW o \in SUBSET Vals
  PROVE  /\ \A k \in Nat : Pressure(b, o, k) \in SUBSET Int
         /\ Pressure(b, o, Len(ins[b]) + 1) = {Cardinality(o \cup jmp[b])}
         /\ \A k \in 1 .. Len(ins[b]) :
              Pressure(b, o, k) = Pressure(b, o, k + 1) \cup {Cardinality(Alive(b, o, k))}
                                  \cup AtCall(ins[b][k], Cardinality(Alive(b, o, k + 1)))
<1> DEFINE L == Len(ins[b])
           a(j) == Cardinality(Alive(b, o, j))
           c(j) == Cardinality(Alive(b, o, j + 1) \ Def(ins[b][j])) + Cardinality(RSave)
<1>0. L \in Nat
  BY BlockFacts
<1>1. \A j : Alive(b, o, j) \in SUBSET Vals /\ a(j) \in Int
  <2>1. \A j : Alive(b, o, j) \in SUBSET Vals
    BY DEF Alive
  <2>2. QED
    BY <2>1, ValsFacts
<1>2. Cardinality(RSave) \in Nat
  BY RegsAssumption, ValsFacts DEF Vals
<1>3. \A j : c(j) \in Int
  <2> TAKE j
  <2>1. Alive(b, o, j + 1) \ Def(ins[b][j]) \in SUBSET Vals
    BY <1>1
  <2>2. QED
    BY <2>1, <1>2, ValsFacts
<1>4. \A k : Pressure(b, o, k) = {a(j) : j \in k .. L + 1} \cup {c(j) : j \in {j \in k .. L : IsCall(ins[b][j])}}
  BY DEF Pressure
<1>5. a(L + 1) = Cardinality(o \cup jmp[b])
  BY AliveFacts
<1>6. ASSUME NEW k \in 1 .. L, IsCall(ins[b][k])
      PROVE  c(k) = a(k + 1) - Cardinality(Def(ins[b][k])) + Cardinality(RSave)
  <2>1. ins[b][k] \in Instr /\ Def(ins[b][k]) \in SUBSET Vals /\ Def(ins[b][k]) \subseteq Alive(b, o, k + 1)
    BY <1>6, BlockFacts, InsFacts, AliveFacts
  <2>2. Def(ins[b][k]) \cap Alive(b, o, k + 1) = Def(ins[b][k])
    BY <2>1
  <2>3. Cardinality(Alive(b, o, k + 1) \ Def(ins[b][k])) = a(k + 1) - Cardinality(Def(ins[b][k]) \cap Alive(b, o, k + 1))
    BY <2>1, <1>1, CardSteps
  <2>4. QED
    BY <2>2, <2>3
<1> HIDE DEF a, c, L
<1>7. \A k \in Nat : Pressure(b, o, k) \in SUBSET Int
  BY <1>1, <1>3, <1>4
<1>8. Pressure(b, o, L + 1) = {a(L + 1)}
  <2>1. \A j \in L + 1 .. L + 1 : j = L + 1
    BY <1>0
  <2>2. \A j \in L + 1 .. L : FALSE
    BY <1>0
  <2>3. L + 1 \in L + 1 .. L + 1
    BY <1>0
  <2>4. QED
    BY <1>4, <2>1, <2>2, <2>3
<1>9. ASSUME NEW k \in 1 .. L
      PROVE  Pressure(b, o, k) = Pressure(b, o, k + 1) \cup {a(k)} \cup AtCall(ins[b][k], a(k + 1))
  <2>1. \A j \in k .. L + 1 : j = k \/ j \in k + 1 .. L + 1
    BY <1>0
  <2>2. \A j \in k .. L : j = k \/ j \in k + 1 .. L
    BY <1>0
  <2>3. k \in k .. L + 1 /\ k \in k .. L /\ k + 1 .. L + 1 \subseteq k .. L + 1 /\ k + 1 .. L \subseteq k .. L
    BY <1>0
  <2>4. {a(j) : j \in k .. L + 1} = {a(j) : j \in k + 1 .. L + 1} \cup {a(k)}
    BY <2>1, <2>3
  <2>5. {c(j) : j \in {j \in k .. L : IsCall(ins[b][j])}}
          = {c(j) : j \in {j \in k + 1 .. L : IsCall(ins[b][j])}} \cup AtCall(ins[b][k], a(k + 1))
    <3>1. AtCall(ins[b][k], a(k + 1)) = IF IsCall(ins[b][k]) THEN {c(k)} ELSE {}
      BY <1>6 DEF AtCall
    <3>2. QED
      BY <2>2, <2>3, <3>1
  <2>6. QED
    BY <1>4, <2>4, <2>5
<1>10. QED
  BY <1>5, <1>7, <1>8, <1>9 DEF a, L

LEMMA BackInduction ==
  ASSUME NEW L \in Nat, NEW S, L + 1 \in S, \A k \in 1 .. L : k + 1 \in S => k \in S
  PROVE  \A k \in 1 .. L + 1 : k \in S
<1> DEFINE T == {d \in Nat : d <= L => L + 1 - d \in S}
<1>1. 0 \in T
  OBVIOUS
<1>2. ASSUME NEW d \in Nat, d \in T PROVE d + 1 \in T
  <2>1. SUFFICES ASSUME d + 1 <= L PROVE L + 1 - (d + 1) \in S
    OBVIOUS
  <2>2. L - d \in 1 .. L /\ L - d + 1 = L + 1 - d /\ L + 1 - (d + 1) = L - d
    BY <2>1
  <2>3. L + 1 - d \in S
    BY <1>2, <2>1
  <2>4. QED
    BY <2>2, <2>3
<1>3. Nat \subseteq T
  <2> HIDE DEF T
  <2>1. QED
    BY <1>1, <1>2, SetInduction
<1>4. ASSUME NEW k \in 1 .. L + 1 PROVE k \in S
  <2>1. L + 1 - k \in Nat /\ L + 1 - k <= L /\ L + 1 - (L + 1 - k) = k
    OBVIOUS
  <2>2. L + 1 - k \in T
    BY <2>1, <1>3
  <2>3. QED
    BY <2>1, <2>2
<1>5. QED
  BY <1>4

(* A visit of a block computes what is alive at its start, and the most    *)
(* that is alive inside it.                                                *)
LEMMA ThroughFacts ==
  ASSUME Selected, NEW b \in Blk, NEW o \in SUBSET Vals
  PROVE  /\ Through(b, o) \in States
         /\ Through(b, o).in = Alive(b, o, 1)
         /\ jmp[b] # RetRegs => IsMax(Through(b, o).max, Pressure(b, o, 1))
<1> DEFINE L == Len(ins[b])
           w == CHOOSE v : IsBack(v, b, o, 1)
<1>1. Through(b, o) = w[1]
  BY DEF Through, IsBack
<1>2. IsBack(w, b, o, 1)
  BY BackExists
<1> HIDE DEF w
<1>3. L \in Nat
  BY BlockFacts
<1>4. /\ w[L + 1] = JumpStep(b, o)
      /\ \A k \in 1 .. L : w[k] = InsStep(ins[b][k], w[k + 1])
  <2>1. \A k \in 1 .. L + 1 : w[k] = IF k = L + 1 THEN JumpStep(b, o) ELSE InsStep(ins[b][k], w[k + 1])
    BY <1>2 DEF IsBack
  <2>2. L + 1 \in 1 .. L + 1 /\ \A k \in 1 .. L : k \in 1 .. L + 1 /\ k # L + 1
    BY <1>3
  <2> HIDE DEF L
  <2>3. QED
    BY <2>1, <2>2
<1> DEFINE Good(k) == /\ w[k] \in States
                      /\ w[k].in = Alive(b, o, k)
                      /\ jmp[b] # RetRegs => /\ w[k].nlv = Cardinality(Alive(b, o, k))
                                             /\ IsMax(w[k].max, Pressure(b, o, k))
<1>5. Good(L + 1)
  <2>1. jmp[b] \in SUBSET Vals
    BY BlockFacts
  <2>2. Alive(b, o, L + 1) = o \cup jmp[b] /\ Pressure(b, o, L + 1) = {Cardinality(o \cup jmp[b])}
    BY AliveFacts, PressureFacts
  <2>3. Cardinality(o \cup jmp[b]) \in Nat
    BY <2>1, ValsFacts
  <2> DEFINE J == JumpStep(b, o)
  <2>4. /\ J \in States /\ J.in = o \cup jmp[b]
        /\ jmp[b] # RetRegs => J.nlv = Cardinality(o \cup jmp[b]) /\ J.max = Cardinality(o \cup jmp[b])
    BY <2>1, JumpStepFacts
  <2>5. w[L + 1] = J
    BY <1>4
  <2>6. IsMax(Cardinality(o \cup jmp[b]), {Cardinality(o \cup jmp[b])})
    BY <2>3 DEF IsMax
  <2> HIDE DEF J, L
  <2>7. QED
    BY <2>2, <2>4, <2>5, <2>6
<1>6. ASSUME NEW k \in 1 .. L, Good(k + 1) PROVE Good(k)
  <2> DEFINE i == ins[b][k]
             st == w[k + 1]
             A == Alive(b, o, k + 1)
             P == Pressure(b, o, k + 1)
  <2>0. k \in Nat /\ k + 1 \in Nat
    BY <1>3
  <2>1. i \in Instr /\ w[k] = InsStep(i, st)
    BY <1>4, BlockFacts
  <2>2. /\ Alive(b, o, k) = Use(i) \cup (A \ Def(i)) /\ (IsCall(i) => Def(i) \subseteq A)
        /\ Pressure(b, o, k) = P \cup {Cardinality(Alive(b, o, k))} \cup AtCall(i, Cardinality(A))
    <3>1. /\ Alive(b, o, k) = Use(i) \cup (A \ Def(i)) /\ (IsCall(i) => Def(i) \subseteq A)
      BY AliveFacts
    <3>2. Pressure(b, o, k) = P \cup {Cardinality(Alive(b, o, k))} \cup AtCall(i, Cardinality(A))
      BY PressureFacts
    <3>3. QED
      BY <3>1, <3>2
  <2>3. P \in SUBSET Int /\ Pressure(b, o, k) \in SUBSET Int
    BY <2>0, PressureFacts
  <2> HIDE DEF i, P, A
  <2>4. st \in States /\ st.in = A
        /\ (jmp[b] # RetRegs => st.nlv = Cardinality(A) /\ IsMax(st.max, P))
    BY <1>6 DEF P, A
  <2> HIDE DEF st
  <2>5. /\ w[k] \in States /\ w[k].in = Alive(b, o, k)
        /\ st.nlv = Cardinality(st.in) => w[k].nlv = Cardinality(Alive(b, o, k))
        /\ IsMax(w[k].max, {st.max, w[k].nlv} \cup AtCall(i, st.nlv))
    BY <2>1, <2>2, <2>4, InsStepFacts
  <2>6. ASSUME jmp[b] # RetRegs
        PROVE  w[k].nlv = Cardinality(Alive(b, o, k)) /\ IsMax(w[k].max, Pressure(b, o, k))
    <3>1. w[k].nlv = Cardinality(Alive(b, o, k)) /\ st.nlv = Cardinality(A) /\ IsMax(st.max, P)
      BY <2>4, <2>5, <2>6
    <3> DEFINE x == Cardinality(Alive(b, o, k))
               Q == AtCall(i, Cardinality(A))
               m == w[k].max
               h == st.max
    <3>2. IsMax(m, {h, x} \cup Q) /\ IsMax(h, P) /\ Pressure(b, o, k) = P \cup {x} \cup Q
      BY <3>1, <2>2, <2>5
    <3>3. m \in Int /\ h \in Int
      BY <2>4, <2>5 DEF States
    <3> HIDE DEF x, Q, m, h
    <3>4. m \in P \cup {x} \cup Q
      BY <3>2 DEF IsMax
    <3>5. \A y \in P \cup {x} \cup Q : m >= y
      <4>1. m >= h /\ m >= x /\ \A y \in Q : m >= y
        BY <3>2 DEF IsMax
      <4>2. \A y \in P : h >= y /\ y \in Int
        BY <3>2, <2>3 DEF IsMax
      <4>3. \A y \in P : m >= y
        BY <4>1, <4>2, <3>3
      <4>4. QED
        BY <4>1, <4>3
    <3>6. IsMax(m, Pressure(b, o, k))
      BY <3>2, <3>4, <3>5 DEF IsMax
    <3>7. QED
      BY <3>1, <3>6 DEF m
  <2>7. QED
    BY <2>5, <2>6
<1>7. Good(1)
  <2> DEFINE S == {k \in Nat : Good(k)}
  <2> HIDE DEF Good
  <2>1. L + 1 \in S
    BY <1>3, <1>5
  <2>2. \A k \in 1 .. L : k + 1 \in S => k \in S
    BY <1>3, <1>6
  <2>3. 1 \in 1 .. L + 1
    BY <1>3
  <2> HIDE DEF S, L
  <2>4. 1 \in S
    BY <1>3, <2>1, <2>2, <2>3, BackInduction
  <2>5. QED
    BY <2>4 DEF S
<1>8. QED
  BY <1>1, <1>7

-----------------------------------------------------------------------------
(* What the paths say: the blocks v is live out of are the fewest that     *)
(* hold the last ones before a use and are closed under going back.        *)
UsedNext(v) ==
  {b \in Blk : \E s \in Succ(pred, b) : v \in PhiOf(s, b) \/ (v \notin PhiDefs(s) /\ Exposed(s, 1, v))}
Carry(v) == {s \in Blk : v \notin PhiDefs(s) /\ Passes(s, 1, v)}

LEMMA OutOfFacts ==
  ASSUME NEW v
  PROVE  /\ UsedNext(v) \subseteq OutOf(v) /\ OutOf(v) \subseteq Blk
         /\ \A b \in Blk : \A s \in Succ(pred, b) : s \in Carry(v) /\ s \in OutOf(v) => b \in OutOf(v)
         /\ \A T : /\ UsedNext(v) \subseteq T
                   /\ \A b \in Blk : \A s \in Succ(pred, b) : s \in Carry(v) /\ s \in T => b \in T
                   => OutOf(v) \subseteq T
<1> DEFINE g == [b \in Blk |-> Succ(pred, b) \cap Carry(v)]
           C == Closure(g, UsedNext(v), Blk)
<1>1. OutOf(v) = C
  BY DEF OutOf, UsedNext, Carry
<1> HIDE DEF C
<1>2. UsedNext(v) \cap Blk = UsedNext(v) /\ \A b \in Blk : g[b] = Succ(pred, b) \cap Carry(v)
  BY DEF UsedNext
<1> HIDE DEF g
<1>3. /\ UsedNext(v) \cap Blk \subseteq C /\ C \subseteq Blk /\ ClosedIn(g, Blk, C)
      /\ \A T : UsedNext(v) \cap Blk \subseteq T /\ ClosedIn(g, Blk, T) => C \subseteq T
  BY ClosureFacts DEF C
<1>4. \A T : ClosedIn(g, Blk, T) <=> \A b \in Blk : \A s \in Succ(pred, b) : s \in Carry(v) /\ s \in T => b \in T
  BY <1>2 DEF ClosedIn
<1>5. QED
  BY <1>1, <1>2, <1>3, <1>4

LEMMA SameBlock ==
  ASSUME prog' = prog, NEW b, NEW k, NEW v
  PROVE  /\ Exposed(b, k, v)' <=> Exposed(b, k, v)
         /\ Passes(b, k, v)' <=> Passes(b, k, v)
<1>1. ins' = ins /\ jmp' = jmp
  BY DEF prog
<1>2. \A j : Uses(b, j)' = Uses(b, j) /\ Defs(b, j)' = Defs(b, j)
  BY <1>1 DEF Uses, Defs
<1>3. Ends(b)' = Ends(b)
  BY <1>1 DEF Ends
<1>4. QED
  BY <1>2, <1>3 DEF Exposed, Passes

LEMMA SameProg ==
  ASSUME prog' = prog
  PROVE  /\ \A b : Succ(pred, b)' = Succ(pred, b) /\ PhiDefs(b)' = PhiDefs(b)
         /\ \A b, s : PhiOf(s, b)' = PhiOf(s, b)
         /\ Selected' <=> Selected
<1>1. pred' = pred /\ ins' = ins /\ jmp' = jmp /\ phi' = phi
  BY DEF prog
<1>2. \A b : Succ(pred, b)' = Succ(pred, b) /\ PhiDefs(b)' = PhiDefs(b)
  BY <1>1 DEF Succ, PhiDefs
<1>3. \A b, s : PhiOf(s, b)' = PhiOf(s, b)
  BY <1>1 DEF PhiOf
<1>4. \A b, k, v : Exposed(b, k, v)' <=> Exposed(b, k, v)
  BY SameBlock
<1>5. Selected' <=> Selected
  BY <1>1, <1>4 DEF Selected
<1>6. QED
  BY <1>2, <1>3, <1>5

LEMMA SameOutOf ==
  ASSUME prog' = prog, NEW v
  PROVE  OutOf(v)' = OutOf(v)
<1> DEFINE c(l, g) == Closure(g, l, Blk)
           G == [b \in Blk |-> Succ(pred, b) \cap Carry(v)]
<1>1. UsedNext(v)' = UsedNext(v)
  BY SameProg, SameBlock DEF UsedNext
<1>2. Carry(v)' = Carry(v)
  BY SameProg, SameBlock DEF Carry
<1>3. G' = G
  BY <1>2, SameProg
<1>4. OutOf(v) = c(UsedNext(v), G) /\ OutOf(v)' = c(UsedNext(v)', G')
  BY DEF OutOf, UsedNext, Carry
<1> HIDE DEF c, G
<1>5. QED
  BY <1>1, <1>3, <1>4

LEMMA SameAlive ==
  ASSUME prog' = prog, NEW b, NEW X, out'[b] = X
  PROVE  /\ \A k : Alive(b, out[b], k)' = Alive(b, X, k)
         /\ Pressure(b, out[b], 1)' = Pressure(b, X, 1)
<1>1. ins' = ins
  BY DEF prog
<1>2. \A k : Alive(b, out[b], k)' = Alive(b, X, k)
  <2> TAKE k
  <2>1. \A v : (Exposed(b, k, v)' <=> Exposed(b, k, v)) /\ (Passes(b, k, v)' <=> Passes(b, k, v))
    BY SameBlock
  <2>2. QED
    BY <2>1 DEF Alive
<1> DEFINE a(k) == Alive(b, X, k)
           L == Len(ins[b])
           c == {j \in 1 .. L : IsCall(ins[b][j])}
<1>3. Pressure(b, X, 1) = {Cardinality(a(j)) : j \in 1 .. L + 1}
                          \cup {Cardinality(a(j + 1) \ Def(ins[b][j])) + Cardinality(RSave) : j \in c}
  BY DEF Pressure
<1>4. Pressure(b, out[b], 1)'
        = {Cardinality(Alive(b, out[b], j)') : j \in 1 .. L + 1}
          \cup {Cardinality(Alive(b, out[b], j + 1)' \ Def(ins[b][j])) + Cardinality(RSave) : j \in c}
  BY <1>1 DEF Pressure
<1>5. \A k : Cardinality(Alive(b, out[b], k)') = Cardinality(a(k))
  BY <1>2
<1>6. \A k : Alive(b, out[b], k + 1)' \ Def(ins[b][k]) = a(k + 1) \ Def(ins[b][k])
  BY <1>2
<1> HIDE DEF a, c, L
<1>7. QED
  BY <1>2, <1>3, <1>4, <1>5, <1>6 DEF a

-----------------------------------------------------------------------------
(* The invariant.  A block that was visited agrees with what is live       *)
(* behind it; one that was not is empty, and only in the first pass, which *)
(* counts as a change.  A pass without a change leaves nothing to add      *)
(* behind it.                                                              *)
LiveBehind(b) == RGlob \cup {v \in Tmps : b \in OutOf(v)}

Visited(b) == /\ RGlob \subseteq out[b] /\ in[b] = Alive(b, out[b], 1)
              /\ jmp[b] # RetRegs => IsMax(nlive[b], Pressure(b, out[b], 1))
Unvisited(b) == out[b] = {} /\ in[b] = {} /\ b <= n /\ chg

Settled(b) == \A s \in Succ(pred, b) : LiveOn(b, s) \subseteq out[b]

LiveTypes == /\ in \in [Blk -> SUBSET Vals] /\ out \in [Blk -> SUBSET Vals]
             /\ nlive = [b \in Blk |-> nlive[b]]
             /\ n \in -1 .. N - 1 /\ chg \in BOOLEAN

LiveInv ==
  /\ LiveTypes
  /\ \A b \in Blk : out[b] \subseteq LiveBehind(b)
  /\ \A b \in Blk : Visited(b) \/ Unvisited(b)
  /\ ~ chg => \A b \in Blk : b > n => Settled(b)
  /\ pc = "done" => n = -1 /\ ~ chg

RegInv == Selected /\ (pc \in {"live", "done"} => LiveInv)

LEMMA SuccFacts ==
  ASSUME NEW b \in Blk, NEW s \in Succ(pred, b)
  PROVE  s \in Blk /\ b \in pred[s]
  BY DEF Succ

LEMMA RGlobFacts ==
  ASSUME Selected, NEW b \in Blk, NEW k \in 1 .. Len(ins[b]) + 1, NEW r \in RGlob
  PROVE  Passes(b, k, r) /\ r \in Vals
<1>1. r \in Vals
  BY RegsAssumption DEF Vals
<1>2. ASSUME NEW h \in k .. Ends(b) PROVE r \notin Defs(b, h)
  <2>1. CASE h > Len(ins[b])
    BY <2>1 DEF Defs
  <2>2. CASE ~ (h > Len(ins[b]))
    <3>1. h \in DOMAIN ins[b]
      BY <2>2, BlockFacts DEF Ends
    <3>2. QED
      BY <2>2, <3>1 DEF Defs, Selected
  <2>3. QED
    BY <2>1, <2>2
<1>3. QED
  BY <1>1, <1>2 DEF Passes

(* What a visit adds behind a block is live there.                         *)
LEMMA LiveOnSound ==
  ASSUME Selected, LiveInv, NEW b \in Blk, NEW s \in Succ(pred, b)
  PROVE  LiveOn(b, s) \subseteq LiveBehind(b) /\ LiveOn(b, s) \subseteq Vals
<1>1. s \in Blk /\ b \in pred[s]
  BY SuccFacts
<1>2. ASSUME NEW v \in LiveOn(b, s) PROVE v \in LiveBehind(b) /\ v \in Vals
  <2>1. CASE v \in PhiOf(s, b)
    <3>1. v \in Tmps
      BY <2>1 DEF PhiOf
    <3>2. b \in UsedNext(v)
      BY <2>1 DEF UsedNext
    <3>3. QED
      BY <3>1, <3>2, OutOfFacts DEF LiveBehind, Vals
  <2>2. CASE v \notin PhiOf(s, b)
    <3>1. v \in in[s] /\ v \notin PhiDefs(s)
      BY <2>2, <1>2 DEF LiveOn
    <3>2. Visited(s)
      BY <3>1, <1>1 DEF LiveInv, Unvisited
    <3>3. v \in Alive(s, out[s], 1)
      BY <3>1, <3>2 DEF Visited
    <3>4. v \in Vals
      BY <3>1, <1>1 DEF LiveInv, LiveTypes
    <3>5. CASE Exposed(s, 1, v)
      <4>1. CASE v \in Regs
        <5>1. v \in RGlob
          BY <1>1, <3>5, <4>1 DEF Selected
        <5>2. QED
          BY <5>1, <3>4 DEF LiveBehind
      <4>2. CASE v \in Tmps
        <5>1. b \in UsedNext(v)
          BY <3>1, <3>5 DEF UsedNext
        <5>2. QED
          BY <5>1, <4>2, <3>4, OutOfFacts DEF LiveBehind
      <4>3. QED
        BY <4>1, <4>2, <3>4 DEF Vals
    <3>6. CASE v \in out[s] /\ Passes(s, 1, v)
      <4>1. v \in LiveBehind(s)
        BY <3>6, <1>1 DEF LiveInv
      <4>2. CASE v \in RGlob
        BY <4>2, <3>4 DEF LiveBehind
      <4>3. CASE v \in Tmps /\ s \in OutOf(v)
        <5>1. s \in Carry(v)
          BY <3>1, <3>6, <1>1 DEF Carry
        <5>2. b \in OutOf(v)
          BY <5>1, <4>3, OutOfFacts
        <5>3. QED
          BY <5>2, <4>3, <3>4 DEF LiveBehind
      <4>4. QED
        BY <4>1, <4>2, <4>3 DEF LiveBehind
    <3>7. QED
      BY <3>3, <3>5, <3>6 DEF Alive
  <2>3. QED
    BY <2>1, <2>2
<1>3. QED
  BY <1>2

LEMMA RegInit == Init => RegInv
<1> SUFFICES ASSUME Init PROVE RegInv
  OBVIOUS
<1>1. Selected /\ LiveInit
  BY DEF Init
<1>2. /\ n = N - 1 /\ chg = TRUE /\ pc = "live"
      /\ in = [b \in Blk |-> {}] /\ out = [b \in Blk |-> {}] /\ nlive = [b \in Blk |-> 0]
  BY <1>1 DEF LiveInit
<1>3. LiveTypes
  BY <1>2, ValsFacts DEF LiveTypes
<1>4. \A b \in Blk : Unvisited(b) /\ out[b] \subseteq LiveBehind(b)
  BY <1>2, ValsFacts DEF Unvisited
<1>5. QED
  BY <1>1, <1>2, <1>3, <1>4 DEF RegInv, LiveInv

LEMMA VisitInv ==
  ASSUME Selected, LiveInv, Visit
  PROVE  LiveInv'
<1>1. /\ pc = "live" /\ n \in Blk /\ n' = n - 1 /\ prog' = prog /\ pc' = pc
  <2>1. n >= 0 /\ n \in -1 .. N - 1
    BY DEF Visit, LiveInv, LiveTypes
  <2>2. QED
    BY <2>1, ValsFacts DEF Visit, Blk
<1> DEFINE o == out[n] \cup UNION {LiveOn(n, s) : s \in Succ(pred, n)}
           q == o \cup RGlob
           st == Through(n, q)
<1>2. /\ chg' = (chg \/ o # out[n]) /\ out' = [out EXCEPT ![n] = q]
      /\ in' = [in EXCEPT ![n] = st.in] /\ nlive' = [nlive EXCEPT ![n] = st.max]
  BY DEF Visit, Changed
<1>3. o \subseteq LiveBehind(n) /\ o \subseteq Vals
  <2>1. out[n] \subseteq LiveBehind(n) /\ out[n] \subseteq Vals
    BY <1>1 DEF LiveInv, LiveTypes
  <2>2. \A s \in Succ(pred, n) : LiveOn(n, s) \subseteq LiveBehind(n) /\ LiveOn(n, s) \subseteq Vals
    BY <1>1, LiveOnSound
  <2>3. QED
    BY <2>1, <2>2
<1>4. q \in SUBSET Vals /\ q \subseteq LiveBehind(n) /\ RGlob \subseteq q
  BY <1>3, RegsAssumption DEF LiveBehind, Vals
<1>5. \A s \in Succ(pred, n) : LiveOn(n, s) \subseteq o
  OBVIOUS
<1>6. ~ chg' => ~ chg /\ o = out[n]
  BY <1>2
<1>7. out[n] \subseteq o
  OBVIOUS
<1> HIDE DEF o
<1>8. q = o \cup RGlob
  OBVIOUS
<1> HIDE DEF q
<1>9. st.in = Alive(n, q, 1) /\ st.in \in SUBSET Vals
      /\ (jmp[n] # RetRegs => IsMax(st.max, Pressure(n, q, 1)))
  BY <1>1, <1>4, ThroughFacts DEF States
<1> HIDE DEF st
<1>10. /\ LiveTypes /\ out \in [Blk -> SUBSET Vals] /\ in \in [Blk -> SUBSET Vals]
       /\ nlive = [b \in Blk |-> nlive[b]] /\ n \in Nat /\ n <= N - 1 /\ N \in Nat
  BY <1>1, ValsFacts DEF LiveInv, LiveTypes, Blk
<1>11. /\ out'[n] = q /\ in'[n] = st.in /\ nlive'[n] = st.max
       /\ \A b \in Blk : b # n => out'[b] = out[b] /\ in'[b] = in[b] /\ nlive'[b] = nlive[b]
  <2>1. DOMAIN nlive = Blk
    BY <1>10
  <2>2. QED
    BY <1>1, <1>2, <1>10, <2>1
<1>12. LiveTypes'
  <2>1. in' \in [Blk -> SUBSET Vals] /\ out' \in [Blk -> SUBSET Vals]
    BY <1>1, <1>2, <1>4, <1>9, <1>10
  <2>2. nlive' = [b \in Blk |-> nlive'[b]]
    BY <1>2, <1>10
  <2>3. n' \in -1 .. N - 1 /\ chg' \in BOOLEAN
    BY <1>1, <1>2, <1>10 DEF LiveTypes
  <2>4. QED
    BY <2>1, <2>2, <2>3 DEF LiveTypes
<1>13. \A b \in Blk : LiveBehind(b)' = LiveBehind(b)
  <2>1. \A v : OutOf(v)' = OutOf(v)
    BY <1>1, SameOutOf
  <2>2. QED
    BY <2>1 DEF LiveBehind
<1>14. \A b \in Blk : (out[b] \subseteq LiveBehind(b))'
  BY <1>4, <1>11, <1>13 DEF LiveInv
<1>15. \A b \in Blk : Visited(b)' \/ Unvisited(b)'
  <2> TAKE b \in Blk
  <2>1. jmp' = jmp /\ ins' = ins
    BY <1>1 DEF prog
  <2>2. CASE b = n
    <3>1. Alive(b, out[b], 1)' = Alive(b, q, 1) /\ Pressure(b, out[b], 1)' = Pressure(b, q, 1)
      BY <2>2, <1>1, <1>11, SameAlive
    <3>2. Visited(b)'
      BY <3>1, <2>1, <2>2, <1>4, <1>9, <1>11 DEF Visited
    <3>3. QED
      BY <3>2
  <2>3. CASE b # n /\ Visited(b)
    <3>1. out'[b] = out[b] /\ in'[b] = in[b] /\ nlive'[b] = nlive[b]
      BY <2>3, <1>11
    <3>2. Alive(b, out[b], 1)' = Alive(b, out[b], 1) /\ Pressure(b, out[b], 1)' = Pressure(b, out[b], 1)
      BY <3>1, <1>1, SameAlive
    <3>3. Visited(b)'
      BY <3>1, <3>2, <2>1, <2>3 DEF Visited
    <3>4. QED
      BY <3>3
  <2>4. CASE b # n /\ Unvisited(b)
    <3>1. b <= n - 1
      BY <2>4, <1>10, ValsFacts DEF Unvisited
    <3>2. chg'
      BY <2>4, <1>2 DEF Unvisited
    <3>3. QED
      BY <3>1, <3>2, <2>4, <1>1, <1>11 DEF Unvisited
  <2>5. QED
    BY <2>2, <2>3, <2>4 DEF LiveInv
<1>16. ASSUME ~ chg' PROVE \A b \in Blk : b > n' => Settled(b)'
  <2>1. ~ chg /\ o = out[n] /\ Visited(n)
    BY <1>1, <1>6, <1>16 DEF LiveInv, Unvisited
  <2>2. q = out[n] /\ st.in = in[n]
    BY <2>1, <1>8, <1>9 DEF Visited
  <2>3. \A b \in Blk : out'[b] = out[b] /\ in'[b] = in[b]
    BY <2>2, <1>11
  <2>4. ASSUME NEW b \in Blk, NEW s \in Succ(pred, b) PROVE LiveOn(b, s)' = LiveOn(b, s)
    <3>1. s \in Blk
      BY SuccFacts
    <3>2. PhiOf(s, b)' = PhiOf(s, b) /\ PhiDefs(s)' = PhiDefs(s)
      BY <1>1, SameProg
    <3>3. QED
      BY <3>1, <3>2, <2>3 DEF LiveOn
  <2>5. \A b \in Blk : Succ(pred, b)' = Succ(pred, b)
    BY <1>1, SameProg
  <2>6. ASSUME NEW b \in Blk, b > n' PROVE Settled(b)
    <3>1. CASE b = n
      BY <3>1, <1>5, <2>1 DEF Settled
    <3>2. CASE b # n
      <4>1. b > n
        BY <3>2, <2>6, <1>1, <1>10, ValsFacts
      <4>2. QED
        BY <4>1, <2>1 DEF LiveInv
    <3>3. QED
      BY <3>1, <3>2
  <2>7. ASSUME NEW b \in Blk, b > n' PROVE Settled(b)'
    <3>1. Settled(b)
      BY <2>6, <2>7
    <3>2. QED
      BY <3>1, <2>3, <2>4, <2>5 DEF Settled
  <2>8. QED
    BY <2>7
<1>17. pc' = "live"
  BY <1>1
<1>18. QED
  BY <1>12, <1>14, <1>15, <1>16, <1>17 DEF LiveInv

LEMMA RepeatInv ==
  ASSUME Selected, LiveInv, Repeat
  PROVE  LiveInv'
<1>1. pc = "live" /\ n = -1 /\ prog' = prog
      /\ in' = in /\ out' = out /\ nlive' = nlive
  BY DEF Repeat
<1>2. \A b \in Blk : Visited(b)
  BY <1>1, ValsFacts DEF LiveInv, Unvisited
<1>3. \A b \in Blk : LiveBehind(b)' = LiveBehind(b)
  <2>1. \A v : OutOf(v)' = OutOf(v)
    BY <1>1, SameOutOf
  <2>2. QED
    BY <2>1 DEF LiveBehind
<1>4. \A b \in Blk : Visited(b)'
  <2> TAKE b \in Blk
  <2>1. Alive(b, out[b], 1)' = Alive(b, out[b], 1) /\ Pressure(b, out[b], 1)' = Pressure(b, out[b], 1)
    BY <1>1, SameAlive
  <2>2. jmp' = jmp
    BY <1>1 DEF prog
  <2>3. QED
    BY <1>1, <1>2, <2>1, <2>2 DEF Visited
<1>5. LiveTypes' /\ \A b \in Blk : (out[b] \subseteq LiveBehind(b))'
  <2>1. n' \in -1 .. N - 1 /\ chg' \in BOOLEAN
    <3>1. (n' = N - 1 /\ chg' = FALSE) \/ (n' = n /\ chg' = chg)
      BY DEF Repeat
    <3>2. N - 1 \in -1 .. N - 1 /\ n \in -1 .. N - 1 /\ chg \in BOOLEAN
      BY ValsFacts DEF LiveInv, LiveTypes
    <3>3. QED
      BY <3>1, <3>2
  <2>2. QED
    BY <1>1, <1>3, <2>1 DEF LiveInv, LiveTypes
<1>6. CASE chg
  <2>1. n' = N - 1 /\ pc' = pc
    BY <1>6 DEF Repeat
  <2>2. \A b \in Blk : ~ (b > n')
    BY <2>1, ValsFacts
  <2>3. QED
    BY <1>1, <1>4, <1>5, <2>1, <2>2 DEF LiveInv
<1>7. CASE ~ chg
  <2>1. n' = n /\ chg' = chg
    BY <1>7 DEF Repeat
  <2>2. \A b \in Blk : b > n => Settled(b)'
    <3> TAKE b \in Blk
    <3>1. \A s : PhiOf(s, b)' = PhiOf(s, b) /\ PhiDefs(s)' = PhiDefs(s) /\ Succ(pred, b)' = Succ(pred, b)
      BY <1>1, SameProg
    <3>2. \A s : LiveOn(b, s)' = LiveOn(b, s)
      BY <1>1, <3>1 DEF LiveOn
    <3>3. b > n => Settled(b)
      BY <1>7 DEF LiveInv
    <3>4. QED
      BY <1>1, <3>1, <3>2, <3>3 DEF Settled
  <2>3. QED
    BY <1>1, <1>4, <1>5, <1>7, <2>1, <2>2 DEF LiveInv
<1>8. QED
  BY <1>6, <1>7

LEMMA LiveSame ==
  ASSUME LiveInv, prog' = prog, UNCHANGED <<n, chg, in, out, nlive, pc>>
  PROVE  LiveInv'
<1>1. \A b \in Blk : LiveBehind(b)' = LiveBehind(b)
  <2>1. \A v : OutOf(v)' = OutOf(v)
    BY SameOutOf
  <2>2. QED
    BY <2>1 DEF LiveBehind
<1>2. jmp' = jmp
  BY DEF prog
<1>3. ASSUME NEW b \in Blk PROVE (Visited(b)' <=> Visited(b)) /\ (Unvisited(b)' <=> Unvisited(b))
  <2>1. Alive(b, out[b], 1)' = Alive(b, out[b], 1) /\ Pressure(b, out[b], 1)' = Pressure(b, out[b], 1)
    BY SameAlive
  <2>2. QED
    BY <1>2, <2>1 DEF Visited, Unvisited
<1>4. ASSUME NEW b \in Blk PROVE Settled(b)' <=> Settled(b)
  <2>1. \A s : PhiOf(s, b)' = PhiOf(s, b) /\ PhiDefs(s)' = PhiDefs(s) /\ Succ(pred, b)' = Succ(pred, b)
    BY SameProg
  <2>2. \A s : LiveOn(b, s)' = LiveOn(b, s)
    BY <2>1 DEF LiveOn
  <2>3. QED
    BY <2>1, <2>2 DEF Settled
<1>5. LiveTypes'
  BY DEF LiveInv, LiveTypes
<1>6. QED
  BY <1>1, <1>3, <1>4, <1>5 DEF LiveInv

LEMMA RegStep == RegInv /\ [Next]_vars => RegInv'
<1> SUFFICES ASSUME RegInv, [Next]_vars PROVE RegInv'
  OBVIOUS
<1>1. prog' = prog
  BY DEF vars, Next, Liveness, Spilling, Allocate, FillCost, SpillBlock, SpillEnd, RegaSetup, RegaBlock, RegaShare,
         RunStart, RunBlock
<1>2. Selected'
  BY <1>1, SameProg DEF RegInv
<1>3. CASE Liveness
  <2>1. Visit \/ Repeat
    BY <1>3 DEF Liveness, LiveNext
  <2>2. pc = "live"
    BY <2>1 DEF Visit, Repeat
  <2>3. Selected /\ LiveInv
    BY <2>2 DEF RegInv
  <2>4. QED
    BY <1>2, <2>1, <2>3, VisitInv, RepeatInv DEF RegInv
<1>4. CASE Spilling
  <2>1. pc' \in {"spill", "rega"}
    BY <1>4 DEF Spilling, FillCost, SpillBlock, SpillEnd
  <2>2. QED
    BY <1>2, <2>1 DEF RegInv
<1>5. CASE Allocate
  <2>1. pc' \in {"assign", "run"}
    BY <1>5 DEF Allocate, RegaSetup, RegaBlock, RegaShare
  <2>2. QED
    BY <1>2, <2>1 DEF RegInv
<1>6. CASE RunStart \/ RunBlock
  <2>1. pc' = "run"
    BY <1>6 DEF RunStart, RunBlock
  <2>2. QED
    BY <1>2, <2>1 DEF RegInv
<1>7. CASE UNCHANGED vars
  <2>1. UNCHANGED <<n, chg, in, out, nlive, pc>>
    BY <1>7 DEF vars, liveVars
  <2>2. QED
    BY <1>1, <1>2, <2>1, LiveSame DEF RegInv
<1>8. QED
  BY <1>3, <1>4, <1>5, <1>6, <1>7 DEF Next

(* The state of the analysis is, in every state before the spiller begins, *)
(* the one the invariant describes.                                        *)
THEOREM LiveInvariance == Spec => []RegInv
  BY RegInit, RegStep, PTL DEF Spec

-----------------------------------------------------------------------------
LEMMA LiveBehindExact ==
  ASSUME Selected, LiveInv, pc = "done"
  PROVE  \A b \in Blk : Visited(b) /\ out[b] = LiveBehind(b)
<1>1. \A b \in Blk : Visited(b) /\ Settled(b)
  BY ValsFacts DEF LiveInv, Unvisited
<1>2. ASSUME NEW v \in Tmps, NEW b \in OutOf(v) PROVE v \in out[b]
  <2> DEFINE T == {c \in Blk : v \in out[c]}
  <2>1. ASSUME NEW c \in UsedNext(v) PROVE c \in T
    <3>1. PICK s \in Succ(pred, c) : v \in PhiOf(s, c) \/ (v \notin PhiDefs(s) /\ Exposed(s, 1, v))
      BY DEF UsedNext
    <3>2. c \in Blk /\ s \in Blk
      BY SuccFacts DEF UsedNext
    <3>3. LiveOn(c, s) \subseteq out[c]
      BY <1>1, <3>2 DEF Settled
    <3>4. CASE v \in PhiOf(s, c)
      BY <3>2, <3>3, <3>4 DEF LiveOn
    <3>5. CASE v \notin PhiDefs(s) /\ Exposed(s, 1, v)
      <4>1. v \in in[s]
        BY <1>1, <3>2, <3>5 DEF Visited, Alive, Vals
      <4>2. QED
        BY <4>1, <3>2, <3>3, <3>5 DEF LiveOn
    <3>6. QED
      BY <3>1, <3>4, <3>5
  <2>2. ASSUME NEW c \in Blk, NEW s \in Succ(pred, c), s \in Carry(v), s \in T PROVE c \in T
    <3>1. v \in in[s]
      BY <1>1, <2>2 DEF Visited, Alive, Carry
    <3>2. v \in LiveOn(c, s)
      BY <3>1, <2>2 DEF LiveOn, Carry
    <3>3. QED
      BY <1>1, <3>2 DEF Settled
  <2>3. OutOf(v) \subseteq T
    <3> HIDE DEF T
    <3>1. QED
      BY <2>1, <2>2, OutOfFacts
  <2>4. QED
    BY <2>3
<1>3. ASSUME NEW b \in Blk PROVE LiveBehind(b) \subseteq out[b]
  BY <1>1, <1>2 DEF LiveBehind, Visited
<1>4. QED
  BY <1>1, <1>3 DEF LiveInv

LEMMA LiveAtIs ==
  ASSUME Selected, NEW b \in Blk, out[b] = LiveBehind(b), NEW k \in 1 .. Len(ins[b]) + 1
  PROVE  LiveAt(OutRef, b, k) = Alive(b, out[b], k)
<1>1. \A v : Exposed(b, k, v) => v \in UNION {Uses(b, j) : j \in k .. Ends(b)}
  BY DEF Exposed
<1>2. \A v : Exposed(b, k, v) => v \in Vals
  <2> TAKE v
  <2>1. SUFFICES ASSUME Exposed(b, k, v) PROVE v \in Vals
    OBVIOUS
  <2>2. PICK j \in k .. Ends(b) : v \in Uses(b, j)
    BY <2>1 DEF Exposed
  <2>3. CASE j > Len(ins[b])
    BY <2>2, <2>3, BlockFacts DEF Uses
  <2>4. CASE ~ (j > Len(ins[b]))
    <3>1. j \in 1 .. Len(ins[b])
      BY <2>2, <2>4, BlockFacts DEF Ends
    <3>2. ins[b][j] \in Instr
      BY <3>1, BlockFacts
    <3>3. Use(ins[b][j]) \subseteq Vals
      BY <3>2, InsFacts
    <3>4. QED
      BY <2>2, <2>4, <3>3 DEF Uses
  <2>5. QED
    BY <2>3, <2>4
<1>3. \A v \in Tmps : <<v, b>> \in OutRef <=> b \in OutOf(v)
  BY DEF OutRef
<1>4. \A r \in RGlob : Passes(b, k, r) /\ r \in out[b]
  BY RGlobFacts DEF LiveBehind
<1>5. QED
  BY <1>1, <1>2, <1>3, <1>4 DEF LiveAt, Alive, LiveBehind

(* Liveness is exact: when the iteration of qbe_filllive ends, what is     *)
(* live into and out of each block is what the paths say, for any function *)
(* that was selected: any number of blocks, whatever loops, any number of  *)
(* phis in each block that is jumped to (Phis of module Registers).        *)
THEOREM LivenessIsExact == Spec => []LiveExact
<1>1. ASSUME RegInv PROVE LiveExact
  <2>1. SUFFICES ASSUME pc = "done", NEW b \in Blk
                 PROVE  /\ out[b] = RGlob \cup {v \in Tmps : <<v, b>> \in OutRef}
                        /\ in[b] = LiveAt(OutRef, b, 1)
    BY DEF LiveExact
  <2>2. Selected /\ LiveInv
    BY <1>1, <2>1 DEF RegInv
  <2>3. Visited(b) /\ out[b] = LiveBehind(b)
    BY <2>1, <2>2, LiveBehindExact
  <2>4. 1 \in 1 .. Len(ins[b]) + 1
    BY <2>2, BlockFacts
  <2>5. LiveAt(OutRef, b, 1) = Alive(b, out[b], 1)
    BY <2>2, <2>3, <2>4, LiveAtIs
  <2>6. \A v \in Tmps : <<v, b>> \in OutRef <=> b \in OutOf(v)
    BY DEF OutRef
  <2>7. QED
    BY <2>3, <2>5, <2>6 DEF Visited, LiveBehind
<1>2. RegInv => LiveExact
  BY <1>1
<1>3. QED
  BY <1>2, LiveInvariance, PTL

(* The pressure is exact: the number qbe_filllive leaves with a block is   *)
(* the most that is alive at once in it, the registers a call overwrites   *)
(* included, unless the block returns a value.                             *)
THEOREM PressureIsExact == Spec => []PressureExact
<1>1. ASSUME RegInv PROVE PressureExact
  <2> DEFINE M(b) == {Cardinality(LiveAt(OutRef, b, i)) : i \in 1 .. Ends(b)}
                     \cup {Cardinality(LiveAt(OutRef, b, i + 1) \ Defs(b, i)) + Cardinality(RSave) :
                             i \in {j \in DOMAIN ins[b] : IsCall(ins[b][j])}}
  <2>1. SUFFICES ASSUME pc = "done", NEW b \in Blk, jmp[b] # RetRegs
                 PROVE  nlive[b] = Max(M(b))
    BY DEF PressureExact
  <2>2. Selected /\ LiveInv
    BY <1>1, <2>1 DEF RegInv
  <2>3. Visited(b) /\ out[b] = LiveBehind(b)
    BY <2>1, <2>2, LiveBehindExact
  <2>4. Len(ins[b]) \in Nat /\ Ends(b) = Len(ins[b]) + 1 /\ DOMAIN ins[b] = 1 .. Len(ins[b])
    BY <2>2, BlockFacts DEF Ends
  <2>5. \A i \in 1 .. Len(ins[b]) + 1 : LiveAt(OutRef, b, i) = Alive(b, out[b], i)
    BY <2>2, <2>3, LiveAtIs
  <2>6. \A i \in 1 .. Len(ins[b]) : i + 1 \in 1 .. Len(ins[b]) + 1 /\ Defs(b, i) = Def(ins[b][i])
    BY <2>4 DEF Defs
  <2>7. M(b) = Pressure(b, out[b], 1)
    <3>1. {Cardinality(LiveAt(OutRef, b, i)) : i \in 1 .. Ends(b)}
          = {Cardinality(Alive(b, out[b], i)) : i \in 1 .. Len(ins[b]) + 1}
      BY <2>4, <2>5
    <3>2. \A i \in 1 .. Len(ins[b]) :
            LiveAt(OutRef, b, i + 1) \ Defs(b, i) = Alive(b, out[b], i + 1) \ Def(ins[b][i])
      BY <2>5, <2>6
    <3>3. {Cardinality(LiveAt(OutRef, b, i + 1) \ Defs(b, i)) + Cardinality(RSave) :
             i \in {j \in DOMAIN ins[b] : IsCall(ins[b][j])}}
          = {Cardinality(Alive(b, out[b], i + 1) \ Def(ins[b][i])) + Cardinality(RSave) :
               i \in {j \in 1 .. Len(ins[b]) : IsCall(ins[b][j])}}
      BY <2>4, <3>2
    <3>4. QED
      BY <3>1, <3>3 DEF Pressure
  <2>8. out[b] \in SUBSET Vals
    BY <2>2 DEF LiveInv, LiveTypes
  <2>9. Pressure(b, out[b], 1) \in SUBSET Int /\ IsMax(nlive[b], Pressure(b, out[b], 1))
    BY <2>1, <2>2, <2>3, <2>8, PressureFacts DEF Visited
  <2> HIDE DEF M
  <2>10. QED
    BY <2>7, <2>9, MaxIs
<1>2. RegInv => PressureExact
  BY <1>1
<1>3. QED
  BY <1>2, LiveInvariance, PTL

-----------------------------------------------------------------------------
(* Stack slots.                                                            *)

(* The locals are being given slots, or their allocation has failed.       *)
Selecting == phase \in {"isel", "dead"}

(* The end of the area that locals have slots in.                          *)
LocalsEnd == IF Selecting THEN fnslot ELSE locs

LenInv ==
  /\ \A t \in Wide : len[t] = 2 /\ align[t] = 2
  /\ \A t \in Temps \ Wide : len[t] = 1 /\ align[t] = 1

PhaseInv ==
  /\ Selecting => \A t \in Temps : ~Has(t)
  /\ phase = "spill" => fnslot = locs
  /\ phase = "done" => fnslot = locs + slot8 /\ slot8 % 4 = 0

LocalsInv ==
  \A t \in Locals : Has(t) =>
    /\ slot[t] + len[t] <= LocalsEnd
    /\ (LocalsEnd - slot[t]) % align[t] = 0
    /\ Selecting => align[t] \in {1, al \div 4, al \div 8}

TempsInv ==
  ~Selecting =>
    \A t \in Temps : Has(t) =>
      /\ slot[t] >= locs /\ slot[t] + len[t] <= locs + slot8
      /\ (slot[t] - locs) % align[t] = 0

CounterInv ==
  phase = "spill" => slot8 % 2 = 0 /\ slot4 <= slot8

IInv == /\ TypeOK /\ LenInv /\ PhaseInv /\ LocalsInv /\ TempsInv /\ CounterInv
        /\ OneHole /\ NoOverlap

-----------------------------------------------------------------------------
LEMMA UnitsFacts ==
  ASSUME TypeOK, NEW sz \in Nat
  PROVE  Units(sz) \in Nat /\ Units(sz) % (al \div 4) = 0
<1>1. CASE al = 4
  BY <1>1 DEF Units
<1>2. CASE al = 8
  BY <1>2 DEF Units
<1>3. CASE al = 16
  BY <1>3 DEF Units
<1>4. QED
  BY <1>1, <1>2, <1>3 DEF TypeOK

LEMMA TypeInit == SlotInit => TypeOK
  BY SlotAssumption DEF SlotInit, TypeOK, All, Unset

LEMMA TypeStep == TypeOK /\ [SlotNext]_slotVars => TypeOK'
<1> SUFFICES ASSUME TypeOK, [SlotNext]_slotVars PROVE TypeOK'
  OBVIOUS
<1> USE SlotAssumption DEF TypeOK, All
<1>1. ASSUME NEW t \in Locals, NEW sz \in Sizes, FastAlloc(t, sz) PROVE TypeOK'
  <2>1. sz \in Nat /\ Units(sz) \in Nat /\ al \div 4 \in {1, 2, 4}
    BY <1>1, UnitsFacts DEF FastAlloc
  <2>2. QED
    BY <1>1, <2>1 DEF FastAlloc
<1>2. ASSUME NEW t \in Locals, NEW sz \in Sizes, FastAllocFails(t, sz) PROVE TypeOK'
  BY <1>2 DEF FastAllocFails
<1>3. CASE NextPass
  BY <1>3 DEF NextPass
<1>4. CASE Spill
  BY <1>4 DEF Spill
<1>5. ASSUME NEW t \in Temps, SlotWide(t) PROVE TypeOK'
  BY <1>5 DEF SlotWide
<1>6. ASSUME NEW t \in Temps, SlotNarrow(t) PROVE TypeOK'
  BY <1>6 DEF SlotNarrow
<1>7. CASE FrameEnd
  BY <1>7 DEF FrameEnd
<1>8. CASE UNCHANGED slotVars
  BY <1>8 DEF slotVars
<1>9. QED
  BY <1>1, <1>2, <1>3, <1>4, <1>5, <1>6, <1>7, <1>8 DEF SlotNext

LEMMA IInvInit == SlotInit => IInv
<1> SUFFICES ASSUME SlotInit PROVE IInv
  OBVIOUS
<1>1. TypeOK
  BY TypeInit
<1>2. QED
  BY <1>1, SlotAssumption
  DEF SlotInit, IInv, LenInv, PhaseInv, LocalsInv, TempsInv, CounterInv, OneHole, NoOverlap,
      Has, Unset, All, Selecting

LEMMA FastAllocStep ==
  ASSUME IInv, TypeOK', NEW t \in Locals, NEW sz \in Sizes, FastAlloc(t, sz)
  PROVE  IInv'
<1> USE SlotAssumption DEF IInv, All, Has, Unset, TypeOK, Selecting
<1>1. /\ sz \in Nat /\ Units(sz) \in Nat /\ Units(sz) % (al \div 4) = 0
      /\ al \div 4 \in {1, 2, 4} /\ t \notin Temps
  BY UnitsFacts DEF FastAlloc
<1>2. /\ phase = "isel" /\ phase' = "isel" /\ al' = al /\ slot[t] = -1
      /\ fnslot' = fnslot + Units(sz) /\ slot'[t] = fnslot /\ len'[t] = Units(sz)
      /\ align'[t] = al \div 4
      /\ \A u \in All \ {t} : slot'[u] = slot[u] /\ len'[u] = len[u] /\ align'[u] = align[u]
  BY DEF FastAlloc
<1>3. LenInv' /\ PhaseInv' /\ TempsInv' /\ CounterInv' /\ OneHole'
  BY <1>1, <1>2 DEF LenInv, PhaseInv, TempsInv, CounterInv, OneHole
<1>4. LocalsInv'
  <2>1. ASSUME NEW u \in Locals, u # t, slot[u] # -1
        PROVE  /\ slot[u] + len[u] <= fnslot + Units(sz)
               /\ (fnslot + Units(sz) - slot[u]) % align[u] = 0
    <3>1. slot[u] + len[u] <= fnslot /\ (fnslot - slot[u]) % align[u] = 0
          /\ align[u] \in {1, al \div 4, al \div 8}
      BY <2>1, <1>2 DEF LocalsInv, LocalsEnd, Selecting
    <3> DEFINE x == fnslot - slot[u]
               y == Units(sz)
    <3>2. x \in Int /\ y \in Nat /\ fnslot + Units(sz) - slot[u] = x + y
      BY <1>1
    <3>3. x % align[u] = 0 /\ y % (al \div 4) = 0
      BY <3>1, <1>1
    <3> HIDE DEF x, y
    <3>4. (x + y) % align[u] = 0
      <4>1. CASE align[u] = 1
        BY <3>2, <4>1
      <4>2. CASE align[u] = 2
        <5>1. y % 2 = 0
          BY <3>1, <3>2, <3>3, <4>2
        <5>2. QED
          BY <3>2, <3>3, <4>2, <5>1
      <4>3. CASE align[u] = 4
        <5>1. y % 4 = 0
          BY <3>1, <3>2, <3>3, <4>3
        <5>2. QED
          BY <3>2, <3>3, <4>3, <5>1
      <4>4. QED
        BY <4>1, <4>2, <4>3, <2>1
    <3>5. QED
      BY <3>1, <3>2, <3>4, <1>1
  <2>2. /\ slot'[t] + len'[t] <= fnslot'
        /\ (fnslot' - slot'[t]) % align'[t] = 0
    BY <1>1, <1>2
  <2>3. QED
    BY <1>2, <2>1, <2>2 DEF LocalsInv, LocalsEnd, Selecting
<1>5. NoOverlap'
  <2>1. \A u \in All : u # t /\ slot[u] # -1 => u \in Locals /\ slot[u] + len[u] <= fnslot
    BY <1>2 DEF PhaseInv, LocalsInv, LocalsEnd, Selecting
  <2>2. QED
    BY <1>1, <1>2, <2>1 DEF NoOverlap
<1>6. QED
  BY <1>3, <1>4, <1>5

LEMMA PhaseStep ==
  ASSUME IInv, TypeOK',
         NextPass \/ Spill \/ (\E t \in Locals, sz \in Sizes : FastAllocFails(t, sz))
  PROVE  IInv'
<1> USE SlotAssumption DEF IInv, All, Has, Unset, TypeOK, Selecting
<1>1. CASE NextPass
  <2>1. LocalsInv'
    BY <1>1 DEF NextPass, LocalsInv, LocalsEnd, Selecting
  <2>2. QED
    BY <1>1, <2>1 DEF NextPass, LenInv, PhaseInv, TempsInv, CounterInv, OneHole, NoOverlap
<1>2. CASE Spill
  <2>1. LocalsInv'
    BY <1>2 DEF Spill, LocalsInv, LocalsEnd, Selecting
  <2>2. QED
    BY <1>2, <2>1 DEF Spill, LenInv, PhaseInv, TempsInv, CounterInv, OneHole, NoOverlap
<1>3. ASSUME NEW t \in Locals, NEW sz \in Sizes, FastAllocFails(t, sz) PROVE IInv'
  BY <1>3 DEF FastAllocFails, LocalsInv, LocalsEnd, Selecting, LenInv, PhaseInv, TempsInv, CounterInv, OneHole, NoOverlap
<1>4. QED
  BY <1>1, <1>2, <1>3

(* What a new slot leaves of the hole: nothing but slot4 below slot8.      *)
LEMMA SlotWideStep ==
  ASSUME IInv, TypeOK', NEW t \in Temps, SlotWide(t)
  PROVE  IInv'
<1> USE SlotAssumption DEF IInv, All, Has, Unset, TypeOK, Selecting
<1>1. /\ phase = "spill" /\ phase' = "spill" /\ t \in Wide /\ t \notin Locals
      /\ slot[t] = -1 /\ slot'[t] = locs + slot8 /\ len' = len /\ align' = align
      /\ locs' = locs /\ fnslot' = fnslot /\ al' = al /\ slot8' = slot8 + 2
      /\ slot4' = (IF slot4 = slot8 THEN slot8 + 2 ELSE slot4)
      /\ \A u \in All \ {t} : slot'[u] = slot[u]
      /\ slot8 \in Nat /\ slot4 \in Nat /\ locs \in Nat
  BY DEF SlotWide
<1>2. len[t] = 2 /\ align[t] = 2 /\ slot8 % 2 = 0 /\ slot4 <= slot8
  BY <1>1 DEF LenInv, CounterInv
<1>3. LenInv' /\ PhaseInv' /\ LocalsInv' /\ CounterInv'
  BY <1>1, <1>2 DEF LenInv, PhaseInv, LocalsInv, LocalsEnd, CounterInv
<1>4. \A u \in Temps : slot[u] # -1 => slot[u] >= locs /\ slot[u] + len[u] <= locs + slot8
  BY <1>1 DEF TempsInv
<1>5. TempsInv'
  BY <1>1, <1>2 DEF TempsInv
<1>6. NoOverlap'
  <2>1. \A u \in All : u # t /\ slot[u] # -1 => slot[u] + len[u] <= locs + slot8
    BY <1>1, <1>4 DEF LocalsInv, LocalsEnd
  <2>2. QED
    BY <1>1, <2>1 DEF NoOverlap
<1>7. OneHole'
  <2>1. \A m \in Int : Taken(m)' <=> Taken(m) \/ m \in slot8 .. slot8 + 1
    BY <1>1, <1>2 DEF Taken
  <2>2. \A m \in Int : Taken(m) => m < slot8
    BY <1>1, <1>4 DEF Taken
  <2>3. \A m \in 0 .. slot8 - 1 : ~Taken(m) <=> m = slot4
    BY <1>1 DEF OneHole
  <2>4. \A m \in 0 .. slot8' - 1 : ~Taken(m)' <=> m = slot4'
    BY <1>1, <1>2, <2>1, <2>2, <2>3
  <2>5. QED
    BY <1>1, <1>2, <2>4 DEF OneHole
<1>8. QED
  BY <1>3, <1>5, <1>6, <1>7

LEMMA SlotNarrowStep ==
  ASSUME IInv, TypeOK', NEW t \in Temps, SlotNarrow(t)
  PROVE  IInv'
<1> USE SlotAssumption DEF IInv, All, Has, Unset, TypeOK, Selecting
<1>1. /\ phase = "spill" /\ phase' = "spill" /\ t \in Temps \ Wide /\ t \notin Locals
      /\ slot[t] = -1 /\ slot'[t] = locs + slot4 /\ len' = len /\ align' = align
      /\ locs' = locs /\ fnslot' = fnslot /\ al' = al
      /\ \/ slot4 = slot8 /\ slot8' = slot8 + 2 /\ slot4' = slot4 + 1
         \/ slot4 # slot8 /\ slot8' = slot8 /\ slot4' = slot8
      /\ \A u \in All \ {t} : slot'[u] = slot[u]
      /\ slot8 \in Nat /\ slot4 \in Nat /\ locs \in Nat
  BY DEF SlotNarrow
<1>2. len[t] = 1 /\ align[t] = 1 /\ slot8 % 2 = 0 /\ slot4 <= slot8
  BY <1>1 DEF LenInv, CounterInv
<1>3. LenInv' /\ PhaseInv' /\ LocalsInv' /\ CounterInv'
  <2>1. LenInv' /\ PhaseInv'
    BY <1>1 DEF LenInv, PhaseInv
  <2>2. LocalsInv'
    BY <1>1 DEF LocalsInv, LocalsEnd
  <2>3. CounterInv'
    <3>1. CASE slot4 = slot8
      <4>1. slot8' = slot8 + 2 /\ slot4' = slot4 + 1
        BY <1>1, <3>1
      <4>2. slot8' % 2 = 0 /\ slot4' <= slot8'
        BY <1>1, <1>2, <3>1, <4>1
      <4>3. QED
        BY <1>1, <4>2 DEF CounterInv
    <3>2. CASE slot4 # slot8
      <4>1. slot8' = slot8 /\ slot4' = slot8
        BY <1>1, <3>2
      <4>2. slot8' % 2 = 0 /\ slot4' <= slot8'
        BY <1>1, <1>2, <4>1
      <4>3. QED
        BY <1>1, <4>2 DEF CounterInv
    <3>3. QED
      BY <3>1, <3>2
  <2>4. QED
    BY <2>1, <2>2, <2>3
<1>4. \A u \in Temps : slot[u] # -1 =>
         /\ slot[u] >= locs /\ slot[u] + len[u] <= locs + slot8
         /\ len[u] \in {1, 2}
  BY <1>1 DEF TempsInv, LenInv
<1>5. TempsInv'
  <2>1. (slot'[t] - locs) % align[t] = 0
    BY <1>1, <1>2
  <2>2. QED
    BY <1>1, <1>2, <2>1 DEF TempsInv
<1>6. \A m \in 0 .. slot8 - 1 : ~Taken(m) <=> m = slot4
  BY <1>1 DEF OneHole
<1>7. \A u \in Temps : slot[u] # -1 =>
         slot[u] + len[u] <= locs + slot4 \/ locs + slot4 + 1 <= slot[u]
  <2>1. ASSUME NEW u \in Temps, slot[u] # -1, slot4 \in slot[u] - locs .. slot[u] - locs + len[u] - 1
        PROVE  FALSE
    <3>1. Taken(slot4)
      BY <2>1 DEF Taken
    <3>2. slot4 \in 0 .. slot8 - 1
      BY <1>1, <1>4, <2>1
    <3>3. QED
      BY <1>6, <3>1, <3>2
  <2>2. QED
    BY <1>1, <1>4, <2>1
<1>8. NoOverlap'
  <2>1. \A u \in Locals : slot[u] # -1 => slot[u] + len[u] <= locs
    BY <1>1 DEF LocalsInv, LocalsEnd
  <2>2. QED
    BY <1>1, <1>2, <1>7, <2>1 DEF NoOverlap
<1>9. OneHole'
  <2>1. \A m \in Int : Taken(m)' <=> Taken(m) \/ m = slot4
    BY <1>1, <1>2 DEF Taken
  <2>2. \A m \in Int : Taken(m) => m < slot8
    BY <1>1, <1>4 DEF Taken
  <2>3. CASE slot4 = slot8
    <3>1. slot8' = slot8 + 2 /\ slot4' = slot4 + 1
      BY <1>1, <2>3
    <3>2. ASSUME NEW m \in 0 .. slot8' - 1 PROVE ~Taken(m)' <=> m = slot4'
      <4>1. m \in Int /\ (m \in 0 .. slot8 - 1 \/ m = slot8 \/ m = slot8 + 1)
        BY <1>1, <3>1
      <4>2. QED
        BY <1>1, <1>6, <2>1, <2>2, <2>3, <3>1, <4>1
    <3>3. QED
      BY <1>1, <2>3, <3>1, <3>2 DEF OneHole
  <2>4. CASE slot4 # slot8
    <3>1. slot8' = slot8 /\ slot4' = slot8
      BY <1>1, <2>4
    <3>2. \A m \in 0 .. slot8' - 1 : ~Taken(m)' <=> m = slot4'
      BY <1>1, <1>6, <2>1, <3>1
    <3>3. QED
      BY <1>1, <3>1, <3>2 DEF OneHole
  <2>5. QED
    BY <2>3, <2>4
<1>10. QED
  BY <1>3, <1>5, <1>8, <1>9

LEMMA FrameEndStep ==
  ASSUME IInv, TypeOK', FrameEnd
  PROVE  IInv'
<1> USE SlotAssumption DEF IInv, All, Has, Unset, TypeOK, Selecting
<1>1. /\ phase = "spill" /\ phase' = "done" /\ fnslot = locs /\ locs' = locs
      /\ slot' = slot /\ len' = len /\ align' = align
      /\ slot8' = slot8 + (slot8 % 4) /\ fnslot' = fnslot + slot8' /\ slot8 \in Nat
  BY DEF FrameEnd, PhaseInv
<1>2. slot8' % 4 = 0 /\ slot8' >= slot8
  BY <1>1 DEF CounterInv
<1>3. TempsInv'
  BY <1>1, <1>2 DEF TempsInv
<1>4. QED
  BY <1>1, <1>2, <1>3
  DEF LenInv, PhaseInv, LocalsInv, LocalsEnd, CounterInv, OneHole, NoOverlap

LEMMA IInvStep == IInv /\ [SlotNext]_slotVars => IInv'
<1> SUFFICES ASSUME IInv, [SlotNext]_slotVars PROVE IInv'
  OBVIOUS
<1>1. TypeOK'
  BY TypeStep DEF IInv
<1>2. CASE UNCHANGED slotVars
  BY <1>2 DEF slotVars, IInv, TypeOK, LenInv, PhaseInv, LocalsInv, LocalsEnd, TempsInv,
     CounterInv, OneHole, Taken, NoOverlap, Has, Selecting
<1>3. QED
  BY <1>1, <1>2, FastAllocStep, PhaseStep, SlotWideStep, SlotNarrowStep, FrameEndStep DEF SlotNext

LEMMA Invariance == SlotSpec => []IInv
  BY IInvInit, IInvStep, PTL DEF SlotSpec

-----------------------------------------------------------------------------
(* The packing of slot() in spill.c never gives two values the same unit,  *)
(* locals and spilled temporaries alike.                                   *)
THEOREM PackingCorrect == SlotSpec => []NoOverlap
<1>1. IInv => NoOverlap
  BY DEF IInv
<1>2. QED
  BY <1>1, Invariance, PTL

(* It also keeps the invariant its comment states: whatever the order of   *)
(* wide and narrow requests, only one unit below slot8 is unused, and      *)
(* slot4 is its number.                                                    *)
THEOREM HoleIsKnown == SlotSpec => []OneHole
<1>1. IInv => OneHole
  BY DEF IInv
<1>2. QED
  BY <1>1, Invariance, PTL

(* In units, and from the high end of the finished frame.                  *)
LEMMA DoneFacts ==
  ASSUME IInv, phase = "done", NEW t \in All, Has(t)
  PROVE  /\ fnslot \in Nat /\ slot[t] \in Nat /\ align[t] \in {1, 2, 4}
         /\ slot[t] + len[t] <= fnslot
         /\ (fnslot - slot[t]) % align[t] = 0
<1> USE SlotAssumption DEF IInv, All, Has, Unset, TypeOK, Selecting
<1>1. /\ fnslot = locs + slot8 /\ slot8 % 4 = 0 /\ slot8 \in Nat /\ locs \in Nat
      /\ slot[t] \in Nat /\ align[t] \in {1, 2, 4} /\ len[t] \in Nat
  BY DEF PhaseInv
<1>2. CASE t \in Locals
  <2>1. slot[t] + len[t] <= locs /\ (locs - slot[t]) % align[t] = 0
    BY <1>2 DEF LocalsInv, LocalsEnd
  <2> DEFINE x == locs - slot[t]
  <2>2. x \in Int /\ fnslot - slot[t] = x + slot8 /\ x % align[t] = 0
    BY <1>1, <2>1
  <2> HIDE DEF x
  <2>3. (x + slot8) % align[t] = 0
    <3>1. CASE align[t] = 1
      BY <1>1, <2>2, <3>1
    <3>2. CASE align[t] = 2
      BY <1>1, <2>2, <3>2
    <3>3. CASE align[t] = 4
      BY <1>1, <2>2, <3>3
    <3>4. QED
      BY <1>1, <3>1, <3>2, <3>3
  <2>4. QED
    BY <1>1, <2>1, <2>2, <2>3
<1>3. CASE t \in Temps
  <2>1. /\ slot[t] + len[t] <= locs + slot8 /\ (slot[t] - locs) % align[t] = 0
        /\ align[t] \in {1, 2}
    BY <1>3 DEF TempsInv, LenInv
  <2> DEFINE x == slot[t] - locs
  <2>2. x \in Int /\ fnslot - slot[t] = slot8 - x /\ x % align[t] = 0
    BY <1>1, <2>1
  <2> HIDE DEF x
  <2>3. (slot8 - x) % align[t] = 0
    <3>1. CASE align[t] = 1
      BY <1>1, <2>2, <3>1
    <3>2. CASE align[t] = 2
      BY <1>1, <2>2, <3>2
    <3>3. QED
      BY <2>1, <3>1, <3>2
  <2>4. QED
    BY <1>1, <2>1, <2>2, <2>3
<1>4. QED
  BY <1>2, <1>3

(* Every value of the finished frame has the alignment it asked for, and   *)
(* lies inside the frame: the offsets of slot() in amd64/emit.c, for what  *)
(* isel.c and spill.c allocated.                                           *)
THEOREM FrameCorrect == SlotSpec => []Framed
<1>1. ASSUME IInv, phase = "done", NEW t \in All, Has(t)
      PROVE  SlotOffset(slot[t]) % (4 * align[t]) = 0
  <2> DEFINE x == fnslot - slot[t]
  <2>1. x \in Int /\ x % align[t] = 0 /\ align[t] \in {1, 2, 4}
    BY <1>1, DoneFacts
  <2>2. SlotOffset(slot[t]) = -SaveArea - 4 * x /\ SaveArea \in {0, 176}
    BY SlotAssumption DEF SlotOffset, SaveArea
  <2> HIDE DEF x
  <2>3. CASE align[t] = 1
    BY <2>1, <2>2, <2>3
  <2>4. CASE align[t] = 2
    BY <2>1, <2>2, <2>4
  <2>5. CASE align[t] = 4
    BY <2>1, <2>2, <2>5
  <2>6. QED
    BY <2>1, <2>3, <2>4, <2>5
<1>2. ASSUME IInv, phase = "done", NEW t \in All, Has(t)
      PROVE  /\ SlotOffset(slot[t]) >= -framesz
             /\ SlotOffset(slot[t]) + 4 * len[t] <= -SaveArea
  <2>1. SaveArea \in {0, 176} /\ 4 * ((fnslot + 3) \div 4) >= fnslot /\ len[t] \in Nat
    BY <1>1, <1>2, DoneFacts, SlotAssumption DEF SaveArea, IInv, TypeOK
  <2>2. QED
    BY <1>2, <2>1, DoneFacts DEF SlotOffset, framesz
<1>3. IInv => Framed
  BY <1>1, <1>2 DEF Framed
<1>4. QED
  BY <1>3, Invariance, PTL

=============================================================================
