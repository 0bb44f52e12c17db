---------------------------- MODULE BytesProofs ----------------------------
(***************************************************************************)
(* Proofs about the bytes the builder writes.  StoreBytes: for an object   *)
(* of any size the stores fill it exactly and are aligned.  StaticData:    *)
(* for initialisers of any number and any bytes the parser accepts the     *)
(* items, and the object file has the host's bytes.                        *)
(***************************************************************************)
EXTENDS StoreBytes, StaticData, WellFoundedInduction, SequenceTheorems, TLAPS

-----------------------------------------------------------------------------
(* Stores.                                                                 *)
Written == size - remaining

(* How far the stores have come, and the address they have come to.        *)
Progress ==
  /\ spc \in {"store", "done"} /\ zeros \in BOOLEAN /\ first \in BOOLEAN
  /\ size \in Nat /\ remaining \in 0 .. size
  /\ addr \in Nat /\ stored \in {0, 1, 2, 4, 8}
  /\ spc = "store" => (IF first THEN Written = 0 ELSE addr + stored = Written)
  /\ spc = "done" => remaining = 0

(* As long as wide stores fit, they have come to a multiple of their size. *)
Aligned ==
  \/ Written % 8 = 0
  \/ Written % 4 = 0 /\ remaining < 4
  \/ Written % 2 = 0 /\ remaining < 2
  \/ remaining = 0

(* The stores so far are well placed and lie below the address come to.    *)
Placed ==
  \A w \in writes :
    /\ w.at \in Nat /\ w.width \in Nat \ {0} /\ w.at = w.from
    /\ w.at + w.width <= Written
    /\ w.width <= 8 => w.at % w.width = 0

Disjoint == \A v, w \in writes : Bytes(v) \cap Bytes(w) # {} => v = w
Covered == UNION {Bytes(w) : w \in writes} = 0 .. Written - 1

IInv == Progress /\ Aligned /\ Placed /\ Disjoint /\ Covered

-----------------------------------------------------------------------------
(* A piece fits, and starts at a multiple of its size.                     *)
LEMMA WidthFits ==
  ASSUME NEW p \in Nat, NEW r \in Nat, r > 0,
         \/ p % 8 = 0
         \/ p % 4 = 0 /\ r < 4
         \/ p % 2 = 0 /\ r < 2
  PROVE  /\ Width(r) \in {1, 2, 4, 8} /\ Width(r) <= r
         /\ p % Width(r) = 0
         /\ \/ (p + Width(r)) % 8 = 0
            \/ (p + Width(r)) % 4 = 0 /\ r - Width(r) < 4
            \/ (p + Width(r)) % 2 = 0 /\ r - Width(r) < 2
            \/ r - Width(r) = 0
  BY SMT DEF Width

(* The invariant holds before the first store.                             *)
LEMMA InitHolds == ASSUME StoreInit PROVE IInv
  <1>1. Progress /\ Aligned BY SizeAssumption, SMT DEF StoreInit, Progress, Aligned, Written
  <1>2. Placed /\ Disjoint BY DEF StoreInit, Placed, Disjoint
  <1>3. Covered
    <2>1. UNION {Bytes(w) : w \in writes} = {} BY DEF StoreInit
    <2>2. 0 .. Written - 1 = {} BY SizeAssumption, SMT DEF StoreInit, Written
    <2> QED BY <2>1, <2>2 DEF Covered
  <1> QED BY <1>1, <1>2, <1>3 DEF IInv

(* One more store at the address come to keeps the picture.                *)
LEMMA OneMore ==
  ASSUME IInv, NEW w \in Nat \ {0}, Written' = Written + w,
         writes' = writes \cup {[at |-> Written, width |-> w, from |-> Written]},
         w <= 8 => Written % w = 0
  PROVE  Placed' /\ Disjoint' /\ Covered'
  <1>1. Written \in Nat BY SMT DEF IInv, Progress, Written
  <1> DEFINE new == [at |-> Written, width |-> w, from |-> Written]
  <1>2. new.at = Written /\ new.width = w /\ new.from = Written OBVIOUS
  <1> HIDE DEF new
  <1>0. writes' = writes \cup {new} BY DEF new
  <1>3. Bytes(new) = Written .. Written + w - 1 BY <1>2 DEF Bytes
  <1>4. \A v \in writes : v.at \in Nat /\ v.width \in Nat \ {0} /\ v.at + v.width <= Written
    BY DEF IInv, Placed
  <1>5. Placed'
    <2> SUFFICES ASSUME NEW v \in writes'
                 PROVE  /\ v.at \in Nat /\ v.width \in Nat \ {0} /\ v.at = v.from
                        /\ v.at + v.width <= Written'
                        /\ v.width <= 8 => v.at % v.width = 0
      BY DEF Placed
    <2>1. CASE v \in writes
      <3>1. v.at = v.from /\ (v.width <= 8 => v.at % v.width = 0)
        BY <2>1 DEF IInv, Placed
      <3> QED BY <2>1, <3>1, <1>1, <1>4, SMT
    <2>2. CASE v = new BY <2>2, <1>1, <1>2, SMT
    <2> QED BY <1>0, <2>1, <2>2
  <1>6. \A v \in writes : Bytes(v) \cap Bytes(new) = {}
    <2> TAKE v \in writes
    <2>1. Bytes(v) = v.at .. v.at + v.width - 1
      BY DEF Bytes
    <2> QED
      BY <1>1, <1>3, <1>4, <2>1, SMT
  <1>7. Disjoint' BY <1>0, <1>6 DEF Disjoint, IInv
  <1>8. Covered'
    <2>1. UNION {Bytes(v) : v \in writes'} = (UNION {Bytes(v) : v \in writes}) \cup Bytes(new)
      BY <1>0
    <2>2. 0 .. Written' - 1 = (0 .. Written - 1) \cup (Written .. Written + w - 1)
      BY <1>1, SMT
    <2> QED BY <2>1, <2>2, <1>3 DEF Covered, IInv
  <1> QED BY <1>5, <1>7, <1>8

(* The call of memset writes the whole object at once.                     *)
LEMMA MemsetKeeps == ASSUME IInv, Memset PROVE IInv'
  <1>1. /\ size \in Nat /\ size > 8 /\ size' = size /\ remaining' = 0 /\ spc' = "done"
        /\ remaining \in 0 .. size
    BY SMT DEF IInv, Progress, Memset, MemsetAbove
  <1>2. PICK w : w = [at |-> 0, width |-> size, from |-> 0] /\ writes' = {w}
    BY DEF Memset
  <1>3. w.at = 0 /\ w.width = size /\ w.from = 0
    BY <1>2
  <1>4. Written' = size
    BY <1>1, SMT DEF Written
  <1>5. Progress'
    BY <1>1, SMT DEF IInv, Progress, Memset
  <1>6. Aligned'
    BY <1>1 DEF Aligned
  <1>7. Placed'
    BY <1>1, <1>2, <1>3, <1>4, SMT DEF Placed
  <1>8. Disjoint'
    BY <1>2 DEF Disjoint
  <1>9. Covered'
    <2>1. Bytes(w) = 0 .. size - 1
      BY <1>1, <1>3, SMT DEF Bytes
    <2>2. UNION {Bytes(v) : v \in writes'} = Bytes(w)
      BY <1>2
    <2> QED
      BY <2>1, <2>2, <1>4 DEF Covered
  <1> QED
    BY <1>5, <1>6, <1>7, <1>8, <1>9 DEF IInv

(* A round of the loop keeps the invariant: the name of n holds the        *)
(* address of the last piece, so the sum is the first byte not written.    *)
LEMMA ChunkKeeps == ASSUME IInv, StoreChunk PROVE IInv'
  <1>1. /\ remaining \in Nat /\ remaining > 0 /\ remaining <= size /\ size \in Nat /\ Written \in Nat
        /\ size' = size /\ remaining' = remaining - Width(remaining)
    BY SMT DEF IInv, Progress, StoreChunk, Written
  <1>2. /\ Width(remaining) \in {1, 2, 4, 8} /\ Width(remaining) <= remaining
        /\ Written % Width(remaining) = 0
        /\ Aligned'
    <2>1. \/ Written % 8 = 0
          \/ Written % 4 = 0 /\ remaining < 4
          \/ Written % 2 = 0 /\ remaining < 2
      BY <1>1, SMT DEF IInv, Aligned
    <2>2. Written' = Written + Width(remaining)
      BY <1>1, SMT DEF Written, Width
    <2> QED BY <1>1, <2>1, <2>2, WidthFits DEF Aligned
  <1>3. Address = Written
    BY SMT DEF IInv, Progress, StoreChunk, Address
  <1>5. Written' = Written + Width(remaining)
    BY <1>1, <1>2, SMT DEF Written
  <1>4. Progress'
    <2>1. /\ spc = "store" /\ spc' = spc /\ zeros' = zeros /\ first' = FALSE
          /\ addr' = Written /\ stored' = Width(remaining)
      BY <1>3 DEF StoreChunk
    <2>2. remaining' \in 0 .. size /\ addr' + stored' = Written'
      BY <1>1, <1>2, <1>5, <2>1, SMT
    <2> QED
      BY <1>1, <1>2, <2>1, <2>2 DEF IInv, Progress
  <1>6. writes' = writes \cup {[at |-> Written, width |-> Width(remaining), from |-> Written]}
    BY <1>3 DEF StoreChunk, Written
  <1>7. Placed' /\ Disjoint' /\ Covered'
    <2>1. Width(remaining) \in Nat \ {0}
      BY <1>2
    <2> QED
      BY <1>2, <1>5, <1>6, <2>1, OneMore
  <1> QED BY <1>2, <1>4, <1>7 DEF IInv
(* The invariant is inductive.                                             *)
LEMMA StepKeeps == IInv /\ [StoreNext]_storeVars => IInv'
  <1> SUFFICES ASSUME IInv, [StoreNext]_storeVars PROVE IInv'
    OBVIOUS
  <1>1. CASE Memset
    BY <1>1, MemsetKeeps
  <1>2. CASE StoreChunk
    BY <1>2, ChunkKeeps
  <1>3. CASE StoreEnd
    <2>1. UNCHANGED <<size, remaining, writes>>
      BY <1>3 DEF StoreEnd
    <2>2. Progress'
      BY <1>3, SMT DEF StoreEnd, IInv, Progress, Written
    <2>3. Written' = Written
      BY <2>1 DEF Written
    <2>4. Aligned' /\ Placed' /\ Disjoint' /\ Covered'
      BY <2>1, <2>3 DEF IInv, Aligned, Placed, Disjoint, Covered, Bytes
    <2> QED
      BY <2>2, <2>4 DEF IInv
  <1>4. CASE UNCHANGED storeVars
    <2>1. UNCHANGED <<size, remaining, writes>> /\ Written' = Written
      BY <1>4 DEF storeVars, Written
    <2>2. Progress'
      BY <1>4, <2>1 DEF storeVars, IInv, Progress
    <2>3. Aligned' /\ Placed' /\ Disjoint' /\ Covered'
      BY <2>1 DEF IInv, Aligned, Placed, Disjoint, Covered, Bytes
    <2> QED
      BY <2>2, <2>3 DEF IInv
  <1> QED
    BY <1>1, <1>2, <1>3, <1>4 DEF StoreNext

(* The inductive invariant holds in every state of every run.              *)
THEOREM Invariant == StoreSpec => []IInv
  <1>1. StoreInit => IInv
    BY InitHolds
  <1> QED
    BY <1>1, StepKeeps, PTL DEF StoreSpec

(* Of an object of any size every byte is stored exactly once, in its      *)
(* place, and no other byte (the loops of qbe_compile_node over the pieces *)
(* of a store).                                                            *)
THEOREM StoresWhole == StoreSpec => []WholeStored
  <1>1. IInv => WholeStored
    <2> SUFFICES ASSUME IInv PROVE WholeStored
      OBVIOUS
    <2>1. (\A w \in writes : w.at = w.from) /\ Disjoint
      BY DEF IInv, Placed
    <2>2. spc = "done" => Written = size
      BY SMT DEF IInv, Progress, Written
    <2> QED
      BY <2>1, <2>2 DEF WholeStored, Disjoint, Covered, IInv
  <1> QED
    BY <1>1, Invariant, PTL

(* No piece of an aligned object of any size is stored unaligned.          *)
THEOREM AlwaysAligned == StoreSpec => []StoresAligned
  <1>1. IInv => StoresAligned
    BY DEF IInv, Placed, StoresAligned
  <1> QED
    BY <1>1, Invariant, PTL

-----------------------------------------------------------------------------
(* Data.  The records of initialisers and items.                           *)
InitRec == [ref : BOOLEAN, data : Seq(Int)]
ItemRec == [type : {"l", "w", "h", "b", "z", ","}, bytes : Seq(Int)]

(* Where the bytes of each initialiser end, and what the variable is.      *)
Stops(s) ==
  /\ s \in [0 .. Len(inits) -> Nat] /\ s[0] = 0
  /\ \A j \in 1 .. Len(inits) : s[j] = s[j - 1] + Len(inits[j].data)
Stop == CHOOSE s : Stops(s)
Whole == Content \o Zeros(dsize - Len(Content))

-----------------------------------------------------------------------------
(* Induction over the numbers, for sets.                                   *)
LEMMA Least ==
  ASSUME NEW T \in SUBSET Nat, T # {}
  PROVE  \E z \in T : \A y \in T : z <= y
<1> DEFINE R == OpToRel(<, Nat)
<1>1. IsWellFoundedOn(R, Nat)
  BY NatLessThanWellFounded
<1>2. \A z, y \in Nat : <<z, y>> \in R <=> z < y
  BY DEF OpToRel
<1> HIDE DEF R
<1>3. PICK z \in T : \A y \in T : ~ (<<y, z>> \in R)
  BY <1>1, WFMin
<1>4. \A y \in T : z \in Nat /\ y \in Nat /\ ~ (y < z)
  BY <1>2, <1>3
<1>5. QED
  BY <1>4

LEMMA SetInduction ==
  ASSUME NEW S, 0 \in S, \A n \in Nat : n \in S => n + 1 \in S
  PROVE  Nat \subseteq S
<1> DEFINE T == Nat \ S
<1>1. SUFFICES ASSUME T # {} PROVE FALSE
  OBVIOUS
<1>2. PICK z \in T : \A y \in T : z <= y
  BY <1>1, Least
<1>3. z \in Nat /\ z # 0
  BY <1>2
<1>4. z - 1 \in Nat /\ z - 1 \notin T
  BY <1>2, <1>3
<1>5. z - 1 + 1 \in S
  BY <1>4
<1>6. QED
  BY <1>5, <1>3

(* A recursion over the initialisers has a solution.                       *)
StepsOn(n, V) == [1 .. n -> [V -> V]]
Solves(e, n, V, v0, S) ==
  e \in [0 .. n -> V] /\ e[0] = v0 /\ \A i \in 1 .. n : e[i] = S[i][e[i - 1]]

LEMMA Recursion ==
  ASSUME NEW n \in Nat, NEW V, NEW v0 \in V, NEW S \in StepsOn(n, V)
  PROVE  \E e : Solves(e, n, V, v0, S)
<1>0. S \in [1 .. n -> [V -> V]]
  BY DEF StepsOn
<1> DEFINE From(e, m) == e[0] = v0 /\ \A i \in 1 .. n : i <= m => e[i] = S[i][e[i - 1]]
           G == {m \in Nat : \E e \in [Nat -> V] : From(e, m)}
<1>1. 0 \in G
  <2>1. [i \in Nat |-> v0] \in [Nat -> V] /\ From([i \in Nat |-> v0], 0)
    OBVIOUS
  <2>2. QED
    BY <2>1
<1>2. ASSUME NEW m \in Nat, m \in G
      PROVE  m + 1 \in G
  <2>1. PICK e \in [Nat -> V] : From(e, m)
    BY <1>2
  <2>2. CASE m + 1 > n
    <3>1. From(e, m + 1)
      BY <2>1, <2>2
    <3> HIDE DEF From
    <3>2. m + 1 \in Nat /\ \E h \in [Nat -> V] : From(h, m + 1)
      <4>1. m + 1 \in Nat
        OBVIOUS
      <4>2. QED
        BY <3>1, <4>1, Zenon
    <3>3. QED
      BY <3>2, Zenon
  <2>3. CASE m + 1 <= n
    <3> DEFINE v == S[m + 1][e[m]]
               g == [e EXCEPT ![m + 1] = v]
    <3>1. v \in V
      <4>1. m + 1 \in 1 .. n
        BY <2>3
      <4>2. S[m + 1] \in [V -> V]
        BY <1>0, <4>1
      <4>3. QED
        BY <4>2
    <3> HIDE DEF v
    <3>2. g \in [Nat -> V] /\ g[m + 1] = v /\ \A i \in Nat : i # m + 1 => g[i] = e[i]
      BY <3>1
    <3> HIDE DEF g
    <3>3. ASSUME NEW i \in 1 .. n, i <= m + 1
          PROVE  g[i] = S[i][g[i - 1]]
      <4>1. CASE i = m + 1
        <5>1. i - 1 = m /\ m # m + 1
          BY <4>1
        <5>2. g[i - 1] = e[m] /\ g[i] = v
          BY <3>2, <4>1, <5>1
        <5>3. QED
          BY <4>1, <5>1, <5>2 DEF v
      <4>2. CASE i # m + 1
        <5>1. i - 1 \in Nat /\ i - 1 # m + 1 /\ i <= m /\ i \in Nat
          BY <3>3, <4>2
        <5>2. e[i] = S[i][e[i - 1]]
          BY <2>1, <5>1
        <5>3. g[i] = e[i] /\ g[i - 1] = e[i - 1]
          BY <3>2, <4>2, <5>1
        <5>4. QED
          BY <5>2, <5>3
      <4>3. QED
        BY <4>1, <4>2
    <3>4. From(g, m + 1)
      BY <2>1, <3>2, <3>3
    <3> HIDE DEF From
    <3>5. m + 1 \in Nat
      OBVIOUS
    <3>6. QED
      BY <3>2, <3>4, <3>5, Zenon
  <2> HIDE DEF G
  <2>4. QED
    BY <2>2, <2>3
<1>3. n \in G
  <2> HIDE DEF G
  <2>1. QED
    BY <1>1, <1>2, SetInduction
<1>4. PICK e \in [Nat -> V] : From(e, n)
  BY <1>3
<1> DEFINE h == [i \in 0 .. n |-> e[i]]
<1>5. h \in [0 .. n -> V] /\ h[0] = v0
  BY <1>4
<1>6. ASSUME NEW i \in 1 .. n PROVE h[i] = S[i][h[i - 1]]
  <2>1. i \in 0 .. n /\ i - 1 \in 0 .. n
    OBVIOUS
  <2>2. h[i] = e[i] /\ h[i - 1] = e[i - 1]
    BY <2>1
  <2>3. e[i] = S[i][e[i - 1]]
    BY <1>4
  <2> HIDE DEF h
  <2>4. QED
    BY <2>2, <2>3
<1> HIDE DEF h
<1>7. QED
  BY <1>5, <1>6 DEF Solves

(* Sequences put behind each other.                                        *)
LEMMA Joined ==
  ASSUME NEW u \in Seq(Int), NEW v \in Seq(Int)
  PROVE  /\ u \o v \in Seq(Int) /\ Len(u \o v) = Len(u) + Len(v)
         /\ \A x \in 1 .. Len(u) : (u \o v)[x] = u[x]
         /\ \A x \in 1 .. Len(v) : (u \o v)[Len(u) + x] = v[x]
<1>1. /\ u \o v \in Seq(Int) /\ Len(u \o v) = Len(u) + Len(v)
      /\ \A x \in 1 .. Len(u) + Len(v) : (u \o v)[x] = IF x <= Len(u) THEN u[x] ELSE v[x - Len(u)]
  BY ConcatProperties, Zenon
<1>2. PICK m, n : m = Len(u) /\ n = Len(v)
  OBVIOUS
<1>3. m \in Nat /\ n \in Nat
  BY <1>2
<1>4. \A x \in 1 .. m : x \in 1 .. m + n /\ x <= m
  BY <1>3
<1>5. \A x \in 1 .. n : m + x \in 1 .. m + n /\ ~ (m + x <= m) /\ m + x - m = x
  BY <1>3
<1>6. \A x \in 1 .. m : (u \o v)[x] = u[x]
  BY <1>1, <1>2, <1>4
<1>7. ASSUME NEW x \in 1 .. n PROVE (u \o v)[m + x] = v[x]
  <2>1. PICK y : y = m + x
    OBVIOUS
  <2>2. y \in 1 .. m + n /\ ~ (y <= m) /\ y - m = x
    BY <1>3, <2>1
  <2>3. (u \o v)[y] = v[y - m]
    BY <1>1, <1>2, <2>2
  <2>4. QED
    BY <2>1, <2>2, <2>3
<1>8. QED
  BY <1>1, <1>2, <1>6, <1>7

LEMMA Accumulated ==
  ASSUME NEW n \in Nat, NEW ss \in [1 .. n -> Seq(Int)]
  PROVE  \E e \in [0 .. n -> Seq(Int)] : e[0] = <<>> /\ \A i \in 1 .. n : e[i] = e[i - 1] \o ss[i]
<1> DEFINE S == [i \in 1 .. n |-> [v \in Seq(Int) |-> v \o ss[i]]]
<1>1. S \in [1 .. n -> [Seq(Int) -> Seq(Int)]]
  OBVIOUS
<1>2. \A i \in 1 .. n, v \in Seq(Int) : S[i][v] = v \o ss[i]
  OBVIOUS
<1>3. <<>> \in Seq(Int)
  OBVIOUS
<1> HIDE DEF S
<1>4. PICK e \in [0 .. n -> Seq(Int)] : e[0] = <<>> /\ \A i \in 1 .. n : e[i] = S[i][e[i - 1]]
  <2>1. PICK v0 : v0 = <<>>
    OBVIOUS
  <2>2. S \in StepsOn(n, Seq(Int)) /\ v0 \in Seq(Int)
    BY <1>1, <1>3, <2>1 DEF StepsOn
  <2>3. PICK e : Solves(e, n, Seq(Int), v0, S)
    BY <2>2, Recursion, Zenon
  <2>4. QED
    BY <2>1, <2>3, Zenon DEF Solves
<1>5. \A i \in 1 .. n : i - 1 \in 0 .. n
  OBVIOUS
<1>6. \A i \in 1 .. n : e[i] = e[i - 1] \o ss[i]
  BY <1>2, <1>4, <1>5
<1>7. QED
  BY <1>4, <1>6

LEMMA Flattened ==
  ASSUME NEW n \in Nat, NEW ss \in Seq(Seq(Int)), Len(ss) = n,
         NEW s \in [0 .. n -> Nat], s[0] = 0,
         \A j \in 1 .. n : s[j] = s[j - 1] + Len(ss[j])
  PROVE  /\ FlattenSeq(ss) \in Seq(Int) /\ Len(FlattenSeq(ss)) = s[n]
         /\ \A j \in 1 .. n : \A i \in 1 .. Len(ss[j]) :
              /\ s[j - 1] + i \in 1 .. s[n]
              /\ FlattenSeq(ss)[s[j - 1] + i] = ss[j][i]
<1>1. CASE n = 0
  BY <1>1 DEF FlattenSeq
<1>2. CASE n # 0
  <2> DEFINE Step(f) == [i \in 1 .. n |-> IF i = 1 THEN ss[i] ELSE f[i - 1] \o ss[i]]
  <2>1. PICK f : f = CHOOSE h : h = Step(h)
    OBVIOUS
  <2>2. FlattenSeq(ss) = f[n]
    BY <1>2, <2>1, Zenon DEF FlattenSeq
  <2>3. f = Step(f)
    <3>1. ss \in [1 .. n -> Seq(Int)]
      OBVIOUS
    <3>2. PICK e \in [0 .. n -> Seq(Int)] : e[0] = <<>> /\ \A i \in 1 .. n : e[i] = e[i - 1] \o ss[i]
      BY <3>1, Accumulated, Zenon
    <3>7. PICK g : g = [i \in 1 .. n |-> e[i]]
      OBVIOUS
    <3>8. \A i \in 1 .. n : g[i] = IF i = 1 THEN ss[i] ELSE g[i - 1] \o ss[i]
      <4>1. SUFFICES ASSUME NEW i \in 1 .. n PROVE g[i] = IF i = 1 THEN ss[i] ELSE g[i - 1] \o ss[i]
        OBVIOUS
      <4>2. CASE i = 1
        <5>0. g[i] = e[i] /\ i - 1 = 0
          BY <3>7, <4>2
        <5>1. g[i] = e[i] /\ e[i] = e[i - 1] \o ss[i] /\ i - 1 = 0
          BY <3>2, <5>0
        <5>2. e[i - 1] = <<>>
          BY <3>2, <5>1
        <5>3. ss[i] \in Seq(Int) /\ <<>> \o ss[i] = ss[i]
          OBVIOUS
        <5>4. QED
          BY <4>2, <5>1, <5>2, <5>3
      <4>3. CASE i # 1
        <5>1. i - 1 \in 1 .. n
          BY <4>3
        <5>2. QED
          BY <3>2, <3>7, <4>3, <5>1
      <4>4. QED
        BY <4>2, <4>3
    <3>9. g = Step(g)
      BY <3>7, <3>8, Zenon
    <3>10. QED
      BY <2>1, <3>9, Zenon
  <2>4. \A i \in 1 .. n : f[i] = IF i = 1 THEN ss[i] ELSE f[i - 1] \o ss[i]
    BY <2>3
  <2> DEFINE At(i) == /\ f[i] \in Seq(Int) /\ Len(f[i]) = s[i]
                      /\ \A j \in 1 .. i : \A x \in 1 .. Len(ss[j]) :
                           s[j - 1] + x \in 1 .. s[i] /\ f[i][s[j - 1] + x] = ss[j][x]
             G == {m \in Nat : m + 1 <= n => At(m + 1)}
  <2>5. 0 \in G
    <3>1. 1 \in 1 .. n /\ f[1] = ss[1] /\ s[1] = Len(ss[1]) /\ \A j \in 1 .. 1 : j = 1
      BY <1>2, <2>4
    <3>2. ss[1] \in Seq(Int)
      BY <3>1
    <3>3. At(1)
      BY <3>1, <3>2
    <3> HIDE DEF At
    <3>4. QED
      BY <3>3
  <2>6. ASSUME NEW m \in Nat, m \in G
        PROVE  m + 1 \in G
    <3>1. SUFFICES ASSUME m + 2 <= n PROVE At(m + 2)
      <4> HIDE DEF At
      <4>1. m + 1 + 1 = m + 2
        OBVIOUS
      <4>2. QED
        BY <3>1, <4>1
    <3>2. PICK p, i : p = m + 1 /\ i = m + 2
      OBVIOUS
    <3>3. p \in 1 .. n /\ i \in 1 .. n /\ i # 1 /\ i - 1 = p
      BY <3>1, <3>2
    <3>31. \A j \in 1 .. i : j \in 1 .. p \/ j = i
      BY <3>3
    <3>4. At(p)
      <4> HIDE DEF At
      <4>1. QED
        BY <2>6, <3>2, <3>3
    <3>41. PICK u, v : u = f[p] /\ v = ss[i]
      OBVIOUS
    <3>42. u \in Seq(Int) /\ v \in Seq(Int) /\ Len(u) = s[p] /\ s[p] \in Nat /\ s[i] = s[p] + Len(v)
      BY <3>3, <3>4, <3>41
    <3>421. Len(v) \in Nat /\ Len(u) \in Nat
      BY <3>42
    <3>43. f[i] = u \o v
      BY <2>4, <3>3, <3>41
    <3>5. /\ u \o v \in Seq(Int) /\ Len(u \o v) = Len(u) + Len(v)
          /\ \A x \in 1 .. Len(u) : (u \o v)[x] = u[x]
          /\ \A x \in 1 .. Len(v) : (u \o v)[Len(u) + x] = v[x]
      BY <3>42, Joined, Zenon
    <3>6. f[i] \in Seq(Int) /\ Len(f[i]) = s[i]
      BY <3>42, <3>43, <3>5
    <3>7. ASSUME NEW j \in 1 .. p, NEW x \in 1 .. Len(ss[j])
          PROVE  s[j - 1] + x \in 1 .. s[i] /\ f[i][s[j - 1] + x] = ss[j][x]
      <4>1. PICK y : y = s[j - 1] + x
        OBVIOUS
      <4>2. y \in 1 .. s[p] /\ u[y] = ss[j][x]
        BY <3>4, <3>41, <4>1
      <4>3. (u \o v)[y] = u[y]
        BY <3>42, <3>5, <4>2
      <4>4. y \in 1 .. s[i]
        <5>1. PICK a, c : a = s[p] /\ c = Len(v)
          OBVIOUS
        <5>2. a \in Nat /\ c \in Nat /\ s[i] = a + c /\ y \in 1 .. a
          BY <3>42, <3>421, <4>2, <5>1
        <5>3. y \in 1 .. a + c
          BY <5>2
        <5>4. QED
          BY <5>2, <5>3
      <4>5. QED
        BY <3>43, <4>1, <4>2, <4>3, <4>4
    <3>8. ASSUME NEW x \in 1 .. Len(ss[i])
          PROVE  s[i - 1] + x \in 1 .. s[i] /\ f[i][s[i - 1] + x] = ss[i][x]
      <4>1. s[i - 1] + x = Len(u) + x /\ s[i - 1] + x \in 1 .. s[i]
        <5>1. x \in 1 .. Len(v) /\ s[i - 1] = Len(u)
          BY <3>3, <3>41, <3>42
        <5>2. QED
          BY <3>42, <3>421, <5>1, SMTT(40)
      <4>2. (u \o v)[Len(u) + x] = v[x]
        BY <3>41, <3>5
      <4>3. QED
        BY <3>41, <3>43, <4>1, <4>2
    <3>9. At(i)
      BY <3>31, <3>6, <3>7, <3>8
    <3> HIDE DEF At
    <3>10. QED
      BY <3>2, <3>9
  <2>7. Nat \subseteq G
    <3> HIDE DEF G
    <3>1. QED
      BY <2>5, <2>6, SetInduction
  <2>8. At(n)
    <3>1. n - 1 \in Nat /\ n - 1 + 1 = n /\ n <= n
      BY <1>2
    <3>2. PICK m : m = n - 1
      OBVIOUS
    <3> HIDE DEF At
    <3>3. m \in G /\ m + 1 = n
      <4> HIDE DEF G
      <4>1. QED
        BY <2>7, <3>1, <3>2
    <3>4. QED
      BY <3>1, <3>3
  <2>9. QED
    BY <2>2, <2>8
<1>3. QED
  BY <1>1, <1>2

(* The bytes of the variable.                                              *)
LEMMA StopFacts ==
  ASSUME inits \in Seq(InitRec)
  PROVE  /\ Stops(Stop)
         /\ Content \in Seq(Int) /\ Len(Content) = Stop[Len(inits)]
         /\ \A j \in 1 .. Len(inits) : \A i \in 1 .. Len(inits[j].data) :
              /\ Stop[j - 1] + i \in 1 .. Len(Content)
              /\ Content[Stop[j - 1] + i] = inits[j].data[i]
<1>1. PICK n \in Nat : n = Len(inits) /\ DOMAIN inits = 1 .. n
  OBVIOUS
<1>2. PICK ss : ss = [j \in DOMAIN inits |-> inits[j].data]
  OBVIOUS
<1>3. ss \in Seq(Seq(Int)) /\ Len(ss) = n /\ \A j \in 1 .. n : ss[j] = inits[j].data /\ Len(ss[j]) \in Nat
  <2>1. \A j \in 1 .. n : inits[j].data \in Seq(Int)
    <3>1. \A j \in 1 .. n : inits[j] \in InitRec
      BY <1>1
    <3>2. QED
      BY <3>1 DEF InitRec
  <2>2. ss \in [1 .. n -> Seq(Int)]
    BY <1>1, <1>2, <2>1
  <2>3. ss \in Seq(Seq(Int)) /\ Len(ss) = n
    BY <2>2
  <2>4. QED
    BY <1>1, <1>2, <2>1, <2>3
<1>4. \E s : Stops(s)
  <2> DEFINE S == [i \in 1 .. n |-> [v \in Nat |-> v + Len(ss[i])]]
  <2>1. S \in [1 .. n -> [Nat -> Nat]]
    BY <1>3
  <2>2. \A i \in 1 .. n, v \in Nat : S[i][v] = v + Len(ss[i])
    OBVIOUS
  <2> HIDE DEF S
  <2>3. PICK e \in [0 .. n -> Nat] : e[0] = 0 /\ \A i \in 1 .. n : e[i] = S[i][e[i - 1]]
    <3>1. S \in StepsOn(n, Nat) /\ 0 \in Nat
      BY <2>1 DEF StepsOn
    <3>2. PICK e : Solves(e, n, Nat, 0, S)
      BY <3>1, Recursion, Zenon
    <3>3. QED
      BY <3>2, Zenon DEF Solves
  <2>4. \A i \in 1 .. n : e[i - 1] \in Nat
    OBVIOUS
  <2>5. \A i \in 1 .. n : e[i] = e[i - 1] + Len(inits[i].data)
    <3>1. SUFFICES ASSUME NEW i \in 1 .. n PROVE e[i] = e[i - 1] + Len(inits[i].data)
      OBVIOUS
    <3>2. PICK v : v = e[i - 1]
      OBVIOUS
    <3>3. v \in Nat /\ e[i] = S[i][v]
      BY <2>3, <2>4, <3>2
    <3>4. S[i][v] = v + Len(ss[i])
      BY <2>2, <3>3
    <3>5. ss[i] = inits[i].data
      BY <1>3
    <3>6. QED
      BY <3>2, <3>3, <3>4, <3>5
  <2>6. QED
    BY <1>1, <2>3, <2>5 DEF Stops
<1>5. Stops(Stop)
  BY <1>4, Zenon DEF Stop
<1>6. Content = FlattenSeq(ss)
  BY <1>2, Zenon DEF Content
<1>7. PICK s : s = Stop
  OBVIOUS
<1>8. /\ s \in [0 .. n -> Nat] /\ s[0] = 0
      /\ \A j \in 1 .. n : s[j] = s[j - 1] + Len(ss[j])
  BY <1>1, <1>3, <1>5, <1>7 DEF Stops
<1>9. /\ Content \in Seq(Int) /\ Len(Content) = s[n]
      /\ \A j \in 1 .. n : \A i \in 1 .. Len(ss[j]) :
           s[j - 1] + i \in 1 .. s[n] /\ Content[s[j - 1] + i] = ss[j][i]
  BY <1>3, <1>6, <1>8, Flattened, ZenonT(60)
<1>10. /\ Content \in Seq(Int) /\ Len(Content) = Stop[Len(inits)] /\ s[n] = Len(Content)
  BY <1>1, <1>7, <1>9
<1>11. ASSUME NEW j \in 1 .. Len(inits), NEW i \in 1 .. Len(inits[j].data)
       PROVE  /\ Stop[j - 1] + i \in 1 .. Len(Content)
              /\ Content[Stop[j - 1] + i] = inits[j].data[i]
  <2>1. j \in 1 .. n /\ i \in 1 .. Len(ss[j]) /\ ss[j] = inits[j].data
    BY <1>1, <1>3
  <2>2. s[j - 1] + i \in 1 .. s[n] /\ Content[s[j - 1] + i] = ss[j][i]
    BY <1>9, <2>1
  <2>3. QED
    BY <1>7, <1>10, <2>1, <2>2
<1>12. QED
  BY <1>5, <1>10, <1>11

-----------------------------------------------------------------------------
(* The items.                                                              *)
ItemOK(x) ==
  /\ x \in ItemRec
  /\ x.type = "," => x = Comma
  /\ x.type = "z" => \A i \in 1 .. Len(x.bytes) : x.bytes[i] = 0
  /\ x.type \in {"l", "w", "h", "b"} => x.type = Letter(Len(x.bytes))

(* An item spells the bytes of w behind the first a.                       *)
Fits(w, x, a) ==
  /\ ItemOK(x)
  /\ \A i \in 1 .. Len(x.bytes) : a + i \in 1 .. Len(w) /\ w[a + i] = x.bytes[i]

(* The items of s spell the bytes of w behind the first a, up to the first *)
(* b; e has where each of them starts.                                     *)
Spelt(w, s, e, a, b) ==
  /\ s \in Seq(ItemRec) /\ e \in [1 .. Len(s) + 1 -> Nat]
  /\ e[1] = a /\ e[Len(s) + 1] = b
  /\ \A i \in 1 .. Len(s) : e[i + 1] = e[i] + Len(s[i].bytes) /\ Fits(w, s[i], e[i])
Spells(w, s, a, b) == \E e : Spelt(w, s, e, a, b)

LEMMA SpellsNothing ==
  ASSUME NEW w, NEW a \in Nat
  PROVE  /\ Spells(w, <<>>, a, a)
         /\ \A b : Spells(w, <<>>, a, b) => b = a
<1>1. Len(<<>>) = 0 /\ <<>> \in Seq(ItemRec)
  OBVIOUS
<1>2. Spelt(w, <<>>, [i \in 1 .. 1 |-> a], a, a)
  BY <1>1 DEF Spelt
<1>3. ASSUME NEW b, NEW e, Spelt(w, <<>>, e, a, b) PROVE b = a
  BY <1>1, <1>3 DEF Spelt
<1>4. QED
  BY <1>2, <1>3, Zenon DEF Spells

(* What a sequence of items is known to be.                                *)
LEMMA SpellsFacts ==
  ASSUME NEW w, NEW s, NEW a, NEW b, Spells(w, s, a, b)
  PROVE  /\ s \in Seq(ItemRec) /\ a \in Nat /\ b \in Nat
         /\ \A i \in 1 .. Len(s) : ItemOK(s[i])
<1>1. PICK e : Spelt(w, s, e, a, b)
  BY Zenon DEF Spells
<1>2. s \in Seq(ItemRec) /\ e \in [1 .. Len(s) + 1 -> Nat] /\ e[1] = a /\ e[Len(s) + 1] = b
  BY <1>1, Zenon DEF Spelt
<1>3. Len(s) \in Nat
  BY <1>2
<1>4. 1 \in 1 .. Len(s) + 1 /\ Len(s) + 1 \in 1 .. Len(s) + 1
  BY <1>3
<1>5. a \in Nat /\ b \in Nat
  BY <1>2, <1>4
<1>6. \A i \in 1 .. Len(s) : ItemOK(s[i])
  BY <1>1, Zenon DEF Spelt, Fits
<1>7. QED
  BY <1>2, <1>5, <1>6

LEMMA PutItem ==
  ASSUME NEW w, NEW s, NEW a, NEW b, NEW x, Spells(w, s, a, b), Fits(w, x, b)
  PROVE  Spells(w, Append(s, x), a, b + Len(x.bytes))
<1>1. PICK e : Spelt(w, s, e, a, b)
  BY Zenon DEF Spells
<1>2. PICK n : n = Len(s)
  OBVIOUS
<1>3. /\ s \in Seq(ItemRec) /\ e \in [1 .. n + 1 -> Nat] /\ e[1] = a /\ e[n + 1] = b
      /\ \A i \in 1 .. n : e[i + 1] = e[i] + Len(s[i].bytes) /\ Fits(w, s[i], e[i])
  BY <1>1, <1>2, Zenon DEF Spelt
<1>4. n \in Nat /\ x \in ItemRec /\ Len(x.bytes) \in Nat
  <2>1. n \in Nat
    BY <1>2, <1>3
  <2>2. x \in ItemRec
    BY Zenon DEF Fits, ItemOK
  <2>3. x.bytes \in Seq(Int)
    BY <2>2 DEF ItemRec
  <2>4. Len(x.bytes) \in Nat
    BY <2>3
  <2>5. QED
    BY <2>1, <2>2, <2>4
<1>5. PICK t : t = Append(s, x)
  OBVIOUS
<1>51. /\ Append(s, x) \in Seq(ItemRec) /\ Len(Append(s, x)) = Len(s) + 1
       /\ Append(s, x)[Len(s) + 1] = x
       /\ \A i \in 1 .. Len(s) : Append(s, x)[i] = s[i]
  <2>1. s \in Seq(ItemRec) /\ x \in ItemRec
    BY <1>3, <1>4
  <2>2. QED
    BY <2>1, AppendProperties
<1>6. /\ t \in Seq(ItemRec) /\ Len(t) = n + 1 /\ t[n + 1] = x
      /\ \A i \in 1 .. n : t[i] = s[i]
  BY <1>2, <1>5, <1>51, Zenon
<1>7. PICK c : c = b + Len(x.bytes)
  OBVIOUS
<1>8. PICK g : g = [i \in 1 .. n + 2 |-> IF i = n + 2 THEN c ELSE e[i]]
  OBVIOUS
<1>9. b \in Nat /\ c \in Nat
  BY <1>3, <1>4, <1>7
<1>10. /\ g \in [1 .. n + 2 -> Nat] /\ g[n + 2] = c
       /\ \A i \in 1 .. n + 1 : g[i] = e[i]
  BY <1>3, <1>4, <1>8, <1>9
<1>11. ASSUME NEW i \in 1 .. n + 1
       PROVE  g[i + 1] = g[i] + Len(t[i].bytes) /\ Fits(w, t[i], g[i])
  <2>1. CASE i = n + 1
    <3>1. g[i] = b /\ g[i + 1] = c /\ t[i] = x
      BY <1>3, <1>4, <1>6, <1>10, <2>1
    <3>2. QED
      BY <3>1, <1>7
  <2>2. CASE i # n + 1
    <3>1. i \in 1 .. n /\ i + 1 \in 1 .. n + 1
      BY <1>4, <2>2
    <3>2. g[i] = e[i] /\ g[i + 1] = e[i + 1] /\ t[i] = s[i]
      BY <1>6, <1>10, <3>1
    <3>3. e[i + 1] = e[i] + Len(s[i].bytes) /\ Fits(w, s[i], e[i])
      BY <1>3, <3>1
    <3>4. QED
      BY <3>2, <3>3
  <2>3. QED
    BY <2>1, <2>2
<1>12. 1 \in 1 .. n + 1 /\ n + 1 + 1 = n + 2
  BY <1>4
<1>13. g[1] = a
  BY <1>3, <1>10, <1>12
<1>14. Spelt(w, t, g, a, c)
  BY <1>6, <1>10, <1>11, <1>12, <1>13 DEF Spelt
<1>15. QED
  BY <1>5, <1>7, <1>14, Zenon DEF Spells

LEMMA TakeItem ==
  ASSUME NEW w, NEW s, NEW a, NEW b, Spells(w, s, a, b), s # <<>>
  PROVE  Fits(w, Head(s), a) /\ Spells(w, Tail(s), a + Len(Head(s).bytes), b)
<1>1. PICK e : Spelt(w, s, e, a, b)
  BY Zenon DEF Spells
<1>2. PICK n : n = Len(s)
  OBVIOUS
<1>3. /\ s \in Seq(ItemRec) /\ e \in [1 .. n + 1 -> Nat] /\ e[1] = a /\ e[n + 1] = b
      /\ \A i \in 1 .. n : e[i + 1] = e[i] + Len(s[i].bytes) /\ Fits(w, s[i], e[i])
  BY <1>1, <1>2, Zenon DEF Spelt
<1>4. n \in Nat \ {0} /\ 1 \in 1 .. n /\ Head(s) = s[1]
  BY <1>2, <1>3
<1>5. PICK t : t = Tail(s)
  OBVIOUS
<1>6. /\ t \in Seq(ItemRec) /\ Len(t) = n - 1
      /\ \A i \in 1 .. Len(t) : t[i] = s[i + 1]
  BY <1>2, <1>3, <1>5, HeadTailProperties, Zenon
<1>7. PICK c : c = a + Len(Head(s).bytes)
  OBVIOUS
<1>8. e[1] = a /\ e[1 + 1] = c /\ Fits(w, Head(s), a)
  BY <1>3, <1>4, <1>7
<1>9. PICK g : g = [i \in 1 .. n |-> e[i + 1]]
  OBVIOUS
<1>10. \A i \in 1 .. n : i + 1 \in 1 .. n + 1
  BY <1>4
<1>11. g \in [1 .. n -> Nat] /\ \A i \in 1 .. n : g[i] = e[i + 1]
  BY <1>3, <1>9, <1>10
<1>12. n \in 1 .. n /\ n - 1 + 1 = n
  BY <1>4
<1>13. g[1] = c /\ g[n] = b
  BY <1>3, <1>4, <1>8, <1>11, <1>12
<1>14. ASSUME NEW i \in 1 .. n - 1
       PROVE  g[i + 1] = g[i] + Len(t[i].bytes) /\ Fits(w, t[i], g[i])
  <2>1. PICK h : h = i + 1
    OBVIOUS
  <2>2. h \in 1 .. n /\ i \in 1 .. n /\ i \in 1 .. Len(t)
    BY <1>4, <1>6, <2>1
  <2>3. g[i] = e[h] /\ g[h] = e[h + 1] /\ t[i] = s[h]
    BY <1>6, <1>11, <2>1, <2>2
  <2>4. e[h + 1] = e[h] + Len(s[h].bytes) /\ Fits(w, s[h], e[h])
    BY <1>3, <2>2
  <2>5. QED
    BY <2>1, <2>3, <2>4
<1>15. Spelt(w, t, g, c, b)
  BY <1>6, <1>11, <1>12, <1>13, <1>14 DEF Spelt
<1>16. QED
  BY <1>5, <1>7, <1>8, <1>15, Zenon DEF Spells

-----------------------------------------------------------------------------
(* Items and commas take turns; m says that an item is due in front of s,  *)
(* n that one is due behind it.                                            *)
Turn(s, m, n) ==
  /\ \A i \in 1 .. Len(s) - 1 : s[i + 1] = Comma <=> s[i] # Comma
  /\ s # <<>> => (s[1] = Comma <=> ~m) /\ (s[Len(s)] = Comma <=> n)
  /\ s = <<>> => (m <=> n)

LEMMA TurnPut ==
  ASSUME NEW s \in Seq(ItemRec), NEW x \in ItemRec, NEW m \in BOOLEAN, NEW n \in BOOLEAN,
         Turn(s, m, n), x = Comma <=> ~n
  PROVE  Turn(Append(s, x), m, ~n)
<1>1. PICK t, h : t = Append(s, x) /\ h = Len(s)
  OBVIOUS
<1>2. h \in Nat /\ t # <<>> /\ Len(t) = h + 1 /\ t[h + 1] = x /\ \A i \in 1 .. h : t[i] = s[i]
  BY <1>1
<1>3. ASSUME NEW i \in 1 .. h PROVE t[i + 1] = Comma <=> t[i] # Comma
  <2>1. CASE i = h
    <3>1. s # <<>> /\ t[i] = s[h] /\ t[i + 1] = x
      BY <1>1, <1>2, <2>1
    <3>2. s[h] = Comma <=> n
      BY <1>1, <3>1 DEF Turn
    <3>3. QED
      BY <3>1, <3>2
  <2>2. CASE i # h
    <3>1. i \in 1 .. h - 1 /\ i + 1 \in 1 .. h
      BY <1>2, <2>2
    <3>2. s[i + 1] = Comma <=> s[i] # Comma
      BY <1>1, <3>1 DEF Turn
    <3>3. QED
      BY <1>2, <3>1, <3>2
  <2>3. QED
    BY <2>1, <2>2
<1>4. t[1] = Comma <=> ~m
  <2>1. CASE h = 0
    <3>1. t[1] = x /\ s = <<>>
      BY <1>1, <1>2, <2>1
    <3>2. m <=> n
      BY <3>1 DEF Turn
    <3>3. QED
      BY <3>1, <3>2
  <2>2. CASE h # 0
    <3>1. t[1] = s[1] /\ s # <<>>
      BY <1>1, <1>2, <2>2
    <3>2. QED
      BY <3>1 DEF Turn
  <2>3. QED
    BY <2>1, <2>2
<1>5. Len(t) - 1 = h
  BY <1>2
<1>6. Turn(t, m, ~n)
  BY <1>2, <1>3, <1>4, <1>5 DEF Turn
<1>7. QED
  BY <1>1, <1>6

LEMMA TurnTake ==
  ASSUME NEW s \in Seq(ItemRec), NEW m \in BOOLEAN, NEW n \in BOOLEAN, Turn(s, m, n), s # <<>>
  PROVE  (Head(s) = Comma <=> ~m) /\ Turn(Tail(s), ~m, n)
<1>1. PICK t, h : t = Tail(s) /\ h = Len(s)
  OBVIOUS
<1>2. /\ h \in Nat /\ h # 0 /\ Len(t) = h - 1 /\ Head(s) = s[1]
      /\ \A i \in 1 .. h - 1 : t[i] = s[i + 1]
  <2>1. h \in Nat /\ h # 0 /\ Head(s) = s[1]
    BY <1>1
  <2>2. Len(t) = Len(s) - 1 /\ \A i \in 1 .. Len(t) : t[i] = s[i + 1]
    BY <1>1, HeadTailProperties
  <2>3. QED
    BY <1>1, <2>1, <2>2
<1>3. (s[1] = Comma <=> ~m) /\ (s[h] = Comma <=> n)
  BY <1>1 DEF Turn
<1>4. \A i \in 1 .. h - 1 : s[i + 1] = Comma <=> s[i] # Comma
  BY <1>1 DEF Turn
<1>5. ASSUME NEW i \in 1 .. h - 1 - 1 PROVE t[i + 1] = Comma <=> t[i] # Comma
  <2>1. PICK y : y = i + 1
    OBVIOUS
  <2>2. y \in 1 .. h - 1 /\ i \in 1 .. h - 1
    BY <1>2, <2>1
  <2>3. t[i] = s[y] /\ t[y] = s[y + 1]
    BY <1>2, <2>1, <2>2
  <2>4. QED
    BY <1>4, <2>1, <2>2, <2>3
<1>6. CASE h = 1
  <2>1. t = <<>>
    BY <1>1, <1>2, <1>6
  <2>2. ~m <=> n
    BY <1>3, <1>6
  <2>3. Turn(t, ~m, n)
    BY <2>1, <2>2 DEF Turn
  <2>4. QED
    BY <1>1, <1>2, <1>3, <2>3
<1>7. CASE h # 1
  <2>1. 1 \in 1 .. h - 1 /\ h - 1 \in 1 .. h - 1 /\ h - 1 + 1 = h /\ t # <<>>
    BY <1>2, <1>7
  <2>2. t[1] = s[1 + 1] /\ t[h - 1] = s[h]
    BY <1>2, <2>1
  <2>3. t[1] = Comma <=> m
    BY <1>3, <1>4, <2>1, <2>2
  <2>4. Turn(t, ~m, n)
    BY <1>2, <1>3, <1>5, <2>1, <2>2, <2>3 DEF Turn
  <2>5. QED
    BY <1>1, <1>2, <1>3, <2>4
<1>8. QED
  BY <1>6, <1>7

-----------------------------------------------------------------------------
(* What the builder has written: the bytes up to b; n says that an item is *)
(* due.  full says that no initialiser is empty.                           *)
Items(full, w, s, b, n) ==
  Spells(w, s, 0, b) /\ (full => Turn(s, TRUE, n))

LEMMA CommaFits ==
  ASSUME NEW w, NEW a
  PROVE  Fits(w, Comma, a) /\ Comma \in ItemRec /\ Len(Comma.bytes) = 0
<1>1. <<>> \in Seq(Int) /\ Len(<<>>) = 0 /\ Comma.bytes = <<>> /\ Comma.type = ","
  BY DEF Comma, Item
<1>2. Comma \in ItemRec
  BY <1>1 DEF Comma, Item, ItemRec
<1>3. Comma.type # "z" /\ Comma.type \notin {"l", "w", "h", "b"}
  BY <1>1
<1>4. ItemOK(Comma)
  BY <1>2, <1>3, Zenon DEF ItemOK
<1>5. \A i \in 1 .. Len(Comma.bytes) : a + i \in 1 .. Len(w) /\ w[a + i] = Comma.bytes[i]
  <2>1. Len(Comma.bytes) = 0
    BY <1>1
  <2>2. QED
    BY <2>1
<1>6. QED
  BY <1>1, <1>2, <1>4, <1>5, Zenon DEF Fits

LEMMA AddItem ==
  ASSUME NEW full, NEW w, NEW s, NEW b, NEW x,
         Items(full, w, s, b, TRUE), Fits(w, x, b), x # Comma
  PROVE  Items(full, w, s \o <<x>>, b + Len(x.bytes), FALSE)
<1>1. s \in Seq(ItemRec) /\ x \in ItemRec
  BY SpellsFacts, Zenon DEF Items, Fits, ItemOK
<1>2. s \o <<x>> = Append(s, x)
  BY <1>1
<1>3. Spells(w, Append(s, x), 0, b + Len(x.bytes))
  BY PutItem, Zenon DEF Items
<1>4. ASSUME full PROVE Turn(Append(s, x), TRUE, FALSE)
  <2>1. Turn(s, TRUE, TRUE)
    BY <1>4, Zenon DEF Items
  <2>2. Turn(Append(s, x), TRUE, ~TRUE)
    <3>1. TRUE \in BOOLEAN /\ (x = Comma <=> ~TRUE)
      OBVIOUS
    <3>2. QED
      BY <1>1, <2>1, <3>1, TurnPut, Zenon
  <2>3. QED
    BY <2>2
<1>5. QED
  BY <1>2, <1>3, <1>4 DEF Items

LEMMA AddComma ==
  ASSUME NEW full, NEW w, NEW s, NEW b, NEW c \in BOOLEAN, Items(full, w, s, b, FALSE)
  PROVE  Items(full, w, s \o CommaIf(c), b, c)
<1>1. s \in Seq(ItemRec) /\ b \in Nat /\ Comma \in ItemRec
  BY SpellsFacts, CommaFits, Zenon DEF Items
<1>2. CASE ~c
  <2>1. s \o CommaIf(c) = s
    BY <1>1, <1>2 DEF CommaIf
  <2>2. QED
    BY <2>1, <1>2
<1>3. CASE c
  <2>1. s \o CommaIf(c) = Append(s, Comma)
    BY <1>1, <1>3 DEF CommaIf
  <2>2. Fits(w, Comma, b) /\ Len(Comma.bytes) = 0
    BY CommaFits
  <2>3. Spells(w, Append(s, Comma), 0, b + Len(Comma.bytes))
    BY <2>2, PutItem, Zenon DEF Items
  <2>4. b + Len(Comma.bytes) = b
    BY <1>1, <2>2
  <2>5. ASSUME full PROVE Turn(Append(s, Comma), TRUE, TRUE)
    <3>1. Turn(s, TRUE, FALSE)
      BY <2>5, Zenon DEF Items
    <3>2. Turn(Append(s, Comma), TRUE, ~FALSE)
      <4>1. TRUE \in BOOLEAN /\ FALSE \in BOOLEAN /\ (Comma = Comma <=> ~FALSE)
        OBVIOUS
      <4>2. QED
        BY <1>1, <3>1, <4>1, TurnPut, Zenon
    <3>3. QED
      BY <3>2
  <2>6. QED
    BY <1>3, <2>1, <2>3, <2>4, <2>5 DEF Items
<1>4. QED
  BY <1>2, <1>3

-----------------------------------------------------------------------------
(* Runs of zeros and what is behind them.                                  *)
LEMMA ZeroRunFacts ==
  ASSUME NEW d \in Seq(Int), d # <<>>
  PROVE  ZeroRun(d) \in 0 .. Len(d) /\ \A i \in 1 .. ZeroRun(d) : d[i] = 0
<1>1. Len(d) \in Nat \ {0} /\ DOMAIN d = 1 .. Len(d)
  OBVIOUS
<1>2. CASE \A i \in DOMAIN d : d[i] = 0
  BY <1>1, <1>2 DEF ZeroRun
<1>3. CASE ~ \A i \in DOMAIN d : d[i] = 0
  <2> DEFINE T == {i \in DOMAIN d : d[i] # 0}
             P(i) == d[i] # 0 /\ \A h \in 1 .. i - 1 : d[h] = 0
  <2>1. T # {} /\ T \in SUBSET Nat
    BY <1>1, <1>3
  <2>2. PICK z \in T : \A y \in T : z <= y
    <3> HIDE DEF T
    <3>1. QED
      BY <2>1, Least
  <2>3. z \in DOMAIN d /\ P(z)
    BY <1>1, <2>2, SMTT(40)
  <2>4. PICK c : c = CHOOSE i \in DOMAIN d : P(i)
    OBVIOUS
  <2>5. c \in DOMAIN d /\ P(c)
    <3> HIDE DEF P
    <3>1. QED
      BY <2>3, <2>4, Zenon
  <2>6. ZeroRun(d) = c - 1
    BY <1>3, <2>4, Zenon DEF ZeroRun
  <2>7. QED
    BY <1>1, <2>5, <2>6
<1>4. QED
  BY <1>2, <1>3

LEMMA MinOfTwo ==
  ASSUME NEW a \in Nat, NEW b \in Nat, a <= b
  PROVE  Min({a, b}) = a
<1>1. PICK c : c = Min({a, b})
  OBVIOUS
<1>2. \E x \in {a, b} : \A y \in {a, b} : x =< y
  OBVIOUS
<1>3. c \in {a, b} /\ \A y \in {a, b} : c =< y
  BY <1>1, <1>2, Zenon DEF Min
<1>4. QED
  BY <1>1, <1>3

LEMMA BehindFacts ==
  ASSUME NEW d \in Seq(Int), NEW n \in 0 .. Len(d)
  PROVE  /\ Behind(d, n) \in Seq(Int) /\ Len(Behind(d, n)) = Len(d) - n
         /\ \A i \in 1 .. Len(d) - n : Behind(d, n)[i] = d[n + i]
<1>1. Len(d) \in Nat /\ n + 1 \in Int /\ Len(d) \in Int /\ \A i \in n + 1 .. Len(d) : d[i] \in Int
  OBVIOUS
<1>2. /\ SubSeq(d, n + 1, Len(d)) \in Seq(Int)
      /\ Len(SubSeq(d, n + 1, Len(d))) = IF n + 1 <= Len(d) THEN Len(d) - (n + 1) + 1 ELSE 0
      /\ \A i \in 1 .. Len(d) - (n + 1) + 1 : SubSeq(d, n + 1, Len(d))[i] = d[n + 1 + i - 1]
  BY <1>1, SubSeqProperties, SMTT(40)
<1>3. QED
  BY <1>1, <1>2 DEF Behind

LEMMA ChunkFacts ==
  ASSUME NEW d \in Seq(Int), d # <<>>
  PROVE  \E x : /\ Chunk(d) = <<x>> /\ ItemOK(x) /\ x # Comma
                 /\ Len(x.bytes) = ItemWidth(Len(d)) /\ ItemWidth(Len(d)) \in 1 .. Len(d)
                 /\ \A i \in 1 .. Len(x.bytes) : x.bytes[i] = d[i]
<1>1. PICK n, m : n = Len(d) /\ m = ItemWidth(Len(d))
  OBVIOUS
<1>2. n \in Nat \ {0} /\ m \in 1 .. n /\ m \in {1, 2, 4, 8}
  BY <1>1 DEF ItemWidth
<1>3. Min({m, n}) = m
  <2>1. m \in Nat /\ n \in Nat /\ m <= n
    BY <1>2
  <2>2. QED
    BY <2>1, MinOfTwo
<1>4. PICK x : x = Item(Letter(m), SubSeq(d, 1, m))
  OBVIOUS
<1>5. Chunk(d) = <<x>>
  BY <1>1, <1>3, <1>4 DEF Chunk
<1>6. SubSeq(d, 1, m) \in Seq(Int) /\ Len(SubSeq(d, 1, m)) = m /\ \A i \in 1 .. m : SubSeq(d, 1, m)[i] = d[i]
  <2>1. m \in Int /\ 1 <= m /\ \A i \in 1 .. m : d[i] \in Int
    BY <1>1, <1>2
  <2>2. /\ SubSeq(d, 1, m) \in Seq(Int)
        /\ Len(SubSeq(d, 1, m)) = IF 1 <= m THEN m - 1 + 1 ELSE 0
        /\ \A i \in 1 .. m - 1 + 1 : SubSeq(d, 1, m)[i] = d[1 + i - 1]
    BY <2>1, SubSeqProperties
  <2>3. QED
    BY <2>1, <2>2
<1>7. Letter(m) \in {"l", "w", "h", "b"}
  BY <1>2 DEF Letter
<1>8. x.type = Letter(m) /\ x.bytes = SubSeq(d, 1, m) /\ x \in ItemRec
  BY <1>4, <1>6, <1>7 DEF Item, ItemRec
<1>9. x.type # "," /\ x.type # "z" /\ Comma.type = ","
  BY <1>7, <1>8 DEF Comma, Item
<1>10. ItemOK(x) /\ x # Comma
  BY <1>6, <1>8, <1>9 DEF ItemOK
<1>11. QED
  BY <1>1, <1>2, <1>5, <1>6, <1>8, <1>10

LEMMA ZerosFacts ==
  ASSUME NEW n \in Nat
  PROVE  /\ Zeros(n) \in Seq(Int) /\ Len(Zeros(n)) = n /\ \A i \in 1 .. n : Zeros(n)[i] = 0
         /\ ItemOK(Item("z", Zeros(n))) /\ Item("z", Zeros(n)) # Comma
         /\ Item("z", Zeros(n)).bytes = Zeros(n)
<1>1. Zeros(n) \in Seq(Int) /\ Len(Zeros(n)) = n /\ \A i \in 1 .. n : Zeros(n)[i] = 0
  BY DEF Zeros
<1>2. PICK x : x = Item("z", Zeros(n))
  OBVIOUS
<1>3. x.type = "z" /\ x.bytes = Zeros(n) /\ x \in ItemRec /\ Comma.type = ","
  BY <1>1, <1>2 DEF Item, ItemRec, Comma
<1>4. x # Comma /\ x.type # "," /\ x.type \notin {"l", "w", "h", "b"}
  BY <1>3
<1>5. ItemOK(x)
  BY <1>1, <1>3, <1>4 DEF ItemOK
<1>6. QED
  BY <1>1, <1>2, <1>3, <1>4, <1>5

LEMMA NoBytes == <<>> \in Seq(Int) /\ Len(<<>>) = 0
OBVIOUS

(* Numbers: dn bytes behind the first b, z zeros of them, an item of m.    *)
Places(b, dn, rn, z, m) ==
  /\ b + z + m = b + dn - (rn - m) /\ rn - m <= dn
  /\ \A i \in 1 .. m : i \in 1 .. dn - z /\ z + i \in 1 .. dn /\ b + z + i = b + (z + i)
  /\ \A i \in 1 .. rn - m : m + i \in 1 .. dn - z /\ z + (m + i) = dn - (rn - m) + i

LEMMA PlacesHold ==
  \A b, dn, rn, z, m \in Nat : z <= dn /\ m <= rn /\ rn = dn - z => Places(b, dn, rn, z, m)
BY DEF Places

(* w has the bytes d behind the first b.                                   *)
Holds(w, d, b) == \A i \in 1 .. Len(d) : b + i \in 1 .. Len(w) /\ w[b + i] = d[i]

(* A round of the loop over the bytes d: z zeros, rest behind them, end    *)
(* behind the item.  It writes bytes of d to the text s, where the first b *)
(* bytes are written; an item is due behind them iff there are more.       *)
Parts(d, z, rest, end) ==
  /\ z = (IF SkipsZeros(d) THEN ZeroRun(d) ELSE 0)
  /\ rest = Behind(d, z) /\ end = Behind(rest, ItemWidth(Len(rest)))
Rounded(full, w, s, b, d, z, rest, end) ==
  /\ end \in Seq(Int) /\ Len(end) <= Len(d)
  /\ \A i \in 1 .. Len(end) : end[i] = d[Len(d) - Len(end) + i]
  /\ Items(full, w, s \o (IF z > 0 THEN <<Item("z", Zeros(z))>> \o CommaIf(rest # <<>>) ELSE <<>>)
                      \o Chunk(rest) \o CommaIf(end # <<>>),
           b + Len(d) - Len(end), end # <<>>)

LEMMA DataRound ==
  ASSUME NEW full, NEW w, NEW s, NEW b \in Nat, NEW d \in Seq(Int), d # <<>>,
         Items(full, w, s, b, TRUE),
         Holds(w, d, b), NEW z, NEW rest, NEW end, Parts(d, z, rest, end)
  PROVE  Rounded(full, w, s, b, d, z, rest, end)
<1> USE DEF Parts
<1>1. Len(d) \in Nat \ {0}
  OBVIOUS
<1>2. z \in 0 .. Len(d) /\ \A i \in 1 .. z : d[i] = 0
  <2>1. ZeroRun(d) \in 0 .. Len(d) /\ \A i \in 1 .. ZeroRun(d) : d[i] = 0
    BY ZeroRunFacts
  <2>2. QED
    BY <1>1, <2>1
<1>3. /\ rest \in Seq(Int) /\ Len(rest) = Len(d) - z
      /\ \A i \in 1 .. Len(d) - z : rest[i] = d[z + i]
  BY <1>2, BehindFacts
<1>4. s \in Seq(ItemRec)
  BY SpellsFacts, Zenon DEF Items
<1>5. PICK t1 : t1 = s \o (IF z > 0 THEN <<Item("z", Zeros(z))>> \o CommaIf(rest # <<>>) ELSE <<>>)
  OBVIOUS
<1>6. Items(full, w, t1, b + z, rest # <<>>)
  <2>1. CASE z = 0
    <3>1. t1 = s /\ b + z = b
      BY <1>4, <1>5, <2>1
    <3>2. rest # <<>>
      BY <1>1, <1>3, <2>1
    <3>3. (rest # <<>>) = TRUE
      BY <3>2
    <3>4. QED
      BY <3>1, <3>3
  <2>2. CASE z > 0
    <3>1. PICK x : x = Item("z", Zeros(z))
      OBVIOUS
    <3>2. z \in Nat
      BY <1>2
    <3>3. ItemOK(x) /\ x # Comma /\ x.bytes = Zeros(z) /\ Len(Zeros(z)) = z /\ \A i \in 1 .. z : Zeros(z)[i] = 0
      BY <3>1, <3>2, ZerosFacts
    <3>4. Fits(w, x, b)
      <4>1. ASSUME NEW i \in 1 .. Len(x.bytes) PROVE b + i \in 1 .. Len(w) /\ w[b + i] = x.bytes[i]
        <5>1. i \in 1 .. z /\ i \in 1 .. Len(d)
          BY <1>1, <1>2, <3>3
        <5>2. x.bytes[i] = 0 /\ d[i] = 0
          BY <1>2, <3>3, <5>1
        <5>3. QED
          BY <5>1, <5>2 DEF Holds
      <4>2. QED
        BY <3>3, <4>1, Zenon DEF Fits
    <3>5. Items(full, w, s \o <<x>>, b + Len(x.bytes), FALSE)
      BY <3>3, <3>4, AddItem
    <3>6. Items(full, w, (s \o <<x>>) \o CommaIf(rest # <<>>), b + Len(x.bytes), rest # <<>>)
      <4>1. (rest # <<>>) \in BOOLEAN
        OBVIOUS
      <4>2. QED
        BY <3>5, <4>1, AddComma
    <3>7. t1 = (s \o <<x>>) \o CommaIf(rest # <<>>)
      <4>1. <<x>> \in Seq(ItemRec) /\ CommaIf(rest # <<>>) \in Seq(ItemRec)
        <5>1. x \in ItemRec /\ Comma \in ItemRec
          BY <3>3, CommaFits, Zenon DEF ItemOK
        <5>2. QED
          BY <5>1 DEF CommaIf
      <4>2. (s \o <<x>>) \o CommaIf(rest # <<>>) = s \o (<<x>> \o CommaIf(rest # <<>>))
        <5>1. PICK u, v : u = <<x>> /\ v = CommaIf(rest # <<>>)
          OBVIOUS
        <5>2. (s \o u) \o v = s \o (u \o v)
          BY <1>4, <4>1, <5>1, ConcatAssociative, SMTT(40)
        <5>3. QED
          BY <5>1, <5>2
      <4>3. QED
        BY <1>5, <2>2, <3>1, <4>2
    <3>8. QED
      BY <3>3, <3>6, <3>7
  <2>3. QED
    BY <1>2, <2>1, <2>2
<1>7. CASE rest = <<>>
  <2>1. Len(rest) = 0 /\ z = Len(d)
    BY <1>1, <1>2, <1>3, <1>7
  <2>2. Chunk(rest) = <<>>
    BY <1>7 DEF Chunk
  <2>3. end = <<>>
    <3>1. ItemWidth(0) = 1
      BY DEF ItemWidth
    <3>2. end = SubSeq(rest, 2, 0)
      BY <2>1, <3>1 DEF Behind
    <3>3. QED
      BY <3>2, SubSeqEmpty
  <2>4. t1 \in Seq(ItemRec)
    BY <1>6, SpellsFacts, Zenon DEF Items
  <2>5. t1 \o Chunk(rest) \o CommaIf(end # <<>>) = t1
    BY <2>2, <2>3, <2>4 DEF CommaIf
  <2>6. Len(end) = 0 /\ b + Len(d) - Len(end) = b + z
    <3>1. Len(end) = 0
      BY <2>3
    <3>2. b + Len(d) \in Nat /\ b + Len(d) - 0 = b + Len(d)
      BY <1>1
    <3>3. QED
      BY <2>1, <3>1, <3>2
  <2>7. (end # <<>>) = (rest # <<>>)
    BY <1>7, <2>3
  <2>8. Items(full, w, t1 \o Chunk(rest) \o CommaIf(end # <<>>), b + Len(d) - Len(end), end # <<>>)
    BY <1>6, <2>5, <2>6, <2>7
  <2>9. end \in Seq(Int) /\ Len(end) <= Len(d) /\ \A i \in 1 .. Len(end) : end[i] = d[Len(d) - Len(end) + i]
    <3>1. Len(end) = 0 /\ 0 <= Len(d)
      BY <1>1, <2>6
    <3>2. end \in Seq(Int)
      BY <2>3, NoBytes, Zenon
    <3>3. \A i \in 1 .. 0 : FALSE
      OBVIOUS
    <3>4. QED
      BY <3>1, <3>2, <3>3
  <2>10. QED
    BY <1>5, <2>8, <2>9 DEF Rounded
<1>8. CASE rest # <<>>
  <2>1. PICK x : /\ Chunk(rest) = <<x>> /\ ItemOK(x) /\ x # Comma
                 /\ Len(x.bytes) = ItemWidth(Len(rest)) /\ ItemWidth(Len(rest)) \in 1 .. Len(rest)
                 /\ \A i \in 1 .. Len(x.bytes) : x.bytes[i] = rest[i]
    BY <1>3, <1>8, ChunkFacts, SMTT(40)
  <2>2. PICK m : m = ItemWidth(Len(rest))
    OBVIOUS
  <2>3. m \in 1 .. Len(rest) /\ m \in 0 .. Len(rest) /\ Len(rest) \in Nat /\ Len(x.bytes) = m
    BY <1>3, <2>1, <2>2
  <2>31. PICK dn, rn : dn = Len(d) /\ rn = Len(rest)
    OBVIOUS
  <2>32. dn \in Nat /\ rn \in Nat /\ z \in 0 .. dn /\ rn = dn - z /\ m \in 1 .. rn
    BY <1>1, <1>2, <1>3, <2>3, <2>31
  <2>33. Len(x.bytes) = m
    BY <2>3
  <2>4. /\ end \in Seq(Int) /\ Len(end) = Len(rest) - m
        /\ \A i \in 1 .. Len(rest) - m : end[i] = rest[m + i]
    <3>1. PICK e : e = Behind(rest, m)
      OBVIOUS
    <3>2. /\ e \in Seq(Int) /\ Len(e) = Len(rest) - m
          /\ \A i \in 1 .. Len(rest) - m : e[i] = rest[m + i]
      BY <1>3, <2>3, <3>1, BehindFacts, ZenonT(60)
    <3>3. e = end
      BY <2>2, <3>1
    <3>4. QED
      BY <3>2, <3>3
  <2>41. Len(end) = rn - m
    BY <2>31, <2>4
  <2>42. /\ b + z + m = b + dn - (rn - m) /\ rn - m <= dn
         /\ \A i \in 1 .. m : i \in 1 .. dn - z /\ z + i \in 1 .. dn /\ b + z + i = b + (z + i)
         /\ \A i \in 1 .. rn - m : m + i \in 1 .. dn - z /\ z + (m + i) = dn - (rn - m) + i
    <3>1. z \in Nat /\ m \in Nat /\ z <= dn /\ m <= rn
      BY <2>32
    <3>2. Places(b, dn, rn, z, m)
      BY <2>32, <3>1, PlacesHold, Zenon
    <3>3. QED
      BY <3>2, Zenon DEF Places
  <2>5. Fits(w, x, b + z)
    <3>1. ASSUME NEW i \in 1 .. Len(x.bytes) PROVE b + z + i \in 1 .. Len(w) /\ w[b + z + i] = x.bytes[i]
      <4>1. PICK y : y = z + i
        OBVIOUS
      <4>2. i \in 1 .. Len(d) - z /\ y \in 1 .. Len(d) /\ b + z + i = b + y
        BY <2>31, <2>33, <2>42, <4>1
      <4>3. x.bytes[i] = rest[i] /\ rest[i] = d[y]
        BY <1>3, <2>1, <4>1, <4>2
      <4>4. b + y \in 1 .. Len(w) /\ w[b + y] = d[y]
        BY <4>2 DEF Holds
      <4>5. QED
        BY <4>2, <4>3, <4>4
    <3>2. QED
      BY <2>1, <3>1, Zenon DEF Fits
  <2>6. (rest # <<>>) = TRUE
    BY <1>8
  <2>7. Items(full, w, t1 \o <<x>>, b + z + Len(x.bytes), FALSE)
    BY <1>6, <2>1, <2>5, <2>6, AddItem
  <2>8. Items(full, w, t1 \o <<x>> \o CommaIf(end # <<>>), b + z + Len(x.bytes), end # <<>>)
    <3>1. (end # <<>>) \in BOOLEAN
      OBVIOUS
    <3>2. QED
      BY <2>7, <3>1, AddComma
  <2>9. b + z + Len(x.bytes) = b + Len(d) - Len(end) /\ Len(end) <= Len(d)
    BY <2>31, <2>33, <2>41, <2>42
  <2>10. ASSUME NEW i \in 1 .. Len(end) PROVE end[i] = d[Len(d) - Len(end) + i]
    <3>1. PICK y : y = m + i
      OBVIOUS
    <3>2. i \in 1 .. Len(rest) - m /\ y \in 1 .. Len(d) - z /\ z + y = Len(d) - Len(end) + i
      <4>1. i \in 1 .. rn - m /\ Len(rest) - m = rn - m /\ Len(d) - z = dn - z
        BY <2>31, <2>41
      <4>2. m + i \in 1 .. dn - z /\ z + (m + i) = dn - (rn - m) + i
        BY <2>42, <4>1
      <4>3. z + (m + i) = Len(d) - Len(end) + i
        BY <2>31, <2>41, <4>2
      <4>4. QED
        BY <3>1, <4>1, <4>2, <4>3
    <3>3. end[i] = rest[y] /\ rest[y] = d[z + y]
      BY <1>3, <2>4, <3>1, <3>2
    <3>4. QED
      BY <3>2, <3>3
  <2>11. Items(full, w, t1 \o Chunk(rest) \o CommaIf(end # <<>>), b + Len(d) - Len(end), end # <<>>)
    BY <2>1, <2>8, <2>9
  <2>12. QED
    BY <1>5, <2>4, <2>9, <2>10, <2>11 DEF Rounded
<1>9. QED
  BY <1>7, <1>8, Zenon

-----------------------------------------------------------------------------
(* The inductive invariant.                                                *)
Given ==
  /\ inits \in Seq(InitRec) /\ dsize \in Nat /\ Len(Content) <= dsize
  /\ \A j \in 1 .. Len(inits) : inits[j].ref => Len(inits[j].data) = 8
NoEmpty == \A j \in DOMAIN inits : inits[j].data # <<>>

(* Where the builder is: at the b-th byte, in front of the initialiser kk  *)
(* or within its data, of which l is left; n says that an item is due.     *)
Remains(w, st, kk, l, b, n) ==
  \/ kk = Len(inits) + 1 /\ l = <<>> /\ b = st[kk - 1] /\ ~n
  \/ kk \in 1 .. Len(inits) /\ inits[kk].ref /\ l = <<>> /\ b = st[kk - 1] /\ n
  \/ /\ kk \in 1 .. Len(inits) /\ ~inits[kk].ref
     /\ l \in Seq(Int) /\ b + Len(l) = st[kk] /\ Holds(w, l, b) /\ (n <=> l # <<>>)

Writing ==
  /\ k \in 1 .. Len(inits) + 1 /\ written = Stop[k - 1]
  /\ item = TRUE /\ zero = 0 /\ image = <<>>
  /\ \E b \in Nat, n \in BOOLEAN :
       Remains(Whole, Stop, k, left, b, n) /\ (inits # <<>> => Items(NoEmpty, Whole, text, b, n))

(* Where the parser is: a bytes are in the file or are zeros held back.    *)
Begun(w, a, zr, im) ==
  \/ zr = a /\ im = <<>> /\ a \in Nat /\ a <= Len(w) /\ \A x \in 1 .. a : w[x] = 0
  \/ zr = -1 /\ im \in Seq(Int) /\ Len(im) = a /\ a <= Len(w) /\ \A x \in 1 .. a : im[x] = w[x]

Parsing ==
  /\ item \in BOOLEAN
  /\ \E a : Spells(Whole, text, a, dsize) /\ Begun(Whole, a, zero, image)
  /\ NoEmpty => Turn(text, item, FALSE)

TextOK(s) == s \in Seq(ItemRec) /\ \A i \in 1 .. Len(s) : ItemOK(s[i])

DataInv ==
  /\ Given /\ TextOK(text)
  /\ dpc \in {"write", "parse", "done", "error"} /\ zero \in -1 .. dsize
  /\ dpc = "write" => Writing
  /\ dpc = "parse" => Parsing
  /\ dpc = "done" => image = Whole
  /\ dpc = "error" => ~NoEmpty

LEMMA Frame ==
  ASSUME inits' = inits, dsize' = dsize
  PROVE  /\ Stop' = Stop /\ Whole' = Whole /\ (NoEmpty' <=> NoEmpty) /\ (Given' <=> Given)
         /\ Len(inits)' = Len(inits)
<1>1. Content' = Content
  BY DEF Content
<1>2. Stop' = Stop
  BY DEF Stop, Stops
<1>3. Whole' = Whole
  BY <1>1 DEF Whole, Zeros
<1>4. Given' <=> Given
  BY <1>1 DEF Given
<1>5. NoEmpty' <=> NoEmpty
  BY DEF NoEmpty
<1>6. QED
  BY <1>2, <1>3, <1>4, <1>5

(* What the bytes of the variable are.                                     *)
LEMMA WholeFacts ==
  ASSUME Given
  PROVE  /\ Whole \in Seq(Int) /\ Len(Whole) = dsize
         /\ Stop \in [0 .. Len(inits) -> Nat] /\ Stop[0] = 0
         /\ \A j \in 1 .. Len(inits) :
              Stop[j] = Stop[j - 1] + Len(inits[j].data) /\ Holds(Whole, inits[j].data, Stop[j - 1])
         /\ Stop[Len(inits)] = Len(Content) /\ Len(Content) \in Nat
         /\ Holds(Whole, Zeros(dsize - Len(Content)), Len(Content))
<1>1. inits \in Seq(InitRec) /\ dsize \in Nat /\ Len(Content) <= dsize
  BY Zenon DEF Given
<1>2. /\ Stops(Stop) /\ Content \in Seq(Int) /\ Len(Content) = Stop[Len(inits)]
      /\ \A j \in 1 .. Len(inits) : \A i \in 1 .. Len(inits[j].data) :
           /\ Stop[j - 1] + i \in 1 .. Len(Content)
           /\ Content[Stop[j - 1] + i] = inits[j].data[i]
  BY <1>1, StopFacts
<1>3. PICK n : n = dsize - Len(Content)
  OBVIOUS
<1>4. Len(Content) \in Nat /\ n \in Nat /\ Len(Content) + n = dsize
  <2>1. PICK c : c = Content
    OBVIOUS
  <2>2. c \in Seq(Int)
    BY <1>2, <2>1
  <2>3. Len(c) \in Nat
    BY <2>2
  <2>4. QED
    BY <1>1, <1>3, <2>1, <2>3
<1>5. Zeros(n) \in Seq(Int) /\ Len(Zeros(n)) = n
  BY <1>4, ZerosFacts
<1>6. PICK z : z = Zeros(n)
  OBVIOUS
<1>7. /\ Whole \in Seq(Int) /\ Len(Whole) = Len(Content) + Len(z)
      /\ \A x \in 1 .. Len(Content) : Whole[x] = Content[x]
      /\ \A x \in 1 .. Len(z) : Whole[Len(Content) + x] = z[x]
  <2>1. Whole = Content \o z
    BY <1>3, <1>6 DEF Whole
  <2>2. z \in Seq(Int)
    BY <1>5, <1>6
  <2>3. QED
    BY <1>2, <2>1, <2>2, Joined, Zenon
<1>8. Len(Whole) = dsize /\ Len(z) = n
  BY <1>4, <1>5, <1>6, <1>7
<1>9. ASSUME NEW j \in 1 .. Len(inits) PROVE Holds(Whole, inits[j].data, Stop[j - 1])
  <2>1. SUFFICES ASSUME NEW i \in 1 .. Len(inits[j].data)
                 PROVE  Stop[j - 1] + i \in 1 .. Len(Whole) /\ Whole[Stop[j - 1] + i] = inits[j].data[i]
    BY DEF Holds
  <2>2. PICK y : y = Stop[j - 1] + i
    OBVIOUS
  <2>3. y \in 1 .. Len(Content) /\ Content[y] = inits[j].data[i]
    BY <1>2, <2>2
  <2>4. y \in 1 .. dsize
    BY <1>4, <2>3
  <2>5. QED
    BY <1>7, <1>8, <2>2, <2>3, <2>4
<1>10. Holds(Whole, z, Len(Content))
  <2>1. SUFFICES ASSUME NEW i \in 1 .. Len(z)
                 PROVE  Len(Content) + i \in 1 .. Len(Whole) /\ Whole[Len(Content) + i] = z[i]
    BY DEF Holds
  <2>2. QED
    BY <1>4, <1>7, <1>8, <2>1
<1>11. /\ Stop \in [0 .. Len(inits) -> Nat] /\ Stop[0] = 0
       /\ \A j \in 1 .. Len(inits) : Stop[j] = Stop[j - 1] + Len(inits[j].data)
  BY <1>2, Zenon DEF Stops
<1>12. QED
  BY <1>2, <1>3, <1>4, <1>6, <1>7, <1>8, <1>9, <1>10, <1>11

-----------------------------------------------------------------------------
(* In front of the next initialiser.                                       *)
LEMMA Advance ==
  ASSUME Given, NEW i \in 0 .. Len(inits)
  PROVE  \E n \in BOOLEAN : /\ Remains(Whole, Stop, i + 1, DataOf(i + 1), Stop[i], n)
                            /\ (NoEmpty => (n <=> i < Len(inits)))
<1>1. PICK j, h : j = i + 1 /\ h = Len(inits)
  OBVIOUS
<1>2. inits \in Seq(InitRec) /\ h \in Nat /\ j - 1 = i /\ DOMAIN inits = 1 .. h
  <2>1. inits \in Seq(InitRec)
    BY Zenon DEF Given
  <2>2. QED
    BY <1>1, <2>1
<1>3. /\ Stop \in [0 .. h -> Nat]
      /\ \A x \in 1 .. h : Stop[x] = Stop[x - 1] + Len(inits[x].data) /\ Holds(Whole, inits[x].data, Stop[x - 1])
  BY <1>1, WholeFacts, Zenon
<1>4. CASE i = h
  <2>1. j = h + 1 /\ j \notin DOMAIN inits /\ ~ (i < h)
    BY <1>1, <1>2, <1>4
  <2>2. DataOf(j) = <<>>
    BY <2>1 DEF DataOf
  <2>3. Remains(Whole, Stop, j, DataOf(j), Stop[i], FALSE)
    BY <1>1, <1>2, <2>1, <2>2 DEF Remains
  <2>4. QED
    BY <1>1, <2>1, <2>3
<1>5. CASE i # h /\ inits[j].ref
  <2>1. j \in 1 .. h /\ i < h
    BY <1>1, <1>2, <1>5
  <2>2. DataOf(j) = <<>>
    BY <1>5 DEF DataOf
  <2>3. Remains(Whole, Stop, j, DataOf(j), Stop[i], TRUE)
    BY <1>1, <1>2, <1>5, <2>1, <2>2 DEF Remains
  <2>4. QED
    BY <1>1, <2>1, <2>3
<1>6. CASE i # h /\ ~inits[j].ref
  <2>1. j \in 1 .. h /\ i < h
    BY <1>1, <1>2, <1>6
  <2>2. DataOf(j) = inits[j].data
    BY <1>2, <1>6, <2>1 DEF DataOf
  <2>3. inits[j].data \in Seq(Int)
    <3>1. inits[j] \in InitRec
      BY <1>2, <2>1
    <3>2. QED
      BY <3>1 DEF InitRec
  <2>4. Stop[i] + Len(DataOf(j)) = Stop[j] /\ Holds(Whole, DataOf(j), Stop[i])
    BY <1>2, <1>3, <2>1, <2>2
  <2>5. PICK n \in BOOLEAN : n <=> DataOf(j) # <<>>
    OBVIOUS
  <2>6. Remains(Whole, Stop, j, DataOf(j), Stop[i], n)
    BY <1>1, <1>6, <2>1, <2>2, <2>3, <2>4, <2>5 DEF Remains
  <2>7. NoEmpty => n
    BY <1>2, <2>1, <2>2, <2>5 DEF NoEmpty
  <2>8. QED
    BY <1>1, <2>1, <2>6, <2>7
<1>7. QED
  BY <1>4, <1>5, <1>6

LEMMA ItemsDue ==
  ASSUME NEW full, NEW w, NEW s, NEW b, NEW m, NEW n,
         Items(full, w, s, b, m), full => (m <=> n), m \in BOOLEAN, n \in BOOLEAN
  PROVE  Items(full, w, s, b, n)
<1>1. CASE full
  <2>1. m = n
    BY <1>1
  <2>2. QED
    BY <2>1
<1>2. CASE ~full
  BY <1>2 DEF Items
<1>3. QED
  BY <1>1, <1>2

LEMMA ItemsTextOK ==
  ASSUME NEW full, NEW w, NEW s, NEW b, NEW n, Items(full, w, s, b, n)
  PROVE  TextOK(s)
BY SpellsFacts, Zenon DEF Items, TextOK

(* The initialisers of the host.                                           *)
LEMMA InitGiven ==
  ASSUME DataInit
  PROVE  Given
<1>1. PICK l \in Inits :
       inits = [j \in DOMAIN l |->
                 [ref |-> l[j].ref, data |-> IF l[j].ref THEN SymbolBytes(j) ELSE HostBytes(j, l[j].data)]]
  BY DEF DataInit
<1>2. PICK h : h = Len(l)
  OBVIOUS
<1>3. h \in Nat /\ DOMAIN l = 1 .. h /\ \A j \in 1 .. h : l[j] \in [ref : BOOLEAN, data : Seq(BOOLEAN)]
  <2>1. l \in Seq([ref : BOOLEAN, data : Seq(BOOLEAN)])
    BY DataAssumption
  <2>2. PICK T : T = [ref : BOOLEAN, data : Seq(BOOLEAN)]
    OBVIOUS
  <2>3. l \in Seq(T)
    BY <2>1, <2>2
  <2>4. h \in Nat /\ DOMAIN l = 1 .. h /\ \A j \in 1 .. h : l[j] \in T
    BY <1>2, <2>3
  <2>5. QED
    BY <2>2, <2>4
<1>4. \A j \in 1 .. h : l[j].ref \in BOOLEAN /\ l[j].data \in Seq(BOOLEAN)
  BY <1>3
<1>5. \A j \in 1 .. h :
        /\ inits[j].ref = l[j].ref
        /\ inits[j] = [ref |-> l[j].ref, data |-> inits[j].data]
        /\ inits[j].data = (IF l[j].ref THEN SymbolBytes(j) ELSE HostBytes(j, l[j].data))
  BY <1>1, <1>3
<1>6. \A j \in 1 .. h : SymbolBytes(j) \in Seq(Int) /\ Len(SymbolBytes(j)) = 8
  BY DEF SymbolBytes
<1>7. ASSUME NEW j \in 1 .. h PROVE HostBytes(j, l[j].data) \in Seq(Int)
  <2>1. PICK d, m : d = l[j].data /\ m = Len(d)
    OBVIOUS
  <2>2. m \in Nat /\ DOMAIN d = 1 .. m
    BY <1>4, <2>1
  <2>3. \A i \in 1 .. m : (IF d[i] THEN 100 * j + i ELSE 0) \in Int
    <3>1. j \in Int
      BY <1>7
    <3>2. QED
      BY <3>1
  <2>4. HostBytes(j, d) \in [1 .. m -> Int]
    BY <2>2, <2>3 DEF HostBytes
  <2>5. HostBytes(j, d) \in Seq(Int)
    BY <2>2, <2>4
  <2>6. QED
    BY <2>1, <2>5
<1>8. ASSUME NEW j \in 1 .. h PROVE inits[j] \in InitRec /\ (inits[j].ref => Len(inits[j].data) = 8)
  <2>1. inits[j].data \in Seq(Int)
    BY <1>5, <1>6, <1>7
  <2>2. inits[j] \in InitRec
    <3>1. PICK r, d : r = l[j].ref /\ d = inits[j].data
      OBVIOUS
    <3>2. [ref |-> r, data |-> d] \in InitRec
      BY <1>4, <2>1, <3>1 DEF InitRec
    <3>3. QED
      BY <1>5, <3>1, <3>2
  <2>3. QED
    BY <1>5, <1>6, <2>2
<1>9. inits \in Seq(InitRec) /\ Len(inits) = h
  <2>1. inits = [j \in 1 .. h |-> inits[j]]
    BY <1>1, <1>3
  <2>2. inits \in [1 .. h -> InitRec]
    BY <1>8, <2>1
  <2>3. QED
    BY <1>3, <2>2
<1>10. Content \in Seq(Int) /\ Len(Content) \in Nat
  <2>1. Content \in Seq(Int)
    BY <1>9, StopFacts
  <2>2. QED
    BY <2>1
<1>11. PICK n \in Slacks : dsize = n + Len(Content)
  BY DEF DataInit
<1>12. n \in Nat
  BY DataAssumption
<1>13. dsize \in Nat /\ Len(Content) <= dsize
  BY <1>10, <1>11, <1>12
<1>14. QED
  BY <1>8, <1>9, <1>13 DEF Given

LEMMA InitInv == DataInit => DataInv
<1>1. SUFFICES ASSUME DataInit PROVE DataInv
  OBVIOUS
<1>2. Given
  BY <1>1, InitGiven
<1>3. /\ dpc = "write" /\ k = 1 /\ left = DataOf(1)
      /\ written = 0 /\ text = <<>> /\ item = TRUE /\ zero = 0 /\ image = <<>>
  BY <1>1 DEF DataInit
<1>4. PICK h : h = Len(inits)
  OBVIOUS
<1>5. inits \in Seq(InitRec) /\ dsize \in Nat /\ h \in Nat
  <2>1. inits \in Seq(InitRec) /\ dsize \in Nat
    BY <1>2, Zenon DEF Given
  <2>2. QED
    BY <1>4, <2>1
<1>6. PICK n \in BOOLEAN : /\ Remains(Whole, Stop, 0 + 1, DataOf(0 + 1), Stop[0], n)
                           /\ (NoEmpty => (n <=> 0 < h))
  <2>1. 0 \in 0 .. h
    BY <1>5
  <2>2. QED
    BY <1>2, <1>4, <2>1, Advance, Zenon
<1>7. Stop[0] = 0
  BY <1>2, WholeFacts, Zenon
<1>8. ASSUME inits # <<>> PROVE Items(NoEmpty, Whole, text, 0, n)
  <2>1. Spells(Whole, <<>>, 0, 0)
    <3>1. 0 \in Nat
      OBVIOUS
    <3>2. QED
      BY <3>1, SpellsNothing
  <2>2. ASSUME NoEmpty PROVE Turn(<<>>, TRUE, n)
    <3>1. n
      <4>1. 0 < h
        BY <1>4, <1>5, <1>8
      <4>2. QED
        BY <1>6, <2>2, <4>1
    <3>2. Len(<<>>) = 0
      OBVIOUS
    <3>3. QED
      BY <3>1, <3>2 DEF Turn
  <2>3. QED
    BY <1>3, <2>1, <2>2 DEF Items
<1>9. Remains(Whole, Stop, k, left, 0, n)
  BY <1>3, <1>6, <1>7
<1>10. Writing
  <2>1. k \in 1 .. Len(inits) + 1 /\ k - 1 = 0
    BY <1>3, <1>4, <1>5
  <2>2. written = Stop[k - 1] /\ 0 \in Nat
    BY <1>3, <1>7, <2>1
  <2>3. QED
    BY <1>3, <1>8, <1>9, <2>1, <2>2 DEF Writing
<1>11. TextOK(text)
  <2>1. text \in Seq(ItemRec) /\ Len(text) = 0
    BY <1>3
  <2>2. \A i \in 1 .. Len(text) : ItemOK(text[i])
    BY <2>1
  <2>3. QED
    BY <2>1, <2>2 DEF TextOK
<1>12. zero \in -1 .. dsize
  BY <1>3, <1>5
<1>13. QED
  BY <1>2, <1>3, <1>10, <1>11, <1>12 DEF DataInv

-----------------------------------------------------------------------------
(* The steps of the builder.                                               *)
LEMMA WritingNext ==
  ASSUME inits' = inits, dsize' = dsize, NEW b \in Nat, NEW n \in BOOLEAN,
         Remains(Whole, Stop, k', left', b, n), inits # <<>> => Items(NoEmpty, Whole, text', b, n),
         k' \in 1 .. Len(inits) + 1, written' = Stop[k' - 1],
         item' = TRUE, zero' = 0, image' = <<>>
  PROVE  Writing'
<1>1. Stop' = Stop /\ Whole' = Whole /\ (NoEmpty' <=> NoEmpty) /\ Len(inits)' = Len(inits)
  BY Frame
<1>2. Remains(Whole, Stop, k, left, b, n)'
  BY <1>1 DEF Remains
<1>3. (inits # <<>> => Items(NoEmpty, Whole, text, b, n))'
  BY <1>1 DEF Items
<1>4. (k \in 1 .. Len(inits) + 1 /\ written = Stop[k - 1])'
  BY <1>1
<1>5. QED
  BY <1>2, <1>3, <1>4 DEF Writing

(* What a step keeps that leaves the builder writing.                      *)
LEMMA WriteKeeps ==
  ASSUME DataInv, dpc = "write", dpc' = dpc, inits' = inits, dsize' = dsize,
         Writing', TextOK(text'), zero' = 0
  PROVE  DataInv'
<1>1. Given /\ Given'
  BY Frame, Zenon DEF DataInv
<1>2. dsize \in Nat
  BY <1>1, Zenon DEF Given
<1>3. zero' \in -1 .. dsize'
  BY <1>2
<1>4. QED
  BY <1>1, <1>3 DEF DataInv, TextOK, ItemOK

LEMMA WritesRef ==
  ASSUME DataInv, WriteRef
  PROVE  DataInv'
<1>1. /\ dpc = "write" /\ k \in DOMAIN inits /\ inits[k].ref
      /\ text' = text \o <<Item("l", inits[k].data)>> \o CommaIf(k < Len(inits))
      /\ written' = written + 8 /\ k' = k + 1 /\ left' = DataOf(k + 1)
      /\ dpc' = dpc /\ inits' = inits /\ dsize' = dsize /\ item' = item /\ zero' = zero /\ image' = image
  BY DEF WriteRef
<1>2. Given /\ Writing
  BY <1>1, Zenon DEF DataInv
<1>3. PICK h : h = Len(inits)
  OBVIOUS
<1>4. h \in Nat /\ k \in 1 .. h /\ inits \in Seq(InitRec) /\ inits # <<>>
  <2>1. inits \in Seq(InitRec)
    BY <1>2, Zenon DEF Given
  <2>2. QED
    BY <1>1, <1>3, <2>1
<1>5. PICK b \in Nat, m \in BOOLEAN :
        Remains(Whole, Stop, k, left, b, m) /\ Items(NoEmpty, Whole, text, b, m)
  BY <1>2, <1>4, Zenon DEF Writing
<1>6. b = Stop[k - 1] /\ m = TRUE
  BY <1>1, <1>3, <1>4, <1>5 DEF Remains
<1>7. PICK x : x = Item("l", inits[k].data)
  OBVIOUS
<1>8. x.type = "l" /\ x.bytes = inits[k].data /\ Len(x.bytes) = 8 /\ x \in ItemRec /\ x # Comma
  <2>1. x.type = "l" /\ x.bytes = inits[k].data
    BY <1>7 DEF Item
  <2>2. inits[k] \in InitRec
    BY <1>3, <1>4
  <2>3. x \in ItemRec
    BY <1>7, <2>2 DEF Item, ItemRec, InitRec
  <2>4. Len(inits[k].data) = 8
    BY <1>1, <1>2, <1>3, <1>4 DEF Given
  <2>5. x # Comma
    <3>1. Comma.type = ","
      BY DEF Comma, Item
    <3>2. QED
      BY <2>1, <3>1
  <2>6. QED
    BY <2>1, <2>3, <2>4, <2>5
<1>9. Stop[k] = Stop[k - 1] + 8 /\ Holds(Whole, x.bytes, b)
  BY <1>2, <1>3, <1>4, <1>6, <1>8, WholeFacts
<1>10. Fits(Whole, x, b)
  <2>1. Letter(8) = "l"
    BY DEF Letter
  <2>2. ItemOK(x)
    BY <1>8, <2>1 DEF ItemOK
  <2>3. QED
    BY <1>9, <2>2, Zenon DEF Fits, Holds
<1>11. Items(NoEmpty, Whole, text \o <<x>>, b + Len(x.bytes), FALSE)
  BY <1>5, <1>6, <1>8, <1>10, AddItem
<1>12. b + Len(x.bytes) = Stop[k]
  BY <1>6, <1>8, <1>9
<1>13. PICK c \in BOOLEAN : (c <=> k < h) /\ Items(NoEmpty, Whole, text', Stop[k], c)
  <2>1. PICK c \in BOOLEAN : c <=> k < h
    OBVIOUS
  <2>2. Items(NoEmpty, Whole, text \o <<x>> \o CommaIf(c), Stop[k], c)
    BY <1>11, <1>12, AddComma
  <2>3. CommaIf(c) = CommaIf(k < Len(inits))
    BY <1>3, <2>1 DEF CommaIf
  <2>4. QED
    BY <1>1, <1>7, <2>1, <2>2, <2>3
<1>14. Writing'
  <2>1. PICK n \in BOOLEAN : Remains(Whole, Stop, k + 1, DataOf(k + 1), Stop[k], n) /\ (NoEmpty => (n <=> k < h))
    <3>1. k \in 0 .. h
      BY <1>4
    <3>2. QED
      BY <1>2, <1>3, <3>1, Advance
  <2>2. Items(NoEmpty, Whole, text', Stop[k], n)
    BY <1>13, <2>1, ItemsDue, Zenon
  <2>3. Stop[k] \in Nat
    <3>1. k \in 0 .. h
      BY <1>4
    <3>2. QED
      BY <1>2, <1>3, <3>1, WholeFacts
  <2>4. k' \in 1 .. Len(inits) + 1 /\ k' - 1 = k
    BY <1>1, <1>3, <1>4
  <2>5. written' = Stop[k' - 1] /\ item' = TRUE /\ zero' = 0 /\ image' = <<>>
    BY <1>1, <1>2, <1>9, <2>4 DEF Writing
  <2>6. QED
    BY <1>1, <2>1, <2>2, <2>3, <2>4, <2>5, WritingNext
<1>15. TextOK(text')
  BY <1>13, ItemsTextOK
<1>16. zero' = 0
  BY <1>1, <1>2 DEF Writing
<1>17. QED
  BY <1>1, <1>14, <1>15, <1>16, WriteKeeps

LEMMA WritesDataEnd ==
  ASSUME DataInv, WriteDataEnd
  PROVE  DataInv'
<1>1. /\ dpc = "write" /\ k \in DOMAIN inits /\ ~inits[k].ref /\ left = <<>>
      /\ text' = text \o CommaIf(k < Len(inits))
      /\ written' = written + Len(inits[k].data) /\ k' = k + 1 /\ left' = DataOf(k + 1)
      /\ dpc' = dpc /\ inits' = inits /\ dsize' = dsize /\ item' = item /\ zero' = zero /\ image' = image
  BY DEF WriteDataEnd
<1>2. Given /\ Writing
  BY <1>1, Zenon DEF DataInv
<1>3. PICK h : h = Len(inits)
  OBVIOUS
<1>4. h \in Nat /\ k \in 1 .. h /\ k \in 0 .. h /\ inits # <<>>
  <2>1. inits \in Seq(InitRec)
    BY <1>2, Zenon DEF Given
  <2>2. QED
    BY <1>1, <1>3, <2>1
<1>5. PICK b \in Nat, m \in BOOLEAN :
        Remains(Whole, Stop, k, left, b, m) /\ Items(NoEmpty, Whole, text, b, m)
  BY <1>2, <1>4, Zenon DEF Writing
<1>6. b = Stop[k] /\ m = FALSE
  <2>1. b + Len(left) = Stop[k] /\ ~m
    BY <1>1, <1>3, <1>4, <1>5 DEF Remains
  <2>2. Len(left) = 0
    BY <1>1
  <2>3. QED
    BY <2>1, <2>2
<1>7. PICK c \in BOOLEAN : (c <=> k < h) /\ Items(NoEmpty, Whole, text', Stop[k], c)
  <2>1. PICK c \in BOOLEAN : c <=> k < h
    OBVIOUS
  <2>2. Items(NoEmpty, Whole, text \o CommaIf(c), Stop[k], c)
    BY <1>5, <1>6, AddComma
  <2>3. CommaIf(c) = CommaIf(k < Len(inits))
    BY <1>3, <2>1 DEF CommaIf
  <2>4. QED
    BY <1>1, <2>1, <2>2, <2>3
<1>8. Stop[k] = Stop[k - 1] + Len(inits[k].data) /\ Stop[k] \in Nat
  BY <1>2, <1>3, <1>4, WholeFacts
<1>9. Writing'
  <2>1. PICK n \in BOOLEAN : Remains(Whole, Stop, k + 1, DataOf(k + 1), Stop[k], n) /\ (NoEmpty => (n <=> k < h))
    BY <1>2, <1>3, <1>4, Advance
  <2>2. Items(NoEmpty, Whole, text', Stop[k], n)
    BY <1>7, <2>1, ItemsDue, Zenon
  <2>3. k' \in 1 .. Len(inits) + 1 /\ k' - 1 = k
    BY <1>1, <1>3, <1>4
  <2>4. written' = Stop[k' - 1] /\ item' = TRUE /\ zero' = 0 /\ image' = <<>>
    BY <1>1, <1>2, <1>8, <2>3 DEF Writing
  <2>5. QED
    BY <1>1, <1>8, <2>1, <2>2, <2>3, <2>4, WritingNext
<1>10. TextOK(text')
  BY <1>7, ItemsTextOK
<1>11. zero' = 0
  BY <1>1, <1>2 DEF Writing
<1>12. QED
  BY <1>1, <1>9, <1>10, <1>11, WriteKeeps

LEMMA WritesData ==
  ASSUME DataInv, WriteData
  PROVE  DataInv'
<1>1. PICK z, rest, end :
      /\ z = (IF SkipsZeros(left) THEN ZeroRun(left) ELSE 0)
      /\ rest = Behind(left, z) /\ end = Behind(rest, ItemWidth(Len(rest)))
      /\ text' = text \o (IF z > 0 THEN <<Item("z", Zeros(z))>> \o CommaIf(rest # <<>>) ELSE <<>>)
                         \o Chunk(rest) \o CommaIf(end # <<>>)
      /\ left' = end
  BY Zenon DEF WriteData
<1>2. /\ dpc = "write" /\ left # <<>>
      /\ dpc' = dpc /\ inits' = inits /\ dsize' = dsize /\ k' = k /\ written' = written
      /\ item' = item /\ zero' = zero /\ image' = image
  BY DEF WriteData
<1>3. Given /\ Writing
  BY <1>2, Zenon DEF DataInv
<1>4. PICK b \in Nat, m \in BOOLEAN :
        Remains(Whole, Stop, k, left, b, m) /\ (inits # <<>> => Items(NoEmpty, Whole, text, b, m))
  BY <1>3, Zenon DEF Writing
<1>5. /\ k \in 1 .. Len(inits) /\ ~inits[k].ref /\ left \in Seq(Int) /\ b + Len(left) = Stop[k]
      /\ Holds(Whole, left, b) /\ m = TRUE
  BY <1>2, <1>4 DEF Remains
<1>6. Items(NoEmpty, Whole, text, b, TRUE)
  <2>1. inits # <<>>
    BY <1>5
  <2>2. QED
    BY <1>4, <1>5, <2>1
<1>7. /\ end \in Seq(Int) /\ Len(end) <= Len(left)
      /\ \A i \in 1 .. Len(end) : end[i] = left[Len(left) - Len(end) + i]
      /\ Items(NoEmpty, Whole, text', b + Len(left) - Len(end), end # <<>>)
  <2>1. PICK d, t, w, full : d = left /\ t = text /\ w = Whole /\ full = NoEmpty
    OBVIOUS
  <2>2. d \in Seq(Int) /\ d # <<>> /\ Items(full, w, t, b, TRUE) /\ Holds(w, d, b)
    BY <1>2, <1>5, <1>6, <2>1
  <2>3. Parts(d, z, rest, end)
    BY <1>1, <2>1, Zenon DEF Parts
  <2>4. Rounded(full, w, t, b, d, z, rest, end)
    BY <2>2, <2>3, DataRound, Zenon
  <2>5. QED
    BY <1>1, <2>1, <2>4 DEF Rounded
<1>8. PICK c, dl, de : dl = Len(left) /\ de = Len(end) /\ c = b + dl - de
  OBVIOUS
<1>9. dl \in Nat /\ de \in Nat /\ de <= dl /\ c \in Nat /\ c + de = Stop[k] /\ c = b + (dl - de)
  <2>1. dl \in Nat /\ de \in Nat /\ de <= dl /\ b + dl = Stop[k]
    BY <1>5, <1>7, <1>8
  <2>2. QED
    BY <1>8, <2>1
<1>10. Holds(Whole, end, c)
  <2>1. ASSUME NEW i \in 1 .. de PROVE c + i \in 1 .. Len(Whole) /\ Whole[c + i] = end[i]
    <3>1. PICK y : y = dl - de + i
      OBVIOUS
    <3>2. y \in 1 .. dl /\ c + i = b + y
      BY <1>9, <3>1
    <3>3. b + y \in 1 .. Len(Whole) /\ Whole[b + y] = left[y]
      BY <1>5, <1>8, <3>2 DEF Holds
    <3>4. end[i] = left[y]
      BY <1>7, <1>8, <3>1
    <3>5. QED
      BY <3>2, <3>3, <3>4
  <2>2. QED
    BY <1>8, <2>1 DEF Holds
<1>11. PICK n \in BOOLEAN : n = (end # <<>>)
  OBVIOUS
<1>12. Remains(Whole, Stop, k', left', c, n)
  BY <1>1, <1>2, <1>5, <1>7, <1>8, <1>9, <1>10, <1>11 DEF Remains
<1>13. Items(NoEmpty, Whole, text', c, n)
  BY <1>7, <1>8, <1>11
<1>14. Writing'
  <2>1. k' \in 1 .. Len(inits) + 1 /\ written' = Stop[k' - 1] /\ item' = TRUE /\ zero' = 0 /\ image' = <<>>
    BY <1>2, <1>3 DEF Writing
  <2>2. QED
    BY <1>2, <1>9, <1>12, <1>13, <2>1, WritingNext
<1>15. TextOK(text')
  BY <1>13, ItemsTextOK
<1>16. zero' = 0
  BY <1>2, <1>3 DEF Writing
<1>17. QED
  BY <1>2, <1>14, <1>15, <1>16, WriteKeeps

LEMMA TwoItems ==
  ASSUME NEW x, NEW y
  PROVE  <<x>> \o <<y>> = <<x, y>>
<1>1. PICK S, u, v, t : S = {x, y} /\ u = <<x>> /\ v = <<y>> /\ t = <<x, y>>
  OBVIOUS
<1>2. u \in Seq(S) /\ v \in Seq(S) /\ Len(u) = 1 /\ Len(v) = 1 /\ u[1] = x /\ v[1] = y
  BY <1>1
<1>3. t \in Seq(S) /\ Len(t) = 2 /\ t[1] = x /\ t[2] = y
  BY <1>1
<1>4. /\ u \o v \in Seq(S) /\ Len(u \o v) = 2
      /\ \A i \in 1 .. 2 : (u \o v)[i] = IF i <= 1 THEN u[i] ELSE v[i - 1]
  BY <1>2, ConcatProperties
<1>5. (u \o v)[1] = x /\ (u \o v)[2] = y
  BY <1>2, <1>4
<1>6. \A i \in 1 .. 2 : (u \o v)[i] = t[i]
  <2>1. \A i \in 1 .. 2 : i = 1 \/ i = 2
    OBVIOUS
  <2>2. QED
    BY <1>3, <1>5, <2>1, Zenon
<1>7. u \o v = t
  BY <1>3, <1>4, <1>6, SeqEqual
<1>8. QED
  BY <1>1, <1>7

(* All is written, the parser starts.                                      *)
LEMMA ParsingNext ==
  ASSUME DataInv, inits' = inits, dsize' = dsize, dpc' = "parse",
         item' = TRUE, zero' = 0, image' = <<>>,
         Items(NoEmpty, Whole, text', dsize, FALSE)
  PROVE  DataInv'
<1>1. Given /\ Given' /\ Whole' = Whole /\ (NoEmpty' <=> NoEmpty)
  BY Frame, Zenon DEF DataInv
<1>2. dsize \in Nat /\ Len(Whole) = dsize
  BY <1>1, WholeFacts, Zenon DEF Given
<1>3. TextOK(text')
  BY ItemsTextOK
<1>4. Begun(Whole, 0, zero', image')
  BY <1>2 DEF Begun
<1>5. Spells(Whole, text', 0, dsize) /\ (NoEmpty => Turn(text', TRUE, FALSE))
  BY Zenon DEF Items
<1>6. Parsing'
  <2>1. Spells(Whole', text', 0, dsize') /\ Begun(Whole', 0, zero', image')
    BY <1>1, <1>4, <1>5
  <2>2. item' \in BOOLEAN /\ (NoEmpty' => Turn(text', item', FALSE))
    BY <1>1, <1>5
  <2>3. QED
    BY <2>1, <2>2, Zenon DEF Parsing
<1>7. zero' \in -1 .. dsize'
  BY <1>2
<1>8. QED
  BY <1>1, <1>3, <1>6, <1>7 DEF DataInv, TextOK, ItemOK

LEMMA WritesZero ==
  ASSUME DataInv, WriteZero
  PROVE  DataInv'
<1>1. /\ dpc = "write" /\ inits = <<>> /\ text' = <<Item("z", Zeros(dsize))>> /\ dpc' = "parse"
      /\ inits' = inits /\ dsize' = dsize /\ item' = item /\ zero' = zero /\ image' = image
  BY DEF WriteZero
<1>2. Given /\ Writing
  BY <1>1, Zenon DEF DataInv
<1>3. dsize \in Nat /\ Len(Content) = 0 /\ Holds(Whole, Zeros(dsize), 0)
  <2>1. dsize \in Nat /\ Stop[Len(inits)] = Len(Content) /\ Stop[0] = 0
        /\ Holds(Whole, Zeros(dsize - Len(Content)), Len(Content))
    BY <1>2, WholeFacts, Zenon DEF Given
  <2>2. Len(inits) = 0
    BY <1>1
  <2>3. Len(Content) = 0
    BY <2>1, <2>2
  <2>4. dsize - Len(Content) = dsize
    BY <2>1, <2>3
  <2>5. QED
    BY <2>1, <2>3, <2>4
<1>4. PICK x : x = Item("z", Zeros(dsize))
  OBVIOUS
<1>5. ItemOK(x) /\ x # Comma /\ x.bytes = Zeros(dsize) /\ Len(x.bytes) = dsize
  BY <1>3, <1>4, ZerosFacts
<1>6. Fits(Whole, x, 0)
  BY <1>3, <1>5, Zenon DEF Fits, Holds
<1>7. Items(NoEmpty, Whole, <<>>, 0, TRUE)
  <2>1. Spells(Whole, <<>>, 0, 0)
    <3>1. 0 \in Nat
      OBVIOUS
    <3>2. QED
      BY <3>1, SpellsNothing
  <2>2. Turn(<<>>, TRUE, TRUE)
    BY NoBytes DEF Turn
  <2>3. QED
    BY <2>1, <2>2 DEF Items
<1>8. Items(NoEmpty, Whole, <<>> \o <<x>>, 0 + Len(x.bytes), FALSE)
  BY <1>5, <1>6, <1>7, AddItem
<1>9. <<>> \o <<x>> = text' /\ 0 + Len(x.bytes) = dsize
  BY <1>1, <1>3, <1>4, <1>5
<1>10. item' = TRUE /\ zero' = 0 /\ image' = <<>>
  BY <1>1, <1>2 DEF Writing
<1>11. QED
  BY <1>1, <1>8, <1>9, <1>10, ParsingNext

LEMMA WritesEnd ==
  ASSUME DataInv, WriteEnd
  PROVE  DataInv'
<1>1. /\ dpc = "write" /\ inits # <<>> /\ k > Len(inits) /\ dpc' = "parse"
      /\ text' = text \o (IF written < dsize THEN <<Comma, Item("z", Zeros(dsize - written))>> ELSE <<>>)
      /\ inits' = inits /\ dsize' = dsize /\ item' = item /\ zero' = zero /\ image' = image
  BY DEF WriteEnd
<1>2. Given /\ Writing
  BY <1>1, Zenon DEF DataInv
<1>3. PICK h : h = Len(inits)
  OBVIOUS
<1>4. h \in Nat /\ k = h + 1 /\ k - 1 = h
  <2>1. inits \in Seq(InitRec)
    BY <1>2, Zenon DEF Given
  <2>2. h \in Nat /\ k \in 1 .. h + 1
    BY <1>2, <1>3, <2>1 DEF Writing
  <2>3. QED
    BY <1>1, <1>3, <2>2
<1>5. PICK b \in Nat, m \in BOOLEAN :
        Remains(Whole, Stop, k, left, b, m) /\ Items(NoEmpty, Whole, text, b, m)
  BY <1>1, <1>2, Zenon DEF Writing
<1>6. b = Stop[h] /\ m = FALSE
  BY <1>3, <1>4, <1>5 DEF Remains
<1>7. /\ dsize \in Nat /\ Stop[h] = Len(Content) /\ Len(Content) <= dsize
      /\ Holds(Whole, Zeros(dsize - Len(Content)), Len(Content))
  BY <1>2, <1>3, WholeFacts, Zenon DEF Given
<1>8. written = b
  BY <1>2, <1>4, <1>6 DEF Writing
<1>9. PICK n : n = dsize - written
  OBVIOUS
<1>10. n \in Nat /\ b + n = dsize /\ Holds(Whole, Zeros(n), b)
  BY <1>5, <1>6, <1>7, <1>8, <1>9
<1>11. Items(NoEmpty, Whole, text', dsize, FALSE)
  <2>1. CASE written < dsize
    <3>1. PICK x : x = Item("z", Zeros(n))
      OBVIOUS
    <3>2. ItemOK(x) /\ x # Comma /\ x.bytes = Zeros(n) /\ Len(x.bytes) = n
      BY <1>10, <3>1, ZerosFacts
    <3>3. Fits(Whole, x, b)
      BY <1>10, <3>2, Zenon DEF Fits, Holds
    <3>4. Items(NoEmpty, Whole, text \o CommaIf(TRUE), b, TRUE)
      BY <1>5, <1>6, AddComma
    <3>5. Items(NoEmpty, Whole, text \o CommaIf(TRUE) \o <<x>>, b + Len(x.bytes), FALSE)
      BY <3>2, <3>3, <3>4, AddItem
    <3>6. text \o CommaIf(TRUE) \o <<x>> = text'
      <4>1. text \in Seq(ItemRec) /\ Comma \in ItemRec /\ x \in ItemRec
        BY <1>5, <3>2, SpellsFacts, CommaFits, Zenon DEF Items, ItemOK
      <4>2. text' = text \o <<Comma, x>> /\ CommaIf(TRUE) = <<Comma>>
        BY <1>1, <1>9, <2>1, <3>1 DEF CommaIf
      <4>3. text \o <<Comma>> \o <<x>> = text \o (<<Comma>> \o <<x>>)
        <5>1. <<Comma>> \in Seq(ItemRec) /\ <<x>> \in Seq(ItemRec)
          BY <4>1
        <5>2. QED
          BY <4>1, <5>1, ConcatAssociative
      <4>4. <<Comma>> \o <<x>> = <<Comma, x>>
        BY TwoItems
      <4>5. QED
        BY <4>2, <4>3, <4>4
    <3>7. QED
      BY <1>10, <3>2, <3>5, <3>6
  <2>2. CASE ~ (written < dsize)
    <3>1. b = dsize
      BY <1>5, <1>6, <1>7, <1>8, <2>2
    <3>2. text \in Seq(ItemRec)
      BY <1>5, SpellsFacts, Zenon DEF Items
    <3>3. text' = text
      BY <1>1, <2>2, <3>2
    <3>4. QED
      BY <1>5, <1>6, <3>1, <3>3
  <2>3. QED
    BY <2>1, <2>2
<1>12. item' = TRUE /\ zero' = 0 /\ image' = <<>>
  BY <1>1, <1>2 DEF Writing
<1>13. QED
  BY <1>1, <1>11, <1>12, ParsingNext

-----------------------------------------------------------------------------
(* The steps of the parser.                                                *)
LEMMA FitsBound ==
  ASSUME NEW w \in Seq(Int), NEW x, NEW a \in Nat, a <= Len(w), Fits(w, x, a)
  PROVE  a + Len(x.bytes) \in Nat /\ a + Len(x.bytes) <= Len(w) /\ x.bytes \in Seq(Int) /\ Len(x.bytes) \in Nat
<1>1. x \in ItemRec
  BY Zenon DEF Fits, ItemOK
<1>2. x.bytes \in Seq(Int)
  BY <1>1 DEF ItemRec
<1>3. PICK n, m : n = Len(x.bytes) /\ m = Len(w)
  OBVIOUS
<1>4. n \in Nat /\ m \in Nat
  BY <1>2, <1>3
<1>5. \A i \in 1 .. n : a + i \in 1 .. m
  BY <1>3, Zenon DEF Fits
<1>6. CASE n = 0
  BY <1>2, <1>3, <1>4, <1>6
<1>7. CASE n # 0
  <2>1. n \in 1 .. n
    BY <1>4, <1>7
  <2>2. a + n \in 1 .. m
    BY <1>5, <2>1
  <2>3. QED
    BY <1>2, <1>3, <1>4, <2>2
<1>8. QED
  BY <1>6, <1>7

(* Zeros that are held back.                                               *)
LEMMA HoldBack ==
  ASSUME NEW w \in Seq(Int), NEW x, NEW a \in Nat, NEW zr, NEW im,
         Begun(w, a, zr, im), zr # -1, Fits(w, x, a), x.type = "z"
  PROVE  Begun(w, a + Len(x.bytes), zr + Len(x.bytes), im)
<1>1. zr = a /\ im = <<>> /\ a <= Len(w) /\ \A y \in 1 .. a : w[y] = 0
  BY DEF Begun
<1>2. PICK n : n = Len(x.bytes)
  OBVIOUS
<1>3. a + n \in Nat /\ a + n <= Len(w) /\ n \in Nat
  BY <1>1, <1>2, FitsBound
<1>4. \A i \in 1 .. n : w[a + i] = x.bytes[i] /\ x.bytes[i] = 0
  BY <1>2, Zenon DEF Fits, ItemOK
<1>5. ASSUME NEW y \in 1 .. a + n PROVE w[y] = 0
  <2>1. CASE y <= a
    <3>1. y \in 1 .. a
      BY <1>3, <2>1
    <3>2. QED
      BY <1>1, <3>1
  <2>2. CASE ~ (y <= a)
    <3>1. PICK i : i = y - a
      OBVIOUS
    <3>2. i \in 1 .. n /\ a + i = y
      BY <1>3, <2>2, <3>1
    <3>3. QED
      BY <1>4, <3>2
  <2>3. QED
    BY <2>1, <2>2
<1>6. QED
  BY <1>1, <1>2, <1>3, <1>5 DEF Begun

(* Bytes that go to the file, behind the zeros held back.                  *)
LEMMA EmitAll ==
  ASSUME NEW w \in Seq(Int), NEW x, NEW a \in Nat, NEW zr, NEW im,
         Begun(w, a, zr, im), Fits(w, x, a)
  PROVE  Begun(w, a + Len(x.bytes), -1, im \o (IF zr # -1 THEN Zeros(zr) ELSE <<>>) \o x.bytes)
<1>1. PICK u, v : u = im \o (IF zr # -1 THEN Zeros(zr) ELSE <<>>) /\ v = x.bytes
  OBVIOUS
<1>2. u \in Seq(Int) /\ Len(u) = a /\ a <= Len(w) /\ \A y \in 1 .. a : u[y] = w[y]
  <2>1. CASE zr = -1
    <3>1. im \in Seq(Int) /\ Len(im) = a /\ a <= Len(w) /\ \A y \in 1 .. a : im[y] = w[y]
      BY <2>1 DEF Begun
    <3>2. u = im
      BY <1>1, <2>1, <3>1
    <3>3. QED
      BY <3>1, <3>2
  <2>2. CASE zr # -1
    <3>1. zr = a /\ im = <<>> /\ a <= Len(w) /\ \A y \in 1 .. a : w[y] = 0
      BY <2>2 DEF Begun
    <3>2. Zeros(a) \in Seq(Int) /\ Len(Zeros(a)) = a /\ \A y \in 1 .. a : Zeros(a)[y] = 0
      BY ZerosFacts
    <3>3. u = Zeros(a)
      BY <1>1, <2>2, <3>1, <3>2
    <3>4. QED
      BY <3>1, <3>2, <3>3
  <2>3. QED
    BY <2>1, <2>2
<1>3. PICK n : n = Len(v)
  OBVIOUS
<1>4. v \in Seq(Int) /\ n \in Nat /\ a + n \in Nat /\ a + n <= Len(w)
  BY <1>1, <1>2, <1>3, FitsBound
<1>5. /\ u \o v \in Seq(Int) /\ Len(u \o v) = Len(u) + Len(v)
      /\ \A y \in 1 .. Len(u) : (u \o v)[y] = u[y]
      /\ \A y \in 1 .. Len(v) : (u \o v)[Len(u) + y] = v[y]
  BY <1>2, <1>4, Joined, Zenon
<1>6. \A i \in 1 .. n : w[a + i] = v[i]
  BY <1>1, <1>3, Zenon DEF Fits
<1>7. ASSUME NEW y \in 1 .. a + n PROVE (u \o v)[y] = w[y]
  <2>1. CASE y <= a
    <3>1. y \in 1 .. a
      BY <1>4, <2>1
    <3>2. QED
      BY <1>2, <1>5, <3>1
  <2>2. CASE ~ (y <= a)
    <3>1. PICK i : i = y - a
      OBVIOUS
    <3>2. i \in 1 .. n /\ a + i = y
      BY <1>4, <2>2, <3>1
    <3>3. QED
      BY <1>2, <1>3, <1>5, <1>6, <3>2
  <2>3. QED
    BY <2>1, <2>2
<1>8. Begun(w, a + n, -1, u \o v)
  BY <1>2, <1>3, <1>4, <1>5, <1>7 DEF Begun
<1>9. QED
  BY <1>1, <1>3, <1>8

(* What a step of the parser keeps.                                        *)
LEMMA ParseKeeps ==
  ASSUME DataInv, dpc = "parse", dpc' = dpc, inits' = inits, dsize' = dsize,
         NEW a, Spells(Whole, text', a, dsize), Begun(Whole, a, zero', image'),
         item' \in BOOLEAN, NoEmpty => Turn(text', item', FALSE)
  PROVE  DataInv'
<1>1. Given /\ Given' /\ Whole' = Whole /\ (NoEmpty' <=> NoEmpty)
  BY Frame, Zenon DEF DataInv
<1>2. dsize \in Nat /\ Len(Whole) = dsize
  BY <1>1, WholeFacts, Zenon DEF Given
<1>3. TextOK(text')
  BY SpellsFacts, Zenon DEF TextOK
<1>4. Parsing'
  <2>1. Spells(Whole', text', a, dsize') /\ Begun(Whole', a, zero', image')
    BY <1>1
  <2>2. NoEmpty' => Turn(text', item', FALSE)
    BY <1>1
  <2>3. QED
    BY <2>1, <2>2, Zenon DEF Parsing
<1>5. zero' \in -1 .. dsize'
  BY <1>2 DEF Begun
<1>6. QED
  BY <1>1, <1>3, <1>4, <1>5 DEF DataInv, TextOK, ItemOK

LEMMA ParsesItem ==
  ASSUME DataInv, ParseItem
  PROVE  DataInv'
<1>1. /\ dpc = "parse" /\ text # <<>> /\ item /\ Head(text) # Comma
      /\ text' = Tail(text) /\ item' = FALSE /\ dpc' = dpc /\ inits' = inits /\ dsize' = dsize
  BY DEF ParseItem
<1>2. Given /\ Parsing
  BY <1>1, Zenon DEF DataInv
<1>3. PICK a : Spells(Whole, text, a, dsize) /\ Begun(Whole, a, zero, image)
  BY <1>2, Zenon DEF Parsing
<1>4. PICK x, w : x = Head(text) /\ w = Whole
  OBVIOUS
<1>5. w \in Seq(Int) /\ Len(w) = dsize
  BY <1>2, <1>4, WholeFacts, Zenon
<1>6. Fits(w, x, a) /\ Spells(w, text', a + Len(x.bytes), dsize)
  BY <1>1, <1>3, <1>4, TakeItem
<1>7. a \in Nat /\ a <= Len(w) /\ text \in Seq(ItemRec)
  <2>1. a \in Nat /\ text \in Seq(ItemRec)
    BY <1>3, SpellsFacts
  <2>2. a <= Len(w)
    BY <1>3, <1>4 DEF Begun
  <2>3. QED
    BY <2>1, <2>2
<1>8. x.bytes \in Seq(Int) /\ Len(x.bytes) \in Nat
  BY <1>5, <1>6, <1>7, FitsBound
<1>9. Begun(w, a + Len(x.bytes), zero', image')
  <2>1. CASE x.type = "z" /\ zero # -1
    <3>1. zero' = zero + Len(x.bytes) /\ image' = image
      BY <1>4, <2>1 DEF ParseItem, EmitZeros
    <3>2. Begun(w, a + Len(x.bytes), zero + Len(x.bytes), image)
      BY <1>3, <1>4, <1>5, <1>6, <1>7, <2>1, HoldBack
    <3>3. QED
      BY <3>1, <3>2
  <2>2. CASE x.type = "z" /\ zero = -1
    <3>1. image' = image \o Zeros(Len(x.bytes)) /\ zero' = -1
      BY <1>4, <2>2 DEF ParseItem, EmitZeros
    <3>2. Zeros(Len(x.bytes)) = x.bytes
      <4>1. PICK n, y : n = Len(x.bytes) /\ y = x.bytes
        OBVIOUS
      <4>2. \A i \in 1 .. n : y[i] = 0
        BY <1>6, <2>2, <4>1, Zenon DEF Fits, ItemOK
      <4>3. Zeros(n) \in Seq(Int) /\ Len(Zeros(n)) = n /\ \A i \in 1 .. n : Zeros(n)[i] = 0
        BY <1>8, <4>1, ZerosFacts
      <4>4. Zeros(n) = y
        BY <1>8, <4>1, <4>2, <4>3, SeqEqual
      <4>5. QED
        BY <4>1, <4>4
    <3>3. image \in Seq(Int)
      BY <1>3, <1>4, <2>2, <1>7 DEF Begun
    <3>4. image \o (IF zero # -1 THEN Zeros(zero) ELSE <<>>) \o x.bytes = image \o x.bytes
      BY <2>2, <3>3
    <3>5. Begun(w, a + Len(x.bytes), -1, image \o (IF zero # -1 THEN Zeros(zero) ELSE <<>>) \o x.bytes)
      BY <1>3, <1>4, <1>5, <1>6, <1>7, EmitAll
    <3>6. QED
      BY <3>1, <3>2, <3>4, <3>5
  <2>3. CASE x.type # "z"
    <3>1. image' = image \o (IF zero # -1 THEN Zeros(zero) ELSE <<>>) \o x.bytes /\ zero' = -1
      BY <1>4, <2>3 DEF ParseItem, EmitBytes
    <3>2. Begun(w, a + Len(x.bytes), -1, image \o (IF zero # -1 THEN Zeros(zero) ELSE <<>>) \o x.bytes)
      BY <1>3, <1>4, <1>5, <1>6, <1>7, EmitAll
    <3>3. QED
      BY <3>1, <3>2
  <2>4. QED
    BY <2>1, <2>2, <2>3
<1>10. NoEmpty => Turn(text', item', FALSE)
  <2>1. SUFFICES ASSUME NoEmpty PROVE Turn(text', item', FALSE)
    OBVIOUS
  <2>2. Turn(text, item, FALSE) /\ item \in BOOLEAN
    BY <1>2, <2>1, Zenon DEF Parsing
  <2>3. Turn(Tail(text), ~item, FALSE)
    <3>1. FALSE \in BOOLEAN
      OBVIOUS
    <3>2. QED
      BY <1>1, <1>7, <2>2, <3>1, TurnTake, Zenon
  <2>4. (~item) = FALSE
    BY <1>1, <2>2
  <2>5. QED
    BY <1>1, <2>3, <2>4
<1>11. Spells(Whole, text', a + Len(x.bytes), dsize) /\ Begun(Whole, a + Len(x.bytes), zero', image')
  BY <1>4, <1>6, <1>9
<1>12. item' \in BOOLEAN
  BY <1>1
<1>13. QED
  BY <1>1, <1>10, <1>11, <1>12, ParseKeeps

LEMMA ParsesComma ==
  ASSUME DataInv, ParseComma
  PROVE  DataInv'
<1>1. /\ dpc = "parse" /\ text # <<>> /\ ~item /\ Head(text) = Comma
      /\ text' = Tail(text) /\ item' = TRUE /\ dpc' = dpc /\ inits' = inits /\ dsize' = dsize
      /\ zero' = zero /\ image' = image
  BY DEF ParseComma
<1>2. Given /\ Parsing
  BY <1>1, Zenon DEF DataInv
<1>3. PICK a : Spells(Whole, text, a, dsize) /\ Begun(Whole, a, zero, image)
  BY <1>2, Zenon DEF Parsing
<1>4. a \in Nat /\ text \in Seq(ItemRec)
  BY <1>3, SpellsFacts
<1>5. Spells(Whole, text', a, dsize)
  <2>1. Spells(Whole, Tail(text), a + Len(Head(text).bytes), dsize)
    BY <1>1, <1>3, TakeItem
  <2>2. Len(Head(text).bytes) = 0
    BY <1>1, CommaFits
  <2>3. a + Len(Head(text).bytes) = a
    BY <1>4, <2>2
  <2>4. QED
    BY <1>1, <2>1, <2>3
<1>6. NoEmpty => Turn(text', item', FALSE)
  <2>1. SUFFICES ASSUME NoEmpty PROVE Turn(text', item', FALSE)
    OBVIOUS
  <2>2. Turn(text, item, FALSE) /\ item \in BOOLEAN
    BY <1>2, <2>1, Zenon DEF Parsing
  <2>3. Turn(Tail(text), ~item, FALSE)
    <3>1. FALSE \in BOOLEAN
      OBVIOUS
    <3>2. QED
      BY <1>1, <1>4, <2>2, <3>1, TurnTake, Zenon
  <2>4. (~item) = TRUE
    BY <1>1, <2>2
  <2>5. QED
    BY <1>1, <2>3, <2>4
<1>7. item' \in BOOLEAN /\ Begun(Whole, a, zero', image')
  BY <1>1, <1>3
<1>8. QED
  BY <1>1, <1>5, <1>6, <1>7, ParseKeeps

LEMMA ParsesError ==
  ASSUME DataInv, ParseError
  PROVE  DataInv'
<1>1. /\ dpc = "parse" /\ text # <<>> /\ (Head(text) = Comma <=> item) /\ dpc' = "error"
      /\ inits' = inits /\ dsize' = dsize /\ text' = text /\ zero' = zero
  BY DEF ParseError
<1>2. Given' /\ (NoEmpty' <=> NoEmpty)
  BY <1>1, Frame, Zenon DEF DataInv
<1>3. Parsing /\ text \in Seq(ItemRec)
  BY <1>1, Zenon DEF DataInv, TextOK
<1>4. ~NoEmpty
  <2>1. SUFFICES ASSUME NoEmpty PROVE FALSE
    OBVIOUS
  <2>2. Turn(text, item, FALSE) /\ item \in BOOLEAN
    BY <1>3, <2>1, Zenon DEF Parsing
  <2>3. Head(text) = Comma <=> ~item
    <3>1. FALSE \in BOOLEAN
      OBVIOUS
    <3>2. QED
      BY <1>1, <1>3, <2>2, <3>1, TurnTake, ZenonT(60)
  <2>4. QED
    BY <1>1, <2>2, <2>3
<1>5. TextOK(text)' /\ (zero \in -1 .. dsize)'
  BY <1>1 DEF DataInv, TextOK, ItemOK
<1>6. QED
  BY <1>1, <1>2, <1>4, <1>5 DEF DataInv

LEMMA ParsesEnd ==
  ASSUME DataInv, ParseEnd
  PROVE  DataInv'
<1>1. /\ dpc = "parse" /\ text = <<>> /\ dpc' = "done"
      /\ image' = (IF zero # -1 THEN Zeros(zero) ELSE image)
      /\ inits' = inits /\ dsize' = dsize /\ text' = text /\ zero' = zero
  BY DEF ParseEnd
<1>2. Given /\ Given' /\ Whole' = Whole
  BY <1>1, Frame, Zenon DEF DataInv
<1>3. Parsing
  BY <1>1, Zenon DEF DataInv
<1>4. PICK a : Spells(Whole, text, a, dsize) /\ Begun(Whole, a, zero, image)
  BY <1>3, Zenon DEF Parsing
<1>5. a \in Nat /\ a = dsize
  <2>1. a \in Nat
    BY <1>4, SpellsFacts
  <2>2. QED
    BY <1>1, <1>4, <2>1, SpellsNothing
<1>6. PICK w : w = Whole
  OBVIOUS
<1>7. w \in Seq(Int) /\ Len(w) = a
  BY <1>2, <1>5, <1>6, WholeFacts, Zenon
<1>8. image' = w
  <2>1. CASE zero = -1
    <3>1. image \in Seq(Int) /\ Len(image) = a /\ \A y \in 1 .. a : image[y] = w[y]
      BY <1>4, <1>5, <1>6, <2>1 DEF Begun
    <3>2. image = w
      BY <1>7, <3>1, SeqEqual
    <3>3. QED
      BY <1>1, <2>1, <3>2
  <2>2. CASE zero # -1
    <3>1. zero = a /\ \A y \in 1 .. a : w[y] = 0
      BY <1>4, <1>6, <2>2 DEF Begun
    <3>2. Zeros(a) \in Seq(Int) /\ Len(Zeros(a)) = a /\ \A y \in 1 .. a : Zeros(a)[y] = 0
      BY <1>5, ZerosFacts
    <3>3. Zeros(a) = w
      BY <1>7, <3>1, <3>2, SeqEqual
    <3>4. QED
      BY <1>1, <2>2, <3>1, <3>3
  <2>3. QED
    BY <2>1, <2>2
<1>9. TextOK(text)' /\ (zero \in -1 .. dsize)'
  BY <1>1 DEF DataInv, TextOK, ItemOK
<1>10. QED
  BY <1>1, <1>2, <1>6, <1>8, <1>9 DEF DataInv

-----------------------------------------------------------------------------
LEMMA DataStep == DataInv /\ [DataNext]_dataVars => DataInv'
<1>1. SUFFICES ASSUME DataInv, [DataNext]_dataVars PROVE DataInv'
  OBVIOUS
<1>2. CASE DataNext
  BY <1>1, <1>2, WritesZero, WritesRef, WritesData, WritesDataEnd, WritesEnd,
     ParsesItem, ParsesComma, ParsesError, ParsesEnd, Zenon DEF DataNext
<1>3. CASE UNCHANGED dataVars
  <2>1. /\ dpc' = dpc /\ inits' = inits /\ dsize' = dsize /\ k' = k /\ left' = left /\ written' = written
        /\ text' = text /\ item' = item /\ zero' = zero /\ image' = image
    BY <1>3 DEF dataVars
  <2>2. Given' /\ Given /\ (NoEmpty' <=> NoEmpty) /\ Whole' = Whole
    BY <1>1, <2>1, Frame, Zenon DEF DataInv
  <2>3. CASE dpc = "write"
    <3>1. Writing /\ TextOK(text)
      BY <1>1, <2>3, Zenon DEF DataInv
    <3>2. PICK b \in Nat, n \in BOOLEAN :
            Remains(Whole, Stop, k, left, b, n) /\ (inits # <<>> => Items(NoEmpty, Whole, text, b, n))
      BY <3>1, Zenon DEF Writing
    <3>3. /\ k' \in 1 .. Len(inits) + 1 /\ written' = Stop[k' - 1]
          /\ item' = TRUE /\ zero' = 0 /\ image' = <<>>
      BY <2>1, <3>1 DEF Writing
    <3>4. Remains(Whole, Stop, k', left', b, n) /\ (inits # <<>> => Items(NoEmpty, Whole, text', b, n))
      BY <2>1, <3>2
    <3>5. Writing'
      BY <2>1, <3>3, <3>4, WritingNext
    <3>6. TextOK(text')
      BY <2>1, <3>1
    <3>7. QED
      BY <1>1, <2>1, <2>3, <3>3, <3>5, <3>6, WriteKeeps
  <2>4. CASE dpc = "parse"
    <3>1. Parsing
      BY <1>1, <2>4, Zenon DEF DataInv
    <3>2. PICK a : Spells(Whole, text, a, dsize) /\ Begun(Whole, a, zero, image)
      BY <3>1, Zenon DEF Parsing
    <3>3. Spells(Whole, text', a, dsize) /\ Begun(Whole, a, zero', image')
      BY <2>1, <3>2
    <3>4. item' \in BOOLEAN /\ (NoEmpty => Turn(text', item', FALSE))
      BY <2>1, <3>1 DEF Parsing
    <3>5. QED
      BY <1>1, <2>1, <2>4, <3>3, <3>4, ParseKeeps
  <2>5. CASE dpc \notin {"write", "parse"}
    <3>1. TextOK(text)' /\ (zero \in -1 .. dsize)'
      BY <1>1, <2>1 DEF DataInv, TextOK, ItemOK
    <3>2. dpc' # "write" /\ dpc' # "parse" /\ dpc' \in {"write", "parse", "done", "error"}
      BY <1>1, <2>1, <2>5 DEF DataInv
    <3>3. (dpc' = "done" => image' = Whole') /\ (dpc' = "error" => ~NoEmpty')
      BY <1>1, <2>1, <2>2 DEF DataInv
    <3>4. QED
      BY <2>2, <3>1, <3>2, <3>3 DEF DataInv
  <2>6. QED
    BY <2>3, <2>4, <2>5
<1>4. QED
  BY <1>1, <1>2, <1>3

LEMMA DataInvariant == DataSpec => []DataInv
BY InitInv, DataStep, PTL DEF DataSpec

(* Types, and every item is as wide as its letter says.                    *)
THEOREM DataTypes == DataSpec => []DataOK
<1>1. DataInv => DataOK
  <2>1. SUFFICES ASSUME DataInv PROVE DataOK
    OBVIOUS
  <2>2. /\ dpc \in {"write", "parse", "done", "error"} /\ zero \in -1 .. dsize
        /\ text \in Seq(ItemRec) /\ \A i \in 1 .. Len(text) : ItemOK(text[i])
    BY <2>1, Zenon DEF DataInv, TextOK
  <2>3. DOMAIN text = 1 .. Len(text)
    BY <2>2
  <2>4. \A i \in 1 .. Len(text) : text[i].type \in {"l", "w", "h", "b"} => text[i].type = Letter(Len(text[i].bytes))
    BY <2>2, Zenon DEF ItemOK
  <2>5. QED
    BY <2>2, <2>3, <2>4, Zenon DEF DataOK
<1>2. QED
  BY <1>1, DataInvariant, PTL

(* The parser takes what the builder writes of any initialisers that are   *)
(* not empty: items and commas take turns from the first to the last.      *)
THEOREM ParserAccepts == DataSpec => []Accepted
<1>1. DataInv => Accepted
  BY Zenon DEF DataInv, Accepted, NoEmpty
<1>2. QED
  BY <1>1, DataInvariant, PTL

(* Whatever initialisers a variable has, of any number, length and bytes,  *)
(* the object file has them byte for byte, and zeros up to its size.       *)
THEOREM ImageIsExact == DataSpec => []ImageExact
<1>1. DataInv => ImageExact
  BY Zenon DEF DataInv, ImageExact, Whole
<1>2. QED
  BY <1>1, DataInvariant, PTL

=============================================================================
