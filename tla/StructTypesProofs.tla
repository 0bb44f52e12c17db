------------------------- MODULE StructTypesProofs -------------------------
(***************************************************************************)
(* Proofs about StructTypes, for any number of structs, fields and         *)
(* elements: layouts are sound, every shape is declared once, behind what  *)
(* it embeds, and QBE computes the layout the host was told.               *)
(***************************************************************************)
EXTENDS StructTypes, WellFoundedInduction, TLAPS

Pow == {1, 2, 4, 8}
TypeRec == [spec : Nat, size : {0} \cup Pow]
FieldRec == [type : TypeRec, repeat : Nat \ {0}, offset : Nat]
StructRec ==
  [fields : Seq(FieldRec), packed : BOOLEAN, ready : BOOLEAN, size : Nat,
   align : {0} \cup Pow, compiled : BOOLEAN, iota : Nat]

(* What a field may be of: an embedded struct is up to date.               *)
Fit(ss, t) ==
  \/ t.spec = 0 /\ t.size \in Pow
  \/ t.spec \in DOMAIN ss /\ t.size = 0 /\ ss[t.spec].ready

Embeds(ss, r, s) == \E i \in DOMAIN ss[r].fields : ss[r].fields[i].type.spec = s

(* No struct is, at whatever depth, a part of itself.                      *)
Acyclic(ss) ==
  \A S \in SUBSET (DOMAIN ss) :
    S # {} => \E m \in S : \A s \in S : ~Embeds(ss, m, s)

(* The layout of a struct that is up to date.                              *)
Behind(ss, st, i) ==
  IF i = 0 THEN 0 ELSE st.fields[i].offset + Extent(ss, st.fields[i])
Placed(ss, st, i) ==
  st.fields[i].offset = IF st.packed THEN Behind(ss, st, i - 1)
                        ELSE RoundUp(Behind(ss, st, i - 1), Info(ss, st.fields[i].type).align)
Aligns(ss, st) == {1} \cup {Info(ss, st.fields[i].type).align : i \in DOMAIN st.fields}
Laid(ss, st) ==
  /\ st.align = IF st.packed THEN 1 ELSE Max(Aligns(ss, st))
  /\ \A i \in DOMAIN st.fields : Placed(ss, st, i)
  /\ st.size = IF st.packed THEN Behind(ss, st, Len(st.fields))
               ELSE RoundUp(Behind(ss, st, Len(st.fields)), st.align)

LayoutsOK(ss) ==
  /\ ss \in Seq(StructRec)
  /\ \A s \in DOMAIN ss : \A i \in DOMAIN ss[s].fields : Fit(ss, ss[s].fields[i].type)
  /\ Acyclic(ss)
  /\ \A s \in DOMAIN ss : ss[s].ready => ss[s].align \in Pow /\ Laid(ss, ss[s])

(* Calls in progress, calls to come, and structs whose declaration is      *)
(* settled.                                                                *)
Open(s) == \E q \in DOMAIN stack : stack[q].st = s /\ stack[q].at # 0
Waits(s) == \E q \in DOMAIN stack : stack[q].st = s /\ stack[q].at = 0
Settled(s) == structs[s].ready /\ structs[s].compiled /\ ~Open(s)

CallRec == [st : Nat, at : Nat]
CallOK(q) ==
  stack[q].at # 0 =>
    LET s == stack[q].st
    IN /\ structs[s].ready /\ structs[s].compiled
       /\ q # 1 =>
            /\ stack[q].at >= 2
            /\ structs[s].fields[stack[q].at - 1].type.spec = stack[q - 1].st
            /\ q # 2 => stack[q - 1].at # 0
       /\ ~structs[s].packed =>
            \A i \in DOMAIN structs[s].fields :
              i < stack[q].at /\ (q # 1 => i # stack[q].at - 1) =>
                LET e == structs[s].fields[i].type.spec IN e # 0 => Settled(e)
       /\ \A k \in DOMAIN cache : Shape(cache[k]) # Shape(s)

DeclRec ==
  [iota : Nat, align : {0} \cup Pow, dark : BOOLEAN, size : Nat,
   fields : Seq([basic : {0} \cup Pow, repeat : Nat \ {0}, iota : Nat])]
DeclOK(k) ==
  LET s == cache[k]
  IN /\ s \in Structs /\ Settled(s) /\ structs[s].iota = k - 1
     /\ out[k] = Declaration(s, k - 1)
     /\ ~structs[s].packed =>
          \A i \in DOMAIN structs[s].fields :
            LET e == structs[s].fields[i].type.spec
            IN e # 0 => Settled(e) /\ structs[e].iota < k - 1
     /\ \A j \in DOMAIN cache : Shape(cache[j]) = Shape(s) => j = k

StructOK(s) ==
  /\ structs[s].iota <= Len(cache)
  /\ structs[s].ready /\ ~structs[s].compiled => Waits(s)
  /\ Settled(s) =>
       /\ structs[s].iota + 1 \in DOMAIN cache
       /\ Shape(cache[structs[s].iota + 1]) = Shape(s)

CompileOK ==
  /\ stack \in Seq(CallRec) /\ cache \in Seq(Nat) /\ out \in Seq(DeclRec) /\ Len(out) = Len(cache)
  /\ \A q \in DOMAIN stack :
       stack[q].st \in Structs /\ stack[q].at <= Len(structs[stack[q].st].fields) + 1
  /\ \A q \in DOMAIN stack : CallOK(q)
  /\ \A k \in DOMAIN cache : DeclOK(k)
  /\ \A s \in Structs : StructOK(s)

BuildOK ==
  /\ stack = <<>> /\ cache = <<>> /\ out = <<>>
  /\ \A s \in Structs : ~structs[s].compiled /\ structs[s].iota = 0

IInv ==
  /\ tpc \in {"build", "compile", "done"}
  /\ LayoutsOK(structs) /\ held \subseteq Structs
  /\ IF tpc = "build" THEN BuildOK ELSE CompileOK
  /\ tpc = "done" => stack = <<>>

-----------------------------------------------------------------------------
(* Induction over the numbers, for sets.                                   *)
LEMMA Least ==
  ASSUME NEW T \in SUBSET Nat, T # {}
  PROVE  \E z \in T : \A y \in T : z <= y
<1> DEFINE R == OpToRel(<, Nat)
<1>1. IsWellFoundedOn(R, Nat)
  BY NatLessThanWellFounded
<1>2. \A z, y \in Nat : <<z, y>> \in R <=> z < y
  BY DEF OpToRel
<1> HIDE DEF R
<1>3. PICK z \in T : \A y \in T : ~ (<<y, z>> \in R)
  BY <1>1, WFMin
<1>4. \A y \in T : z \in Nat /\ y \in Nat /\ ~ (y < z)
  BY <1>2, <1>3
<1>5. QED
  BY <1>4

LEMMA SetInduction ==
  ASSUME NEW S, 0 \in S, \A n \in Nat : n \in S => n + 1 \in S
  PROVE  Nat \subseteq S
<1> DEFINE T == Nat \ S
<1>1. SUFFICES ASSUME T # {} PROVE FALSE
  OBVIOUS
<1>2. PICK z \in T : \A y \in T : z <= y
  BY <1>1, Least
<1>3. z \in Nat /\ z # 0
  BY <1>2
<1>4. z - 1 \in Nat /\ z - 1 \notin T
  BY <1>2, <1>3
<1>5. z - 1 + 1 \in S
  BY <1>4
<1>6. QED
  BY <1>5, <1>3

(* Alignments are powers of two: the smaller divides the greater.          *)
LEMMA RoundUpFacts ==
  ASSUME NEW n \in Nat, NEW a \in Pow
  PROVE  /\ RoundUp(n, a) \in Nat /\ n <= RoundUp(n, a) /\ RoundUp(n, a) < n + a
         /\ RoundUp(n, a) % a = 0
<1>1. CASE a = 1
  BY <1>1 DEF RoundUp
<1>2. CASE a = 2
  BY <1>2 DEF RoundUp
<1>3. CASE a = 4
  BY <1>3 DEF RoundUp
<1>4. CASE a = 8
  BY <1>4 DEF RoundUp
<1>5. QED
  BY <1>1, <1>2, <1>3, <1>4 DEF Pow

LEMMA Divides ==
  ASSUME NEW a \in Pow, NEW b \in Pow, a <= b
  PROVE  b % a = 0
BY DEF Pow

LEMMA MaxFacts ==
  ASSUME NEW T, T \subseteq Pow, T # {}
  PROVE  Max(T) \in T /\ \A x \in T : x <= Max(T)
<1>1. \E x \in T : \A y \in T : x >= y
  <2>1. CASE 8 \in T
    BY <2>1 DEF Pow
  <2>2. CASE 8 \notin T /\ 4 \in T
    BY <2>2 DEF Pow
  <2>3. CASE 8 \notin T /\ 4 \notin T /\ 2 \in T
    BY <2>3 DEF Pow
  <2>4. CASE 8 \notin T /\ 4 \notin T /\ 2 \notin T
    <3>1. \A x \in T : x = 1
      BY <2>4 DEF Pow
    <3>2. QED
      BY <3>1
  <2>5. QED
    BY <2>1, <2>2, <2>3, <2>4
<1>2. Max(T) \in T /\ \A y \in T : Max(T) >= y
  BY <1>1, Zenon DEF Max
<1>3. QED
  BY <1>2 DEF Pow

(* A recursion over the fields has a solution.                             *)
LEMMA Recursion ==
  ASSUME NEW n \in Nat, NEW S \in [1 .. n -> [Nat -> Nat]]
  PROVE  \E e \in [0 .. n -> Nat] : e[0] = 0 /\ \A i \in 1 .. n : e[i] = S[i][e[i - 1]]
<1> DEFINE From(e, m) == e[0] = 0 /\ \A i \in 1 .. n : i <= m => e[i] = S[i][e[i - 1]]
           G == {m \in Nat : \E e \in [Nat -> Nat] : From(e, m)}
<1>1. 0 \in G
  <2>1. [i \in Nat |-> 0] \in [Nat -> Nat] /\ From([i \in Nat |-> 0], 0)
    OBVIOUS
  <2>2. QED
    BY <2>1
<1>2. ASSUME NEW m \in Nat, m \in G
      PROVE  m + 1 \in G
  <2>1. PICK e \in [Nat -> Nat] : From(e, m)
    BY <1>2
  <2>2. CASE m + 1 > n
    <3>1. From(e, m + 1)
      BY <2>1, <2>2
    <3> HIDE DEF From
    <3>2. m + 1 \in Nat /\ \E h \in [Nat -> Nat] : From(h, m + 1)
      <4>1. m + 1 \in Nat
        OBVIOUS
      <4>2. QED
        BY <3>1, <4>1, Zenon
    <3>3. QED
      BY <3>2, Zenon
  <2>3. CASE m + 1 <= n
    <3> DEFINE v == S[m + 1][e[m]]
               g == [e EXCEPT ![m + 1] = v]
    <3>1. v \in Nat
      <4>1. m + 1 \in 1 .. n
        BY <2>3
      <4>2. S[m + 1] \in [Nat -> Nat]
        BY <4>1
      <4>3. QED
        BY <4>2
    <3> HIDE DEF v
    <3>2. g \in [Nat -> Nat] /\ g[m + 1] = v /\ \A i \in Nat : i # m + 1 => g[i] = e[i]
      BY <3>1
    <3> HIDE DEF g
    <3>3. ASSUME NEW i \in 1 .. n, i <= m + 1
          PROVE  g[i] = S[i][g[i - 1]]
      <4>1. CASE i = m + 1
        <5>1. i - 1 = m /\ m # m + 1
          BY <4>1
        <5>2. g[i - 1] = e[m] /\ g[i] = v
          BY <3>2, <4>1, <5>1
        <5>3. QED
          BY <4>1, <5>1, <5>2 DEF v
      <4>2. CASE i # m + 1
        <5>1. i - 1 \in Nat /\ i - 1 # m + 1 /\ i <= m /\ i \in Nat
          BY <3>3, <4>2
        <5>2. e[i] = S[i][e[i - 1]]
          BY <2>1, <5>1
        <5>3. g[i] = e[i] /\ g[i - 1] = e[i - 1]
          BY <3>2, <4>2, <5>1
        <5>4. QED
          BY <5>2, <5>3
      <4>3. QED
        BY <4>1, <4>2
    <3>4. From(g, m + 1)
      BY <2>1, <3>2, <3>3
    <3> HIDE DEF From
    <3>5. m + 1 \in Nat
      OBVIOUS
    <3>6. QED
      BY <3>2, <3>4, <3>5, Zenon
  <2> HIDE DEF G
  <2>4. QED
    BY <2>2, <2>3
<1>3. n \in G
  <2> HIDE DEF G
  <2>1. QED
    BY <1>1, <1>2, SetInduction
<1>4. PICK e \in [Nat -> Nat] : From(e, n)
  BY <1>3
<1> DEFINE h == [i \in 0 .. n |-> e[i]]
<1>5. h \in [0 .. n -> Nat] /\ h[0] = 0
  BY <1>4
<1>6. ASSUME NEW i \in 1 .. n PROVE h[i] = S[i][h[i - 1]]
  <2>1. i \in 0 .. n /\ i - 1 \in 0 .. n
    OBVIOUS
  <2>2. h[i] = e[i] /\ h[i - 1] = e[i - 1]
    BY <2>1
  <2>3. e[i] = S[i][e[i - 1]]
    BY <1>4
  <2> HIDE DEF h
  <2>4. QED
    BY <2>2, <2>3
<1> HIDE DEF h
<1>7. QED
  BY <1>5, <1>6

(* The recursions of builder and parser, given a solution.                 *)
LEMMA EndsIs ==
  ASSUME NEW ss, NEW fs, NEW packed, Len(fs) \in Nat,
         NEW e \in [0 .. Len(fs) -> Nat], e[0] = 0,
         \A i \in 1 .. Len(fs) :
           e[i] = (IF packed THEN e[i - 1] ELSE RoundUp(e[i - 1], Info(ss, fs[i].type).align))
                    + Extent(ss, fs[i])
  PROVE  Ends(ss, fs, packed) = e
<1> DEFINE Step(f) == [i \in 0 .. Len(fs) |->
             IF i = 0 THEN 0
             ELSE (IF packed THEN f[i - 1] ELSE RoundUp(f[i - 1], Info(ss, fs[i].type).align))
                    + Extent(ss, fs[i])]
           f == Ends(ss, fs, packed)
<1>1. e = Step(e)
  OBVIOUS
<1>2. f = CHOOSE h : h = Step(h)
  BY DEF Ends
<1>3. f = Step(f)
  BY <1>1, <1>2, Zenon
<1> DEFINE G == {i \in Nat : i <= Len(fs) => f[i] = e[i]}
<1> HIDE DEF f
<1>4. 0 \in G
  BY <1>3
<1>5. ASSUME NEW i \in Nat, i \in G
      PROVE  i + 1 \in G
  <2>1. SUFFICES ASSUME i + 1 <= Len(fs) PROVE f[i + 1] = e[i + 1]
    OBVIOUS
  <2>2. f[i] = e[i] /\ i + 1 \in 1 .. Len(fs) /\ i + 1 \in 0 .. Len(fs) /\ i + 1 # 0 /\ (i + 1) - 1 = i
    BY <1>5, <2>1
  <2>3. f[i + 1] = Step(f)[i + 1]
    BY <1>3
  <2>4. QED
    BY <2>2, <2>3
<1>6. Nat \subseteq G
  BY <1>4, <1>5, SetInduction
<1>7. \A i \in 0 .. Len(fs) : f[i] = e[i]
  BY <1>6
<1>8. DOMAIN f = 0 .. Len(fs) /\ f = [i \in DOMAIN f |-> f[i]]
  BY <1>3
<1>9. QED
  BY <1>7, <1>8 DEF f

LEMMA FieldEndsIs ==
  ASSUME NEW p, NEW fs, Len(fs) \in Nat,
         NEW e \in [0 .. Len(fs) -> Nat], e[0] = 0,
         \A i \in 1 .. Len(fs) :
           e[i] = RoundUp(e[i - 1], FieldInfo(p, fs[i]).align) + FieldExtent(p, fs[i])
  PROVE  FieldEnds(p, fs) = e
<1> DEFINE Step(f) == [i \in 0 .. Len(fs) |->
             IF i = 0 THEN 0
             ELSE RoundUp(f[i - 1], FieldInfo(p, fs[i]).align) + FieldExtent(p, fs[i])]
           f == FieldEnds(p, fs)
<1>1. e = Step(e)
  OBVIOUS
<1>2. f = CHOOSE h : h = Step(h)
  BY DEF FieldEnds
<1>3. f = Step(f)
  BY <1>1, <1>2, Zenon
<1> DEFINE G == {i \in Nat : i <= Len(fs) => f[i] = e[i]}
<1> HIDE DEF f
<1>4. 0 \in G
  BY <1>3
<1>5. ASSUME NEW i \in Nat, i \in G
      PROVE  i + 1 \in G
  <2>1. SUFFICES ASSUME i + 1 <= Len(fs) PROVE f[i + 1] = e[i + 1]
    OBVIOUS
  <2>2. f[i] = e[i] /\ i + 1 \in 1 .. Len(fs) /\ i + 1 \in 0 .. Len(fs) /\ i + 1 # 0 /\ (i + 1) - 1 = i
    BY <1>5, <2>1
  <2>3. f[i + 1] = Step(f)[i + 1]
    BY <1>3
  <2>4. QED
    BY <2>2, <2>3
<1>6. Nat \subseteq G
  BY <1>4, <1>5, SetInduction
<1>7. \A i \in 0 .. Len(fs) : f[i] = e[i]
  BY <1>6
<1>8. DOMAIN f = 0 .. Len(fs) /\ f = [i \in DOMAIN f |-> f[i]]
  BY <1>3
<1>9. QED
  BY <1>7, <1>8 DEF f

-----------------------------------------------------------------------------
(* Layouts.                                                                *)
LEMMA Typing ==
  ASSUME NEW ss \in Seq(StructRec), NEW s \in DOMAIN ss
  PROVE  /\ ss[s] \in StructRec /\ ss[s].fields \in Seq(FieldRec)
         /\ DOMAIN ss[s].fields = 1 .. Len(ss[s].fields) /\ Len(ss[s].fields) \in Nat
         /\ \A i \in DOMAIN ss[s].fields :
              /\ ss[s].fields[i] \in FieldRec /\ ss[s].fields[i].type \in TypeRec
              /\ ss[s].fields[i].repeat \in Nat \ {0} /\ ss[s].fields[i].offset \in Nat
         /\ ss[s].packed \in BOOLEAN /\ ss[s].ready \in BOOLEAN /\ ss[s].compiled \in BOOLEAN
         /\ ss[s].size \in Nat /\ ss[s].iota \in Nat
<1>1. ss[s] \in StructRec
  OBVIOUS
<1>2. ss[s].fields \in Seq(FieldRec)
  BY <1>1 DEF StructRec
<1>3. \A i \in DOMAIN ss[s].fields : ss[s].fields[i] \in FieldRec
  BY <1>2
<1>4. \A i \in DOMAIN ss[s].fields :
        /\ ss[s].fields[i].type \in TypeRec
        /\ ss[s].fields[i].repeat \in Nat \ {0} /\ ss[s].fields[i].offset \in Nat
  BY <1>3 DEF FieldRec
<1>5. DOMAIN ss[s].fields = 1 .. Len(ss[s].fields) /\ Len(ss[s].fields) \in Nat
  BY <1>2
<1>6. /\ ss[s].packed \in BOOLEAN /\ ss[s].ready \in BOOLEAN /\ ss[s].compiled \in BOOLEAN
      /\ ss[s].size \in Nat /\ ss[s].iota \in Nat
  BY <1>1 DEF StructRec
<1>7. QED
  BY <1>1, <1>2, <1>3, <1>4, <1>5, <1>6

(* What qbe_type_info answers.                                             *)
LEMMA InfoFacts ==
  ASSUME NEW ss, LayoutsOK(ss), NEW t \in TypeRec, Fit(ss, t)
  PROVE  Info(ss, t).size \in Nat /\ Info(ss, t).align \in Pow
<1>1. CASE t.spec = 0
  BY <1>1 DEF Info, Fit, LayoutsOK, Pow, StructRec
<1>2. CASE t.spec # 0
  <2>1. t.spec \in DOMAIN ss /\ ss[t.spec].ready
    BY <1>2 DEF Fit
  <2>2. ss[t.spec].size \in Nat /\ ss[t.spec].align \in Pow
    BY <2>1, Typing DEF LayoutsOK
  <2>3. QED
    BY <1>2, <2>2 DEF Info
<1>3. QED
  BY <1>1, <1>2

LEMMA LaidSame ==
  ASSUME NEW ss, NEW tt, NEW st,
         \A i \in DOMAIN st.fields : Info(ss, st.fields[i].type) = Info(tt, st.fields[i].type),
         DOMAIN st.fields = 1 .. Len(st.fields), Len(st.fields) \in Nat,
         Laid(ss, st)
  PROVE  Laid(tt, st)
<1>1. \A i \in DOMAIN st.fields : Extent(ss, st.fields[i]) = Extent(tt, st.fields[i])
  BY DEF Extent
<1>2. \A i \in 0 .. Len(st.fields) : Behind(ss, st, i) = Behind(tt, st, i)
  BY <1>1 DEF Behind
<1>3. Aligns(ss, st) = Aligns(tt, st)
  BY DEF Aligns
<1>4. ASSUME NEW i \in DOMAIN st.fields PROVE Placed(tt, st, i)
  <2>1. Placed(ss, st, i)
    BY DEF Laid
  <2>2. i - 1 \in 0 .. Len(st.fields)
    OBVIOUS
  <2>3. QED
    BY <2>1, <2>2, <1>2 DEF Placed
<1>5. Len(st.fields) \in 0 .. Len(st.fields)
  OBVIOUS
<1>6. QED
  BY <1>2, <1>3, <1>4, <1>5 DEF Laid

(* The layout of a struct, of the sizes and alignments of its fields.      *)
LEMMA LayoutFacts ==
  ASSUME NEW ss, LayoutsOK(ss), NEW s \in DOMAIN ss
  PROVE  /\ Layout(ss, s) \in StructRec
         /\ Layout(ss, s).ready /\ Layout(ss, s).align \in Pow
         /\ Laid(ss, Layout(ss, s))
         /\ Layout(ss, s).packed = ss[s].packed /\ Layout(ss, s).compiled = ss[s].compiled
         /\ Layout(ss, s).iota = ss[s].iota
         /\ DOMAIN Layout(ss, s).fields = DOMAIN ss[s].fields
         /\ \A i \in DOMAIN ss[s].fields : Layout(ss, s).fields[i].type = ss[s].fields[i].type
<1> DEFINE fs == ss[s].fields
           pk == ss[s].packed
           n == Len(fs)
           gap(i) == Info(ss, fs[i].type).align
           ext(i) == Extent(ss, fs[i])
<1>1. /\ ss[s] \in StructRec /\ n \in Nat /\ DOMAIN fs = 1 .. n /\ pk \in BOOLEAN
      /\ \A i \in 1 .. n : fs[i] \in FieldRec /\ fs[i].type \in TypeRec /\ fs[i].repeat \in Nat
  BY Typing DEF LayoutsOK
<1>2. \A i \in 1 .. n : gap(i) \in Pow /\ ext(i) \in Nat
  <2>1. ASSUME NEW i \in 1 .. n
        PROVE  gap(i) \in Pow /\ Info(ss, fs[i].type).size \in Nat
    <3>1. Fit(ss, fs[i].type)
      BY <1>1 DEF LayoutsOK
    <3>2. QED
      BY <1>1, <3>1, InfoFacts
  <2>2. ASSUME NEW i \in 1 .. n PROVE ext(i) \in Nat
    BY <2>1, <1>1 DEF Extent
  <2>3. QED
    BY <2>1, <2>2
<1>3. PICK e \in [0 .. n -> Nat] :
        /\ e[0] = 0
        /\ \A i \in 1 .. n : e[i] = (IF pk THEN e[i - 1] ELSE RoundUp(e[i - 1], gap(i))) + ext(i)
  <2> DEFINE S == [i \in 1 .. n |-> [v \in Nat |-> (IF pk THEN v ELSE RoundUp(v, gap(i))) + ext(i)]]
  <2>1. ASSUME NEW i \in 1 .. n, NEW v \in Nat
        PROVE  (IF pk THEN v ELSE RoundUp(v, gap(i))) + ext(i) \in Nat
    <3>1. RoundUp(v, gap(i)) \in Nat
      BY <1>2, RoundUpFacts
    <3>2. QED
      BY <1>2, <3>1
  <2>2. S \in [1 .. n -> [Nat -> Nat]]
    <3> HIDE DEF gap, ext
    <3>1. QED
      BY <2>1
  <2>3. \A i \in 1 .. n, v \in Nat : S[i][v] = (IF pk THEN v ELSE RoundUp(v, gap(i))) + ext(i)
    OBVIOUS
  <2> HIDE DEF S
  <2>4. PICK e \in [0 .. n -> Nat] : e[0] = 0 /\ \A i \in 1 .. n : e[i] = S[i][e[i - 1]]
    BY <1>1, <2>2, Recursion
  <2>5. \A i \in 1 .. n : e[i - 1] \in Nat
    BY <1>1, SMTT(30)
  <2>6. \A i \in 1 .. n : e[i] = (IF pk THEN e[i - 1] ELSE RoundUp(e[i - 1], gap(i))) + ext(i)
    BY <2>3, <2>4, <2>5
  <2>7. QED
    BY <2>4, <2>6
<1>4. Ends(ss, fs, pk) = e
  BY <1>1, <1>3, EndsIs
<1> DEFINE al == IF pk THEN 1 ELSE Max({1} \cup {gap(i) : i \in DOMAIN fs})
           sz == IF pk THEN e[n] ELSE RoundUp(e[n], al)
           gs == [i \in DOMAIN fs |-> [fs[i] EXCEPT !.offset = e[i] - ext(i)]]
           st == Layout(ss, s)
<1>5. st = [ss[s] EXCEPT !.ready = TRUE, !.align = al, !.size = sz, !.fields = gs]
  BY <1>4, Zenon DEF Layout
<1>6. al \in Pow
  <2>1. CASE pk
    BY <2>1 DEF Pow
  <2>2. CASE ~pk
    <3> DEFINE T == {1} \cup {gap(i) : i \in DOMAIN fs}
    <3>1. T \subseteq Pow /\ T # {}
      BY <1>1, <1>2 DEF Pow
    <3>2. Max(T) \in Pow
      BY <3>1, MaxFacts
    <3>3. QED
      BY <2>2, <3>2
  <2>3. QED
    BY <2>1, <2>2
<1>7. n \in 0 .. n /\ e[n] \in Nat /\ \A i \in 1 .. n : i \in 0 .. n /\ i - 1 \in 0 .. n /\ e[i - 1] \in Nat
  <2>1. n \in Nat
    BY <1>1
  <2> HIDE DEF n
  <2>2. QED
    BY <2>1
<1>8. sz \in Nat
  BY <1>6, <1>7, RoundUpFacts
<1>9. \A i \in 1 .. n : e[i] - ext(i) = IF pk THEN e[i - 1] ELSE RoundUp(e[i - 1], gap(i))
  <2>1. ASSUME NEW i \in 1 .. n
        PROVE  e[i] - ext(i) = IF pk THEN e[i - 1] ELSE RoundUp(e[i - 1], gap(i))
    <3>1. RoundUp(e[i - 1], gap(i)) \in Nat
      BY <1>2, <1>7, RoundUpFacts
    <3> DEFINE r == RoundUp(e[i - 1], gap(i))
    <3> HIDE DEF r, gap, ext
    <3>2. r \in Nat /\ e[i] = (IF pk THEN e[i - 1] ELSE r) + ext(i) /\ ext(i) \in Nat /\ e[i - 1] \in Nat
      BY <1>2, <1>3, <1>7, <3>1 DEF r
    <3>3. e[i] - ext(i) = IF pk THEN e[i - 1] ELSE r
      BY <3>2
    <3>4. QED
      BY <3>3 DEF r
  <2>2. QED
    BY <2>1
<1>10. \A i \in 1 .. n : e[i] - ext(i) \in Nat
  BY <1>2, <1>7, <1>9, RoundUpFacts
<1>11. /\ DOMAIN gs = DOMAIN fs
       /\ \A i \in 1 .. n : gs[i] \in FieldRec /\ gs[i].type = fs[i].type
                            /\ gs[i].repeat = fs[i].repeat /\ gs[i].offset = e[i] - ext(i)
  <2> HIDE DEF ext
  <2>1. QED
    BY <1>1, <1>10 DEF FieldRec
<1>12. gs \in Seq(FieldRec) /\ Len(gs) = n
  <2>1. gs \in [1 .. n -> FieldRec]
    BY <1>1, <1>11
  <2> HIDE DEF gs
  <2>2. QED
    BY <1>1, <2>1
<1> HIDE DEF al, sz, gs, gap, ext
<1>13. /\ st \in StructRec
       /\ st.ready /\ st.align = al /\ st.size = sz /\ st.fields = gs /\ st.packed = pk
       /\ st.compiled = ss[s].compiled /\ st.iota = ss[s].iota
  <2> HIDE DEF st, n, fs
  <2>1. QED
    BY <1>1, <1>5, <1>6, <1>8, <1>12 DEF StructRec
<1> HIDE DEF st
<1>14. \A i \in 1 .. n : Info(ss, gs[i].type).align = gap(i) /\ Extent(ss, gs[i]) = ext(i)
  BY <1>11 DEF gap, ext, Extent
<1>15. \A i \in 0 .. n : Behind(ss, st, i) = e[i]
  <2>1. Behind(ss, st, 0) = 0
    BY DEF Behind
  <2>2. ASSUME NEW i \in 1 .. n PROVE Behind(ss, st, i) = e[i]
    <3>1. Behind(ss, st, i) = (e[i] - ext(i)) + ext(i)
      BY <1>11, <1>13, <1>14 DEF Behind
    <3>2. e[i] \in Nat /\ ext(i) \in Nat
      BY <1>2, <1>7 DEF ext
    <3>3. QED
      BY <3>1, <3>2
  <2>3. QED
    BY <1>1, <1>3, <2>1, <2>2
<1>16. ASSUME NEW i \in DOMAIN gs PROVE Placed(ss, st, i)
  <2>1. i \in 1 .. n
    BY <1>1, <1>11
  <2>2. gs[i].offset = IF pk THEN Behind(ss, st, i - 1) ELSE RoundUp(Behind(ss, st, i - 1), gap(i))
    BY <2>1, <1>7, <1>9, <1>11, <1>15
  <2>3. QED
    BY <2>1, <2>2, <1>13, <1>14 DEF Placed
<1>17. Aligns(ss, st) = {1} \cup {gap(i) : i \in DOMAIN fs}
  <2>1. st.fields = gs /\ DOMAIN gs = DOMAIN fs
    BY <1>11, <1>13
  <2>2. \A i \in DOMAIN fs : Info(ss, gs[i].type).align = gap(i)
    BY <1>1, <1>14
  <2>3. {Info(ss, gs[i].type).align : i \in DOMAIN gs} = {gap(i) : i \in DOMAIN fs}
    BY <2>1, <2>2, Zenon
  <2>4. QED
    BY <2>1, <2>3 DEF Aligns
<1>18. Laid(ss, st)
  <2>1. st.align = IF st.packed THEN 1 ELSE Max(Aligns(ss, st))
    BY <1>13, <1>17 DEF al
  <2>2. st.size = IF st.packed THEN Behind(ss, st, Len(st.fields))
                  ELSE RoundUp(Behind(ss, st, Len(st.fields)), st.align)
    BY <1>7, <1>12, <1>13, <1>15 DEF sz
  <2>3. QED
    BY <2>1, <2>2, <1>13, <1>16 DEF Laid
<1>19. QED
  BY <1>1, <1>6, <1>11, <1>13, <1>18 DEF st

LEMMA FitKept ==
  ASSUME NEW ss \in Seq(StructRec), NEW tt, NEW t \in TypeRec, Fit(ss, t),
         t.spec \in DOMAIN ss =>
           /\ t.spec \in DOMAIN tt /\ tt[t.spec].ready = ss[t.spec].ready
           /\ tt[t.spec].size = ss[t.spec].size /\ tt[t.spec].align = ss[t.spec].align
  PROVE  Fit(tt, t) /\ Info(tt, t) = Info(ss, t)
<1>1. CASE t.spec = 0
  BY <1>1 DEF Fit, Info
<1>2. CASE t.spec # 0
  BY <1>2 DEF Fit, Info
<1>3. QED
  BY <1>1, <1>2

(* Whatever happens to a struct that none embeds, the layouts of the       *)
(* others stand.                                                           *)
LEMMA LayoutsKept ==
  ASSUME NEW ss, LayoutsOK(ss), NEW tt \in Seq(StructRec), NEW s \in DOMAIN tt,
         DOMAIN ss \subseteq DOMAIN tt, DOMAIN tt \subseteq DOMAIN ss \cup {s},
         \A r \in DOMAIN ss : r # s => tt[r] = ss[r],
         \A r \in DOMAIN ss : ~Embeds(ss, r, s),
         \A i \in DOMAIN tt[s].fields :
           Fit(ss, tt[s].fields[i].type) /\ tt[s].fields[i].type.spec # s,
         tt[s].ready => tt[s].align \in Pow /\ Laid(ss, tt[s])
  PROVE  LayoutsOK(tt)
<1>1. ASSUME NEW r \in DOMAIN tt, NEW i \in DOMAIN tt[r].fields
      PROVE  /\ tt[r].fields[i].type \in TypeRec
             /\ Fit(ss, tt[r].fields[i].type) /\ tt[r].fields[i].type.spec # s
  <2>1. tt[r].fields[i].type \in TypeRec
    BY Typing
  <2>2. CASE r = s
    BY <2>1, <2>2
  <2>3. CASE r # s
    <3>1. r \in DOMAIN ss /\ tt[r] = ss[r]
      BY <2>3
    <3>2. Fit(ss, ss[r].fields[i].type)
      BY <3>1 DEF LayoutsOK
    <3>3. ~Embeds(ss, r, s)
      BY <3>1
    <3>4. QED
      BY <2>1, <3>1, <3>2, <3>3 DEF Embeds
  <2>4. QED
    BY <2>2, <2>3
<1>2. ASSUME NEW r \in DOMAIN tt, NEW i \in DOMAIN tt[r].fields
      PROVE  /\ Fit(tt, tt[r].fields[i].type)
             /\ Info(ss, tt[r].fields[i].type) = Info(tt, tt[r].fields[i].type)
  <2> DEFINE t == tt[r].fields[i].type
  <2>1. t \in TypeRec /\ Fit(ss, t) /\ t.spec # s
    BY <1>1
  <2> HIDE DEF t
  <2>2. ss \in Seq(StructRec)
    BY DEF LayoutsOK
  <2>3. Fit(tt, t) /\ Info(tt, t) = Info(ss, t)
    BY <2>1, <2>2, FitKept
  <2>4. QED
    BY <2>3 DEF t
<1>3. Acyclic(tt)
  <2>1. SUFFICES ASSUME NEW S \in SUBSET DOMAIN tt, S # {}
                 PROVE  \E m \in S : \A r \in S : ~Embeds(tt, m, r)
    BY DEF Acyclic
  <2>2. \A m \in DOMAIN tt : ~Embeds(tt, m, s)
    BY <1>1 DEF Embeds
  <2>3. CASE S = {s}
    BY <2>2, <2>3
  <2>4. CASE S # {s}
    <3>1. S \ {s} # {} /\ S \ {s} \in SUBSET DOMAIN ss
      BY <2>1, <2>4
    <3>2. PICK m \in S \ {s} : \A r \in S \ {s} : ~Embeds(ss, m, r)
      BY <3>1 DEF LayoutsOK, Acyclic
    <3>3. tt[m] = ss[m]
      BY <3>1, <3>2
    <3>4. \A r \in S \ {s} : ~Embeds(tt, m, r)
      BY <3>2, <3>3 DEF Embeds
    <3>5. QED
      BY <2>2, <3>2, <3>4
  <2>5. QED
    BY <2>3, <2>4
<1>4. ASSUME NEW r \in DOMAIN tt, tt[r].ready
      PROVE  tt[r].align \in Pow /\ Laid(tt, tt[r])
  <2>1. tt[r].align \in Pow /\ Laid(ss, tt[r])
    <3>1. CASE r = s
      BY <1>4, <3>1
    <3>2. CASE r # s
      BY <1>4, <3>2 DEF LayoutsOK
    <3>3. QED
      BY <3>1, <3>2
  <2>2. DOMAIN tt[r].fields = 1 .. Len(tt[r].fields) /\ Len(tt[r].fields) \in Nat
    BY Typing
  <2>3. Laid(tt, tt[r])
    BY <1>2, <2>1, <2>2, LaidSame
  <2>4. QED
    BY <2>1, <2>3
<1>5. QED
  BY <1>2, <1>3, <1>4 DEF LayoutsOK

LEMMA AppendKeeps ==
  ASSUME NEW ss, LayoutsOK(ss), NEW st \in StructRec, ~st.ready,
         \A i \in DOMAIN st.fields : Fit(ss, st.fields[i].type)
  PROVE  LayoutsOK(Append(ss, st))
<1> DEFINE tt == Append(ss, st)
           s == Len(ss) + 1
<1>1. ss \in Seq(StructRec) /\ DOMAIN ss = 1 .. Len(ss) /\ Len(ss) \in Nat
  BY DEF LayoutsOK
<1>2. /\ tt \in Seq(StructRec) /\ DOMAIN tt = DOMAIN ss \cup {s} /\ s \notin DOMAIN ss /\ s # 0
      /\ tt[s] = st /\ \A r \in DOMAIN ss : tt[r] = ss[r]
  BY <1>1
<1> HIDE DEF tt, s
<1>3. \A t : Fit(ss, t) => t.spec # s
  BY <1>2 DEF Fit
<1>4. \A r \in DOMAIN ss : ~Embeds(ss, r, s)
  BY <1>3 DEF Embeds, LayoutsOK
<1>5. LayoutsOK(tt)
  BY <1>2, <1>3, <1>4, LayoutsKept
<1>6. QED
  BY <1>5 DEF tt

LEMMA LayoutKeeps ==
  ASSUME NEW ss, LayoutsOK(ss), NEW s \in DOMAIN ss, ~ss[s].ready
  PROVE  /\ LayoutsOK([ss EXCEPT ![s] = Layout(ss, s)])
<1> DEFINE st == Layout(ss, s)
           tt == [ss EXCEPT ![s] = st]
<1>1. ss \in Seq(StructRec)
  BY DEF LayoutsOK
<1>2. /\ st \in StructRec /\ st.align \in Pow /\ Laid(ss, st)
      /\ DOMAIN st.fields = DOMAIN ss[s].fields
      /\ \A i \in DOMAIN ss[s].fields : st.fields[i].type = ss[s].fields[i].type
  BY LayoutFacts
<1> HIDE DEF st
<1>3. /\ tt \in Seq(StructRec) /\ DOMAIN tt = DOMAIN ss
      /\ tt[s] = st /\ \A r \in DOMAIN ss : r # s => tt[r] = ss[r]
  BY <1>1, <1>2
<1> HIDE DEF tt
<1>4. \A t : Fit(ss, t) => t.spec # s
  BY <1>1 DEF Fit
<1>5. \A r \in DOMAIN ss : ~Embeds(ss, r, s)
  BY <1>4 DEF Embeds, LayoutsOK
<1>6. \A i \in DOMAIN tt[s].fields :
        Fit(ss, tt[s].fields[i].type) /\ tt[s].fields[i].type.spec # s
  BY <1>2, <1>3, <1>4 DEF LayoutsOK
<1>7. LayoutsOK(tt)
  BY <1>2, <1>3, <1>5, <1>6, LayoutsKept
<1>8. QED
  BY <1>7 DEF tt, st

LEMMA AddKeeps ==
  ASSUME NEW ss, LayoutsOK(ss), NEW s \in DOMAIN ss, \A r \in DOMAIN ss : ~Embeds(ss, r, s),
         NEW t \in TypeRec, Fit(ss, t), t.spec # s
  PROVE  LayoutsOK([ss EXCEPT ![s].ready = FALSE, ![s].fields = Append(@, Field(t, 1))])
<1> DEFINE st == [ss[s] EXCEPT !.ready = FALSE, !.fields = Append(@, Field(t, 1))]
           tt == [ss EXCEPT ![s].ready = FALSE, ![s].fields = Append(@, Field(t, 1))]
           fs == Append(ss[s].fields, Field(t, 1))
<1>1. ss \in Seq(StructRec) /\ ss[s].fields \in Seq(FieldRec)
  BY Typing DEF LayoutsOK
<1>2. Field(t, 1) \in FieldRec /\ Field(t, 1).type = t
  BY DEF Field, FieldRec
<1>3. /\ fs \in Seq(FieldRec)
      /\ \A i \in DOMAIN fs : fs[i].type = t \/ (i \in DOMAIN ss[s].fields /\ fs[i] = ss[s].fields[i])
  <2> DEFINE os == ss[s].fields
             f == Field(t, 1)
  <2>1. os \in Seq(FieldRec) /\ f \in FieldRec /\ f.type = t
    BY <1>1, <1>2
  <2> HIDE DEF os, f
  <2>2. Append(os, f) \in Seq(FieldRec) /\ DOMAIN os = 1 .. Len(os) /\ Len(os) \in Nat
        /\ DOMAIN Append(os, f) = 1 .. Len(os) + 1
    BY <2>1
  <2>3. \A i \in 1 .. Len(os) + 1 : Append(os, f)[i] = IF i = Len(os) + 1 THEN f ELSE os[i]
    BY <2>1, <2>2
  <2>4. \A i \in 1 .. Len(os) + 1 : i # Len(os) + 1 => i \in 1 .. Len(os)
    BY <2>2
  <2>5. ASSUME NEW i \in DOMAIN Append(os, f)
        PROVE  Append(os, f)[i].type = t \/ (i \in DOMAIN os /\ Append(os, f)[i] = os[i])
    BY <2>1, <2>2, <2>3, <2>4
  <2>6. QED
    BY <2>2, <2>5, Zenon DEF os, f
<1>4. st \in StructRec /\ ~st.ready /\ st.fields = fs
  <2>1. ss[s] \in StructRec
    BY <1>1
  <2>2. st = [ss[s] EXCEPT !.ready = FALSE, !.fields = fs]
    OBVIOUS
  <2> HIDE DEF fs, st
  <2>3. QED
    BY <1>3, <2>1, <2>2 DEF StructRec
<1>41. tt = [ss EXCEPT ![s] = st]
  BY <1>1, Zenon
<1>5. /\ tt \in Seq(StructRec) /\ DOMAIN tt = DOMAIN ss
      /\ tt[s] = st /\ \A r \in DOMAIN ss : r # s => tt[r] = ss[r]
  <2> HIDE DEF st, tt
  <2>1. QED
    BY <1>1, <1>4, <1>41
<1> HIDE DEF tt, st, fs
<1>6. ASSUME NEW i \in DOMAIN tt[s].fields
      PROVE  Fit(ss, tt[s].fields[i].type) /\ tt[s].fields[i].type.spec # s
  <2>1. CASE fs[i].type = t
    BY <2>1, <1>4, <1>5
  <2>2. CASE i \in DOMAIN ss[s].fields /\ fs[i] = ss[s].fields[i]
    BY <2>2, <1>4, <1>5 DEF LayoutsOK, Embeds
  <2>3. QED
    BY <2>1, <2>2, <1>3, <1>4, <1>5
<1>7. LayoutsOK(tt)
  BY <1>4, <1>5, <1>6, LayoutsKept
<1>8. QED
  BY <1>7 DEF tt

(* Layouts are of sizes and fields only: how far the declarations are does *)
(* not matter.                                                             *)
SameLayout(st, su) ==
  /\ st.fields = su.fields /\ st.packed = su.packed /\ st.ready = su.ready
  /\ st.size = su.size /\ st.align = su.align

LEMMA FrameKeeps ==
  ASSUME NEW ss, LayoutsOK(ss), NEW tt \in Seq(StructRec), DOMAIN tt = DOMAIN ss,
         \A s \in DOMAIN ss : SameLayout(tt[s], ss[s])
  PROVE  LayoutsOK(tt)
<1>1. ASSUME NEW r \in DOMAIN ss, NEW i \in DOMAIN ss[r].fields
      PROVE  /\ Fit(tt, tt[r].fields[i].type)
             /\ Info(tt, ss[r].fields[i].type) = Info(ss, ss[r].fields[i].type)
  <2> DEFINE t == ss[r].fields[i].type
  <2>1. ss \in Seq(StructRec)
    BY DEF LayoutsOK
  <2>2. t \in TypeRec /\ Fit(ss, t) /\ tt[r].fields[i].type = t
    BY <2>1, Typing DEF LayoutsOK, SameLayout
  <2> HIDE DEF t
  <2>3. Fit(tt, t) /\ Info(tt, t) = Info(ss, t)
    BY <2>1, <2>2, FitKept DEF SameLayout
  <2>4. QED
    BY <2>2, <2>3 DEF t
<1>2. \A s : \A r \in DOMAIN ss : Embeds(tt, r, s) <=> Embeds(ss, r, s)
  BY DEF Embeds, SameLayout
<1>3. Acyclic(tt)
  <2>1. SUFFICES ASSUME NEW S \in SUBSET DOMAIN tt, S # {}
                 PROVE  \E m \in S : \A r \in S : ~Embeds(tt, m, r)
    BY DEF Acyclic
  <2>2. PICK m \in S : \A r \in S : ~Embeds(ss, m, r)
    BY <2>1 DEF LayoutsOK, Acyclic
  <2>3. QED
    BY <1>2, <2>2
<1>4. ASSUME NEW r \in DOMAIN tt, tt[r].ready
      PROVE  tt[r].align \in Pow /\ Laid(tt, tt[r])
  <2>1. ss[r].ready /\ SameLayout(tt[r], ss[r])
    BY <1>4 DEF SameLayout
  <2>2. ss[r].align \in Pow /\ Laid(ss, ss[r])
    BY <2>1 DEF LayoutsOK
  <2>3. DOMAIN ss[r].fields = 1 .. Len(ss[r].fields) /\ Len(ss[r].fields) \in Nat
    BY Typing DEF LayoutsOK
  <2>4. Laid(tt, ss[r])
    BY <1>1, <2>2, <2>3, LaidSame
  <2>5. \A i : Behind(tt, tt[r], i) = Behind(tt, ss[r], i)
    BY <2>1 DEF Behind, SameLayout
  <2>6. \A i : Placed(tt, ss[r], i) => Placed(tt, tt[r], i)
    BY <2>1, <2>5 DEF Placed, SameLayout
  <2>7. Aligns(tt, tt[r]) = Aligns(tt, ss[r])
    BY <2>1 DEF Aligns, SameLayout
  <2>8. Laid(tt, tt[r])
    BY <2>1, <2>4, <2>5, <2>6, <2>7 DEF Laid, SameLayout
  <2>9. QED
    BY <2>1, <2>2, <2>8 DEF SameLayout
<1>5. \A r \in DOMAIN tt : \A i \in DOMAIN tt[r].fields : Fit(tt, tt[r].fields[i].type)
  BY <1>1 DEF SameLayout
<1>6. QED
  BY <1>3, <1>4, <1>5 DEF LayoutsOK

-----------------------------------------------------------------------------
(* Declarations.                                                           *)
LEMMA ShapeFacts ==
  ASSUME NEW a, NEW b, Shape(a) = Shape(b)
  PROVE  /\ structs[a].packed = structs[b].packed
         /\ DOMAIN structs[a].fields = DOMAIN structs[b].fields
         /\ \A i \in DOMAIN structs[a].fields :
              /\ structs[a].fields[i].type = structs[b].fields[i].type
              /\ structs[a].fields[i].repeat = structs[b].fields[i].repeat
<1> DEFINE tuples(s) == [i \in DOMAIN structs[s].fields |->
                           <<structs[s].fields[i].type, structs[s].fields[i].repeat>>]
<1>1. structs[a].packed = structs[b].packed /\ tuples(a) = tuples(b)
  BY DEF Shape
<1>2. DOMAIN structs[a].fields = DOMAIN structs[b].fields
  BY <1>1
<1>3. ASSUME NEW i \in DOMAIN structs[a].fields
      PROVE  /\ structs[a].fields[i].type = structs[b].fields[i].type
             /\ structs[a].fields[i].repeat = structs[b].fields[i].repeat
  <2>1. tuples(a)[i] = tuples(b)[i]
    BY <1>1
  <2>2. tuples(a)[i] = <<structs[a].fields[i].type, structs[a].fields[i].repeat>>
    OBVIOUS
  <2>3. tuples(b)[i] = <<structs[b].fields[i].type, structs[b].fields[i].repeat>>
    BY <1>2
  <2>4. <<structs[a].fields[i].type, structs[a].fields[i].repeat>>
          = <<structs[b].fields[i].type, structs[b].fields[i].repeat>>
    BY <2>1, <2>2, <2>3, Zenon
  <2>5. QED
    BY <2>4, Zenon
<1>4. QED
  BY <1>1, <1>2, <1>3

(* Two calls in progress are for structs of different shapes: the inner    *)
(* one would be a part of itself.                                          *)
LEMMA NoRepeat ==
  ASSUME LayoutsOK(structs), CompileOK, NEW q \in DOMAIN stack, q # 1, stack[q].at # 0
  PROVE  Shape(stack[1].st) # Shape(stack[q].st)
<1>1. SUFFICES ASSUME Shape(stack[1].st) = Shape(stack[q].st) PROVE FALSE
  OBVIOUS
<1>2. stack \in Seq(CallRec) /\ DOMAIN stack = 1 .. Len(stack) /\ Len(stack) \in Nat
  BY DEF CompileOK
<1>3. q \in Nat /\ 2 <= q /\ q - 1 \in DOMAIN stack /\ 1 \in DOMAIN stack /\ \A p \in 1 .. q : p \in DOMAIN stack
  BY <1>2
<1>31. ASSUME NEW p \in 2 .. q PROVE stack[p].at # 0
  <2> DEFINE G == {d \in Nat : d <= q - 2 => stack[q - d].at # 0}
  <2>1. 0 \in G
    BY <1>3
  <2>2. ASSUME NEW d \in Nat, d \in G PROVE d + 1 \in G
    <3>1. SUFFICES ASSUME d + 1 <= q - 2 PROVE stack[q - (d + 1)].at # 0
      OBVIOUS
    <3> DEFINE r == q - d
    <3>2. r \in DOMAIN stack /\ r # 1 /\ r # 2 /\ q - (d + 1) = r - 1
      BY <1>3, <3>1
    <3>3. stack[r].at # 0
      BY <1>3, <2>2, <3>1
    <3> HIDE DEF r
    <3>4. QED
      BY <3>2, <3>3 DEF CompileOK, CallOK
  <2> HIDE DEF G
  <2>3. Nat \subseteq G
    BY <2>1, <2>2, SetInduction
  <2>4. q - p \in Nat /\ q - p <= q - 2 /\ q - (q - p) = p
    BY <1>3
  <2>5. QED
    BY <2>3, <2>4 DEF G
<1>4. ASSUME NEW p \in 2 .. q
      PROVE  /\ stack[p].at - 1 \in DOMAIN structs[stack[p].st].fields
             /\ structs[stack[p].st].fields[stack[p].at - 1].type.spec = stack[p - 1].st
  <2>1. /\ stack[p].at >= 2
        /\ structs[stack[p].st].fields[stack[p].at - 1].type.spec = stack[p - 1].st
    <3>1. p \in DOMAIN stack /\ p # 1
      BY <1>3
    <3>2. QED
      BY <3>1, <1>31 DEF CompileOK, CallOK
  <2>2. p \in DOMAIN stack
    BY <1>3
  <2>3. stack[p].st \in Structs /\ stack[p].at <= Len(structs[stack[p].st].fields) + 1
    BY <2>2 DEF CompileOK
  <2>4. stack[p].at \in Nat
    <3>1. stack[p] \in CallRec
      BY <1>2, <2>2
    <3>2. QED
      BY <3>1 DEF CallRec
  <2>5. /\ DOMAIN structs[stack[p].st].fields = 1 .. Len(structs[stack[p].st].fields)
        /\ Len(structs[stack[p].st].fields) \in Nat
    BY <2>3, Typing DEF LayoutsOK, Structs
  <2>6. QED
    BY <2>1, <2>3, <2>4, <2>5, SMTT(30)
<1> DEFINE S == {stack[p].st : p \in 1 .. q - 1}
<1>5. S # {} /\ S \in SUBSET DOMAIN structs
  <2>1. \A p \in 1 .. q - 1 : p \in DOMAIN stack
    BY <1>2, <1>3
  <2>2. 1 \in 1 .. q - 1
    BY <1>3
  <2>3. QED
    BY <2>1, <2>2 DEF CompileOK, Structs
<1>6. PICK p \in 1 .. q - 1 : \A s \in S : ~Embeds(structs, stack[p].st, s)
  BY <1>5 DEF LayoutsOK, Acyclic
<1>7. CASE p # 1
  <2>1. p \in 2 .. q /\ p - 1 \in 1 .. q - 1
    BY <1>3, <1>7
  <2>2. Embeds(structs, stack[p].st, stack[p - 1].st)
    BY <1>4, <2>1 DEF Embeds
  <2>3. QED
    BY <1>6, <2>1, <2>2
<1>8. CASE p = 1
  <2>1. q \in 2 .. q /\ q - 1 \in 1 .. q - 1
    BY <1>3
  <2> DEFINE i == stack[q].at - 1
  <2>2. /\ i \in DOMAIN structs[stack[q].st].fields
        /\ structs[stack[q].st].fields[i].type.spec = stack[q - 1].st
    BY <1>4, <2>1
  <2>3. /\ i \in DOMAIN structs[stack[1].st].fields
        /\ structs[stack[1].st].fields[i].type = structs[stack[q].st].fields[i].type
    BY <1>1, <2>2, ShapeFacts, SMTT(30)
  <2>4. Embeds(structs, stack[1].st, stack[q - 1].st)
    BY <2>2, <2>3 DEF Embeds
  <2>5. QED
    BY <1>6, <1>8, <2>1, <2>4
<1>9. QED
  BY <1>7, <1>8

(* A step of qbe_compile leaves the layouts and what is settled.           *)
Frame ==
  /\ structs' \in Seq(StructRec) /\ DOMAIN structs' = DOMAIN structs
  /\ \A s \in Structs : SameLayout(structs'[s], structs[s])
  /\ \A s \in Structs : structs[s].compiled => structs'[s].compiled
  /\ \A s \in Structs : Settled(s) => structs'[s] = structs[s] /\ Settled(s)'

LEMMA FrameFacts ==
  ASSUME LayoutsOK(structs), Frame
  PROVE  /\ LayoutsOK(structs)' /\ Structs' = Structs
         /\ \A s \in Structs : Shape(s)' = Shape(s)
<1>1. LayoutsOK(structs')
  BY FrameKeeps DEF Frame, Structs
<1>2. ASSUME NEW s \in Structs PROVE Shape(s)' = Shape(s)
  <2>1. structs'[s].fields = structs[s].fields /\ structs'[s].packed = structs[s].packed
    BY DEF Frame, SameLayout
  <2>2. QED
    BY <2>1 DEF Shape
<1>3. QED
  BY <1>1, <1>2 DEF Frame, Structs

LEMMA DeclarationSame ==
  ASSUME NEW s, NEW k, SameLayout(structs'[s], structs[s]),
         ~structs[s].packed =>
           \A i \in DOMAIN structs[s].fields : \A e : e = structs[s].fields[i].type.spec /\ e # 0 =>
             structs'[e].iota = structs[e].iota
  PROVE  Declaration(s, k)' = Declaration(s, k)
<1>1. PICK fs : fs = structs[s].fields
  OBVIOUS
<1>2. /\ structs'[s].fields = fs /\ structs'[s].packed = structs[s].packed
      /\ structs'[s].align = structs[s].align /\ structs'[s].size = structs[s].size
  BY <1>1 DEF SameLayout
<1>3. CASE structs[s].packed
  BY <1>2, <1>3 DEF Declaration
<1>4. CASE ~structs[s].packed
  <2> DEFINE fd(f, ss) == [basic |-> f.type.size, repeat |-> f.repeat,
                           iota |-> IF f.type.spec = 0 THEN 0 ELSE ss[f.type.spec].iota]
  <2>1. \A i \in DOMAIN fs : fd(fs[i], structs') = fd(fs[i], structs)
    BY <1>1, <1>4
  <2>2. [i \in DOMAIN fs |-> fd(fs[i], structs')] = [i \in DOMAIN fs |-> fd(fs[i], structs)]
    BY <2>1, Zenon
  <2>3. Declaration(s, k)'
          = [iota |-> k, align |-> structs'[s].align, dark |-> structs'[s].packed,
             size |-> structs'[s].size, fields |-> [i \in DOMAIN fs |-> fd(fs[i], structs')]]
    BY <1>2, <1>4, Zenon DEF Declaration
  <2>4. Declaration(s, k)
          = [iota |-> k, align |-> structs[s].align, dark |-> structs[s].packed,
             size |-> structs[s].size, fields |-> [i \in DOMAIN fs |-> fd(fs[i], structs)]]
    BY <1>1, <1>4, Zenon DEF Declaration
  <2>5. QED
    BY <1>2, <2>2, <2>3, <2>4, Zenon
<1>5. QED
  BY <1>3, <1>4

LEMMA DeclarationTyped ==
  ASSUME LayoutsOK(structs), NEW s \in Structs, NEW k \in Nat
  PROVE  Declaration(s, k) \in DeclRec
<1> DEFINE FD == [basic : {0} \cup Pow, repeat : Nat \ {0}, iota : Nat]
<1>1. PICK fs : fs = structs[s].fields
  OBVIOUS
<1>2. /\ fs \in Seq(FieldRec) /\ structs[s].align \in {0} \cup Pow /\ structs[s].packed \in BOOLEAN
      /\ structs[s].size \in Nat
  <2>1. structs[s] \in StructRec
    BY Typing DEF LayoutsOK, Structs
  <2>2. QED
    BY <1>1, <2>1 DEF StructRec
<1>3. <<>> \in Seq(FD)
  OBVIOUS
<1>4. PICK n \in Nat : n = Len(fs) /\ DOMAIN fs = 1 .. n
  BY <1>2
<1>5. \A i \in 1 .. n : fs[i] \in FieldRec /\ Fit(structs, fs[i].type)
  BY <1>1, <1>2, <1>4 DEF LayoutsOK, Structs
<1> DEFINE g == [i \in DOMAIN fs |->
                   [basic |-> fs[i].type.size, repeat |-> fs[i].repeat,
                    iota |-> IF fs[i].type.spec = 0 THEN 0 ELSE structs[fs[i].type.spec].iota]]
<1>6. ASSUME NEW i \in 1 .. n PROVE g[i] \in FD
  <2>1. fs[i].type \in TypeRec /\ fs[i].repeat \in Nat \ {0}
    BY <1>5 DEF FieldRec
  <2>2. fs[i].type.size \in {0} \cup Pow
    BY <2>1 DEF TypeRec
  <2>3. (IF fs[i].type.spec = 0 THEN 0 ELSE structs[fs[i].type.spec].iota) \in Nat
    <3>1. fs[i].type.spec # 0 => fs[i].type.spec \in DOMAIN structs
      BY <1>5 DEF Fit
    <3>2. fs[i].type.spec # 0 => structs[fs[i].type.spec].iota \in Nat
      BY <3>1, Typing DEF LayoutsOK
    <3>3. QED
      BY <3>2
  <2>4. QED
    BY <1>4, <2>1, <2>2, <2>3
<1>7. g \in Seq(FD)
  <2>1. g \in [1 .. n -> FD]
    BY <1>4, <1>6
  <2> HIDE DEF g, FD
  <2>2. QED
    BY <2>1
<1>8. Declaration(s, k)
        = [iota |-> k, align |-> structs[s].align, dark |-> structs[s].packed, size |-> structs[s].size,
           fields |-> IF structs[s].packed THEN <<>> ELSE g]
  BY <1>1, Zenon DEF Declaration
<1> HIDE DEF g, FD
<1>9. QED
  BY <1>2, <1>3, <1>7, <1>8 DEF DeclRec, FD

(* What a declaration says.                                                *)
LEMMA DeclarationIs ==
  ASSUME NEW s, NEW k, structs[s].packed \in BOOLEAN
  PROVE  /\ Declaration(s, k).iota = k /\ Declaration(s, k).dark = structs[s].packed
         /\ Declaration(s, k).align = structs[s].align /\ Declaration(s, k).size = structs[s].size
         /\ ~structs[s].packed =>
              /\ DOMAIN Declaration(s, k).fields = DOMAIN structs[s].fields
              /\ \A i \in DOMAIN structs[s].fields : \A t : t = structs[s].fields[i].type =>
                   /\ Declaration(s, k).fields[i].basic = t.size
                   /\ Declaration(s, k).fields[i].repeat = structs[s].fields[i].repeat
                   /\ Declaration(s, k).fields[i].iota = IF t.spec = 0 THEN 0 ELSE structs[t.spec].iota
<1>1. PICK fs : fs = structs[s].fields
  OBVIOUS
<1> DEFINE fd(f) == [basic |-> f.type.size, repeat |-> f.repeat,
                     iota |-> IF f.type.spec = 0 THEN 0 ELSE structs[f.type.spec].iota]
<1>2. PICK g : g = [i \in DOMAIN fs |-> fd(fs[i])]
  OBVIOUS
<1>3. Declaration(s, k)
        = [iota |-> k, align |-> structs[s].align, dark |-> structs[s].packed,
           size |-> structs[s].size, fields |-> IF structs[s].packed THEN <<>> ELSE g]
  BY <1>1, <1>2, Zenon DEF Declaration
<1>4. /\ Declaration(s, k).iota = k /\ Declaration(s, k).dark = structs[s].packed
      /\ Declaration(s, k).align = structs[s].align /\ Declaration(s, k).size = structs[s].size
  BY <1>3
<1>5. ~structs[s].packed => Declaration(s, k).fields = g
  BY <1>3
<1>6. DOMAIN g = DOMAIN structs[s].fields
  BY <1>1, <1>2
<1>7. ASSUME NEW i \in DOMAIN structs[s].fields, NEW t, t = structs[s].fields[i].type
      PROVE  /\ g[i].basic = t.size /\ g[i].repeat = structs[s].fields[i].repeat
             /\ g[i].iota = IF t.spec = 0 THEN 0 ELSE structs[t.spec].iota
  <2>1. g[i] = fd(fs[i])
    BY <1>1, <1>2
  <2>2. QED
    BY <1>1, <1>7, <2>1
<1> HIDE DEF fd
<1>8. QED
  BY <1>4, <1>5, <1>6, <1>7

LEMMA DeclKept ==
  ASSUME LayoutsOK(structs), CompileOK, Frame, NEW k \in DOMAIN cache,
         cache'[k] = cache[k], out'[k] = out[k],
         \A j \in DOMAIN cache' : (Shape(cache[j]) = Shape(cache[k]))' => j = k
  PROVE  DeclOK(k)'
<1>1. PICK s : s = cache[k]
  OBVIOUS
<1>2. PICK fs : fs = structs[s].fields
  OBVIOUS
<1>3. /\ s \in Structs /\ Settled(s) /\ structs[s].iota = k - 1 /\ out[k] = Declaration(s, k - 1)
      /\ ~structs[s].packed =>
           \A i \in DOMAIN fs : fs[i].type.spec # 0 =>
             Settled(fs[i].type.spec) /\ structs[fs[i].type.spec].iota < k - 1
  BY <1>1, <1>2 DEF CompileOK, DeclOK
<1>4. structs'[s] = structs[s] /\ Settled(s)' /\ Structs' = Structs
  BY <1>3, FrameFacts DEF Frame
<1>5. ASSUME ~structs[s].packed, NEW i \in DOMAIN fs, NEW e, e = fs[i].type.spec, e # 0
      PROVE  structs'[e] = structs[e] /\ Settled(e)' /\ structs[e].iota < k - 1
  <2>1. Fit(structs, fs[i].type)
    BY <1>2, <1>3 DEF LayoutsOK, Structs
  <2>2. e \in Structs
    BY <1>5, <2>1 DEF Fit, Structs
  <2>3. QED
    BY <1>3, <1>5, <2>2 DEF Frame
<1>6. Declaration(s, k - 1)' = Declaration(s, k - 1)
  BY <1>2, <1>4, <1>5, DeclarationSame DEF SameLayout
<1>7. /\ cache'[k] = s /\ s \in Structs' /\ Settled(s)' /\ structs'[s].iota = k - 1
      /\ out'[k] = Declaration(s, k - 1)'
      /\ structs'[s].fields = fs /\ structs'[s].packed = structs[s].packed
  BY <1>1, <1>2, <1>3, <1>4, <1>6
<1>8. ~structs'[s].packed =>
        \A i \in DOMAIN fs : LET e == fs[i].type.spec
                             IN e # 0 => Settled(e)' /\ structs'[e].iota < k - 1
  BY <1>5, <1>7
<1>9. \A j \in DOMAIN cache' : (Shape(cache[j]) = Shape(cache[k]))' => j = k
  OBVIOUS
<1>10. QED
  BY <1>7, <1>8, <1>9 DEF DeclOK

LEMMA CallKept ==
  ASSUME LayoutsOK(structs), CompileOK, Frame, NEW q \in DOMAIN stack, NEW r \in Nat \ {0},
         stack'[r] = stack[q],
         r # 1 => /\ q # 1 /\ stack'[r - 1].st = stack[q - 1].st
                  /\ r # 2 /\ stack[q].at # 0 => stack'[r - 1].at # 0,
         q # 1 /\ r = 1 /\ stack[q].at # 0 => \A e : e = stack[q - 1].st /\ e # 0 => Settled(e)',
         stack[q].at # 0 => \A k \in DOMAIN cache' : ~SameStruct(cache[k], stack[r].st)'
  PROVE  CallOK(r)'
<1>1. SUFFICES ASSUME stack[q].at # 0 PROVE CallOK(r)'
  BY DEF CallOK
<1>2. PICK s : s = stack[q].st
  OBVIOUS
<1>3. PICK a : a = stack[q].at
  OBVIOUS
<1>4. /\ structs[s].ready /\ structs[s].compiled
      /\ q # 1 => /\ a >= 2
                  /\ structs[s].fields[a - 1].type.spec = stack[q - 1].st
      /\ ~structs[s].packed =>
           \A i \in DOMAIN structs[s].fields : i < a /\ (q # 1 => i # a - 1) =>
             LET e == structs[s].fields[i].type.spec IN e # 0 => Settled(e)
  BY <1>1, <1>2, <1>3 DEF CompileOK, CallOK
<1>5. s \in Structs
  BY <1>2 DEF CompileOK
<1>6. structs'[s].fields = structs[s].fields /\ structs'[s].packed = structs[s].packed
      /\ structs'[s].ready /\ structs'[s].compiled
  BY <1>4, <1>5 DEF Frame, SameLayout
<1>7. ASSUME NEW i \in DOMAIN structs[s].fields, i < a, r # 1 => i # a - 1, ~structs[s].packed,
             NEW e, e = structs[s].fields[i].type.spec, e # 0
      PROVE  Settled(e)'
  <2>1. CASE q # 1 /\ i = a - 1
    <3>1. r = 1 /\ e = stack[q - 1].st
      BY <1>4, <1>7, <2>1
    <3>2. QED
      BY <1>1, <1>7, <2>1, <3>1
  <2>2. CASE ~(q # 1 /\ i = a - 1)
    <3>1. Settled(e)
      BY <1>4, <1>7, <2>2
    <3>2. Fit(structs, structs[s].fields[i].type)
      BY <1>5 DEF LayoutsOK, Structs
    <3>3. e \in Structs
      BY <1>7, <3>2 DEF Fit, Structs
    <3>4. QED
      BY <3>1, <3>3 DEF Frame
  <2>3. QED
    BY <2>1, <2>2
<1>8. ~structs'[s].packed =>
        \A i \in DOMAIN structs'[s].fields : i < a /\ (r # 1 => i # a - 1) =>
          \A e : e = structs'[s].fields[i].type.spec /\ e # 0 => Settled(e)'
  <2>1. SUFFICES ASSUME ~structs[s].packed, NEW i \in DOMAIN structs[s].fields,
                        i < a, r # 1 => i # a - 1, NEW e, e = structs[s].fields[i].type.spec, e # 0
                 PROVE  Settled(e)'
    BY <1>6
  <2>2. QED
    BY <2>1, <1>7
<1>9. \A k \in DOMAIN cache' : (Shape(cache[k]) # Shape(stack[r].st))'
  BY <1>1 DEF SameStruct
<1>10. stack'[r].st = s /\ stack'[r].at = a
  BY <1>2, <1>3
<1>11. QED
  BY <1>4, <1>6, <1>8, <1>9, <1>10, <1>1, <1>3 DEF CallOK

(* The stack: its first entry goes, changes, or another one comes before   *)
(* it.                                                                     *)
LEMMA StackFacts ==
  ASSUME CompileOK, stack # <<>>
  PROVE  /\ 1 \in DOMAIN stack /\ Call = stack[1] /\ Call \in CallRec /\ Call.st \in Structs
         /\ Call.at <= Len(structs[Call.st].fields) + 1
         /\ DOMAIN stack = 1 .. Len(stack) /\ Len(stack) \in Nat \ {0}
         /\ \A q \in DOMAIN stack : stack[q] \in CallRec
         /\ Tail(stack) \in Seq(CallRec) /\ DOMAIN Tail(stack) = 1 .. Len(stack) - 1
         /\ \A q \in 1 .. Len(stack) - 1 : Tail(stack)[q] = stack[q + 1]
         /\ \A x \in CallRec :
              /\ <<x>> \o Tail(stack) \in Seq(CallRec)
              /\ DOMAIN (<<x>> \o Tail(stack)) = DOMAIN stack
              /\ (<<x>> \o Tail(stack))[1] = x
              /\ \A q \in DOMAIN stack : q # 1 => (<<x>> \o Tail(stack))[q] = stack[q]
<1>1. stack \in Seq(CallRec)
  BY DEF CompileOK
<1>2. 1 \in DOMAIN stack /\ Len(stack) \in Nat \ {0} /\ DOMAIN stack = 1 .. Len(stack)
  BY <1>1
<1>3. Call = stack[1]
  BY <1>1 DEF Call
<1>4. /\ Tail(stack) \in Seq(CallRec) /\ Len(Tail(stack)) = Len(stack) - 1
      /\ \A q \in 1 .. Len(stack) - 1 : Tail(stack)[q] = stack[q + 1]
  BY <1>1, <1>2
<1>5. ASSUME NEW x \in CallRec
      PROVE  /\ <<x>> \o Tail(stack) \in Seq(CallRec)
             /\ DOMAIN (<<x>> \o Tail(stack)) = DOMAIN stack
             /\ (<<x>> \o Tail(stack))[1] = x
             /\ \A q \in DOMAIN stack : q # 1 => (<<x>> \o Tail(stack))[q] = stack[q]
  <2> DEFINE t == Tail(stack)
  <2>1. t \in Seq(CallRec) /\ Len(t) = Len(stack) - 1 /\ Len(t) \in Nat
    BY <1>2, <1>4
  <2>2. \A q \in 1 .. Len(t) : t[q] = stack[q + 1]
    BY <1>4, <2>1
  <2> HIDE DEF t
  <2>3. <<x>> \in Seq(CallRec) /\ Len(<<x>>) = 1 /\ <<x>>[1] = x
    OBVIOUS
  <2>4. <<x>> \o t \in Seq(CallRec) /\ Len(<<x>> \o t) = Len(t) + 1
    BY <2>1, <2>3
  <2>5. \A q \in 1 .. Len(t) + 1 : (<<x>> \o t)[q] = IF q = 1 THEN x ELSE t[q - 1]
    BY <2>1, <2>3
  <2>6. \A q \in DOMAIN stack : q # 1 => t[q - 1] = stack[q]
    BY <1>2, <2>1, <2>2
  <2>7. Len(t) + 1 = Len(stack)
    BY <2>1, <1>2
  <2>8. QED
    BY <1>2, <2>4, <2>5, <2>6, <2>7 DEF t
<1>6. DOMAIN Tail(stack) = 1 .. Len(stack) - 1
  BY <1>4
<1>7. stack[1] \in CallRec /\ stack[1].st \in Structs
      /\ stack[1].at <= Len(structs[stack[1].st].fields) + 1
  BY <1>1, <1>2 DEF CompileOK
<1>8. \A q \in DOMAIN stack : stack[q] \in CallRec
  BY <1>1
<1> HIDE DEF CallRec
<1>9. QED
  BY <1>2, <1>3, <1>4, <1>5, <1>6, <1>7, <1>8

LEMMA StructKept ==
  ASSUME LayoutsOK(structs), CompileOK, Frame, NEW s \in Structs, structs'[s] = structs[s],
         cache' \in Seq(Nat), Len(cache) <= Len(cache'),
         \A k \in DOMAIN cache : cache'[k] = cache[k],
         Settled(s)' => Settled(s),
         structs[s].ready /\ ~structs[s].compiled /\ Waits(s) => Waits(s)'
  PROVE  StructOK(s)'
<1>1. /\ structs[s].iota <= Len(cache)
      /\ structs[s].ready /\ ~structs[s].compiled => Waits(s)
      /\ Settled(s) => /\ structs[s].iota + 1 \in DOMAIN cache
                       /\ Shape(cache[structs[s].iota + 1]) = Shape(s)
  BY DEF CompileOK, StructOK
<1>2. structs[s].iota \in Nat
  BY Typing DEF LayoutsOK, Structs
<1>3. DOMAIN cache = 1 .. Len(cache) /\ Len(cache) \in Nat
      /\ DOMAIN cache' = 1 .. Len(cache') /\ Len(cache') \in Nat
  BY DEF CompileOK
<1>4. structs[s].iota <= Len(cache')
  BY <1>1, <1>2, <1>3
<1>5. ASSUME Settled(s)'
      PROVE  /\ structs'[s].iota + 1 \in DOMAIN cache'
             /\ (Shape(cache[structs[s].iota + 1]) = Shape(s))'
  <2>1. PICK k : k = structs[s].iota + 1
    OBVIOUS
  <2>2. k \in DOMAIN cache /\ Shape(cache[k]) = Shape(s)
    BY <1>1, <1>5, <2>1
  <2>3. PICK r : r = cache[k]
    OBVIOUS
  <2>4. r \in Structs
    BY <2>2, <2>3 DEF CompileOK, DeclOK
  <2>5. Shape(r)' = Shape(r) /\ Shape(s)' = Shape(s)
    BY <2>4, FrameFacts
  <2>6. cache'[k] = r /\ k \in DOMAIN cache' /\ structs'[s].iota + 1 = k
    BY <1>3, <2>1, <2>2, <2>3
  <2>7. QED
    BY <2>2, <2>3, <2>5, <2>6
<1>6. QED
  BY <1>1, <1>4, <1>5 DEF StructOK

LEMMA Popped ==
  ASSUME LayoutsOK(structs), CompileOK, stack # <<>>, stack' = Tail(stack),
         Structs' = Structs, \A s \in Structs : structs'[s].fields = structs[s].fields
  PROVE  /\ \A s : Open(s)' => Open(s)
         /\ \A s : Open(s) => Open(s)' \/ (s = Call.st /\ Call.at # 0)
         /\ \A s : Waits(s) => Waits(s)' \/ (s = Call.st /\ Call.at = 0)
         /\ \A s : s = Call.st => ~Open(s)' /\ (Call.at = 0 => ~Open(s))
         /\ stack' \in Seq(CallRec)
         /\ \A q \in DOMAIN stack' :
              stack'[q].st \in Structs' /\ stack'[q].at <= Len(structs'[stack'[q].st].fields) + 1
<1>1. /\ 1 \in DOMAIN stack /\ Call = stack[1]
      /\ DOMAIN stack = 1 .. Len(stack) /\ Len(stack) \in Nat \ {0}
      /\ stack' \in Seq(CallRec) /\ DOMAIN stack' = 1 .. Len(stack) - 1
      /\ \A q \in 1 .. Len(stack) - 1 : stack'[q] = stack[q + 1]
  BY StackFacts
<1>2. \A q \in DOMAIN stack' : q + 1 \in DOMAIN stack /\ stack'[q] = stack[q + 1] /\ q + 1 # 1
  BY <1>1
<1>3. \A q \in DOMAIN stack : q # 1 => q - 1 \in DOMAIN stack' /\ stack'[q - 1] = stack[q]
  BY <1>1
<1>4. \A s : Open(s)' => Open(s)
  BY <1>2 DEF Open
<1>5. \A s : Open(s) => Open(s)' \/ (s = Call.st /\ Call.at # 0)
  BY <1>1, <1>3, ZenonT(60) DEF Open
<1>6. \A s : Waits(s) => Waits(s)' \/ (s = Call.st /\ Call.at = 0)
  BY <1>1, <1>3 DEF Waits
<1>7. ASSUME NEW q \in DOMAIN stack, q # 1, stack[q].at # 0 PROVE stack[q].st # stack[1].st
  BY <1>7, NoRepeat
<1>8. ~(\E q \in DOMAIN stack' : stack'[q].st = stack[1].st /\ stack'[q].at # 0)
  BY <1>2, <1>7
<1>9. stack[1].at = 0 => ~Open(stack[1].st)
  BY <1>7 DEF Open
<1>10. PICK c : c = Call.st
  OBVIOUS
<1>11. \A q \in DOMAIN stack' :
         stack'[q].st \in Structs' /\ stack'[q].at <= Len(structs'[stack'[q].st].fields) + 1
  BY <1>2, ZenonT(60) DEF CompileOK
<1>12. ~(\E q \in DOMAIN stack' : stack'[q].st = Call.st /\ stack'[q].at # 0)
  BY <1>1, <1>8
<1>13. \A s : s = Call.st => ~Open(s)'
  BY <1>12 DEF Open
<1>14. QED
  BY <1>1, <1>4, <1>5, <1>6, <1>9, <1>11, <1>13

(* The calls that are left when one returns: what it was called for is     *)
(* settled.                                                                *)
LEMMA CallsLeft ==
  ASSUME LayoutsOK(structs), CompileOK, Frame, stack # <<>>, stack' = Tail(stack),
         \A e : e = Call.st /\ structs[e].ready => Settled(e)',
         \A q \in DOMAIN stack : q # 1 /\ stack[q].at # 0 =>
           \A k \in DOMAIN cache' : \A s : s = stack[q].st => ~SameStruct(cache[k], s)'
  PROVE  \A r \in DOMAIN stack' : CallOK(r)'
<1>1. SUFFICES ASSUME NEW r \in DOMAIN stack' PROVE CallOK(r)'
  OBVIOUS
<1>2. /\ 1 \in DOMAIN stack /\ Call = stack[1]
      /\ DOMAIN stack = 1 .. Len(stack) /\ Len(stack) \in Nat \ {0}
      /\ DOMAIN stack' = 1 .. Len(stack) - 1
      /\ \A q \in 1 .. Len(stack) - 1 : stack'[q] = stack[q + 1]
  BY StackFacts
<1>3. PICK q : q = r + 1
  OBVIOUS
<1>4. q \in DOMAIN stack /\ q # 1 /\ stack'[r] = stack[q] /\ r \in Nat \ {0}
  BY <1>2, <1>3
<1>5. r # 1 => stack'[r - 1] = stack[q - 1] /\ q # 2
  BY <1>2, <1>3
<1>6. stack[q].at # 0 => /\ q # 2 => stack[q - 1].at # 0
                         /\ structs[stack[q].st].ready
                         /\ stack[q].at >= 2
                         /\ structs[stack[q].st].fields[stack[q].at - 1].type.spec = stack[q - 1].st
  BY <1>4 DEF CompileOK, CallOK
<1>7. ASSUME r = 1, stack[q].at # 0, NEW e, e = stack[q - 1].st, e # 0
      PROVE  Settled(e)'
  <2> DEFINE s == stack[q].st
             i == stack[q].at - 1
  <2>1. e = Call.st
    BY <1>2, <1>3, <1>7
  <2>2. s \in Structs /\ i \in DOMAIN structs[s].fields
    <3>1. s \in Structs /\ stack[q].at <= Len(structs[s].fields) + 1
      BY <1>4 DEF CompileOK
    <3>2. stack[q].at \in Nat
      <4>1. stack[q] \in CallRec
        BY <1>4, StackFacts
      <4>2. QED
        BY <4>1 DEF CallRec
    <3>3. DOMAIN structs[s].fields = 1 .. Len(structs[s].fields) /\ Len(structs[s].fields) \in Nat
      BY <3>1, Typing DEF LayoutsOK, Structs
    <3>4. stack[q].at >= 2
      BY <1>6, <1>7
    <3>5. i \in 1 .. Len(structs[s].fields)
      <4> DEFINE a == stack[q].at
                 n == Len(structs[s].fields)
      <4>1. a \in Nat /\ a >= 2 /\ n \in Nat /\ a <= n + 1
        BY <3>1, <3>2, <3>3, <3>4
      <4> HIDE DEF a, n
      <4>2. a - 1 \in 1 .. n
        BY <4>1
      <4>3. QED
        BY <4>2 DEF a, n
    <3> HIDE DEF s, i
    <3>6. QED
      BY <3>1, <3>3, <3>5
  <2>3. Fit(structs, structs[s].fields[i].type)
    BY <2>2 DEF LayoutsOK, Structs
  <2>4. structs[s].fields[i].type.spec = e
    BY <1>6, <1>7
  <2>5. structs[e].ready
    BY <1>7, <2>3, <2>4 DEF Fit
  <2>6. QED
    BY <2>1, <2>5
<1>8. stack[q].at # 0 => \A k \in DOMAIN cache' : ~SameStruct(cache[k], stack[r].st)'
  BY <1>4
<1>9. QED
  BY <1>4, <1>5, <1>6, <1>7, <1>8, CallKept

LEMMA CacheKept ==
  ASSUME LayoutsOK(structs), CompileOK, Frame, cache' = cache, out' = out
  PROVE  /\ \A k \in DOMAIN cache' : DeclOK(k)'
         /\ \A q \in DOMAIN stack : stack[q].at # 0 =>
              \A k \in DOMAIN cache' : \A s : s = stack[q].st => ~SameStruct(cache[k], s)'
         /\ cache' \in Seq(Nat) /\ out' \in Seq(DeclRec) /\ Len(out') = Len(cache')
         /\ Len(cache) <= Len(cache')
<1>1. ASSUME NEW q \in DOMAIN stack, stack[q].at # 0, NEW k \in DOMAIN cache', NEW s, s = stack[q].st
      PROVE  ~SameStruct(cache[k], s)'
  <2>1. Shape(cache[k]) # Shape(s)
    BY <1>1 DEF CompileOK, CallOK
  <2>2. cache[k] \in Structs /\ s \in Structs
    BY <1>1 DEF CompileOK, DeclOK
  <2>3. QED
    BY <2>1, <2>2, FrameFacts DEF SameStruct
<1>2. ASSUME NEW k \in DOMAIN cache' PROVE DeclOK(k)'
  <2>1. ASSUME NEW j \in DOMAIN cache', (Shape(cache[j]) = Shape(cache[k]))' PROVE j = k
    <3>1. cache[j] \in Structs /\ cache[k] \in Structs
      BY DEF CompileOK, DeclOK
    <3>2. Shape(cache[j]) = Shape(cache[k])
      BY <2>1, <3>1, FrameFacts
    <3>3. QED
      BY <3>2 DEF CompileOK, DeclOK
  <2>2. QED
    BY <2>1, DeclKept
<1>3. cache \in Seq(Nat) /\ out \in Seq(DeclRec) /\ Len(out) = Len(cache) /\ Len(cache) \in Nat
  BY DEF CompileOK
<1>4. QED
  BY <1>1, <1>2, <1>3

LEMMA SkipKeeps ==
  ASSUME LayoutsOK(structs), CompileOK, StructSkip
  PROVE  LayoutsOK(structs)' /\ CompileOK'
<1>1. /\ stack # <<>> /\ Call.at = 0 /\ stack' = Tail(stack)
      /\ ~structs[Call.st].ready \/ structs[Call.st].compiled
      /\ structs' = structs /\ cache' = cache /\ out' = out
  BY DEF StructSkip
<1>2. Structs' = Structs
  BY <1>1 DEF Structs
<1>3. /\ \A s : Open(s)' => Open(s)
      /\ \A s : Open(s) => Open(s)'
      /\ \A s : Waits(s) => Waits(s)' \/ s = Call.st
      /\ \A s : s = Call.st => ~Open(s)'
      /\ stack' \in Seq(CallRec)
      /\ \A q \in DOMAIN stack' :
           stack'[q].st \in Structs' /\ stack'[q].at <= Len(structs'[stack'[q].st].fields) + 1
  BY <1>1, <1>2, Popped
<1>4. \A s : Settled(s)' <=> Settled(s)
  BY <1>1, <1>3 DEF Settled
<1>5. Frame
  BY <1>1, <1>4 DEF Frame, SameLayout, LayoutsOK, Structs
<1>6. ASSUME NEW e, e = Call.st, structs[e].ready PROVE Settled(e)'
  BY <1>1, <1>3, <1>6 DEF Settled
<1>7. \A r \in DOMAIN stack' : CallOK(r)'
  BY <1>1, <1>5, <1>6, CallsLeft, CacheKept
<1>8. ASSUME NEW s \in Structs PROVE StructOK(s)'
  <2>1. structs[s].ready /\ ~structs[s].compiled /\ Waits(s) => Waits(s)'
    BY <1>1, <1>3
  <2>2. QED
    BY <1>1, <1>4, <1>5, <2>1, CacheKept, StructKept
<1>9. LayoutsOK(structs)'
  BY <1>1
<1>10. QED
  BY <1>1, <1>2, <1>3, <1>5, <1>7, <1>8, <1>9, CacheKept DEF CompileOK

LEMMA KnownKeeps ==
  ASSUME LayoutsOK(structs), CompileOK, StructKnown
  PROVE  LayoutsOK(structs)' /\ CompileOK'
<1>1. PICK c : c = Call.st
  OBVIOUS
<1>2. PICK r \in Range(cache) :
        /\ SameStruct(c, r)
        /\ structs' = [structs EXCEPT ![c].compiled = TRUE, ![c].iota = structs[r].iota]
  BY <1>1 DEF StructKnown
<1>3. /\ stack # <<>> /\ Call.at = 0 /\ stack' = Tail(stack)
      /\ structs[c].ready /\ ~structs[c].compiled
      /\ cache' = cache /\ out' = out
  BY <1>1 DEF StructKnown
<1>4. c \in Structs
  BY <1>1, <1>3, StackFacts
<1>5. PICK k \in DOMAIN cache : r = cache[k]
  BY <1>2 DEF Range
<1>6. r \in Structs /\ structs[r].iota = k - 1 /\ k - 1 \in Nat
  BY <1>5, Typing DEF CompileOK, DeclOK, LayoutsOK, Structs
<1>7. structs \in Seq(StructRec)
  BY DEF LayoutsOK
<1>8. structs' = [structs EXCEPT ![c] = [structs[c] EXCEPT !.compiled = TRUE, !.iota = k - 1]]
  BY <1>2, <1>6, <1>7, Zenon
<1>9. /\ structs' \in Seq(StructRec) /\ DOMAIN structs' = DOMAIN structs
      /\ \A s \in Structs : s # c => structs'[s] = structs[s]
      /\ structs'[c].compiled /\ structs'[c].iota = k - 1
      /\ SameLayout(structs'[c], structs[c])
  <2> DEFINE st == [structs[c] EXCEPT !.compiled = TRUE, !.iota = k - 1]
  <2>1. structs[c] \in StructRec
    BY <1>4, <1>7 DEF Structs
  <2>2. st \in StructRec /\ st.compiled /\ st.iota = k - 1 /\ SameLayout(st, structs[c])
    BY <1>6, <2>1 DEF StructRec, SameLayout
  <2> HIDE DEF st
  <2>3. structs' = [structs EXCEPT ![c] = st]
    BY <1>8 DEF st
  <2>4. QED
    BY <1>4, <1>7, <2>2, <2>3 DEF Structs
<1>10. Structs' = Structs /\ \A s \in Structs : structs'[s].fields = structs[s].fields
  BY <1>9 DEF Structs, SameLayout
<1>11. /\ \A s : Open(s)' => Open(s)
       /\ \A s : Open(s) => Open(s)'
       /\ \A s : Waits(s) => Waits(s)' \/ s = c
       /\ ~Open(c)'
       /\ stack' \in Seq(CallRec)
       /\ \A q \in DOMAIN stack' :
            stack'[q].st \in Structs' /\ stack'[q].at <= Len(structs'[stack'[q].st].fields) + 1
  BY <1>1, <1>3, <1>10, Popped
<1>12. Settled(c)' /\ ~Settled(c)
  BY <1>3, <1>9, <1>11 DEF Settled, SameLayout
<1>13. \A s \in Structs : s # c => (Settled(s)' <=> Settled(s))
  BY <1>9, <1>11 DEF Settled
<1>14. Frame
  BY <1>3, <1>9, <1>12, <1>13 DEF Frame, SameLayout, Structs
<1>15. \A q \in DOMAIN stack' : CallOK(q)'
  BY <1>1, <1>3, <1>12, <1>14, CallsLeft, CacheKept
<1>16. ASSUME NEW s \in Structs PROVE StructOK(s)'
  <2>1. CASE s = c
    <3>1. structs'[c].iota + 1 = k /\ k \in DOMAIN cache' /\ structs'[c].iota <= Len(cache')
      BY <1>3, <1>9 DEF CompileOK
    <3>2. Shape(r)' = Shape(c)'
      BY <1>2, <1>4, <1>6, <1>14, FrameFacts DEF SameStruct
    <3>3. (Shape(cache[structs[c].iota + 1]) = Shape(c))'
      BY <1>3, <1>5, <3>1, <3>2
    <3>4. QED
      BY <1>9, <2>1, <3>1, <3>3 DEF StructOK
  <2>2. CASE s # c
    <3>1. structs[s].ready /\ ~structs[s].compiled /\ Waits(s) => Waits(s)'
      BY <1>11, <2>2
    <3>2. QED
      BY <1>3, <1>9, <1>13, <1>14, <2>2, <3>1, CacheKept, StructKept
  <2>3. QED
    BY <2>1, <2>2
<1>17. LayoutsOK(structs)'
  BY <1>14, FrameFacts
<1>18. QED
  BY <1>3, <1>10, <1>11, <1>14, <1>15, <1>16, <1>17, CacheKept DEF CompileOK

LEMMA EnterKeeps ==
  ASSUME LayoutsOK(structs), CompileOK, StructEnter
  PROVE  LayoutsOK(structs)' /\ CompileOK'
<1>1. PICK c : c = Call.st
  OBVIOUS
<1>2. PICK a : a = IF structs[c].packed THEN Len(structs[c].fields) + 1 ELSE 1
  OBVIOUS
<1>3. /\ stack # <<>> /\ Call.at = 0
      /\ structs[c].ready /\ ~structs[c].compiled
      /\ \A r \in Range(cache) : ~SameStruct(c, r)
      /\ structs' = [structs EXCEPT ![c].compiled = TRUE]
      /\ stack' = <<[Call EXCEPT !.at = a]>> \o Tail(stack)
      /\ cache' = cache /\ out' = out
  BY <1>1, <1>2 DEF StructEnter
<1>4. c \in Structs /\ Call \in CallRec /\ Call = stack[1]
  BY <1>1, <1>3, StackFacts
<1>5. structs \in Seq(StructRec) /\ Len(structs[c].fields) \in Nat
  BY <1>4, Typing DEF LayoutsOK, Structs
<1>6. a \in Nat /\ a # 0 /\ a <= Len(structs[c].fields) + 1
  BY <1>2, <1>5
<1>7. /\ [Call EXCEPT !.at = a] \in CallRec /\ [Call EXCEPT !.at = a].at = a
      /\ [Call EXCEPT !.at = a].st = c
  BY <1>1, <1>4, <1>6 DEF CallRec
<1>8. /\ stack' \in Seq(CallRec) /\ DOMAIN stack' = DOMAIN stack /\ 1 \in DOMAIN stack
      /\ stack'[1].st = c /\ stack'[1].at = a
      /\ \A q \in DOMAIN stack : q # 1 => stack'[q] = stack[q]
      /\ \A q \in DOMAIN stack : q \in Nat \ {0} /\ (q # 1 => q - 1 \in DOMAIN stack)
  <2>1. PICK x : x = [Call EXCEPT !.at = a]
    OBVIOUS
  <2>2. stack' = <<x>> \o Tail(stack) /\ x \in CallRec /\ x.st = c /\ x.at = a
    BY <1>3, <1>7, <2>1
  <2>3. /\ stack' \in Seq(CallRec) /\ DOMAIN stack' = DOMAIN stack /\ stack'[1] = x
        /\ \A q \in DOMAIN stack : q # 1 => stack'[q] = stack[q]
    <3>1. PICK t : t = <<x>> \o Tail(stack)
      OBVIOUS
    <3>2. /\ t \in Seq(CallRec) /\ DOMAIN t = DOMAIN stack /\ t[1] = x
          /\ \A q \in DOMAIN stack : q # 1 => t[q] = stack[q]
      BY <1>3, <2>2, <3>1, StackFacts
    <3>3. QED
      BY <2>2, <3>1, <3>2
  <2>4. 1 \in DOMAIN stack /\ DOMAIN stack = 1 .. Len(stack) /\ Len(stack) \in Nat
    BY <1>3, StackFacts
  <2>5. \A q \in DOMAIN stack : q \in Nat \ {0} /\ (q # 1 => q - 1 \in DOMAIN stack)
    BY <2>4
  <2>6. QED
    BY <2>2, <2>3, <2>4, <2>5
<1>9. /\ structs' \in Seq(StructRec) /\ DOMAIN structs' = DOMAIN structs
      /\ \A s \in Structs : s # c => structs'[s] = structs[s]
      /\ structs'[c].compiled /\ structs'[c].iota = structs[c].iota
      /\ SameLayout(structs'[c], structs[c])
  <2> DEFINE st == [structs[c] EXCEPT !.compiled = TRUE]
  <2>1. structs[c] \in StructRec
    BY <1>4, <1>5 DEF Structs
  <2>2. st \in StructRec /\ st.compiled /\ st.iota = structs[c].iota /\ SameLayout(st, structs[c])
    BY <2>1 DEF StructRec, SameLayout
  <2> HIDE DEF st
  <2>3. structs' = [structs EXCEPT ![c] = st]
    BY <1>3 DEF st
  <2>4. QED
    BY <1>4, <1>5, <2>2, <2>3 DEF Structs
<1>10. Structs' = Structs /\ \A s \in Structs : structs'[s].fields = structs[s].fields
  BY <1>9 DEF Structs, SameLayout
<1>11. \A s : s # c => (Open(s)' <=> Open(s)) /\ (Waits(s) => Waits(s)')
  BY <1>1, <1>4, <1>8 DEF Open, Waits
<1>12. Open(c)'
  BY <1>6, <1>8 DEF Open
<1>13. \A s \in Structs : s # c => (Settled(s)' <=> Settled(s))
  BY <1>9, <1>11 DEF Settled
<1>14. ~Settled(c)' /\ ~Settled(c)
  BY <1>3, <1>12 DEF Settled
<1>15. Frame
  BY <1>3, <1>9, <1>13, <1>14 DEF Frame, SameLayout, Structs
<1>16. ASSUME NEW q \in DOMAIN stack' PROVE CallOK(q)'
  <2>1. CASE q = 1
    <3>1. ASSUME NEW k \in DOMAIN cache' PROVE ~SameStruct(cache[k], c)'
      <4>1. PICK r : r = cache[k]
        OBVIOUS
      <4>2. r \in Structs /\ r \in Range(cache)
        BY <1>3, <4>1 DEF CompileOK, DeclOK, Range
      <4>3. Shape(c)' # Shape(r)'
        BY <1>3, <1>4, <1>15, <4>2, FrameFacts DEF SameStruct
      <4>4. QED
        BY <1>3, <4>1, <4>3 DEF SameStruct
    <3>2. structs'[c].ready /\ structs'[c].compiled /\ structs'[c].packed = structs[c].packed
          /\ DOMAIN structs'[c].fields \subseteq Nat \ {0}
      <4>1. DOMAIN structs[c].fields = 1 .. Len(structs[c].fields)
        BY <1>4, Typing DEF LayoutsOK, Structs
      <4>2. QED
        BY <1>3, <1>5, <1>9, <4>1 DEF SameLayout
    <3>3. ~structs'[c].packed => \A i \in DOMAIN structs'[c].fields : ~(i < a)
      BY <1>2, <3>2
    <3>4. \A k \in DOMAIN cache' : (Shape(cache[k]) # Shape(c))'
      BY <3>1 DEF SameStruct
    <3>5. QED
      BY <1>8, <2>1, <3>2, <3>3, <3>4 DEF CallOK
  <2>2. CASE q # 1
    <3>1. stack'[q - 1].st = stack[q - 1].st
      BY <1>1, <1>4, <1>8, <2>2
    <3>2. q # 2 /\ stack[q].at # 0 => stack'[q - 1].at # 0
      <4>1. SUFFICES ASSUME q # 2, stack[q].at # 0 PROVE stack'[q - 1].at # 0
        OBVIOUS
      <4>2. stack[q - 1].at # 0
        BY <1>8, <2>2, <4>1 DEF CompileOK, CallOK
      <4>3. q - 1 # 1 /\ q - 1 \in DOMAIN stack
        BY <1>8, <2>2, <4>1
      <4>4. QED
        BY <1>8, <4>2, <4>3
    <3>3. stack[q].at # 0 => \A k \in DOMAIN cache' : ~SameStruct(cache[k], stack[q].st)'
      BY <1>3, <1>8, <1>15, <2>2, CacheKept
    <3>4. QED
      BY <1>8, <1>15, <2>2, <3>1, <3>2, <3>3, CallKept
  <2>3. QED
    BY <2>1, <2>2
<1>17. ASSUME NEW s \in Structs PROVE StructOK(s)'
  <2>1. CASE s = c
    <3>1. structs[c].iota <= Len(cache)
      BY <1>4 DEF CompileOK, StructOK
    <3>2. QED
      BY <1>3, <1>9, <1>14, <2>1, <3>1 DEF StructOK
  <2>2. CASE s # c
    BY <1>3, <1>9, <1>11, <1>13, <1>15, <2>2, CacheKept, StructKept
  <2>3. QED
    BY <2>1, <2>2
<1>18. ASSUME NEW q \in DOMAIN stack'
       PROVE  stack'[q].st \in Structs' /\ stack'[q].at <= Len(structs'[stack'[q].st].fields) + 1
  BY <1>4, <1>6, <1>8, <1>10 DEF CompileOK
<1>19. LayoutsOK(structs)'
  BY <1>15, FrameFacts
<1>20. QED
  BY <1>3, <1>8, <1>15, <1>16, <1>17, <1>18, <1>19, <1>10, CacheKept DEF CompileOK

LEMMA NestedKeeps ==
  ASSUME LayoutsOK(structs), CompileOK, StructNested
  PROVE  LayoutsOK(structs)' /\ CompileOK'
<1>1. PICK c : c = Call.st
  OBVIOUS
<1>2. PICK a : a = Call.at
  OBVIOUS
<1>3. PICK x : x = [Call EXCEPT !.at = a + 1]
  OBVIOUS
<1>4. PICK e : e = structs[c].fields[a].type.spec
  OBVIOUS
<1>5. PICK rest : rest = <<x>> \o Tail(stack)
  OBVIOUS
<1>6. /\ stack # <<>> /\ a \in DOMAIN structs[c].fields
      /\ stack' = IF e = 0 THEN rest ELSE <<[st |-> e, at |-> 0]>> \o rest
      /\ structs' = structs /\ cache' = cache /\ out' = out
  BY <1>1, <1>2, <1>3, <1>4, <1>5 DEF StructNested
<1>7. /\ c \in Structs /\ Call \in CallRec /\ Call = stack[1] /\ 1 \in DOMAIN stack
      /\ DOMAIN stack = 1 .. Len(stack) /\ Len(stack) \in Nat \ {0}
  BY <1>1, <1>6, StackFacts
<1>8. a \in Nat \ {0} /\ a <= Len(structs[c].fields) /\ Len(structs[c].fields) \in Nat
  BY <1>6, <1>7, Typing DEF LayoutsOK, Structs
<1>9. x \in CallRec /\ x.st = c /\ x.at = a + 1
  BY <1>1, <1>3, <1>7, <1>8 DEF CallRec
<1>10. /\ rest \in Seq(CallRec) /\ DOMAIN rest = DOMAIN stack /\ rest[1] = x
       /\ \A q \in DOMAIN stack : q # 1 => rest[q] = stack[q]
  BY <1>5, <1>6, <1>9, StackFacts
<1>11. Fit(structs, structs[c].fields[a].type)
  BY <1>6, <1>7 DEF LayoutsOK, Structs
<1>12. e # 0 => e \in Structs /\ e \in Nat
  <2>1. DOMAIN structs = 1 .. Len(structs) /\ Len(structs) \in Nat
    BY <1>6 DEF LayoutsOK
  <2>2. e # 0 => e \in DOMAIN structs
    BY <1>4, <1>11 DEF Fit
  <2>3. QED
    BY <2>1, <2>2 DEF Structs
<1>13. PICK d : d = IF e = 0 THEN 0 ELSE 1
  OBVIOUS
<1>14. /\ stack' \in Seq(CallRec) /\ DOMAIN stack' = 1 .. Len(stack) + d /\ d \in {0, 1}
       /\ \A q \in DOMAIN stack : stack'[q + d] = rest[q]
       /\ d = 1 => stack'[1].st = e /\ stack'[1].at = 0
  <2>1. CASE e = 0
    BY <1>6, <1>7, <1>10, <1>13, <2>1
  <2>2. CASE e # 0
    <3>1. PICK y : y = [st |-> e, at |-> 0]
      OBVIOUS
    <3>2. y \in CallRec /\ y.st = e /\ y.at = 0
      BY <1>12, <2>2, <3>1 DEF CallRec
    <3>3. stack' = <<y>> \o rest /\ Len(rest) = Len(stack)
      BY <1>6, <1>7, <1>10, <2>2, <3>1
    <3>4. <<y>> \in Seq(CallRec) /\ Len(<<y>>) = 1 /\ <<y>>[1] = y
      BY <3>2
    <3>5. <<y>> \o rest \in Seq(CallRec) /\ Len(<<y>> \o rest) = Len(rest) + 1
      BY <1>10, <3>4
    <3>6. \A q \in 1 .. Len(rest) + 1 : (<<y>> \o rest)[q] = IF q = 1 THEN y ELSE rest[q - 1]
      BY <1>10, <3>4
    <3>7. DOMAIN (<<y>> \o rest) = 1 .. Len(rest) + 1
      BY <3>5
    <3>8. ASSUME NEW q \in DOMAIN stack PROVE (<<y>> \o rest)[q + 1] = rest[q]
      <4>0. Len(rest) = Len(stack)
        BY <3>3
      <4>1. q + 1 \in 1 .. Len(rest) + 1 /\ q + 1 # 1 /\ (q + 1) - 1 = q
        BY <1>7, <4>0
      <4>2. QED
        BY <3>6, <4>1
    <3>9. 1 \in 1 .. Len(rest) + 1
      BY <1>7, <3>3
    <3>10. QED
      BY <1>13, <2>2, <3>2, <3>3, <3>5, <3>6, <3>7, <3>8, <3>9
  <2>3. QED
    BY <2>1, <2>2
<1>15. \A q \in DOMAIN stack :
         /\ q + d \in DOMAIN stack' /\ stack'[q + d].st = stack[q].st
         /\ stack'[q + d].at # 0 <=> (q = 1 \/ stack[q].at # 0)
  <2>1. \A q \in DOMAIN stack : q + d \in DOMAIN stack'
    BY <1>7, <1>14
  <2>2. ASSUME NEW q \in DOMAIN stack
        PROVE  /\ stack'[q + d].st = stack[q].st
               /\ stack'[q + d].at # 0 <=> (q = 1 \/ stack[q].at # 0)
    <3>1. stack'[q + d] = IF q = 1 THEN x ELSE stack[q]
      BY <1>10, <1>14
    <3>2. a + 1 # 0
      BY <1>8
    <3>3. QED
      BY <1>1, <1>7, <1>9, <3>1, <3>2
  <2>3. QED
    BY <2>1, <2>2
<1>16. \A r \in DOMAIN stack' : (r = 1 /\ d = 1) \/ \E q \in DOMAIN stack : r = q + d
  <2>1. ASSUME NEW r \in DOMAIN stack', ~(r = 1 /\ d = 1)
        PROVE  r - d \in DOMAIN stack /\ r = (r - d) + d
    BY <1>7, <1>14, <2>1
  <2>2. QED
    BY <2>1
<1>17. stack[1].at # 0
  BY <1>2, <1>7, <1>8
<1>18. \A s : Open(s)' <=> Open(s)
  <2>1. ASSUME NEW s, Open(s)' PROVE Open(s)
    <3>1. PICK r \in DOMAIN stack' : stack'[r].st = s /\ stack'[r].at # 0
      BY <2>1 DEF Open
    <3>2. PICK q \in DOMAIN stack : r = q + d
      BY <1>14, <1>16, <3>1
    <3>3. stack[q].st = s /\ (q = 1 \/ stack[q].at # 0)
      BY <1>15, <3>1, <3>2
    <3>4. stack[q].at # 0
      BY <1>17, <3>3
    <3>5. QED
      BY <3>3, <3>4 DEF Open
  <2>2. ASSUME NEW s, Open(s) PROVE Open(s)'
    BY <2>2, <1>15 DEF Open
  <2>3. QED
    BY <2>1, <2>2
<1>19. \A s : Waits(s) => Waits(s)'
  BY <1>15, <1>17 DEF Waits
<1>20. Structs' = Structs
  BY <1>6 DEF Structs
<1>21. \A s : Settled(s)' <=> Settled(s)
  BY <1>6, <1>18 DEF Settled
<1>22. Frame
  BY <1>6, <1>21 DEF Frame, SameLayout, LayoutsOK, Structs
<1>23. /\ structs[c].ready /\ structs[c].compiled
       /\ ~structs[c].packed =>
            \A i \in DOMAIN structs[c].fields : i < a =>
              LET f == structs[c].fields[i].type.spec IN f # 0 => Settled(f)
  BY <1>1, <1>2, <1>7, <1>17 DEF CompileOK, CallOK
<1>24. ASSUME NEW r \in DOMAIN stack' PROVE CallOK(r)'
  <2>1. CASE r = 1 /\ d = 1
    BY <1>14, <2>1 DEF CallOK
  <2>2. CASE r = 1 + d
    <3>1. stack'[r].st = c /\ stack'[r].at = a + 1 /\ a + 1 >= 2
      BY <1>7, <1>8, <1>9, <1>10, <1>14, <2>2
    <3>2. r # 1 => /\ structs[c].fields[(a + 1) - 1].type.spec = stack'[r - 1].st
                   /\ r = 2
      <4>1. (a + 1) - 1 = a
        BY <1>8
      <4>2. r # 1 => r = 2 /\ d = 1 /\ r - 1 = 1
        BY <1>14, <2>2
      <4>3. QED
        BY <1>4, <1>14, <4>1, <4>2
    <3>3. ASSUME ~structs[c].packed, NEW i \in DOMAIN structs[c].fields,
                 i < a + 1, r # 1 => i # (a + 1) - 1, NEW f, f = structs[c].fields[i].type.spec, f # 0
          PROVE  Settled(f)'
      <4>1. i \in Nat
        BY <1>7, Typing DEF LayoutsOK, Structs
      <4>2. CASE i = a
        <5>1. r = 1
          BY <3>3, <4>2, <1>8
        <5>2. e = 0
          BY <1>13, <2>2, <5>1
        <5>3. QED
          BY <1>4, <3>3, <4>2, <5>2
      <4>3. CASE i # a
        <5>1. i < a
          BY <1>8, <3>3, <4>1, <4>3
        <5>2. QED
          BY <1>21, <1>23, <3>3, <5>1
      <4>4. QED
        BY <4>2, <4>3
    <3>4. ASSUME NEW k \in DOMAIN cache' PROVE (Shape(cache[k]) # Shape(stack[r].st))'
      <4>1. ~SameStruct(cache[k], c)'
        BY <1>1, <1>6, <1>7, <1>17, <1>22, CacheKept
      <4>2. QED
        BY <3>1, <4>1 DEF SameStruct
    <3>5. ~structs[c].packed =>
            \A i \in DOMAIN structs[c].fields : i < a + 1 /\ (r # 1 => i # (a + 1) - 1) =>
              \A f : f = structs[c].fields[i].type.spec /\ f # 0 => Settled(f)'
      BY <3>3
    <3>6. PICK b : b = a + 1
      OBVIOUS
    <3>7. structs'[c].ready /\ structs'[c].compiled
      BY <1>6, <1>23
    <3>8. r # 1 => /\ structs'[c].fields[b - 1].type.spec = stack'[r - 1].st /\ r = 2
      BY <1>6, <3>2, <3>6
    <3>9. ~structs'[c].packed =>
            \A i \in DOMAIN structs'[c].fields : i < b /\ (r # 1 => i # b - 1) =>
              \A f : f = structs'[c].fields[i].type.spec /\ f # 0 => Settled(f)'
      BY <1>6, <3>5, <3>6
    <3>10. stack'[r].st = c /\ stack'[r].at = b /\ b >= 2
      BY <3>1, <3>6
    <3>11. \A k \in DOMAIN cache' : (Shape(cache[k]) # Shape(stack[r].st))'
      BY <3>4
    <3>12. QED
      BY <3>7, <3>8, <3>9, <3>10, <3>11 DEF CallOK
  <2>3. CASE ~(r = 1 /\ d = 1) /\ r # 1 + d
    <3>1. PICK q \in DOMAIN stack : r = q + d
      BY <1>16, <2>3
    <3>2. q # 1 /\ q - 1 \in DOMAIN stack /\ (q - 1) + d = r - 1 /\ r # 1 /\ r \in Nat \ {0}
      BY <1>7, <1>14, <2>3, <3>1
    <3>3. stack'[r] = stack[q] /\ stack'[r - 1].st = stack[q - 1].st
      BY <1>10, <1>14, <1>15, <3>1, <3>2
    <3>4. stack[q].at # 0 => stack'[r - 1].at # 0
      <4>1. SUFFICES ASSUME stack[q].at # 0 PROVE stack'[r - 1].at # 0
        OBVIOUS
      <4>2. q = 2 \/ stack[q - 1].at # 0
        BY <3>2, <4>1 DEF CompileOK, CallOK
      <4>3. q = 2 => q - 1 = 1
        OBVIOUS
      <4>4. QED
        BY <1>15, <3>2, <4>2, <4>3
    <3>5. stack[q].at # 0 => \A k \in DOMAIN cache' : ~SameStruct(cache[k], stack[r].st)'
      BY <1>6, <1>22, <3>3, CacheKept
    <3>6. QED
      BY <1>22, <3>2, <3>3, <3>4, <3>5, CallKept
  <2>4. QED
    BY <2>1, <2>2, <2>3
<1>25. ASSUME NEW s \in Structs PROVE StructOK(s)'
  BY <1>6, <1>19, <1>21, <1>22, CacheKept, StructKept
<1>26. ASSUME NEW r \in DOMAIN stack'
       PROVE  stack'[r].st \in Structs' /\ stack'[r].at <= Len(structs'[stack'[r].st].fields) + 1
  <2>1. CASE r = 1 /\ d = 1
    <3>1. e \in Structs
      BY <1>12, <1>13, <2>1
    <3>2. Len(structs[e].fields) \in Nat
      BY <3>1, Typing DEF LayoutsOK, Structs
    <3>3. QED
      BY <1>6, <1>14, <1>20, <2>1, <3>1, <3>2
  <2>2. CASE ~(r = 1 /\ d = 1)
    <3>1. PICK q \in DOMAIN stack : r = q + d
      BY <1>16, <2>2
    <3>2. stack'[r] = IF q = 1 THEN x ELSE stack[q]
      BY <1>10, <1>14, <3>1
    <3>3. CASE q = 1
      <4>1. stack'[r].st = c /\ stack'[r].at = a + 1
        BY <1>9, <3>2, <3>3
      <4>2. QED
        BY <1>6, <1>7, <1>8, <1>20, <4>1, SMTT(30)
    <3>4. CASE q # 1
      BY <1>6, <1>20, <3>2, <3>4 DEF CompileOK
    <3>5. QED
      BY <3>3, <3>4
  <2>3. QED
    BY <2>1, <2>2
<1>27. LayoutsOK(structs)'
  BY <1>6
<1>28. QED
  BY <1>14, <1>20, <1>6, <1>22, <1>24, <1>25, <1>26, <1>27, CacheKept DEF CompileOK

LEMMA DeclareKeeps ==
  ASSUME LayoutsOK(structs), CompileOK, StructDeclare
  PROVE  LayoutsOK(structs)' /\ CompileOK'
<1>1. PICK c : c = Call.st
  OBVIOUS
<1>2. PICK n : n = Len(cache)
  OBVIOUS
<1>3. PICK d : d = Declaration(c, n)
  OBVIOUS
<1>4. /\ stack # <<>> /\ Call.at = Len(structs[c].fields) + 1 /\ stack' = Tail(stack)
      /\ cache' = Append(cache, c) /\ out' = Append(out, d)
      /\ structs' = [structs EXCEPT ![c].iota = n]
  BY <1>1, <1>2, <1>3 DEF StructDeclare
<1>5. /\ c \in Structs /\ Call = stack[1] /\ 1 \in DOMAIN stack
      /\ DOMAIN stack = 1 .. Len(stack) /\ Len(stack) \in Nat
  BY <1>1, <1>4, StackFacts
<1>6. structs \in Seq(StructRec) /\ Len(structs[c].fields) \in Nat
      /\ DOMAIN structs[c].fields = 1 .. Len(structs[c].fields)
  BY <1>5, Typing DEF LayoutsOK, Structs
<1>7. Call.at # 0
  BY <1>4, <1>6
<1>8. /\ structs[c].ready /\ structs[c].compiled
      /\ ~structs[c].packed =>
           \A i \in DOMAIN structs[c].fields :
             \A e : e = structs[c].fields[i].type.spec /\ e # 0 => Settled(e)
      /\ \A k \in DOMAIN cache : Shape(cache[k]) # Shape(c)
  <2>1. CallOK(1) /\ stack[1].st = c /\ stack[1].at = Len(structs[c].fields) + 1
    BY <1>1, <1>4, <1>5 DEF CompileOK
  <2>2. \A i \in DOMAIN structs[c].fields : i < Len(structs[c].fields) + 1
    BY <1>6
  <2>3. QED
    BY <1>5, <1>7, <2>1, <2>2 DEF CallOK
<1>9. n \in Nat /\ cache \in Seq(Nat) /\ out \in Seq(DeclRec) /\ Len(out) = n /\ d \in DeclRec /\ c \in Nat
  <2>1. n \in Nat /\ cache \in Seq(Nat) /\ out \in Seq(DeclRec) /\ Len(out) = n
    BY <1>2 DEF CompileOK
  <2>2. d \in DeclRec
    BY <1>3, <1>5, <2>1, DeclarationTyped
  <2>3. c \in Nat
    BY <1>5, <1>6 DEF Structs
  <2>4. QED
    BY <2>1, <2>2, <2>3
<1>10. /\ cache' \in Seq(Nat) /\ Len(cache') = n + 1 /\ DOMAIN cache = 1 .. n /\ DOMAIN cache' = 1 .. n + 1
       /\ cache'[n + 1] = c /\ \A k \in DOMAIN cache : cache'[k] = cache[k]
  BY <1>2, <1>4, <1>9
<1>11. /\ out' \in Seq(DeclRec) /\ Len(out') = n + 1
       /\ out'[n + 1] = d /\ \A k \in DOMAIN cache : out'[k] = out[k]
  <2> HIDE DEF DeclRec
  <2>1. QED
    BY <1>4, <1>9, <1>10
<1>12. /\ structs' \in Seq(StructRec) /\ DOMAIN structs' = DOMAIN structs
       /\ \A s \in Structs : s # c => structs'[s] = structs[s]
       /\ structs'[c].compiled /\ structs'[c].iota = n
       /\ SameLayout(structs'[c], structs[c])
  <2> DEFINE st == [structs[c] EXCEPT !.iota = n]
  <2>1. structs[c] \in StructRec
    BY <1>5, <1>6 DEF Structs
  <2>2. st \in StructRec /\ st.compiled /\ st.iota = n /\ SameLayout(st, structs[c])
    BY <1>8, <1>9, <2>1 DEF StructRec, SameLayout
  <2> HIDE DEF st
  <2>3. structs' = [structs EXCEPT ![c] = st]
    BY <1>4 DEF st
  <2>4. QED
    BY <1>5, <1>6, <2>2, <2>3 DEF Structs
<1>13. Structs' = Structs /\ \A s \in Structs : structs'[s].fields = structs[s].fields
  BY <1>12 DEF Structs, SameLayout
<1>14. /\ \A s : Open(s)' => Open(s)
       /\ \A s : s # c => (Open(s) => Open(s)')
       /\ \A s : Waits(s) => Waits(s)'
       /\ ~Open(c)'
       /\ stack' \in Seq(CallRec)
       /\ \A q \in DOMAIN stack' :
            stack'[q].st \in Structs' /\ stack'[q].at <= Len(structs'[stack'[q].st].fields) + 1
  BY <1>1, <1>4, <1>7, <1>13, Popped
<1>15. Settled(c)' /\ ~Settled(c)
  <2>1. Open(c)
    BY <1>1, <1>5, <1>7 DEF Open
  <2>2. QED
    BY <1>8, <1>12, <1>14, <2>1 DEF Settled, SameLayout
<1>16. \A s \in Structs : s # c => (Settled(s)' <=> Settled(s))
  BY <1>12, <1>14 DEF Settled
<1>17. Frame
  BY <1>12, <1>15, <1>16 DEF Frame, SameLayout, Structs
<1>18. \A s \in Structs : Shape(s)' = Shape(s)
  BY <1>17, FrameFacts
<1>19. \A k \in DOMAIN cache : cache[k] \in Structs
  BY DEF CompileOK, DeclOK
<1>20. \A q \in DOMAIN stack' : CallOK(q)'
  <2>1. ASSUME NEW q \in DOMAIN stack, q # 1, stack[q].at # 0,
               NEW k \in DOMAIN cache', NEW s, s = stack[q].st
        PROVE  ~SameStruct(cache[k], s)'
    <3>1. s \in Structs
      BY <2>1 DEF CompileOK
    <3>2. CASE k \in DOMAIN cache
      <4>1. Shape(cache[k]) # Shape(s)
        BY <2>1, <3>2 DEF CompileOK, CallOK
      <4>2. QED
        BY <1>10, <1>18, <1>19, <3>1, <3>2, <4>1 DEF SameStruct
    <3>3. CASE k = n + 1
      <4>1. Shape(c) # Shape(s)
        BY <1>1, <1>5, <2>1, NoRepeat
      <4>2. QED
        BY <1>5, <1>10, <1>18, <3>1, <3>3, <4>1 DEF SameStruct
    <3>4. QED
      BY <1>9, <1>10, <3>2, <3>3
  <2>2. QED
    BY <1>1, <1>4, <1>15, <1>17, <2>1, CallsLeft
<1>21. ASSUME NEW k \in DOMAIN cache, NEW j \in DOMAIN cache', (Shape(cache[j]) = Shape(cache[k]))'
       PROVE  j = k
  <2>1. CASE j \in DOMAIN cache
    <3>1. Shape(cache[j]) = Shape(cache[k])
      BY <1>10, <1>18, <1>19, <1>21, <2>1
    <3>2. QED
      BY <2>1, <3>1 DEF CompileOK, DeclOK
  <2>2. CASE j = n + 1
    <3>1. Shape(c) = Shape(cache[k])
      BY <1>5, <1>10, <1>18, <1>19, <1>21, <2>2
    <3>2. QED
      BY <1>8, <3>1
  <2>3. QED
    BY <1>9, <1>10, <2>1, <2>2
<1>22. ASSUME NEW i \in DOMAIN structs[c].fields, ~structs[c].packed,
              NEW e, e = structs[c].fields[i].type.spec, e # 0
       PROVE  Settled(e)' /\ structs'[e].iota = structs[e].iota /\ structs[e].iota < n
  <2>1. Settled(e)
    BY <1>8, <1>22
  <2>2. Fit(structs, structs[c].fields[i].type)
    BY <1>5 DEF LayoutsOK, Structs
  <2>3. e \in Structs
    BY <1>22, <2>2 DEF Fit, Structs
  <2>4. structs[e].iota + 1 \in DOMAIN cache /\ structs[e].iota \in Nat
    BY <2>1, <2>3, Typing DEF CompileOK, StructOK, LayoutsOK, Structs
  <2>5. QED
    BY <1>9, <1>10, <1>17, <2>1, <2>3, <2>4, SMTT(30) DEF Frame
<1>23. ASSUME NEW k \in DOMAIN cache' PROVE DeclOK(k)'
  <2>1. CASE k \in DOMAIN cache
    BY <1>10, <1>11, <1>17, <1>21, <2>1, DeclKept
  <2>2. CASE k = n + 1
    <3>1. d = Declaration(c, n)'
      BY <1>3, <1>12, <1>22, DeclarationSame
    <3>2. k - 1 = n
      BY <1>9, <2>2
    <3>3. ~structs'[c].packed =>
            \A i \in DOMAIN structs'[c].fields :
              \A e : e = structs'[c].fields[i].type.spec /\ e # 0 => Settled(e)' /\ structs'[e].iota < n
      <4>1. structs'[c].fields = structs[c].fields /\ structs'[c].packed = structs[c].packed
        BY <1>12 DEF SameLayout
      <4>2. QED
        BY <1>22, <4>1
    <3>4. ASSUME NEW j \in DOMAIN cache', (Shape(cache[j]) = Shape(cache[k]))'
          PROVE  j = k
      <4>1. CASE j \in DOMAIN cache
        <5>1. Shape(cache[j]) = Shape(c)
          BY <1>5, <1>10, <1>18, <1>19, <2>2, <3>4, <4>1
        <5>2. QED
          BY <1>8, <4>1, <5>1
      <4>2. QED
        BY <1>9, <1>10, <2>2, <4>1
    <3>5. cache'[k] = c /\ out'[k] = d
      BY <1>10, <1>11, <2>2
    <3>6. QED
      BY <1>5, <1>12, <1>13, <1>15, <3>1, <3>2, <3>3, <3>4, <3>5 DEF DeclOK
  <2>3. QED
    BY <1>9, <1>10, <2>1, <2>2
<1>24. ASSUME NEW s \in Structs PROVE StructOK(s)'
  <2>1. CASE s = c
    <3>1. structs'[c].iota <= Len(cache') /\ structs'[c].iota + 1 = n + 1 /\ n + 1 \in DOMAIN cache'
      BY <1>9, <1>10, <1>12
    <3>2. (Shape(cache[structs[c].iota + 1]) = Shape(c))'
      BY <1>10, <3>1
    <3>3. QED
      BY <1>12, <2>1, <3>1, <3>2 DEF StructOK
  <2>2. CASE s # c
    <3>1. Len(cache) <= Len(cache')
      BY <1>2, <1>9, <1>10
    <3>2. QED
      BY <1>10, <1>12, <1>14, <1>16, <1>17, <2>2, <3>1, StructKept
  <2>3. QED
    BY <2>1, <2>2
<1>25. LayoutsOK(structs)'
  BY <1>17, FrameFacts
<1>26. QED
  BY <1>10, <1>11, <1>13, <1>14, <1>20, <1>23, <1>24, <1>25 DEF CompileOK

-----------------------------------------------------------------------------
(* The host builds its types.                                              *)
LEMMA HeldFit ==
  ASSUME StructAssumption, LayoutsOK(structs), held \subseteq Structs,
         NEW t \in TypesHeld, LayoutReady(structs, t)
  PROVE  t \in TypeRec /\ Fit(structs, t)
<1>1. DOMAIN structs \subseteq Nat \ {0}
  BY DEF LayoutsOK
<1>2. CASE \E sz \in Sizes : t = Basic(sz)
  BY <1>2 DEF StructAssumption, Basic, TypeRec, Pow, Fit
<1>3. CASE \E s \in held : t = StructType(s)
  <2>1. PICK s \in held : t = StructType(s)
    BY <1>3
  <2>2. s \in DOMAIN structs /\ s \in Nat \ {0}
    BY <1>1 DEF Structs
  <2>3. t \in TypeRec /\ t.spec = s /\ t.size = 0
    BY <2>1, <2>2 DEF StructType, TypeRec
  <2>4. QED
    BY <2>2, <2>3 DEF LayoutReady, Fit
<1>4. QED
  BY <1>2, <1>3 DEF TypesHeld

LEMMA NewKeeps ==
  ASSUME IInv, NEW p \in BOOLEAN, StructNew(p)
  PROVE  IInv'
<1> DEFINE st == Fresh(p)
<1>1. LayoutsOK(structs) /\ held \subseteq Structs /\ BuildOK /\ tpc = "build"
  BY DEF IInv, StructNew
<1>2. st \in StructRec /\ ~st.ready /\ ~st.compiled /\ st.iota = 0 /\ DOMAIN st.fields = {}
  <2>1. <<>> \in Seq(FieldRec) /\ DOMAIN <<>> = {}
    OBVIOUS
  <2>2. QED
    BY <2>1 DEF Fresh, StructRec
<1> HIDE DEF st
<1>3. structs' = Append(structs, st) /\ tpc' = tpc /\ held' = held /\ stack' = stack /\ cache' = cache /\ out' = out
  BY DEF StructNew, st
<1>4. LayoutsOK(structs')
  BY <1>1, <1>2, <1>3, AppendKeeps
<1>5. /\ DOMAIN structs' = DOMAIN structs \cup {Len(structs) + 1}
      /\ structs'[Len(structs) + 1] = st /\ \A s \in DOMAIN structs : structs'[s] = structs[s]
  <2>1. structs \in Seq(StructRec)
    BY <1>1 DEF LayoutsOK
  <2> HIDE DEF StructRec
  <2>2. QED
    BY <1>2, <1>3, <2>1
<1>6. BuildOK' /\ held' \subseteq Structs'
  BY <1>1, <1>2, <1>3, <1>5 DEF BuildOK, Structs
<1>7. QED
  BY <1>1, <1>3, <1>4, <1>6 DEF IInv

LEMMA AddFieldKeeps ==
  ASSUME StructAssumption, IInv, NEW s \in Structs, NEW t \in TypesHeld, StructAddField(s, t)
  PROVE  IInv'
<1>1. LayoutsOK(structs) /\ held \subseteq Structs /\ BuildOK /\ tpc = "build"
  BY DEF IInv, StructAddField
<1>2. /\ ~Embedded(s) /\ t.spec # s /\ LayoutReady(structs, t)
      /\ structs' = [structs EXCEPT ![s].ready = FALSE, ![s].fields = Append(@, Field(t, 1))]
      /\ tpc' = tpc /\ held' = held /\ stack' = stack /\ cache' = cache /\ out' = out
  BY DEF StructAddField
<1>3. t \in TypeRec /\ Fit(structs, t)
  BY <1>1, <1>2, HeldFit
<1>4. \A r \in DOMAIN structs : ~Embeds(structs, r, s)
  BY <1>2 DEF Embedded, Embeds, Structs
<1>5. LayoutsOK(structs')
  BY <1>1, <1>2, <1>3, <1>4, AddKeeps DEF Structs
<1>6. /\ DOMAIN structs' = DOMAIN structs
      /\ \A r \in DOMAIN structs : /\ structs'[r].compiled = structs[r].compiled
                                   /\ structs'[r].iota = structs[r].iota
  <2>1. PICK st : st = [structs[s] EXCEPT !.ready = FALSE, !.fields = Append(@, Field(t, 1))]
    OBVIOUS
  <2>2. structs \in Seq(StructRec)
    BY <1>1 DEF LayoutsOK
  <2>3. structs' = [structs EXCEPT ![s] = st]
    BY <1>2, <2>1, <2>2, Zenon
  <2>4. structs[s] \in StructRec
    BY <2>2 DEF Structs
  <2>5. st.compiled = structs[s].compiled /\ st.iota = structs[s].iota
    BY <2>1, <2>4 DEF StructRec
  <2>6. QED
    BY <2>2, <2>3, <2>5 DEF Structs
<1>7. BuildOK' /\ held' \subseteq Structs'
  BY <1>1, <1>2, <1>6 DEF BuildOK, Structs
<1>8. QED
  BY <1>1, <1>2, <1>5, <1>7 DEF IInv

LEMMA RelaidBuilds ==
  ASSUME NEW ss, LayoutsOK(ss), NEW s \in DOMAIN ss
  PROVE  /\ DOMAIN [ss EXCEPT ![s] = Layout(ss, s)] = DOMAIN ss
         /\ \A r \in DOMAIN ss :
              /\ [ss EXCEPT ![s] = Layout(ss, s)][r].compiled = ss[r].compiled
              /\ [ss EXCEPT ![s] = Layout(ss, s)][r].iota = ss[r].iota
<1>1. ss \in Seq(StructRec)
  BY DEF LayoutsOK
<1>2. PICK st : st = Layout(ss, s)
  OBVIOUS
<1>3. st.compiled = ss[s].compiled /\ st.iota = ss[s].iota
  BY <1>2, LayoutFacts
<1>4. /\ DOMAIN [ss EXCEPT ![s] = st] = DOMAIN ss
      /\ \A r \in DOMAIN ss : [ss EXCEPT ![s] = st][r] = IF r = s THEN st ELSE ss[r]
  BY <1>1
<1>5. QED
  BY <1>2, <1>3, <1>4

LEMMA TypeKeeps ==
  ASSUME IInv, NEW s \in Structs, TypeStruct(s)
  PROVE  IInv'
<1>1. LayoutsOK(structs) /\ held \subseteq Structs /\ BuildOK /\ tpc = "build"
  BY DEF IInv, TypeStruct
<1>2. held' = held \cup {s} /\ stack' = stack /\ cache' = cache /\ out' = out
  BY DEF TypeStruct
<1>3. CASE structs[s].ready
  <2>1. structs' = structs /\ tpc' = tpc
    BY <1>3 DEF TypeStruct
  <2>2. QED
    BY <1>1, <1>2, <2>1 DEF IInv, BuildOK, Structs
<1>4. CASE ~structs[s].ready
  <2>1. \A i \in DOMAIN structs[s].fields : LayoutReady(structs, structs[s].fields[i].type)
    BY <1>1 DEF LayoutsOK, Structs, Fit, LayoutReady
  <2>2. structs' = [structs EXCEPT ![s] = Layout(structs, s)] /\ tpc' = tpc
    BY <1>4, <2>1 DEF TypeStruct
  <2>3. LayoutsOK(structs')
    BY <1>1, <1>4, <2>2, LayoutKeeps DEF Structs
  <2>4. /\ DOMAIN structs' = DOMAIN structs
        /\ \A r \in DOMAIN structs : /\ structs'[r].compiled = structs[r].compiled
                                     /\ structs'[r].iota = structs[r].iota
    BY <1>1, <2>2, RelaidBuilds DEF Structs
  <2>5. BuildOK' /\ held' \subseteq Structs'
    BY <1>1, <1>2, <2>4 DEF BuildOK, Structs
  <2>6. QED
    BY <1>1, <2>2, <2>3, <2>5 DEF IInv
<1>5. QED
  BY <1>3, <1>4

LEMMA ArrayKeeps ==
  ASSUME StructAssumption, IInv, NEW t \in TypesHeld, NEW n \in Counts, TypeArray(t, n)
  PROVE  IInv'
<1>1. LayoutsOK(structs) /\ held \subseteq Structs /\ BuildOK /\ tpc = "build"
  BY DEF IInv, TypeArray
<1>2. PICK st : st = [Fresh(FALSE) EXCEPT !.fields = <<Field(t, n)>>]
  OBVIOUS
<1>3. PICK ss : ss = Append(structs, st)
  OBVIOUS
<1>4. PICK s : s = Len(structs) + 1
  OBVIOUS
<1>5. /\ LayoutReady(structs, t)
      /\ structs' = [ss EXCEPT ![s] = Layout(ss, s)]
      /\ held' = held \cup {s}
      /\ tpc' = tpc /\ stack' = stack /\ cache' = cache /\ out' = out
  BY <1>2, <1>3, <1>4, Zenon DEF TypeArray
<1>6. t \in TypeRec /\ Fit(structs, t)
  BY <1>1, <1>5, HeldFit
<1>7. Field(t, n) \in FieldRec /\ Field(t, n).type = t
  BY <1>6 DEF Field, FieldRec, StructAssumption
<1>8. /\ st \in StructRec /\ ~st.ready /\ ~st.compiled /\ st.iota = 0
      /\ \A i \in DOMAIN st.fields : st.fields[i].type = t
  <2>1. PICK f \in FieldRec : f = Field(t, n) /\ f.type = t
    BY <1>7
  <2>2. <<f>> \in Seq(FieldRec) /\ DOMAIN <<f>> = {1} /\ <<f>>[1] = f
    OBVIOUS
  <2>3. st = [fields |-> <<f>>, packed |-> FALSE, ready |-> FALSE, size |-> 0, align |-> 0,
              compiled |-> FALSE, iota |-> 0]
    BY <1>2, <2>1 DEF Fresh
  <2>4. st.fields = <<f>> /\ ~st.ready /\ ~st.compiled /\ st.iota = 0
    BY <2>3
  <2>5. st \in StructRec
    BY <2>2, <2>3 DEF StructRec
  <2>6. QED
    BY <2>1, <2>2, <2>4, <2>5
<1>9. LayoutsOK(ss)
  BY <1>1, <1>3, <1>6, <1>8, AppendKeeps
<1>10. /\ DOMAIN ss = DOMAIN structs \cup {s}
       /\ ss[s] = st /\ \A r \in DOMAIN structs : ss[r] = structs[r]
  <2>1. structs \in Seq(StructRec)
    BY <1>1 DEF LayoutsOK
  <2> HIDE DEF StructRec
  <2>2. QED
    BY <1>3, <1>4, <1>8, <2>1
<1>11. LayoutsOK(structs')
  BY <1>5, <1>8, <1>9, <1>10, LayoutKeeps
<1>12. /\ DOMAIN structs' = DOMAIN ss
       /\ \A r \in DOMAIN ss : structs'[r].compiled = ss[r].compiled /\ structs'[r].iota = ss[r].iota
  BY <1>5, <1>9, <1>10, RelaidBuilds
<1>13. BuildOK' /\ held' \subseteq Structs'
  BY <1>1, <1>5, <1>8, <1>10, <1>12 DEF BuildOK, Structs
<1>14. QED
  BY <1>1, <1>5, <1>11, <1>13 DEF IInv

LEMMA CompileKeeps ==
  ASSUME IInv, CompileStructs
  PROVE  IInv'
<1>1. LayoutsOK(structs) /\ held \subseteq Structs /\ BuildOK
  BY DEF IInv, CompileStructs
<1>2. /\ tpc' = "compile" /\ stack' = [s \in Structs |-> [st |-> s, at |-> 0]]
      /\ structs' = structs /\ held' = held /\ cache' = cache /\ out' = out
  BY DEF CompileStructs
<1>3. Structs = 1 .. Len(structs) /\ Len(structs) \in Nat
  BY <1>1 DEF LayoutsOK, Structs
<1>4. /\ stack' \in Seq(CallRec) /\ DOMAIN stack' = Structs
      /\ \A q \in Structs : stack'[q].st = q /\ stack'[q].at = 0
  <2>1. \A q \in Structs : [st |-> q, at |-> 0] \in CallRec
    BY <1>3 DEF CallRec
  <2>2. stack' \in [1 .. Len(structs) -> CallRec]
    BY <1>2, <1>3, <2>1
  <2>3. stack' \in Seq(CallRec)
    <3> HIDE DEF CallRec
    <3>1. QED
      BY <1>3, <2>2
  <2>4. QED
    BY <1>2, <2>3
<1>5. cache' = <<>> /\ out' = <<>> /\ DOMAIN cache' = {}
  BY <1>1, <1>2 DEF BuildOK
<1>6. \A q \in DOMAIN stack' : CallOK(q)'
  BY <1>4 DEF CallOK
<1>7. ASSUME NEW s \in Structs PROVE StructOK(s)'
  <2>1. structs'[s].iota = 0 /\ ~structs'[s].compiled
    BY <1>1, <1>2 DEF BuildOK
  <2>2. Len(cache') = 0
    BY <1>5
  <2>3. Waits(s)'
    BY <1>4 DEF Waits
  <2>4. ~Settled(s)'
    BY <2>1 DEF Settled
  <2>5. QED
    BY <2>1, <2>2, <2>3, <2>4 DEF StructOK
<1>8. \A q \in DOMAIN stack' :
        stack'[q].st \in Structs' /\ stack'[q].at <= Len(structs'[stack'[q].st].fields) + 1
  <2>1. SUFFICES ASSUME NEW q \in Structs
                 PROVE  stack'[q].st \in Structs' /\ stack'[q].at <= Len(structs'[stack'[q].st].fields) + 1
    BY <1>4
  <2>2. Len(structs[q].fields) \in Nat
    BY <1>1, Typing DEF LayoutsOK, Structs
  <2>3. stack'[q].st = q /\ stack'[q].at = 0 /\ structs'[q] = structs[q] /\ Structs' = Structs
    BY <1>2, <1>4 DEF Structs
  <2>4. QED
    BY <2>2, <2>3
<1>9. cache' \in Seq(Nat) /\ out' \in Seq(DeclRec) /\ Len(out') = Len(cache')
  <2> HIDE DEF DeclRec
  <2>1. QED
    BY <1>5
<1>10. Structs' = Structs
  BY <1>2 DEF Structs
<1>11. CompileOK'
  BY <1>4, <1>5, <1>6, <1>7, <1>8, <1>9, <1>10 DEF CompileOK
<1>12. QED
  BY <1>1, <1>2, <1>10, <1>11 DEF IInv

LEMMA StutterKeeps ==
  ASSUME CompileOK, UNCHANGED <<structs, cache, out, stack>>
  PROVE  CompileOK'
<1>1. \A s : Settled(s)' = Settled(s) /\ Waits(s)' = Waits(s) /\ Shape(s)' = Shape(s)
  BY DEF Settled, Waits, Open, Shape
<1>2. \A s, k : Declaration(s, k)' = Declaration(s, k)
  BY DEF Declaration
<1>3. \A q : CallOK(q) => CallOK(q)'
  BY <1>1 DEF CallOK
<1>4. \A k : DeclOK(k) => DeclOK(k)'
  BY <1>1, <1>2 DEF DeclOK, Structs
<1>5. \A s : StructOK(s) => StructOK(s)'
  BY <1>1 DEF StructOK
<1>6. QED
  BY <1>3, <1>4, <1>5 DEF CompileOK, Structs

(* The inductive invariant, of every step.                                 *)
THEOREM Invariance == TypesSpec => []IInv
<1> USE StructAssumption
<1>1. TypesInit => IInv
  <2>1. SUFFICES ASSUME TypesInit PROVE IInv
    OBVIOUS
  <2>2. structs = <<>> /\ DOMAIN structs = {} /\ held = {} /\ tpc = "build"
        /\ stack = <<>> /\ cache = <<>> /\ out = <<>>
    BY <2>1 DEF TypesInit
  <2>3. structs \in Seq(StructRec)
    <3> HIDE DEF StructRec
    <3>1. QED
      BY <2>2
  <2>4. LayoutsOK(structs)
    BY <2>2, <2>3 DEF LayoutsOK, Acyclic
  <2>5. QED
    BY <2>2, <2>4 DEF IInv, BuildOK, Structs
<1>2. IInv /\ [TypesNext]_typeVars => IInv'
  <2>1. SUFFICES ASSUME IInv, [TypesNext]_typeVars PROVE IInv'
    OBVIOUS
  <2>2. ASSUME tpc = "compile", LayoutsOK(structs)', CompileOK', tpc' = tpc, held' = held, Structs' = Structs
        PROVE  IInv'
    BY <2>1, <2>2 DEF IInv
  <2>3. tpc = "compile" => LayoutsOK(structs) /\ CompileOK
    BY <2>1 DEF IInv
  <2>5. CASE \E p \in BOOLEAN : StructNew(p)
    BY <2>1, <2>5, NewKeeps
  <2>6. CASE \E s \in Structs : \E t \in TypesHeld : StructAddField(s, t)
    BY <2>1, <2>6, AddFieldKeeps
  <2>7. CASE \E s \in Structs : TypeStruct(s)
    BY <2>1, <2>7, TypeKeeps
  <2>8. CASE \E t \in TypesHeld, n \in Counts : TypeArray(t, n)
    BY <2>1, <2>8, ArrayKeeps
  <2>9. CASE CompileStructs
    BY <2>1, <2>9, CompileKeeps
  <2>10. CASE StructSkip
    <3>1. tpc = "compile" /\ tpc' = tpc /\ held' = held /\ Structs' = Structs
      BY <2>10 DEF StructSkip, Structs
    <3>2. QED
      BY <2>2, <2>3, <2>10, <3>1, SkipKeeps
  <2>11. CASE StructKnown
    <3>1. tpc = "compile" /\ tpc' = tpc /\ held' = held /\ Structs' = Structs
      BY <2>1, <2>11 DEF StructKnown, Structs, IInv, LayoutsOK
    <3>2. QED
      BY <2>2, <2>3, <2>11, <3>1, KnownKeeps
  <2>12. CASE StructEnter
    <3>1. tpc = "compile" /\ tpc' = tpc /\ held' = held /\ Structs' = Structs
      BY <2>1, <2>12 DEF StructEnter, Structs, IInv, LayoutsOK
    <3>2. QED
      BY <2>2, <2>3, <2>12, <3>1, EnterKeeps
  <2>13. CASE StructNested
    <3>1. tpc = "compile" /\ tpc' = tpc /\ held' = held /\ Structs' = Structs
      BY <2>13 DEF StructNested, Structs
    <3>2. QED
      BY <2>2, <2>3, <2>13, <3>1, NestedKeeps
  <2>14. CASE StructDeclare
    <3>1. tpc = "compile" /\ tpc' = tpc /\ held' = held /\ Structs' = Structs
      BY <2>1, <2>14 DEF StructDeclare, Structs, IInv, LayoutsOK
    <3>2. QED
      BY <2>2, <2>3, <2>14, <3>1, DeclareKeeps
  <2>15. CASE StructsCompiled
    <3>1. /\ tpc = "compile" /\ stack = <<>> /\ tpc' = "done"
          /\ UNCHANGED <<structs, held, cache, out, stack>>
      BY <2>15 DEF StructsCompiled
    <3>2. LayoutsOK(structs) /\ CompileOK /\ held \subseteq Structs
      BY <2>1, <3>1 DEF IInv
    <3>3. CompileOK'
      BY <3>1, <3>2, StutterKeeps
    <3>4. QED
      BY <3>1, <3>2, <3>3 DEF IInv, Structs
  <2>16. CASE UNCHANGED typeVars
    <3>1. UNCHANGED <<tpc, structs, held, cache, out, stack>>
      BY <2>16 DEF typeVars
    <3>2. QED
      BY <2>1, <3>1, StutterKeeps DEF IInv, BuildOK, Structs
  <2>17. QED
    BY <2>1, <2>5, <2>6, <2>7, <2>8, <2>9, <2>10, <2>11, <2>12, <2>13, <2>14, <2>15, <2>16 DEF TypesNext
<1>3. QED
  BY <1>1, <1>2, PTL DEF TypesSpec

-----------------------------------------------------------------------------
(* The layouts the host is told of keep the fields of a struct apart,      *)
(* align them and are no larger than they must be, after any number of     *)
(* fields and of types taken in between (qbe_type_struct, qbe_type_array). *)
THEOREM LayoutsAreSound == TypesSpec => []LayoutSound
<1>1. ASSUME IInv PROVE LayoutSound
  <2>1. SUFFICES ASSUME NEW s \in Structs, structs[s].ready
                 PROVE  LET st == structs[s]
                            al(i) == IF st.packed THEN 1 ELSE Info(structs, st.fields[i].type).align
                            behind(i) == IF i = 0 THEN 0 ELSE st.fields[i].offset + Extent(structs, st.fields[i])
                        IN /\ st.size % st.align = 0
                           /\ \A i \in DOMAIN st.fields :
                                /\ st.fields[i].offset % al(i) = 0 /\ st.align % al(i) = 0
                                /\ behind(i - 1) <= st.fields[i].offset
                                /\ st.fields[i].offset < behind(i - 1) + al(i)
                           /\ behind(Len(st.fields)) <= st.size
                           /\ st.size < behind(Len(st.fields)) + st.align
    BY Zenon DEF LayoutSound
  <2> DEFINE st == structs[s]
             n == Len(st.fields)
             al(i) == IF st.packed THEN 1 ELSE Info(structs, st.fields[i].type).align
             behind(i) == IF i = 0 THEN 0 ELSE st.fields[i].offset + Extent(structs, st.fields[i])
  <2>2. LayoutsOK(structs)
    BY <1>1 DEF IInv
  <2>3. st.align \in Pow /\ Laid(structs, st)
    BY <2>1, <2>2 DEF LayoutsOK, Structs
  <2>4. n \in Nat /\ DOMAIN st.fields = 1 .. n /\ st.packed \in BOOLEAN
    BY <2>1, <2>2, Typing DEF LayoutsOK, Structs
  <2>5. ASSUME NEW i \in 1 .. n
        PROVE  /\ Info(structs, st.fields[i].type).align \in Pow
               /\ st.fields[i].offset \in Nat /\ Extent(structs, st.fields[i]) \in Nat
    <3>1. Fit(structs, st.fields[i].type) /\ st.fields[i].type \in TypeRec
          /\ st.fields[i].offset \in Nat /\ st.fields[i].repeat \in Nat
      BY <2>1, <2>2, <2>4, Typing DEF LayoutsOK, Structs
    <3>2. Info(structs, st.fields[i].type).align \in Pow /\ Info(structs, st.fields[i].type).size \in Nat
      BY <2>2, <3>1, InfoFacts
    <3>3. QED
      BY <3>1, <3>2 DEF Extent
  <2>6. \A i \in 0 .. n : behind(i) \in Nat /\ Behind(structs, st, i) = behind(i)
    <3>1. \A i \in 0 .. n : i = 0 \/ i \in 1 .. n
      BY <2>4
    <3> HIDE DEF n, st
    <3>2. QED
      BY <2>5, <3>1 DEF Behind
  <2>7. \A i \in 1 .. n : al(i) \in Pow
    BY <2>5 DEF Pow
  <2>8. \A i \in 1 .. n : i \in 0 .. n /\ i - 1 \in 0 .. n
    <3>1. n \in Nat
      BY <2>4
    <3> HIDE DEF n
    <3>2. QED
      BY <3>1
  <2>9. n \in 0 .. n
    <3>1. n \in Nat
      BY <2>4
    <3> HIDE DEF n
    <3>2. QED
      BY <3>1
  <2>10. \A i \in 1 .. n :
          st.fields[i].offset = IF st.packed THEN behind(i - 1) ELSE RoundUp(behind(i - 1), al(i))
    <3>1. SUFFICES ASSUME NEW i \in 1 .. n
                   PROVE  st.fields[i].offset = IF st.packed THEN behind(i - 1) ELSE RoundUp(behind(i - 1), al(i))
      OBVIOUS
    <3>2. Placed(structs, st, i)
      BY <2>3, <2>4 DEF Laid
    <3>3. Behind(structs, st, i - 1) = behind(i - 1)
      BY <2>6, <2>8
    <3>4. QED
      BY <3>2, <3>3 DEF Placed
  <2>11. st.size = IF st.packed THEN behind(n) ELSE RoundUp(behind(n), st.align)
    BY <2>3, <2>6, <2>9 DEF Laid
  <2>12. st.packed => st.align = 1
    BY <2>3 DEF Laid
  <2>13. ASSUME NEW i \in 1 .. n PROVE al(i) <= st.align
    <3>1. CASE st.packed
      BY <2>12, <3>1
    <3>2. CASE ~st.packed
      <4>1. Aligns(structs, st) \subseteq Pow /\ Aligns(structs, st) # {}
        BY <2>4, <2>5 DEF Aligns, Pow
      <4>2. al(i) \in Aligns(structs, st)
        BY <2>4, <3>2 DEF Aligns
      <4>3. st.align = Max(Aligns(structs, st))
        BY <2>3, <3>2 DEF Laid
      <4>4. QED
        BY <4>1, <4>2, <4>3, MaxFacts
    <3>3. QED
      BY <3>1, <3>2
  <2> HIDE DEF al, behind, n, st
  <2>14. ASSUME NEW i \in 1 .. n
         PROVE  /\ st.fields[i].offset % al(i) = 0 /\ st.align % al(i) = 0
                /\ behind(i - 1) <= st.fields[i].offset
                /\ st.fields[i].offset < behind(i - 1) + al(i)
    <3>1. st.align % al(i) = 0
      BY <2>3, <2>7, <2>13, Divides
    <3>2. behind(i - 1) \in Nat
      BY <2>6, <2>8
    <3>3. CASE st.packed
      <4>1. al(i) = 1
        BY <3>3 DEF al
      <4>2. st.fields[i].offset = behind(i - 1)
        BY <2>10, <3>3
      <4>3. QED
        BY <3>1, <3>2, <4>1, <4>2
    <3>4. CASE ~st.packed
      <4>1. st.fields[i].offset = RoundUp(behind(i - 1), al(i))
        BY <2>10, <3>4
      <4>2. QED
        BY <2>7, <3>1, <3>2, <4>1, RoundUpFacts
    <3>5. QED
      BY <3>3, <3>4
  <2>15. st.size % st.align = 0 /\ behind(n) <= st.size /\ st.size < behind(n) + st.align
    <3>1. behind(n) \in Nat
      BY <2>6, <2>9
    <3>2. CASE st.packed
      BY <2>11, <2>12, <3>1, <3>2
    <3>3. CASE ~st.packed
      BY <2>3, <2>11, <3>1, <3>3, RoundUpFacts
    <3>4. QED
      BY <3>2, <3>3
  <2>16. QED
    BY <2>4, <2>14, <2>15 DEF st, n, al, behind
<1>2. QED
  BY <1>1, Invariance, PTL

(* No assertion of qbe_type_info or qbe_compile fails, and the cache of    *)
(* declarations never holds a struct twice.                                *)
THEOREM TypesCorrect == TypesSpec => []TypesOK
<1>1. ASSUME IInv PROVE TypesOK
  <2>1. /\ LayoutsOK(structs) /\ held \subseteq Structs
        /\ tpc \in {"build", "compile", "done"}
        /\ IF tpc = "build" THEN BuildOK ELSE CompileOK
    BY <1>1 DEF IInv
  <2>2. \A s \in Structs : structs[s].iota \in Nat /\ structs[s].size \in Nat
    BY <2>1, Typing DEF LayoutsOK, Structs
  <2>3. CASE tpc = "build"
    BY <2>1, <2>2, <2>3 DEF BuildOK, TypesOK
  <2>4. CASE tpc # "build"
    <3>1. /\ Len(out) = Len(cache) /\ Len(cache) \in Nat
          /\ \A s \in Structs : structs[s].iota <= Len(cache)
          /\ \A j, k \in DOMAIN cache : cache[j] = cache[k] => j = k
      BY <2>1, <2>4 DEF CompileOK, StructOK, DeclOK
    <3>2. QED
      BY <2>1, <2>2, <3>1 DEF TypesOK
  <2>5. QED
    BY <2>3, <2>4
<1>2. QED
  BY <1>1, Invariance, PTL

(* Once all is compiled, every struct with a type is settled.              *)
LEMMA DoneFacts ==
  ASSUME IInv, tpc = "done"
  PROVE  /\ LayoutsOK(structs) /\ CompileOK
         /\ \A s \in Structs : structs[s].ready =>
              /\ structs[s].iota + 1 \in DOMAIN cache
              /\ cache[structs[s].iota + 1] \in Structs
              /\ structs[cache[structs[s].iota + 1]].ready
              /\ Shape(cache[structs[s].iota + 1]) = Shape(s)
<1>1. LayoutsOK(structs) /\ CompileOK /\ stack = <<>>
  BY DEF IInv
<1>2. ASSUME NEW s \in Structs, structs[s].ready
      PROVE  /\ structs[s].iota + 1 \in DOMAIN cache
             /\ Shape(cache[structs[s].iota + 1]) = Shape(s)
  <2>1. ~Waits(s) /\ ~Open(s)
    BY <1>1 DEF Waits, Open
  <2>2. Settled(s)
    BY <1>1, <1>2, <2>1 DEF CompileOK, StructOK, Settled
  <2>3. QED
    BY <1>1, <2>2 DEF CompileOK, StructOK
<1>3. \A k \in DOMAIN cache : cache[k] \in Structs /\ structs[cache[k]].ready
  BY <1>1 DEF CompileOK, DeclOK, Settled
<1>4. QED
  BY <1>1, <1>2, <1>3

(* A declaration only names structs declared before it, whatever the order *)
(* in which the host embedded them, and two structs share a declaration    *)
(* exactly when their fields are the same.                                 *)
THEOREM ShapesAreDeclaredOnce == TypesSpec => []DeclaredOnce
<1>1. ASSUME IInv PROVE DeclaredFirst
  <2>1. CASE tpc = "build"
    <3>1. out = <<>>
      BY <1>1, <2>1 DEF IInv, BuildOK
    <3>2. QED
      BY <3>1 DEF DeclaredFirst
  <2>2. CASE tpc # "build"
    <3>1. LayoutsOK(structs) /\ CompileOK
      BY <1>1, <2>2 DEF IInv
    <3>2. SUFFICES ASSUME NEW k \in DOMAIN out
                   PROVE  /\ out[k].iota = k - 1
                          /\ \A i \in DOMAIN out[k].fields :
                               out[k].fields[i].basic = 0 => out[k].fields[i].iota < k - 1
      BY DEF DeclaredFirst
    <3>3. k \in DOMAIN cache
      BY <3>1 DEF CompileOK
    <3>4. PICK s : s = cache[k]
      OBVIOUS
    <3>5. /\ s \in Structs /\ out[k] = Declaration(s, k - 1)
          /\ ~structs[s].packed =>
               \A i \in DOMAIN structs[s].fields :
                 LET e == structs[s].fields[i].type.spec IN e # 0 => structs[e].iota < k - 1
      BY <3>1, <3>3, <3>4 DEF CompileOK, DeclOK
    <3>6. structs[s].packed \in BOOLEAN
      BY <3>1, <3>5, Typing DEF LayoutsOK, Structs
    <3>7. out[k].iota = k - 1
      BY <3>5, <3>6, DeclarationIs
    <3>8. ASSUME NEW i \in DOMAIN out[k].fields, out[k].fields[i].basic = 0
          PROVE  out[k].fields[i].iota < k - 1
      <4>1. CASE structs[s].packed
        <5>1. out[k].fields = <<>>
          BY <3>5, <4>1 DEF Declaration
        <5>2. QED
          BY <3>8, <5>1
      <4>2. CASE ~structs[s].packed
        <5>1. i \in DOMAIN structs[s].fields
          BY <3>5, <3>6, <3>8, <4>2, DeclarationIs
        <5>2. PICK t : t = structs[s].fields[i].type
          OBVIOUS
        <5>3. /\ out[k].fields[i].basic = t.size
              /\ out[k].fields[i].iota = IF t.spec = 0 THEN 0 ELSE structs[t.spec].iota
          BY <3>5, <3>6, <4>2, <5>1, <5>2, DeclarationIs
        <5>4. Fit(structs, t)
          BY <3>1, <3>5, <5>1, <5>2 DEF LayoutsOK, Structs
        <5>5. t.size = 0
          BY <3>8, <5>3
        <5>6. t.spec # 0
          BY <5>4, <5>5, <3>1 DEF Fit, Pow, LayoutsOK
        <5>7. QED
          BY <3>5, <4>2, <5>1, <5>2, <5>3, <5>6
      <4>3. QED
        BY <4>1, <4>2
    <3>9. QED
      BY <3>7, <3>8
  <2>3. QED
    BY <2>1, <2>2
<1>2. ASSUME IInv PROVE OneNamePerShape
  <2>1. SUFFICES ASSUME tpc = "done", NEW r \in Structs, NEW s \in Structs,
                        structs[r].ready, structs[s].ready
                 PROVE  Shape(r) = Shape(s) <=> structs[r].iota = structs[s].iota
    BY DEF OneNamePerShape
  <2>2. PICK j, k : j = structs[r].iota + 1 /\ k = structs[s].iota + 1
    OBVIOUS
  <2>3. /\ j \in DOMAIN cache /\ Shape(cache[j]) = Shape(r)
        /\ k \in DOMAIN cache /\ Shape(cache[k]) = Shape(s)
    BY <1>2, <2>1, <2>2, DoneFacts
  <2>4. Shape(cache[j]) = Shape(cache[k]) <=> j = k
    BY <1>2, <2>1, <2>3, DoneFacts DEF CompileOK, DeclOK
  <2>5. structs[r].iota \in Nat /\ structs[s].iota \in Nat
    BY <1>2, Typing DEF IInv, LayoutsOK, Structs
  <2>6. QED
    BY <2>2, <2>3, <2>4, <2>5
<1>3. IInv => DeclaredOnce
  BY <1>1, <1>2 DEF DeclaredOnce
<1>4. QED
  BY <1>3, Invariance, PTL

-----------------------------------------------------------------------------
(* Structs of the same shape have the same layout.                         *)
LEMMA LaidUnique ==
  ASSUME LayoutsOK(structs), NEW a \in Structs, NEW b \in Structs,
         structs[a].ready, structs[b].ready, Shape(a) = Shape(b)
  PROVE  /\ structs[a].align = structs[b].align /\ structs[a].size = structs[b].size
         /\ \A i \in DOMAIN structs[a].fields :
              structs[a].fields[i].offset = structs[b].fields[i].offset
<1>1. PICK r, s : r = structs[a] /\ s = structs[b]
  OBVIOUS
<1>2. PICK n \in Nat : n = Len(r.fields) /\ n = Len(s.fields) /\ DOMAIN r.fields = 1 .. n
  BY <1>1, ShapeFacts, Typing DEF LayoutsOK, Structs
<1>3. /\ r.packed = s.packed
      /\ \A i \in 1 .. n : r.fields[i].type = s.fields[i].type /\ r.fields[i].repeat = s.fields[i].repeat
  BY <1>1, <1>2, ShapeFacts
<1>4. DOMAIN s.fields = 1 .. n
  BY <1>1, <1>2, ShapeFacts
<1>5. Laid(structs, r) /\ Laid(structs, s)
  BY <1>1 DEF LayoutsOK, Structs
<1>6. \A i \in 1 .. n : Extent(structs, r.fields[i]) = Extent(structs, s.fields[i])
  BY <1>3 DEF Extent
<1>7. ASSUME NEW i \in 1 .. n, Behind(structs, r, i - 1) = Behind(structs, s, i - 1)
      PROVE  r.fields[i].offset = s.fields[i].offset
  <2>1. Placed(structs, r, i) /\ Placed(structs, s, i)
    BY <1>2, <1>4, <1>5 DEF Laid
  <2>2. QED
    BY <1>3, <1>7, <2>1 DEF Placed
<1> DEFINE G == {i \in Nat : i <= n => Behind(structs, r, i) = Behind(structs, s, i)}
<1>8. 0 \in G
  BY DEF Behind
<1>9. ASSUME NEW i \in Nat, i \in G
      PROVE  i + 1 \in G
  <2>1. SUFFICES ASSUME i + 1 <= n PROVE Behind(structs, r, i + 1) = Behind(structs, s, i + 1)
    OBVIOUS
  <2>2. PICK j : j = i + 1
    OBVIOUS
  <2>3. j \in 1 .. n /\ j - 1 = i /\ j # 0 /\ i <= n
    BY <2>1, <2>2
  <2>4. r.fields[j].offset = s.fields[j].offset
    BY <1>7, <1>9, <2>3
  <2>5. QED
    BY <1>6, <2>2, <2>3, <2>4 DEF Behind
<1>10. Nat \subseteq G
  <2> HIDE DEF G
  <2>1. QED
    BY <1>8, <1>9, SetInduction
<1>11. \A i \in 0 .. n : Behind(structs, r, i) = Behind(structs, s, i)
  BY <1>10
<1>12. \A i \in 1 .. n : r.fields[i].offset = s.fields[i].offset
  <2>1. \A i \in 1 .. n : i - 1 \in 0 .. n
    OBVIOUS
  <2>2. QED
    BY <1>7, <1>11, <2>1
<1>13. r.align = s.align
  <2>1. Aligns(structs, r) = Aligns(structs, s)
    BY <1>2, <1>3, <1>4 DEF Aligns
  <2>2. QED
    BY <1>3, <1>5, <2>1 DEF Laid
<1>14. r.size = s.size
  <2>1. Behind(structs, r, n) = Behind(structs, s, n)
    BY <1>11
  <2>2. QED
    BY <1>2, <1>3, <1>5, <1>13, <2>1 DEF Laid
<1>15. QED
  BY <1>1, <1>2, <1>12, <1>13, <1>14

(* What the host was told of a struct, in the form of what the parser      *)
(* keeps of its declaration: Kept are the fields that get entries.         *)
Kept(c) ==
  Recorded([i \in 0 .. Len(structs[c].fields) |-> Behind(structs, structs[c], i)],
           [i \in 1 .. Len(structs[c].fields) |-> Info(structs, structs[c].fields[i].type).align],
           [i \in 1 .. Len(structs[c].fields) |-> structs[c].fields[i].repeat])
Told(c) ==
  [size |-> structs[c].size, align |-> structs[c].align,
   offset |-> IF structs[c].packed THEN <<>>
              ELSE [i \in Kept(c) |-> structs[c].fields[i].offset]]

(* A length that fits the parser's int is read as it is.                   *)
LEMMA NarrowedIs ==
  ASSUME NEW n \in Nat, n <= IntMax
  PROVE  Narrowed(n) = n
<1>1. PICK m, x : m = 2 * IntMax + 2 /\ x = n + IntMax + 1
  OBVIOUS
<1>2. IntMax \in Nat
  BY StructAssumption DEF StructAssumption
<1>3. x \in Nat /\ m \in Nat /\ x < m /\ m > 0
  BY <1>1, <1>2
<1>4. x % m = x
  BY <1>3
<1>5. QED
  BY <1>1, <1>2, <1>4 DEF Narrowed

(* Only fields get entries.                                                *)
LEMMA RecordedFields ==
  ASSUME NEW end, NEW aligns, NEW counts
  PROVE  Recorded(end, aligns, counts) \subseteq DOMAIN counts
BY DEF Recorded

(* The parser reads a field as the builder laid it out, given that it did  *)
(* so with the declarations before.                                        *)
LEMMA FieldRead ==
  ASSUME LayoutsOK(structs), CompileOK, NEW k \in DOMAIN cache, NEW p,
         ~structs[cache[k]].packed, NEW i \in DOMAIN structs[cache[k]].fields,
         \A j \in DOMAIN cache : j < k =>
           p[j].size = structs[cache[j]].size /\ p[j].align = structs[cache[j]].align
  PROVE  FieldInfo(p, Declaration(cache[k], k - 1).fields[i])
           = Info(structs, structs[cache[k]].fields[i].type)
<1>1. PICK c, t, f : /\ c = cache[k] /\ t = structs[c].fields[i].type
                     /\ f = Declaration(cache[k], k - 1).fields[i]
  OBVIOUS
<1>2. /\ c \in Structs /\ k \in Nat
      /\ \A e : e = structs[c].fields[i].type.spec /\ e # 0 => Settled(e) /\ structs[e].iota < k - 1
  BY <1>1 DEF CompileOK, DeclOK
<1>3. Fit(structs, t) /\ structs[c].packed \in BOOLEAN
  BY <1>1, <1>2, Typing DEF LayoutsOK, Structs
<1>4. f.basic = t.size /\ f.iota = IF t.spec = 0 THEN 0 ELSE structs[t.spec].iota
  BY <1>1, <1>3, DeclarationIs
<1>5. CASE t.spec = 0 /\ t.size \in Pow
  BY <1>1, <1>4, <1>5 DEF FieldInfo, Info, Pow
<1>6. CASE t.spec # 0 /\ t.spec \in DOMAIN structs /\ t.size = 0
  <2>1. PICK e, j : e = t.spec /\ j = structs[e].iota + 1
    OBVIOUS
  <2>2. e \in Structs /\ Settled(e) /\ structs[e].iota < k - 1 /\ structs[e].iota \in Nat
    BY <1>1, <1>2, <1>6, <2>1, Typing DEF LayoutsOK, Structs
  <2>3. j \in DOMAIN cache /\ Shape(cache[j]) = Shape(e) /\ j < k
    BY <1>2, <2>1, <2>2, SMTT(30) DEF CompileOK, StructOK
  <2>4. cache[j] \in Structs /\ structs[cache[j]].ready /\ structs[e].ready
    BY <2>2, <2>3 DEF CompileOK, DeclOK, Settled
  <2>5. structs[cache[j]].align = structs[e].align /\ structs[cache[j]].size = structs[e].size
    BY <2>2, <2>3, <2>4, LaidUnique
  <2>6. f.basic = 0 /\ f.iota + 1 = j
    BY <1>4, <1>6, <2>1
  <2>7. p[j].size = structs[e].size /\ p[j].align = structs[e].align
    BY <2>3, <2>5
  <2>8. FieldInfo(p, f) = [size |-> structs[e].size, align |-> structs[e].align]
    BY <2>6, <2>7 DEF FieldInfo
  <2>9. QED
    BY <1>1, <1>6, <2>1, <2>8 DEF Info
<1>7. \A e \in DOMAIN structs : e # 0
  BY DEF LayoutsOK
<1>8. QED
  BY <1>3, <1>5, <1>6, <1>7 DEF Fit

LEMMA ParsedStep ==
  ASSUME LayoutsOK(structs), CompileOK, CountsFit, NEW k \in DOMAIN cache, NEW p,
         \A j \in DOMAIN cache : j < k =>
           p[j].size = structs[cache[j]].size /\ p[j].align = structs[cache[j]].align
  PROVE  ParsedFields(p, Declaration(cache[k], k - 1)) = Told(cache[k])
<1>1. PICK c, d, st : c = cache[k] /\ d = Declaration(c, k - 1) /\ st = structs[c]
  OBVIOUS
<1>2. c \in Structs /\ structs[c].ready
  BY <1>1 DEF CompileOK, DeclOK, Settled
<1>3. PICK n \in Nat : n = Len(st.fields) /\ DOMAIN st.fields = 1 .. n /\ st.packed \in BOOLEAN
  BY <1>1, <1>2, Typing DEF LayoutsOK, Structs
<1>4. /\ d.dark = st.packed /\ d.align = st.align /\ d.size = st.size
      /\ ~st.packed =>
           /\ DOMAIN d.fields = 1 .. n
           /\ \A i \in 1 .. n : d.fields[i].repeat = st.fields[i].repeat
  BY <1>1, <1>3, DeclarationIs
<1>5. CASE st.packed
  <2>1. ParsedFields(p, d) = [size |-> d.size, align |-> d.align, offset |-> <<>>]
    BY <1>4, <1>5, Zenon DEF ParsedFields
  <2>2. QED
    BY <1>1, <1>4, <1>5, <2>1 DEF Told
<1>6. CASE ~st.packed
  <2>1. Len(d.fields) = n
    <3>1. d \in DeclRec
      BY <1>1, <1>2, DeclarationTyped, k - 1 \in Nat DEF CompileOK
    <3>2. d.fields \in Seq([basic : {0} \cup Pow, repeat : Nat \ {0}, iota : Nat])
      BY <3>1 DEF DeclRec
    <3>3. DOMAIN d.fields = 1 .. Len(d.fields) /\ Len(d.fields) \in Nat
      BY <3>2
    <3>4. QED
      BY <1>4, <1>6, <3>3
  <2>2. \A i \in 1 .. n : FieldInfo(p, d.fields[i]) = Info(structs, st.fields[i].type)
    BY <1>1, <1>3, <1>6, FieldRead
  <2>3. \A i \in 1 .. n : /\ Narrowed(d.fields[i].repeat) = st.fields[i].repeat
                          /\ FieldExtent(p, d.fields[i]) = Extent(structs, st.fields[i])
    <3>1. ASSUME NEW i \in 1 .. n PROVE Narrowed(d.fields[i].repeat) = st.fields[i].repeat
      <4>1. st.fields[i].repeat \in Nat
        BY <1>1, <1>2, <1>3, Typing DEF LayoutsOK, Structs
      <4>2. st.fields[i].repeat <= IntMax
        BY <1>1, <1>2, <1>3 DEF CountsFit
      <4>3. QED
        BY <1>4, <1>6, <4>1, <4>2, NarrowedIs
    <3>2. QED
      BY <2>2, <3>1 DEF FieldExtent, Extent
  <2>4. ASSUME NEW i \in 1 .. n
        PROVE  /\ Info(structs, st.fields[i].type).align \in Pow
               /\ st.fields[i].offset \in Nat /\ Extent(structs, st.fields[i]) \in Nat
    <3>1. Fit(structs, st.fields[i].type) /\ st.fields[i].type \in TypeRec
          /\ st.fields[i].offset \in Nat /\ st.fields[i].repeat \in Nat
      BY <1>1, <1>2, <1>3, Typing DEF LayoutsOK, Structs
    <3>2. Info(structs, st.fields[i].type).align \in Pow /\ Info(structs, st.fields[i].type).size \in Nat
      BY <3>1, InfoFacts
    <3>3. QED
      BY <3>1, <3>2 DEF Extent
  <2>5. st.align \in Pow /\ Laid(structs, st)
    BY <1>1, <1>2 DEF LayoutsOK, Structs
  <2>6. PICK e : e = [i \in 0 .. n |-> Behind(structs, st, i)]
    OBVIOUS
  <2>7. \A i \in 0 .. n : e[i] = Behind(structs, st, i) /\ Behind(structs, st, i) \in Nat
    <3>1. \A i \in 0 .. n : i = 0 \/ i \in 1 .. n
      OBVIOUS
    <3>2. QED
      BY <2>4, <2>6, <3>1 DEF Behind
  <2>8. e \in [0 .. n -> Nat] /\ e[0] = 0
    <3>1. e \in [0 .. n -> Nat]
      BY <2>6, <2>7
    <3>2. QED
      BY <2>7, <3>1 DEF Behind
  <2>9. ASSUME NEW i \in 1 .. n
        PROVE  /\ e[i] = st.fields[i].offset + Extent(structs, st.fields[i])
               /\ st.fields[i].offset = RoundUp(e[i - 1], Info(structs, st.fields[i].type).align)
    <3>1. i \in 0 .. n /\ i - 1 \in 0 .. n /\ i # 0
      OBVIOUS
    <3>2. Placed(structs, st, i)
      BY <1>3, <2>5 DEF Laid
    <3>3. QED
      BY <1>6, <2>7, <3>1, <3>2 DEF Placed, Behind
  <2>10. FieldEnds(p, d.fields) = e
    <3>1. \A i \in 1 .. n :
            e[i] = RoundUp(e[i - 1], FieldInfo(p, d.fields[i]).align) + FieldExtent(p, d.fields[i])
      BY <2>2, <2>3, <2>9
    <3>2. PICK fs : fs = d.fields
      OBVIOUS
    <3>3. /\ Len(fs) \in Nat /\ e \in [0 .. Len(fs) -> Nat]
          /\ \A i \in 1 .. Len(fs) :
               e[i] = RoundUp(e[i - 1], FieldInfo(p, fs[i]).align) + FieldExtent(p, fs[i])
      BY <2>1, <2>8, <3>1, <3>2
    <3>4. FieldEnds(p, fs) = e
      BY <2>8, <3>3, FieldEndsIs
    <3>5. QED
      BY <3>2, <3>4
  <2>11. PICK T : T = {d.align} \cup {FieldInfo(p, d.fields[i]).align : i \in DOMAIN d.fields}
    OBVIOUS
  <2>12. Max(T) = st.align
    <3>1. st.align = Max(Aligns(structs, st))
      BY <1>6, <2>5 DEF Laid
    <3>2. Aligns(structs, st) \subseteq Pow /\ Aligns(structs, st) # {}
      BY <1>3, <2>4 DEF Aligns, Pow
    <3>3. \A x \in Aligns(structs, st) : x <= st.align
      BY <3>1, <3>2, MaxFacts
    <3>4. \A i \in 1 .. n : FieldInfo(p, d.fields[i]).align \in Aligns(structs, st)
      BY <1>3, <2>2 DEF Aligns
    <3>5. T \subseteq Pow /\ st.align \in T /\ \A x \in T : x <= st.align
      BY <1>4, <1>6, <2>5, <2>11, <3>2, <3>3, <3>4 DEF Pow
    <3>6. Max(T) \in T /\ \A x \in T : x <= Max(T)
      BY <3>5, MaxFacts
    <3>7. \A x, y \in Pow : x <= y /\ y <= x => x = y
      BY DEF Pow
    <3>8. QED
      BY <2>5, <3>5, <3>6, <3>7
  <2>13. PICK al, cs : /\ al = [i \in 1 .. n |-> Info(structs, st.fields[i].type).align]
                       /\ cs = [i \in 1 .. n |-> st.fields[i].repeat]
    OBVIOUS
  <2>14. PICK R, o : R = Recorded(e, al, cs) /\ o = [i \in R |-> st.fields[i].offset]
    OBVIOUS
  <2>15. ParsedFields(p, d) = [size |-> RoundUp(e[n], st.align), align |-> st.align, offset |-> o]
    <3>1. ~d.dark
      BY <1>4, <1>6
    <3>2. PICK fa, fc : /\ fa = [i \in DOMAIN d.fields |-> FieldInfo(p, d.fields[i]).align]
                        /\ fc = [i \in DOMAIN d.fields |-> Narrowed(d.fields[i].repeat)]
      OBVIOUS
    <3>3. ParsedFields(p, d)
            = [size |-> RoundUp(e[Len(d.fields)], Max(T)), align |-> Max(T),
               offset |-> [i \in Recorded(e, fa, fc) |-> e[i] - FieldExtent(p, d.fields[i])]]
      BY <2>10, <2>11, <3>1, <3>2, Zenon DEF ParsedFields
    <3>4. DOMAIN d.fields = 1 .. n
      BY <1>4, <1>6
    <3>5. fa = al
      BY <2>2, <2>13, <3>2, <3>4
    <3>6. fc = cs
      BY <2>3, <2>13, <3>2, <3>4
    <3>7. R \subseteq 1 .. n
      BY <2>13, <2>14, RecordedFields
    <3>8. \A i \in 1 .. n : e[i] - FieldExtent(p, d.fields[i]) = st.fields[i].offset
      BY <2>3, <2>4, <2>9
    <3>9. [i \in R |-> e[i] - FieldExtent(p, d.fields[i])] = o
      BY <2>14, <3>7, <3>8, Zenon
    <3>10. QED
      BY <2>1, <2>12, <2>14, <3>3, <3>5, <3>6, <3>9, Zenon
  <2>16. st.size = RoundUp(e[n], st.align)
    <3>1. n \in 0 .. n
      OBVIOUS
    <3>2. QED
      BY <1>3, <1>6, <2>5, <2>7, <3>1 DEF Laid
  <2>17. Told(c) = [size |-> st.size, align |-> st.align, offset |-> o]
    <3>1. Kept(c) = R
      BY <1>1, <1>3, <2>6, <2>13, <2>14, Zenon DEF Kept
    <3>2. QED
      BY <1>1, <1>6, <2>14, <3>1, Zenon DEF Told
  <2>18. QED
    BY <1>1, <2>15, <2>16, <2>17, Zenon
<1>7. QED
  BY <1>3, <1>5, <1>6

LEMMA ParsedIsTold ==
  ASSUME LayoutsOK(structs), CompileOK, CountsFit
  PROVE  \A k \in DOMAIN cache : Parsed[k] = Told(cache[k])
<1>1. PICK D : D = DOMAIN out
  OBVIOUS
<1>2. DOMAIN cache = D /\ D \subseteq Nat
  BY <1>1 DEF CompileOK
<1>3. \A k \in D : out[k] = Declaration(cache[k], k - 1)
  BY <1>2 DEF CompileOK, DeclOK
<1>4. \A c : Told(c).size = structs[c].size /\ Told(c).align = structs[c].align
  BY DEF Told
<1> DEFINE Step(p) == [k \in D |-> ParsedFields(p, out[k])]
<1>5. PICK t : t = [k \in D |-> Told(cache[k])]
  OBVIOUS
<1>6. t = Step(t)
  <2>1. \A j \in D : t[j].size = structs[cache[j]].size /\ t[j].align = structs[cache[j]].align
    BY <1>4, <1>5
  <2>2. \A k \in D : ParsedFields(t, Declaration(cache[k], k - 1)) = Told(cache[k])
    BY <1>2, <2>1, ParsedStep
  <2>3. \A k \in D : ParsedFields(t, out[k]) = Told(cache[k])
    BY <1>3, <2>2
  <2>4. Step(t) = [k \in D |-> Told(cache[k])]
    BY <2>3, Zenon
  <2>5. QED
    BY <1>5, <2>4
<1>7. Parsed = CHOOSE p : p = Step(p)
  BY <1>1, Zenon DEF Parsed
<1>8. PICK p : p = Parsed
  OBVIOUS
<1>9. p = Step(p)
  BY <1>6, <1>7, <1>8, Zenon
<1> DEFINE G == {m \in Nat : \A k \in D : k <= m => p[k] = Told(cache[k])}
<1>10. 0 \in G
  <2>1. \A k \in D : k >= 1
    BY <1>1 DEF CompileOK
  <2>2. QED
    BY <1>2, <2>1
<1>11. ASSUME NEW m \in Nat, m \in G
       PROVE  m + 1 \in G
  <2>1. SUFFICES ASSUME NEW k \in D, k <= m + 1 PROVE p[k] = Told(cache[k])
    BY <1>11
  <2>2. \A j \in D : j < k => p[j] = Told(cache[j])
    BY <1>2, <1>11, <2>1
  <2>3. \A j \in D : j < k => p[j].size = structs[cache[j]].size /\ p[j].align = structs[cache[j]].align
    BY <1>4, <2>2
  <2>4. ParsedFields(p, Declaration(cache[k], k - 1)) = Told(cache[k])
    BY <1>2, <2>3, ParsedStep
  <2>5. p[k] = ParsedFields(p, out[k])
    BY <1>9
  <2>6. QED
    BY <1>3, <2>4, <2>5
<1>12. Nat \subseteq G
  <2> HIDE DEF G
  <2>1. QED
    BY <1>10, <1>11, SetInduction
<1>13. \A k \in D : p[k] = Told(cache[k])
  BY <1>2, <1>12
<1>14. QED
  BY <1>2, <1>8, <1>13

(* Of every struct QBE computes, from the declaration the struct goes by,  *)
(* the size and the alignment the host was told, and the offsets of those  *)
(* fields it keeps entries for (qbe_type_struct against parsefields), as   *)
(* long as no array is longer than the parser's int.                       *)
THEOREM ParserAgrees == TypesSpec => []LayoutAgrees
<1>1. ASSUME IInv PROVE LayoutAgrees
  <2>1. SUFFICES ASSUME tpc = "done", CountsFit, NEW s \in Structs, structs[s].ready, NEW d,
                        d = Parsed[structs[s].iota + 1]
                 PROVE  /\ structs[s].iota + 1 \in DOMAIN out
                        /\ d.size = structs[s].size /\ d.align = structs[s].align
                        /\ \A i \in DOMAIN d.offset : d.offset[i] = structs[s].fields[i].offset
    BY Zenon DEF LayoutAgrees
  <2>2. PICK k, c : k = structs[s].iota + 1 /\ c = cache[k]
    OBVIOUS
  <2>3. /\ LayoutsOK(structs) /\ CompileOK
        /\ k \in DOMAIN cache /\ c \in Structs /\ structs[c].ready /\ Shape(c) = Shape(s)
    BY <1>1, <2>1, <2>2, DoneFacts
  <2>4. k \in DOMAIN out
    BY <2>3 DEF CompileOK
  <2>5. d = Told(c)
    BY <2>1, <2>2, <2>3, ParsedIsTold
  <2>6. /\ structs[c].align = structs[s].align /\ structs[c].size = structs[s].size
        /\ \A i \in DOMAIN structs[c].fields : structs[c].fields[i].offset = structs[s].fields[i].offset
    BY <2>1, <2>3, LaidUnique
  <2>7. ASSUME NEW i \in DOMAIN d.offset
        PROVE  d.offset[i] = structs[s].fields[i].offset
    <3>1. CASE structs[c].packed
      <4>1. DOMAIN d.offset = {}
        BY <2>5, <3>1 DEF Told
      <4>2. QED
        BY <2>7, <4>1
    <3>2. CASE ~structs[c].packed
      <4>1. d.offset = [j \in Kept(c) |-> structs[c].fields[j].offset]
        BY <2>5, <3>2 DEF Told
      <4>2. Kept(c) \subseteq 1 .. Len(structs[c].fields)
        BY RecordedFields DEF Kept
      <4>3. DOMAIN structs[c].fields = 1 .. Len(structs[c].fields)
        BY <2>3, Typing DEF LayoutsOK, Structs
      <4>4. QED
        BY <2>6, <2>7, <4>1, <4>2, <4>3
    <3>3. QED
      BY <3>1, <3>2
  <2>8. d.size = structs[s].size /\ d.align = structs[s].align
    BY <2>5, <2>6 DEF Told
  <2>9. QED
    BY <2>2, <2>4, <2>7, <2>8
<1>2. QED
  BY <1>1, Invariance, PTL

=============================================================================
