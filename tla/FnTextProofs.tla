----------------------------- MODULE FnTextProofs -----------------------------
(***************************************************************************)
(* Proofs about FnText, for functions of any number of nodes.              *)
(***************************************************************************)
EXTENDS FnText, WellFoundedInduction, TLAPS

OperandKinds == {"arg", "var", "alias", "op", "phi", "call"}
ControlKinds == {"jump", "branch", "ret", "block"}
Named == {"arg", "var", "op", "phi", "call"}
AllKinds == Kinds \cup {"arg", "var"}
Kind(n) == nodes[n].kind

(* What the host can have made.                                            *)
NodesOK ==
  /\ nodes \in Seq([kind : AllKinds, use : Seq(Nat), to : Seq(Nat)]) /\ Len(nodes) >= 3
  /\ \A n \in Id :
       /\ Kind(n) = "arg" <=> n = 1
       /\ Kind(n) = "var" <=> n = 3
       /\ Kind(n) \in {"arg", "var", "block"} => nodes[n].use = <<>>
       /\ Kind(n) = "alias" => Len(nodes[n].use) = 1 /\ nodes[n].use[1] < n
       /\ \A i \in DOMAIN nodes[n].use : nodes[n].use[i] \in Of(OperandKinds)
       /\ \A i \in DOMAIN nodes[n].to : nodes[n].to[i] \in Of({"block"})
  /\ Kind(2) = "block"

(* No node is an operand of itself, through others: in every set of nodes  *)
(* there is one without an operand in the set.                             *)
Acyclic ==
  \A S \in SUBSET Id : S # {} => \E n \in S : Range(nodes[n].use) \cap S = {}

BodyOK ==
  /\ body \in Seq(Id) /\ Len(body) >= 1 /\ body[1] = 2
  /\ \A h, k \in DOMAIN body : body[h] = body[k] => h = k
  /\ \A h \in DOMAIN body : body[h] \notin {1, 3}

Unstarted ==
  /\ iota = [n \in Id |-> 0] /\ ssa = {} /\ calls = <<>> /\ code = <<>> /\ at = 1
  /\ locals = 0 /\ blocks = 0

(* Operands are compiled before the node that has them.                    *)
Marked ==
  /\ ssa \subseteq Id /\ {1, 3} \subseteq ssa
  /\ \A n \in ssa : Kind(n) \notin ControlKinds /\ Range(nodes[n].use) \subseteq ssa

(* Each call of qbe_compile_node is for the operand the one below it is    *)
(* at; the last one is for the statement.                                  *)
StackOK ==
  /\ calls \in Seq([n : Id, i : Nat])
  /\ calls # <<>> => calls[Len(calls)].n = body[at - 1]
  /\ \A q \in DOMAIN calls :
       /\ calls[q].i <= Len(Operands(calls[q].n)) + 1
       /\ calls[q].i # 0 => calls[q].n \notin ssa
       /\ q > 1 => calls[q].i >= 2 /\ Operands(calls[q].n)[calls[q].i - 1] = calls[q - 1].n
       /\ \A i \in 1 .. calls[q].i - 1 :
            q = 1 \/ i < calls[q].i - 1 => Operands(calls[q].n)[i] \in ssa

(* Statements up to this one are compiled.                                 *)
Through == IF calls = <<>> THEN at - 1 ELSE at - 2
Statements ==
  /\ at \in 2 .. Len(body) + 1
  /\ \A h \in 1 .. Through :
       IF Kind(body[h]) \in ControlKinds THEN \E p \in DOMAIN code : code[p].n = body[h]
       ELSE body[h] \in ssa

(* Who is in the text, and under which name.                               *)
TextOK ==
  /\ code \in Seq([n : Id, def : Seq(Nat), use : Seq(Nat), to : Seq(Nat)])
  /\ \A p, r \in DOMAIN code : code[p].n = code[r].n => p = r
  /\ \A p \in DOMAIN code :
       LET n == code[p].n
       IN /\ Kind(n) # "alias"
          /\ IF Kind(n) \in ControlKinds THEN \E h \in 1 .. Through : body[h] = n ELSE n \in ssa
          /\ code[p].def = IF Kind(n) \in Named THEN <<iota[n]>> ELSE <<>>
Written ==
  /\ locals \in Nat /\ iota \in [Id -> Nat]
  /\ \A n \in Id : Kind(n) # "block" => iota[n] < locals
  /\ \A n \in ssa :
       /\ Kind(n) # "alias" => \E p \in DOMAIN code : code[p].n = n
       /\ Kind(n) = "alias" => iota[n] = iota[Operands(n)[1]]
  /\ \A m, n \in ssa : Kind(m) \in Named /\ Kind(n) \in Named /\ iota[m] = iota[n] => m = n
UsesOK ==
  \A p \in DOMAIN code : \A i \in DOMAIN code[p].use :
    \E r \in 1 .. p - 1 :
      code[r].n = Root(Operands(code[p].n)[i]) /\ code[r].def = <<code[p].use[i]>>

(* A label is given out once, and only mentioned under its name.           *)
Target(n, i) == IF Kind(n) = "block" THEN n ELSE nodes[n].to[i]
LabelsOK ==
  /\ blocks \in Nat \ {0}
  /\ \A c \in Of({"block"}) : iota[c] < blocks
  /\ \A c, d \in Of({"block"}) : iota[c] = iota[d] /\ iota[c] # 0 => c = d
  /\ \A p \in DOMAIN code :
       /\ \A i \in DOMAIN code[p].to :
            LET c == Target(code[p].n, i)
            IN c \in Of({"block"}) /\ iota[c] # 0 /\ code[p].to[i] = iota[c]
       /\ Kind(code[p].n) = "block" => 1 \in DOMAIN code[p].to

(* What is in the text was reached from a statement so far.                *)
Alone(k) == \A h \in 1 .. k - 1 : body[k] \notin Reaches(body[h])
OrderOK ==
  /\ \A p \in DOMAIN code :
       code[p].n \in {1, 3} \/ \E h \in 1 .. at - 1 : code[p].n \in Reaches(body[h])
  /\ \A q \in DOMAIN calls : calls[q].n \in Reaches(body[at - 1])
  /\ \A j, k \in DOMAIN body :
       j < k /\ Alone(k) =>
         \A p, r \in DOMAIN code : code[p].n = body[j] /\ code[r].n = body[k] => p < r

IInv ==
  /\ fpc \in {"build", "compile", "done"}
  /\ NodesOK /\ Acyclic /\ BodyOK
  /\ fpc = "build" => Unstarted
  /\ fpc # "build" =>
       /\ Of({"block"}) \subseteq Range(body)
       /\ Marked /\ StackOK /\ Statements /\ TextOK /\ Written /\ UsesOK /\ LabelsOK /\ OrderOK
  /\ fpc = "done" => calls = <<>> /\ at = Len(body) + 1

-----------------------------------------------------------------------------
(* Induction over the numbers, for sets.                                   *)
LEMMA Least ==
  ASSUME NEW T \in SUBSET Nat, T # {}
  PROVE  \E x \in T : \A y \in T : x <= y
<1> DEFINE R == OpToRel(<, Nat)
<1>1. IsWellFoundedOn(R, Nat)
  BY NatLessThanWellFounded
<1>2. \A x, y \in Nat : <<x, y>> \in R <=> x < y
  BY DEF OpToRel
<1> HIDE DEF R
<1>3. PICK x \in T : \A y \in T : ~ (<<y, x>> \in R)
  BY <1>1, WFMin
<1>4. \A y \in T : x \in Nat /\ y \in Nat /\ ~ (y < x)
  BY <1>2, <1>3
<1>5. QED
  BY <1>4

LEMMA SetInduction ==
  ASSUME NEW S, 0 \in S, \A n \in Nat : n \in S => n + 1 \in S
  PROVE  Nat \subseteq S
<1> DEFINE T == Nat \ S
<1>1. SUFFICES ASSUME T # {} PROVE FALSE
  OBVIOUS
<1>2. PICK x \in T : \A y \in T : x <= y
  BY <1>1, Least
<1>3. x \in Nat /\ x # 0
  BY <1>2
<1>4. x - 1 \in Nat /\ x - 1 \notin T
  BY <1>2, <1>3
<1>5. x - 1 + 1 \in S
  BY <1>4
<1>6. QED
  BY <1>5, <1>3

-----------------------------------------------------------------------------
(* The recursive functions of the model.                                   *)
LEMMA NodeFacts ==
  ASSUME NodesOK
  PROVE  /\ Id = 1 .. Len(nodes) /\ Len(nodes) \in Nat
         /\ {1, 2, 3} \subseteq Id
         /\ \A n \in Id : /\ n \in Nat /\ nodes[n].use \in Seq(Nat) /\ nodes[n].to \in Seq(Nat)
                          /\ Kind(n) \in AllKinds
                          /\ Range(nodes[n].use) \subseteq Of(OperandKinds)
                          /\ Range(nodes[n].use) \subseteq Id
<1>1. nodes \in Seq([kind : AllKinds, use : Seq(Nat), to : Seq(Nat)]) /\ Len(nodes) >= 3
  BY DEF NodesOK
<1>2. Id = 1 .. Len(nodes) /\ Len(nodes) \in Nat
  BY <1>1 DEF Id
<1> DEFINE R == [kind : AllKinds, use : Seq(Nat), to : Seq(Nat)]
<1>3. \A n \in Id : nodes[n] \in R
  <2>1. nodes \in Seq(R)
    BY <1>1
  <2> HIDE DEF R
  <2>2. QED
    BY <1>2, <2>1
<1>4. \A n \in Id : \A i \in DOMAIN nodes[n].use : nodes[n].use[i] \in Of(OperandKinds)
  BY DEF NodesOK
<1>5. Of(OperandKinds) \subseteq Id
  BY DEF Of
<1>6. \A n \in Id : Range(nodes[n].use) \subseteq Of(OperandKinds)
  BY <1>4 DEF Range
<1>7. QED
  BY <1>1, <1>2, <1>3, <1>5, <1>6 DEF Kind

IsRoots(r) ==
  r = [m \in Id |-> IF nodes[m].kind = "alias" THEN r[Operands(m)[1]] ELSE m]

LEMMA RootsExist ==
  ASSUME NodesOK
  PROVE  \E r : IsRoots(r)
<1> DEFINE From(r, k) ==
             \A m \in Id : m <= k =>
               r[m] = IF nodes[m].kind = "alias" THEN r[Operands(m)[1]] ELSE m
           S == {k \in Nat : \E r \in [Id -> Id] : From(r, k)}
<1>1. Id = 1 .. Len(nodes) /\ Len(nodes) \in Nat
  BY NodeFacts
<1>2. \A m \in Id : nodes[m].kind = "alias" => Operands(m)[1] \in Id /\ Operands(m)[1] < m
  <2>1. ASSUME NEW m \in Id, nodes[m].kind = "alias"
        PROVE  Operands(m)[1] \in Id /\ Operands(m)[1] < m
    <3>1. Len(nodes[m].use) = 1 /\ nodes[m].use[1] < m
      BY <2>1 DEF NodesOK, Kind
    <3>2. nodes[m].use \in Seq(Nat) /\ Range(nodes[m].use) \subseteq Id
      BY NodeFacts
    <3>3. 1 \in DOMAIN nodes[m].use
      BY <3>1, <3>2
    <3>4. QED
      BY <3>1, <3>2, <3>3 DEF Operands, Range
  <2>2. QED
    BY <2>1
<1>3. 0 \in S
  <2>1. [m \in Id |-> m] \in [Id -> Id] /\ From([m \in Id |-> m], 0)
    BY <1>1
  <2>2. QED
    BY <2>1
<1>4. ASSUME NEW k \in Nat, k \in S PROVE k + 1 \in S
  <2>1. PICK r \in [Id -> Id] : From(r, k)
    BY <1>4
  <2>2. CASE k + 1 \notin Id
    <3>1. From(r, k + 1)
      BY <1>1, <2>1, <2>2
    <3>2. QED
      BY <3>1
  <2>3. CASE k + 1 \in Id
    <3> DEFINE v == IF nodes[k + 1].kind = "alias" THEN r[Operands(k + 1)[1]] ELSE k + 1
               h == [r EXCEPT ![k + 1] = v]
    <3>1. v \in Id
      BY <1>2, <2>3
    <3> HIDE DEF v
    <3>2. h \in [Id -> Id] /\ h[k + 1] = v /\ \A m \in Id \ {k + 1} : h[m] = r[m]
      BY <2>3, <3>1
    <3> HIDE DEF h
    <3>3. From(h, k + 1)
      <4>1. ASSUME NEW m \in Id, m <= k + 1
            PROVE  h[m] = IF nodes[m].kind = "alias" THEN h[Operands(m)[1]] ELSE m
        <5>1. CASE m = k + 1
          <6>1. nodes[m].kind = "alias" => Operands(m)[1] \in Id \ {k + 1}
            BY <1>1, <1>2, <5>1
          <6>2. QED
            BY <3>2, <5>1, <6>1 DEF v
        <5>2. CASE m # k + 1
          <6>1. m <= k /\ (nodes[m].kind = "alias" => Operands(m)[1] \in Id \ {k + 1})
            BY <1>1, <1>2, <4>1, <5>2
          <6>2. QED
            BY <2>1, <3>2, <5>2, <6>1
        <5>3. QED
          BY <5>1, <5>2
      <4>2. QED
        BY <4>1
    <3>4. QED
      BY <3>2, <3>3
  <2>4. QED
    BY <2>2, <2>3
<1>5. Len(nodes) \in S
  <2> HIDE DEF S
  <2>1. QED
    BY <1>1, <1>3, <1>4, SetInduction
<1>6. PICK r \in [Id -> Id] : From(r, Len(nodes))
  BY <1>5
<1>7. IsRoots(r)
  BY <1>1, <1>6 DEF IsRoots
<1>8. QED
  BY <1>7

LEMMA RootFacts ==
  ASSUME NodesOK, NEW n \in Id
  PROVE  Root(n) = IF Kind(n) = "alias" THEN Root(Operands(n)[1]) ELSE n
<1> DEFINE r == CHOOSE u : IsRoots(u)
<1>1. IsRoots(r)
  BY RootsExist
<1>2. \A m : Root(m) = r[m]
  BY DEF Root, IsRoots
<1> HIDE DEF r
<1>3. r[n] = IF nodes[n].kind = "alias" THEN r[Operands(n)[1]] ELSE n
  BY <1>1 DEF IsRoots
<1>4. QED
  BY <1>2, <1>3 DEF Kind

IsReach(r) == r = [n \in Id |-> {n} \cup UNION {r[u] : u \in Range(nodes[n].use)}]

LEMMA ReachExists ==
  ASSUME NodesOK
  PROVE  \E r : IsReach(r)
<1> DEFINE Closed(S) == \A n \in S : Range(nodes[n].use) \subseteq S
           r == [n \in Id |-> {x \in Id : \A S \in SUBSET Id : n \in S /\ Closed(S) => x \in S}]
           next(n) == {n} \cup UNION {r[u] : u \in Range(nodes[n].use)}
<1>1. \A n \in Id : Range(nodes[n].use) \subseteq Id
  BY NodeFacts
<1>2. \A n \in Id : r[n] \subseteq Id /\ n \in r[n] /\ Closed(r[n])
  BY <1>1
<1>3. ASSUME NEW n \in Id PROVE r[n] = next(n)
  <2>1. next(n) \subseteq r[n]
    <3>1. ASSUME NEW u \in Range(nodes[n].use), NEW x \in r[u] PROVE x \in r[n]
      <4>1. u \in Id /\ u \in r[n] /\ Closed(r[n]) /\ r[n] \in SUBSET Id
        BY <1>1, <1>2
      <4>2. \A S \in SUBSET Id : u \in S /\ Closed(S) => x \in S
        BY <3>1, <4>1
      <4> HIDE DEF r, Closed
      <4>3. QED
        BY <4>1, <4>2
    <3>2. n \in r[n]
      BY <1>2
    <3> HIDE DEF r
    <3>3. QED
      BY <3>1, <3>2
  <2>2. next(n) \in SUBSET Id /\ n \in next(n)
    <3> HIDE DEF r
    <3>1. QED
      BY <1>1, <1>2
  <2>3. Closed(next(n))
    <3>1. ASSUME NEW x \in next(n) PROVE Range(nodes[x].use) \subseteq next(n)
      <4>1. CASE x = n
        <5>1. \A u \in Range(nodes[n].use) : u \in r[u]
          BY <1>1, <1>2
        <5>2. QED
          BY <4>1, <5>1
      <4>2. CASE \E u \in Range(nodes[n].use) : x \in r[u]
        <5>1. PICK u \in Range(nodes[n].use) : x \in r[u]
          BY <4>2
        <5>2. Range(nodes[x].use) \subseteq r[u]
          BY <1>1, <1>2, <5>1
        <5> HIDE DEF r
        <5>3. QED
          BY <5>2
      <4>3. QED
        BY <4>1, <4>2
    <3>2. QED
      BY <3>1
  <2>4. r[n] \subseteq next(n)
    <3>1. \A x \in r[n] : \A S \in SUBSET Id : n \in S /\ Closed(S) => x \in S
      OBVIOUS
    <3> HIDE DEF r, next, Closed
    <3>2. QED
      BY <2>2, <2>3, <3>1
  <2>5. QED
    BY <2>1, <2>4
<1>4. r = [n \in Id |-> next(n)]
  BY <1>3
<1>5. IsReach(r)
  <2> HIDE DEF r
  <2>1. QED
    BY <1>4 DEF IsReach
<1>6. QED
  BY <1>5

LEMMA ReachFacts ==
  ASSUME NodesOK, Acyclic
  PROVE  \A m \in Id :
           /\ m \in Reaches(m) /\ Reaches(m) \subseteq Id
           /\ \A n \in Reaches(m) : Range(nodes[n].use) \subseteq Reaches(m)
<1> DEFINE r == CHOOSE u : IsReach(u)
<1>1. IsReach(r)
  BY ReachExists
<1>2. \A m : Reaches(m) = r[m]
  BY DEF Reaches, IsReach
<1> HIDE DEF r
<1>3. \A n \in Id : r[n] = {n} \cup UNION {r[u] : u \in Range(nodes[n].use)}
  BY <1>1 DEF IsReach
<1>4. \A n \in Id : Range(nodes[n].use) \subseteq Id
  BY NodeFacts
<1> DEFINE Good(m) == r[m] \subseteq Id /\ \A n \in r[m] : Range(nodes[n].use) \subseteq r[m]
           Bad == {m \in Id : ~ Good(m)}
<1>5. Bad = {}
  <2>1. SUFFICES ASSUME Bad # {} PROVE FALSE
    OBVIOUS
  <2>2. PICK m \in Bad : Range(nodes[m].use) \cap Bad = {}
    BY <2>1 DEF Acyclic
  <2>3. \A u \in Range(nodes[m].use) : Good(u) /\ u \in r[u] /\ r[u] \subseteq r[m]
    BY <1>3, <1>4, <2>2
  <2>4. r[m] = {m} \cup UNION {r[u] : u \in Range(nodes[m].use)}
    BY <1>3
  <2>5. r[m] \subseteq Id
    BY <2>3, <2>4
  <2>6. ASSUME NEW n \in r[m] PROVE Range(nodes[n].use) \subseteq r[m]
    <3>1. CASE n = m
      BY <2>3, <3>1
    <3>2. CASE n # m
      <4>1. PICK u \in Range(nodes[m].use) : n \in r[u]
        BY <2>4, <3>2
      <4>2. Range(nodes[n].use) \subseteq r[u] /\ r[u] \subseteq r[m]
        BY <2>3, <4>1
      <4>3. QED
        BY <4>2
    <3>3. QED
      BY <3>1, <3>2
  <2>7. Good(m)
    BY <2>5, <2>6
  <2>8. QED
    BY <2>7
<1>6. QED
  BY <1>2, <1>3, <1>5

-----------------------------------------------------------------------------
(* The labels given out so far are different, and smaller than the next.   *)
Labels(i, bl) ==
  /\ i \in [Id -> Nat] /\ bl \in Nat \ {0}
  /\ \A c \in Of({"block"}) : i[c] < bl
  /\ \A c, d \in Of({"block"}) : i[c] = i[d] /\ i[c] # 0 => c = d

LabelNext(bs, k, m) ==
  IF m.iota[bs[k]] # 0 THEN m
  ELSE [iota |-> [m.iota EXCEPT ![bs[k]] = m.blocks], blocks |-> m.blocks + 1]

IsLabelling(bs, n, l) ==
  l = [k \in 0 .. n |->
         IF k = 0 THEN [iota |-> iota, blocks |-> blocks]
         ELSE LET m == l[k - 1]
              IN IF m.iota[bs[k]] # 0 THEN m
                 ELSE [iota |-> [m.iota EXCEPT ![bs[k]] = m.blocks], blocks |-> m.blocks + 1]]

LEMMA LabellingExists ==
  ASSUME NEW bs, NEW n \in Nat
  PROVE  \E l : IsLabelling(bs, n, l)
<1> DEFINE S == {k \in Nat : \E l : IsLabelling(bs, k, l)}
           first == [iota |-> iota, blocks |-> blocks]
           Step(k, v) == IF k = 0 THEN first ELSE LabelNext(bs, k, v)
<1>1. \A k, l : IsLabelling(bs, k, l) <=> l = [j \in 0 .. k |-> Step(j, l[j - 1])]
  BY DEF IsLabelling, LabelNext
<1>2. \A v : Step(0, v) = first
  OBVIOUS
<1> HIDE DEF Step, first
<1>3. 0 \in S
  <2> DEFINE l == [k \in 0 .. 0 |-> first]
  <2>1. l[0] = Step(0, l[-1])
    BY <1>2
  <2>2. l = [k \in 0 .. 0 |-> Step(k, l[k - 1])]
    BY <1>2
  <2>3. IsLabelling(bs, 0, l)
    <3> HIDE DEF l
    <3>1. QED
      BY <1>1, <2>2
  <2>4. QED
    <3> HIDE DEF l
    <3>1. QED
      BY <2>3
<1>4. ASSUME NEW k \in Nat, k \in S PROVE k + 1 \in S
  <2>1. PICK l : l = [j \in 0 .. k |-> Step(j, l[j - 1])]
    BY <1>1, <1>4
  <2> DEFINE h == [j \in 0 .. k + 1 |-> Step(j, l[j - 1])]
  <2>2. \A j \in 0 .. k : h[j] = l[j]
    BY <2>1
  <2>3. \A j \in 0 .. k + 1 : Step(j, l[j - 1]) = Step(j, h[j - 1])
    <3>1. \A j \in 0 .. k + 1 : j # 0 => j - 1 \in 0 .. k
      OBVIOUS
    <3> HIDE DEF h
    <3>2. QED
      BY <1>2, <2>2, <3>1
  <2>4. h = [j \in 0 .. k + 1 |-> Step(j, h[j - 1])]
    BY <2>3
  <2>5. IsLabelling(bs, k + 1, h)
    <3> HIDE DEF h
    <3>1. QED
      BY <1>1, <2>4
  <2>6. QED
    <3> HIDE DEF h
    <3>1. QED
      BY <2>5
<1>5. n \in S
  <2> HIDE DEF S
  <2>1. QED
    BY <1>3, <1>4, SetInduction
<1>6. QED
  BY <1>5

(* qbe_block_iota gives a label to who has none, and changes no other.     *)
LEMMA LabelledFacts ==
  ASSUME NodesOK, Labels(iota, blocks), NEW bs \in Seq(Of({"block"}))
  PROVE  /\ Labels(Labelled(bs).iota, Labelled(bs).blocks)
         /\ \A i \in DOMAIN bs : Labelled(bs).iota[bs[i]] # 0
         /\ \A c \in Id : iota[c] # 0 \/ c \notin Of({"block"}) =>
                         Labelled(bs).iota[c] = iota[c]
<1> DEFINE l == CHOOSE u : IsLabelling(bs, Len(bs), u)
<1>1. Len(bs) \in Nat /\ DOMAIN bs = 1 .. Len(bs) /\ \A i \in 1 .. Len(bs) : bs[i] \in Of({"block"})
  OBVIOUS
<1>2. IsLabelling(bs, Len(bs), l)
  BY <1>1, LabellingExists
<1>3. Labelled(bs) = l[Len(bs)]
  BY DEF Labelled, IsLabelling
<1> HIDE DEF l
<1>4. l[0] = [iota |-> iota, blocks |-> blocks]
  BY <1>1, <1>2 DEF IsLabelling
<1>5. \A k \in 0 .. Len(bs) - 1 : l[k + 1] = LabelNext(bs, k + 1, l[k])
  <2>1. \A k \in 0 .. Len(bs) : k # 0 => l[k] = LabelNext(bs, k, l[k - 1])
    BY <1>1, <1>2 DEF IsLabelling, LabelNext
  <2>2. \A k \in 0 .. Len(bs) - 1 : k + 1 \in 0 .. Len(bs) /\ k + 1 # 0 /\ k + 1 - 1 = k
    BY <1>1
  <2>3. QED
    BY <2>1, <2>2
<1>6. Of({"block"}) \subseteq Id
  BY DEF Of
<1> DEFINE Good(k) == /\ Labels(l[k].iota, l[k].blocks)
                      /\ \A i \in 1 .. k : l[k].iota[bs[i]] # 0
                      /\ \A c \in Id : iota[c] # 0 \/ c \notin Of({"block"}) => l[k].iota[c] = iota[c]
           S == {k \in Nat : k <= Len(bs) => Good(k)}
<1>7. 0 \in S
  BY <1>4
<1>8. ASSUME NEW k \in Nat, k \in S PROVE k + 1 \in S
  <2>1. SUFFICES ASSUME k + 1 <= Len(bs) PROVE Good(k + 1)
    OBVIOUS
  <2>2. Good(k) /\ l[k + 1] = LabelNext(bs, k + 1, l[k]) /\ bs[k + 1] \in Of({"block"})
    BY <1>1, <1>5, <1>8, <2>1
  <2>3. CASE l[k].iota[bs[k + 1]] # 0
    <3>1. l[k + 1] = l[k]
      BY <2>2, <2>3 DEF LabelNext
    <3>2. QED
      BY <2>2, <2>3, <3>1
  <2>4. CASE l[k].iota[bs[k + 1]] = 0
    <3> DEFINE b == bs[k + 1]
               i == l[k].iota
               bl == l[k].blocks
    <3>1. l[k + 1].iota = [i EXCEPT ![b] = bl] /\ l[k + 1].blocks = bl + 1
      BY <2>2, <2>4 DEF LabelNext
    <3>2. /\ i \in [Id -> Nat] /\ bl \in Nat \ {0} /\ b \in Id /\ b \in Of({"block"}) /\ i[b] = 0
          /\ \A c \in Of({"block"}) : i[c] < bl
          /\ \A c, d \in Of({"block"}) : i[c] = i[d] /\ i[c] # 0 => c = d
      BY <1>6, <2>2, <2>4 DEF Labels
    <3> DEFINE i2 == l[k + 1].iota
               bl2 == l[k + 1].blocks
    <3>3. i2 \in [Id -> Nat] /\ i2[b] = bl /\ bl2 = bl + 1 /\ \A c \in Id \ {b} : i2[c] = i[c]
      BY <3>1, <3>2
    <3>4. \A j \in 1 .. k : bs[j] \in Id /\ i[bs[j]] # 0
      BY <1>1, <1>6, <2>1, <2>2
    <3>5. \A c \in Id : iota[c] # 0 \/ c \notin Of({"block"}) => i[c] = iota[c]
      BY <2>2
    <3> HIDE DEF i, i2, bl, bl2, b
    <3>6. Labels(i2, bl2)
      <4>1. \A c \in Of({"block"}) : i2[c] < bl2
        <5>1. ASSUME NEW c \in Of({"block"}) PROVE i2[c] < bl2
          <6>1. c \in Id /\ i[c] < bl /\ i[c] \in Nat /\ bl \in Nat
            BY <1>6, <3>2
          <6>2. QED
            BY <3>3, <6>1
        <5>2. QED
          BY <5>1
      <4>2. ASSUME NEW c \in Of({"block"}), NEW d \in Of({"block"}), i2[c] = i2[d], i2[c] # 0 PROVE c = d
        <5>1. i[c] < bl /\ i[d] < bl /\ i[c] \in Nat /\ i[d] \in Nat /\ c \in Id /\ d \in Id
          BY <1>6, <3>2
        <5>2. QED
          BY <3>2, <3>3, <4>2, <5>1
      <4>3. QED
        BY <3>2, <3>3, <4>1, <4>2 DEF Labels
    <3>7. \A j \in 1 .. k + 1 : i2[bs[j]] # 0
      <4>1. i2[bs[k + 1]] # 0
        BY <3>2, <3>3 DEF b
      <4>2. \A j \in 1 .. k : i2[bs[j]] # 0
        BY <3>2, <3>3, <3>4
      <4>3. QED
        BY <4>1, <4>2
    <3>8. \A c \in Id : iota[c] # 0 \/ c \notin Of({"block"}) => i2[c] = iota[c]
      BY <3>2, <3>3, <3>5
    <3>9. QED
      BY <3>6, <3>7, <3>8 DEF i2, bl2
  <2>5. QED
    BY <2>3, <2>4
<1>9. Good(Len(bs))
  <2>1. Len(bs) \in S
    <3> HIDE DEF S
    <3>1. QED
      BY <1>1, <1>7, <1>8, SetInduction
  <2>2. QED
    BY <1>1, <2>1
<1>10. QED
  BY <1>1, <1>3, <1>9

-----------------------------------------------------------------------------
(* The host.                                                               *)
NodeSet == [kind : AllKinds, use : Seq(Nat), to : Seq(Nat)]
Shape(n, node) ==
  /\ node.kind = "arg" <=> n = 1
  /\ node.kind = "var" <=> n = 3
  /\ node.kind \in {"arg", "var", "block"} => node.use = <<>>
  /\ node.kind = "alias" => Len(node.use) = 1 /\ node.use[1] < n

LEMMA InitInv ==
  ASSUME FnInit
  PROVE  IInv
<1>1. nodes = <<Node("arg", <<>>, <<>>), Node("block", <<>>, <<>>), Node("var", <<>>, <<>>)>>
  BY DEF FnInit
<1>2. /\ Len(nodes) = 3 /\ nodes[1] = Node("arg", <<>>, <<>>)
      /\ nodes[2] = Node("block", <<>>, <<>>) /\ nodes[3] = Node("var", <<>>, <<>>)
  BY <1>1
<1>3. Id = {1, 2, 3}
  BY <1>1 DEF Id
<1>4. \A n \in Id : nodes[n].use = <<>> /\ nodes[n].to = <<>>
  BY <1>2, <1>3 DEF Node
<1>5. Kind(1) = "arg" /\ Kind(2) = "block" /\ Kind(3) = "var"
  BY <1>2 DEF Kind, Node
<1>6. nodes \in Seq([kind : AllKinds, use : Seq(Nat), to : Seq(Nat)])
  <2>1. <<>> \in Seq(Nat)
    OBVIOUS
  <2>2. \A k \in {"arg", "block", "var"} :
          Node(k, <<>>, <<>>) \in [kind : AllKinds, use : Seq(Nat), to : Seq(Nat)]
    BY <2>1 DEF Node, AllKinds, Kinds
  <2>3. QED
    BY <1>1, <2>2
<1>7. NodesOK
  BY <1>2, <1>3, <1>4, <1>5, <1>6 DEF NodesOK
<1>8. Acyclic
  BY <1>4 DEF Acyclic, Range
<1>9. BodyOK
  BY <1>3 DEF FnInit, BodyOK
<1>10. fpc = "build" /\ Unstarted
  <2>1. iota = [n \in Id |-> 0]
    BY <1>3 DEF FnInit
  <2>2. QED
    BY <2>1 DEF FnInit, Unstarted
<1>11. QED
  BY <1>7, <1>8, <1>9, <1>10 DEF IInv

LEMMA NodeAppended ==
  ASSUME NodesOK, Acyclic, NEW node \in NodeSet,
         node.kind \notin {"arg", "var"},
         \A i \in DOMAIN node.use : node.use[i] \in Of(OperandKinds),
         \A i \in DOMAIN node.to : node.to[i] \in Of({"block"}),
         node.kind = "block" => node.use = <<>>,
         node.kind = "alias" => Len(node.use) = 1,
         nodes' = Append(nodes, node)
  PROVE  NodesOK' /\ Acyclic' /\ Id' = Id \cup {Len(nodes) + 1}
<1> DEFINE new == Len(nodes) + 1
<1>1. nodes \in Seq(NodeSet) /\ Len(nodes) >= 3 /\ Len(nodes) \in Nat /\ Id = 1 .. Len(nodes)
  BY NodeFacts DEF NodesOK, NodeSet
<1>2. nodes' \in Seq(NodeSet) /\ Len(nodes') = new /\ nodes'[new] = node
  <2> HIDE DEF NodeSet
  <2>1. QED
    BY <1>1
<1>3. \A n \in Id : nodes'[n] = nodes[n]
  BY <1>1
<1>4. Id' = Id \cup {new} /\ new \notin Id
  BY <1>1, <1>2 DEF Id
<1>5. \A K : \A n \in Of(K) : n \in Id /\ n \in Id' /\ nodes'[n].kind \in K
  BY <1>3, <1>4 DEF Of
<1>6. \A n \in Id : Range(nodes[n].use) \subseteq Id
  BY NodeFacts
<1>7. NodesOK'
  <2>1. \A n \in Id' : Shape(n, nodes'[n])
    <3>1. \A n \in Id : Shape(n, nodes'[n])
      <4>1. \A n \in Id : Shape(n, nodes[n])
        BY DEF NodesOK, Kind, Shape
      <4>2. QED
        BY <1>3, <4>1
    <3>2. Shape(new, node)
      <4>1. ASSUME node.kind = "alias" PROVE node.use[1] < new
        <5>1. node.use \in Seq(Nat) /\ Len(node.use) = 1
          BY <4>1 DEF NodeSet
        <5>2. node.use[1] \in Of(OperandKinds)
          BY <5>1
        <5>3. QED
          BY <1>1, <1>5, <5>2
      <4>2. QED
        BY <1>1, <4>1 DEF Shape
    <3>3. QED
      BY <1>2, <1>4, <3>1, <3>2
  <2>2. ASSUME NEW n \in Id'
        PROVE  /\ \A i \in DOMAIN nodes'[n].use : /\ nodes'[n].use[i] \in Id'
                                                  /\ nodes'[nodes'[n].use[i]].kind \in OperandKinds
               /\ \A i \in DOMAIN nodes'[n].to : /\ nodes'[n].to[i] \in Id'
                                                 /\ nodes'[nodes'[n].to[i]].kind \in {"block"}
    <3>1. CASE n \in Id
      <4>1. /\ \A i \in DOMAIN nodes[n].use : nodes[n].use[i] \in Of(OperandKinds)
            /\ \A i \in DOMAIN nodes[n].to : nodes[n].to[i] \in Of({"block"})
        BY <3>1 DEF NodesOK
      <4>2. QED
        BY <1>3, <1>5, <3>1, <4>1
    <3>2. CASE n = new
      BY <1>2, <1>5, <3>2
    <3>3. n \in Id \/ n = new
      BY <1>4, <2>2
    <3>4. QED
      BY <3>1, <3>2, <3>3
  <2>3. nodes'[2].kind = "block"
    BY <1>1, <1>3 DEF NodesOK, Kind
  <2>4. Len(nodes') >= 3
    BY <1>1, <1>2
  <2>5. \A n \in Id' :
          /\ \A i \in DOMAIN nodes'[n].use : nodes'[n].use[i] \in Of(OperandKinds)'
          /\ \A i \in DOMAIN nodes'[n].to : nodes'[n].to[i] \in Of({"block"})'
    BY <2>2 DEF Of
  <2> HIDE DEF NodeSet
  <2>6. nodes' \in Seq(NodeSet)
    BY <1>2
  <2>7. QED
    BY <2>1, <2>3, <2>4, <2>5, <2>6 DEF NodesOK, Kind, NodeSet, Shape
<1>8. Acyclic'
  <2>1. ASSUME NEW S \in SUBSET Id', S # {} PROVE \E n \in S : Range(nodes'[n].use) \cap S = {}
    <3>1. CASE S \cap Id # {}
      <4>1. PICK n \in S \cap Id : Range(nodes[n].use) \cap (S \cap Id) = {}
        BY <3>1 DEF Acyclic
      <4>2. QED
        BY <1>3, <1>6, <4>1
    <3>2. CASE S \cap Id = {}
      <4>1. S = {new}
        BY <1>4, <2>1, <3>2
      <4>2. Range(node.use) \subseteq Id
        BY <1>5 DEF Range
      <4>3. QED
        BY <1>2, <1>4, <4>1, <4>2
    <3>3. QED
      BY <3>1, <3>2
  <2>2. QED
    BY <2>1 DEF Acyclic
<1>9. QED
  BY <1>4, <1>7, <1>8

LEMMA BodyGrown ==
  ASSUME BodyOK, NEW n, n \in Id', n \notin Range(body), n \notin {1, 3}, Id \subseteq Id',
         body' = Append(body, n)
  PROVE  BodyOK'
<1>1. body \in Seq(Id) /\ Len(body) >= 1 /\ body[1] = 2 /\ Len(body) \in Nat
  BY DEF BodyOK
<1>2. \A h \in 1 .. Len(body) : body[h] \in Id
  BY <1>1
<1>3. body \in Seq(Id')
  BY <1>1, <1>2
<1>4. body' \in Seq(Id') /\ Len(body') = Len(body) + 1 /\ body'[Len(body) + 1] = n
  BY <1>1, <1>3
<1>5. \A h \in 1 .. Len(body) : body'[h] = body[h] /\ body[h] # n
  BY <1>1 DEF Range
<1>6. DOMAIN body' = 1 .. Len(body) \cup {Len(body) + 1} /\ DOMAIN body = 1 .. Len(body)
  BY <1>1, <1>4
<1>7. \A h, k \in DOMAIN body' : body'[h] = body'[k] => h = k
  BY <1>4, <1>5, <1>6 DEF BodyOK
<1>8. \A h \in DOMAIN body' : body'[h] \notin {1, 3}
  BY <1>4, <1>5, <1>6 DEF BodyOK
<1>9. body'[1] = 2 /\ Len(body') >= 1
  BY <1>1, <1>4, <1>5
<1>10. QED
  BY <1>4, <1>7, <1>8, <1>9 DEF BodyOK

LEMMA BodyKept ==
  ASSUME BodyOK, Id \subseteq Id', body' = body
  PROVE  BodyOK'
<1>1. body \in Seq(Id) /\ Len(body) \in Nat
  BY DEF BodyOK
<1>2. \A h \in 1 .. Len(body) : body[h] \in Id'
  BY <1>1
<1>3. body \in Seq(Id')
  BY <1>1, <1>2
<1>4. QED
  BY <1>3 DEF BodyOK

(* An argument is added to a call that the argument does not reach.        *)
LEMMA ArgumentAdded ==
  ASSUME NodesOK, Acyclic, NEW c \in Of({"call", "void"}), NEW u \in Of(OperandKinds),
         c \notin Reaches(u),
         nodes' = [nodes EXCEPT ![c].use = Append(@, u)]
  PROVE  NodesOK' /\ Acyclic' /\ Id' = Id
<1>1. nodes \in Seq(NodeSet) /\ Len(nodes) >= 3 /\ Len(nodes) \in Nat /\ Id = 1 .. Len(nodes)
  BY NodeFacts DEF NodesOK, NodeSet
<1>2. c \in Id /\ u \in Id /\ u \in Nat /\ nodes[c].kind \in {"call", "void"}
  BY NodeFacts DEF Of
<1>3. nodes[c].use \in Seq(Nat)
  BY <1>2, NodeFacts
<1> DEFINE use == Append(nodes[c].use, u)
           node == [nodes[c] EXCEPT !.use = use]
<1>4. nodes' = [nodes EXCEPT ![c] = node]
  OBVIOUS
<1>5. use \in Seq(Nat) /\ Len(use) = Len(nodes[c].use) + 1 /\ use[Len(use)] = u
      /\ \A i \in 1 .. Len(nodes[c].use) : use[i] = nodes[c].use[i]
  BY <1>2, <1>3
<1>6. Range(use) = Range(nodes[c].use) \cup {u}
  <2>1. DOMAIN use = 1 .. Len(nodes[c].use) \cup {Len(use)} /\ DOMAIN nodes[c].use = 1 .. Len(nodes[c].use)
    BY <1>3, <1>5, SMTT(30)
  <2> HIDE DEF use
  <2>2. \A x \in Range(use) : x \in Range(nodes[c].use) \cup {u}
    BY <1>5, <2>1 DEF Range
  <2>3. \A x \in Range(nodes[c].use) \cup {u} : x \in Range(use)
    <3>1. \A i \in DOMAIN nodes[c].use : i \in DOMAIN use /\ use[i] = nodes[c].use[i]
      BY <1>5, <2>1
    <3>2. Len(use) \in DOMAIN use
      BY <2>1
    <3>3. QED
      BY <1>5, <3>1, <3>2 DEF Range
  <2>4. QED
    BY <2>2, <2>3
<1> HIDE DEF use
<1>7. /\ node \in NodeSet /\ node.kind = nodes[c].kind /\ node.to = nodes[c].to /\ node.use = use
  <2>1. nodes[c] \in NodeSet
    <3> HIDE DEF NodeSet
    <3>1. QED
      BY <1>1, <1>2
  <2>2. QED
    BY <1>5, <2>1 DEF NodeSet
<1> HIDE DEF node
<1>8. nodes' \in Seq(NodeSet) /\ Len(nodes') = Len(nodes) /\ nodes'[c] = node
      /\ \A n \in Id \ {c} : nodes'[n] = nodes[n]
  <2> HIDE DEF NodeSet
  <2>1. nodes \in [1 .. Len(nodes) -> NodeSet] /\ node \in NodeSet /\ c \in 1 .. Len(nodes)
    BY <1>1, <1>2, <1>7
  <2>2. nodes' \in [1 .. Len(nodes) -> NodeSet] /\ nodes'[c] = node
        /\ \A n \in Id \ {c} : nodes'[n] = nodes[n]
    BY <1>1, <1>4, <2>1
  <2>3. QED
    BY <1>1, <2>2
<1>9. Id' = Id
  BY <1>1, <1>8 DEF Id
<1>10. \A n \in Id : nodes'[n].kind = nodes[n].kind /\ nodes'[n].to = nodes[n].to
  BY <1>7, <1>8
<1>12. \A n \in Id \ {c} : nodes'[n].use = nodes[n].use
  BY <1>8
<1>13. \A i \in DOMAIN use : use[i] \in Of(OperandKinds)
  <2>1. Range(nodes[c].use) \subseteq Of(OperandKinds)
    BY <1>2, NodeFacts
  <2>2. QED
    BY <1>6, <2>1 DEF Range
<1>14. NodesOK'
  <2>1. ASSUME NEW n \in Id
        PROVE  /\ Shape(n, nodes'[n])
               /\ \A i \in DOMAIN nodes'[n].use : nodes'[n].use[i] \in Of(OperandKinds)
               /\ \A i \in DOMAIN nodes'[n].to : nodes'[n].to[i] \in Of({"block"})
    <3>1. CASE n = c
      BY <1>2, <1>7, <1>8, <1>10, <1>13, <3>1, ZenonT(60) DEF NodesOK, Kind, Shape
    <3>2. CASE n # c
      BY <1>8, <3>2, SMTT(30) DEF NodesOK, Kind, Shape
    <3>3. QED
      BY <3>1, <3>2
  <2>2. nodes'[2].kind = "block"
    BY <1>1, <1>10 DEF NodesOK, Kind
  <2>3. Len(nodes') >= 3
    BY <1>1, <1>8
  <2>4. Of(OperandKinds)' = Of(OperandKinds) /\ Of({"block"})' = Of({"block"})
    BY <1>9, <1>10 DEF Of
  <2> HIDE DEF NodeSet
  <2>5. nodes' \in Seq(NodeSet)
    BY <1>8
  <2>6. \A n \in Id' : Shape(n, nodes'[n])
    BY <1>9, <2>1
  <2>7. \A n \in Id' :
          /\ \A i \in DOMAIN nodes'[n].use : nodes'[n].use[i] \in Of(OperandKinds)'
          /\ \A i \in DOMAIN nodes'[n].to : nodes'[n].to[i] \in Of({"block"})'
    BY <1>9, <2>1, <2>4
  <2>8. QED
    BY <2>2, <2>3, <2>5, <2>6, <2>7 DEF NodesOK, NodeSet, Kind, Shape
<1>15. Acyclic'
  <2>1. ASSUME NEW S \in SUBSET Id, S # {} PROVE \E n \in S : Range(nodes'[n].use) \cap S = {}
    <3> DEFINE R == Reaches(u)
    <3>1. u \in R /\ R \subseteq Id /\ \A n \in R : Range(nodes[n].use) \subseteq R
      BY <1>2, ReachFacts
    <3> HIDE DEF R
    <3>2. CASE S \cap R # {}
      <4>1. PICK n \in S \cap R : Range(nodes[n].use) \cap (S \cap R) = {}
        BY <3>2 DEF Acyclic
      <4>2. n # c
        BY <4>1 DEF R
      <4>3. QED
        BY <1>12, <3>1, <4>1, <4>2
    <3>3. CASE S \cap R = {}
      <4>1. PICK n \in S : Range(nodes[n].use) \cap S = {}
        BY <2>1 DEF Acyclic
      <4>2. Range(nodes'[n].use) \subseteq Range(nodes[n].use) \cup {u}
        BY <1>6, <1>7, <1>8
      <4>3. QED
        BY <3>1, <3>3, <4>1, <4>2
    <3>4. QED
      BY <3>2, <3>3
  <2>2. QED
    BY <1>9, <2>1 DEF Acyclic
<1>16. QED
  BY <1>9, <1>14, <1>15

LEMMA Made ==
  ASSUME IInv, NEW node \in NodeSet, Make(node),
         node.kind \notin {"arg", "var"},
         \A i \in DOMAIN node.use : node.use[i] \in Of(OperandKinds),
         \A i \in DOMAIN node.to : node.to[i] \in Of({"block"}),
         node.kind = "block" => node.use = <<>>,
         node.kind = "alias" => Len(node.use) = 1,
         body' = body \/ body' = Append(body, Len(nodes) + 1)
  PROVE  IInv'
<1>1. NodesOK /\ Acyclic /\ BodyOK /\ fpc = "build" /\ fpc' = "build" /\ nodes' = Append(nodes, node)
  BY DEF IInv, Make
<1>2. NodesOK' /\ Acyclic' /\ Id' = Id \cup {Len(nodes) + 1}
  BY <1>1, NodeAppended
<1>3. Id = 1 .. Len(nodes) /\ Len(nodes) \in Nat /\ {1, 2, 3} \subseteq Id
  BY <1>1, NodeFacts
<1>4. BodyOK'
  <2>1. Range(body) \subseteq Id
    BY <1>1 DEF BodyOK, Range
  <2>2. Len(nodes) + 1 \notin Id /\ Len(nodes) + 1 \notin {1, 3} /\ Len(nodes) + 1 \in Id'
    BY <1>2, <1>3
  <2>3. Id \subseteq Id' /\ Len(nodes) + 1 \notin Range(body)
    BY <1>2, <2>1, <2>2
  <2>4. CASE body' = body
    BY <1>1, <2>3, <2>4, BodyKept
  <2>5. CASE body' = Append(body, Len(nodes) + 1)
    BY <1>1, <2>2, <2>3, <2>5, BodyGrown
  <2>6. QED
    BY <2>4, <2>5
<1>5. Unstarted'
  <2>1. Unstarted
    BY <1>1 DEF IInv
  <2>2. iota' = [n \in Id' |-> 0]
    <3>1. iota = [n \in 1 .. Len(nodes) |-> 0] /\ iota' = Append(iota, 0)
      BY <1>3, <2>1 DEF Unstarted, Make
    <3>2. iota \in Seq(Nat) /\ Len(iota) = Len(nodes)
      BY <1>3, <3>1
    <3>3. iota' = [n \in 1 .. Len(nodes) + 1 |-> 0]
      BY <1>3, <3>1, <3>2
    <3>4. Id' = 1 .. Len(nodes) + 1
      BY <1>2, <1>3
    <3>5. QED
      BY <3>3, <3>4
  <2>3. ssa' = {} /\ calls' = <<>> /\ code' = <<>> /\ at' = 1 /\ locals' = 0 /\ blocks' = 0
    BY <2>1 DEF Unstarted, Make
  <2>4. QED
    BY <2>2, <2>3 DEF Unstarted
<1>6. QED
  BY <1>1, <1>2, <1>4, <1>5 DEF IInv

LEMMA HostInv ==
  ASSUME IInv, Host
  PROVE  IInv'
<1>1. NodesOK /\ Acyclic /\ BodyOK
  BY DEF IInv
<1>2. Id \subseteq Nat
  BY <1>1, NodeFacts
<1>3. /\ Values \subseteq Of(OperandKinds) /\ Addresses \subseteq Of(OperandKinds)
      /\ \A K : Of(K) \subseteq Id
      /\ \A K : Of(K) \subseteq Nat
  BY <1>2 DEF Values, Addresses, Of, Defining, OperandKinds
<1>4. \A kind \in Kinds : \A use \in Seq(Nat), to \in Seq(Nat) :
        /\ Node(kind, use, to) \in NodeSet /\ Node(kind, use, to).kind = kind
        /\ Node(kind, use, to).use = use /\ Node(kind, use, to).to = to
        /\ kind \notin {"arg", "var"}
  BY DEF Node, NodeSet, Kinds, AllKinds
<1> DEFINE Good(node) ==
             /\ node \in NodeSet /\ node.kind \notin {"arg", "var"}
             /\ \A i \in DOMAIN node.use : node.use[i] \in Of(OperandKinds)
             /\ \A i \in DOMAIN node.to : node.to[i] \in Of({"block"})
             /\ node.kind = "block" => node.use = <<>>
             /\ node.kind = "alias" => Len(node.use) = 1
<1>5. ASSUME NEW node, Good(node), Make(node), body' = body \/ body' = Append(body, Len(nodes) + 1)
      PROVE  IInv'
  BY <1>5, Made
<1>6. \A node : Good(node) /\ Build(node) => IInv'
  BY <1>5 DEF Build
<1> DEFINE Us == Seq(Of(OperandKinds))
           Bs == Seq(Of({"block"}))
<1>7. \A kind \in Kinds : \A use \in Us, to \in Bs :
         (kind = "block" => use = <<>>) /\ (kind = "alias" => Len(use) = 1) => Good(Node(kind, use, to))
  <2>1. ASSUME NEW kind \in Kinds, NEW use \in Us, NEW to \in Bs,
               kind = "block" => use = <<>>, kind = "alias" => Len(use) = 1
        PROVE  Good(Node(kind, use, to))
    <3>1. use \in Seq(Nat) /\ to \in Seq(Nat)
      BY <1>3
    <3>2. /\ \A i \in DOMAIN use : use[i] \in Of(OperandKinds)
          /\ \A i \in DOMAIN to : to[i] \in Of({"block"})
      OBVIOUS
    <3>3. QED
      BY <1>4, <2>1, <3>1, <3>2
  <2>2. QED
    BY <2>1
<1>8. /\ <<>> \in Us /\ <<>> \in Bs
      /\ \A u \in Of(OperandKinds) : <<u>> \in Us /\ Len(<<u>>) = 1
      /\ \A u, v \in Of(OperandKinds) : <<u, v>> \in Us
      /\ \A b \in Of({"block"}) : <<b>> \in Bs
      /\ \A b, c \in Of({"block"}) : <<b, c>> \in Bs
  OBVIOUS
<1> HIDE DEF Good, Us, Bs
<1>9. ASSUME NEW u \in Values, BuildOp(u) PROVE IInv'
  <2>1. Good(Node("op", <<u>>, <<>>))
    BY <1>3, <1>7, <1>8, <1>9 DEF Kinds
  <2>2. QED
    BY <1>6, <1>9, <2>1 DEF BuildOp
<1>10. ASSUME NEW u \in Addresses, BuildStructLoad(u) PROVE IInv'
  <2>1. Good(Node("alias", <<u>>, <<>>))
    BY <1>3, <1>7, <1>8, <1>10 DEF Kinds
  <2>2. QED
    BY <1>6, <1>10, <2>1 DEF BuildStructLoad
<1>11. ASSUME NEW u \in Addresses, NEW v \in Values, BuildStore(u, v) PROVE IInv'
  <2>1. Good(Node("store", <<u, v>>, <<>>))
    BY <1>3, <1>7, <1>8, <1>11 DEF Kinds
  <2>2. QED
    BY <1>6, <1>11, <2>1 DEF BuildStore
<1>12. ASSUME NEW u \in Values, NEW v \in Values, NEW b \in Of({"block"}), NEW c \in Of({"block"}),
              BuildPhi(u, v, b, c)
       PROVE  IInv'
  <2>1. Good(Node("phi", <<u, v>>, <<b, c>>))
    BY <1>3, <1>7, <1>8, <1>12 DEF Kinds
  <2>2. QED
    BY <1>6, <1>12, <2>1 DEF BuildPhi
<1>13. ASSUME NEW b \in Of({"block"}), BuildJump(b) PROVE IInv'
  <2>1. Good(Node("jump", <<>>, <<b>>))
    BY <1>7, <1>8 DEF Kinds
  <2>2. QED
    BY <1>6, <1>13, <2>1 DEF BuildJump
<1>14. ASSUME NEW u \in Values, NEW b \in Of({"block"}), NEW c \in Of({"block"}), BuildBranch(u, b, c)
       PROVE  IInv'
  <2>1. Good(Node("branch", <<u>>, <<b, c>>))
    BY <1>3, <1>7, <1>8, <1>14 DEF Kinds
  <2>2. QED
    BY <1>6, <1>14, <2>1 DEF BuildBranch
<1>15. ASSUME NEW u \in Values, BuildReturn(u) PROVE IInv'
  <2>1. Good(Node("ret", <<u>>, <<>>))
    BY <1>3, <1>7, <1>8, <1>15 DEF Kinds
  <2>2. QED
    BY <1>6, <1>15, <2>1 DEF BuildReturn
<1>16. ASSUME NEW kind \in {"call", "void", "block"}, Make(Node(kind, <<>>, <<>>)), body' = body PROVE IInv'
  <2>1. Good(Node(kind, <<>>, <<>>))
    BY <1>3, <1>7, <1>8, <1>16 DEF Kinds
  <2>2. QED
    BY <1>5, <1>16, <2>1
<1>17. ASSUME NEW c \in Of({"call", "void"}), NEW u \in Values, CallAddArg(c, u) PROVE IInv'
  <2>1. NodesOK' /\ Acyclic' /\ Id' = Id
    BY <1>1, <1>3, <1>17, ArgumentAdded DEF CallAddArg
  <2>2. BodyOK'
    BY <1>1, <1>17, <2>1, BodyKept DEF CallAddArg
  <2>3. fpc' = "build" /\ Unstarted'
    BY <1>17, <2>1 DEF CallAddArg, IInv, Unstarted, names
  <2>4. QED
    BY <2>1, <2>2, <2>3 DEF IInv
<1>18. ASSUME NEW n \in Of({"call", "void", "block"}), Place(n) PROVE IInv'
  <2>1. n \in Id /\ Kind(n) \in {"call", "void", "block"}
    BY DEF Of, Kind
  <2>2. n \notin {1, 3}
    BY <1>1, <2>1 DEF NodesOK
  <2>3. nodes' = nodes /\ Id' = Id
    BY <1>18 DEF Place, Id
  <2>4. BodyOK'
    BY <1>1, <1>18, <2>1, <2>2, <2>3, BodyGrown DEF Place
  <2>5. NodesOK' /\ Acyclic'
    BY <1>1, <2>3, ZenonT(60) DEF NodesOK, Acyclic, Kind, Of
  <2>6. fpc' = "build" /\ Unstarted'
    BY <1>18, <2>3 DEF Place, IInv, Unstarted, names
  <2>7. QED
    BY <2>4, <2>5, <2>6 DEF IInv
<1>19. QED
  BY <1>9, <1>10, <1>11, <1>12, <1>13, <1>14, <1>15, <1>16, <1>17, <1>18 DEF Host, CallNew, BlockNew

-----------------------------------------------------------------------------
(* qbe_compile: the nodes and the body stay as they are.                   *)
LEMMA BuiltKept ==
  ASSUME NodesOK, Acyclic, BodyOK, UNCHANGED built
  PROVE  /\ NodesOK' /\ Acyclic' /\ BodyOK' /\ Id' = Id
         /\ \A K : Of(K)' = Of(K)
         /\ \A n : Kind(n)' = Kind(n) /\ Operands(n)' = Operands(n)
         /\ \A n : Reaches(n)' = Reaches(n) /\ Root(n)' = Root(n)
<1>1. nodes' = nodes /\ body' = body
  BY DEF built
<1>2. Id' = Id /\ \A n : Kind(n)' = Kind(n) /\ Operands(n)' = Operands(n)
  BY <1>1 DEF Id, Kind, Operands
<1>3. NodesOK' /\ Acyclic' /\ BodyOK'
  BY <1>1, <1>2, ZenonT(60) DEF NodesOK, Acyclic, BodyOK, Kind, Of
<1>4. \A K : Of(K)' = Of(K)
  BY <1>1, <1>2 DEF Of
<1>5. \A n : Reaches(n)' = Reaches(n)
  BY <1>1, <1>2 DEF Reaches
<1>6. \A n : Root(n)' = Root(n)
  BY <1>1, <1>2 DEF Root, Operands
<1>7. QED
  BY <1>2, <1>3, <1>4, <1>5, <1>6

LEMMA CompileInv ==
  ASSUME IInv, Compile
  PROVE  IInv'
<1>1. /\ NodesOK /\ Acyclic /\ BodyOK /\ Unstarted /\ nodes' = nodes /\ body' = body
      /\ fpc' = "compile" /\ at' = 2 /\ locals' = 2 /\ blocks' = 2 /\ ssa' = {1, 3} /\ calls' = <<>>
      /\ iota' = [iota EXCEPT ![1] = 0, ![2] = 1, ![3] = 1]
  BY DEF IInv, Compile, Unstarted
<1>2. /\ NodesOK' /\ Acyclic' /\ BodyOK' /\ Id' = Id
      /\ \A K : Of(K)' = Of(K)
      /\ \A n : Kind(n)' = Kind(n) /\ Operands(n)' = Operands(n)
      /\ \A n : Reaches(n)' = Reaches(n) /\ Root(n)' = Root(n)
  BY <1>1, BuiltKept DEF built
<1>3. /\ {1, 2, 3} \subseteq Id /\ Kind(1) = "arg" /\ Kind(2) = "block" /\ Kind(3) = "var"
      /\ \A n \in Id : n \in Nat
  BY <1>1, NodeFacts DEF NodesOK
<1>4. nodes[1].use = <<>> /\ nodes[3].use = <<>>
  BY <1>1, <1>3 DEF NodesOK
<1>5. iota' \in [Id -> Nat] /\ iota'[1] = 0 /\ iota'[2] = 1 /\ iota'[3] = 1 /\ \A n \in Id \ {1, 2, 3} : iota'[n] = 0
  <2>1. iota = [n \in Id |-> 0]
    BY <1>1 DEF Unstarted
  <2>2. QED
    BY <1>1, <1>3, <2>1
<1>6. /\ DOMAIN code' = {1, 2, 3} /\ Len(code') = 3
      /\ \A p \in {1, 2, 3} : code'[p].n = p /\ code'[p].use = <<>>
      /\ code'[1].def = <<0>> /\ code'[2].def = <<>> /\ code'[3].def = <<1>>
      /\ code'[1].to = <<>> /\ code'[2].to = <<1>> /\ code'[3].to = <<>>
  BY DEF Compile, Entry
<1>7. code' \in Seq([n : Id, def : Seq(Nat), use : Seq(Nat), to : Seq(Nat)])
  <2> DEFINE R == [n : Id, def : Seq(Nat), use : Seq(Nat), to : Seq(Nat)]
  <2>1. <<>> \in Seq(Nat) /\ <<0>> \in Seq(Nat) /\ <<1>> \in Seq(Nat)
    OBVIOUS
  <2>2. Entry(1, <<0>>, <<>>, <<>>) \in R /\ Entry(2, <<>>, <<>>, <<1>>) \in R /\ Entry(3, <<1>>, <<>>, <<>>) \in R
    BY <1>3, <2>1 DEF Entry
  <2>3. code' = <<Entry(1, <<0>>, <<>>, <<>>), Entry(2, <<>>, <<>>, <<1>>), Entry(3, <<1>>, <<>>, <<>>)>>
    BY DEF Compile
  <2> HIDE DEF R
  <2>4. code' \in Seq(R)
    BY <2>2, <2>3
  <2>5. QED
    BY <2>4 DEF R
<1>8. (Of({"block"}) \subseteq Range(body))'
  <2>1. \A n \in Id : nodes[n].kind = "block" => n \in Range(body)
    BY DEF Compile
  <2>2. QED
    BY <1>1, <1>2, <2>1 DEF Of
<1>9. Marked'
  <2>1. \A n \in ssa' : Kind(n) \notin ControlKinds /\ nodes[n].use = <<>>
    BY <1>1, <1>3, <1>4 DEF ControlKinds
  <2>2. \A n \in ssa' : Range(nodes'[n].use) = {}
    BY <1>1, <2>1 DEF Range
  <2>3. QED
    BY <1>1, <1>2, <1>3, <2>1, <2>2 DEF Marked, Kind
<1>10. StackOK'
  BY <1>1 DEF StackOK
<1>11. Through' = 1
  BY <1>1 DEF Through
<1>12. body' \in Seq(Id) /\ Len(body') >= 1 /\ Len(body') \in Nat /\ body'[1] = 2
  BY <1>1 DEF BodyOK
<1>13. Statements'
  BY <1>1, <1>2, <1>3, <1>6, <1>11, <1>12 DEF Statements, ControlKinds
<1>14. TextOK'
  <2>1. \A p \in DOMAIN code' : \A r \in DOMAIN code' : code'[p].n = code'[r].n => p = r
    BY <1>6
  <2>2. ASSUME NEW p \in DOMAIN code', NEW n, n = code'[p].n
        PROVE  /\ Kind(n) # "alias"
               /\ IF Kind(n) \in ControlKinds THEN \E h \in 1 .. 1 : body'[h] = n ELSE n \in ssa'
               /\ code'[p].def = IF Kind(n) \in Named THEN <<iota'[n]>> ELSE <<>>
    <3>1. CASE p = 1
      BY <1>1, <1>3, <1>5, <1>6, <2>2, <3>1 DEF ControlKinds, Named
    <3>2. CASE p = 2
      BY <1>1, <1>3, <1>5, <1>6, <1>12, <2>2, <3>2 DEF ControlKinds, Named
    <3>3. CASE p = 3
      BY <1>1, <1>3, <1>5, <1>6, <2>2, <3>3 DEF ControlKinds, Named
    <3>4. QED
      BY <1>6, <3>1, <3>2, <3>3
  <2>3. QED
    BY <1>2, <1>7, <1>11, <2>1, <2>2 DEF TextOK
<1>15. Written'
  <2>1. \A n \in ssa' : n \in {1, 3} /\ Kind(n) \in {"arg", "var"} /\ iota'[n] < locals'
                        /\ \E p \in DOMAIN code' : code'[p].n = n
    BY <1>1, <1>3, <1>5, <1>6
  <2>2. \A m, n \in ssa' : iota'[m] = iota'[n] => m = n
    BY <1>1, <1>5
  <2>3. locals' \in Nat /\ iota' \in [Id' -> Nat]
    BY <1>1, <1>2, <1>5
  <2>4. \A n \in ssa' : Kind(n) # "alias"
    BY <2>1
  <2>5. \A n \in Id : iota'[n] < locals'
    BY <1>1, <1>5
  <2>6. QED
    BY <1>2, <2>1, <2>2, <2>3, <2>4, <2>5 DEF Written
<1>16. UsesOK'
  BY <1>6 DEF UsesOK
<1>17. LabelsOK'
  <2>1. blocks' \in Nat \ {0}
    BY <1>1
  <2>2. \A c \in Of({"block"}) : c \in Id /\ c \notin {1, 3}
    BY <1>3 DEF Of, Kind
  <2>3. /\ \A c \in Of({"block"}) : iota'[c] < 2
        /\ \A c, d \in Of({"block"}) : iota'[c] = iota'[d] /\ iota'[c] # 0 => c = d
    BY <1>5, <2>2
  <2>4. 2 \in Of({"block"})
    BY <1>3 DEF Of, Kind
  <2>5. \A i : Target(2, i) = 2
    BY <1>3 DEF Target
  <2>6. ASSUME NEW p \in DOMAIN code'
        PROVE  /\ \A i \in DOMAIN code'[p].to :
                    /\ Target(code'[p].n, i) \in Of({"block"}) /\ iota'[Target(code'[p].n, i)] # 0
                    /\ code'[p].to[i] = iota'[Target(code'[p].n, i)]
               /\ Kind(code'[p].n) = "block" => 1 \in DOMAIN code'[p].to
    <3>1. CASE p = 2
      <4>1. code'[p].n = 2 /\ DOMAIN code'[p].to = {1} /\ code'[p].to[1] = 1
        BY <1>6, <3>1
      <4>2. QED
        BY <1>5, <2>4, <2>5, <4>1
    <3>2. CASE p # 2
      <4>1. DOMAIN code'[p].to = {} /\ Kind(code'[p].n) # "block"
        BY <1>3, <1>6, <3>2
      <4>2. QED
        BY <4>1
    <3>3. QED
      BY <3>1, <3>2
  <2>7. \A n, i : Target(n, i)' = Target(n, i)
    BY <1>1, <1>2 DEF Target
  <2>8. Of({"block"})' = Of({"block"})
    BY <1>2
  <2>9. \A p \in DOMAIN code' :
          /\ \A i \in DOMAIN code'[p].to :
               LET c == Target(code[p].n, i)'
               IN c \in Of({"block"})' /\ iota'[c] # 0 /\ code'[p].to[i] = iota'[c]
          /\ Kind(code[p].n)' = "block" => 1 \in DOMAIN code'[p].to
    BY <1>2, <2>6, <2>7, <2>8
  <2>10. \A c \in Of({"block"})' : iota'[c] < blocks'
    BY <1>1, <2>3, <2>8
  <2>11. \A c, d \in Of({"block"})' : iota'[c] = iota'[d] /\ iota'[c] # 0 => c = d
    BY <2>3, <2>8
  <2>12. QED
    BY <2>1, <2>9, <2>10, <2>11 DEF LabelsOK
<1>18. OrderOK'
  <2>1. 2 \in Reaches(2) /\ Reaches(2)' = Reaches(2)
    BY <1>1, <1>2, <1>3, ReachFacts
  <2>2. \A p \in DOMAIN code' : code'[p].n \in {1, 3} \/ \E h \in 1 .. at' - 1 : code'[p].n \in Reaches(body[h])'
    <3>1. 2 \in Reaches(body[1])'
      BY <1>2, <1>3, <1>12, <2>1
    <3>2. 1 \in 1 .. at' - 1
      BY <1>1
    <3>3. QED
      BY <1>6, <3>1, <3>2
  <2>3. \A k \in DOMAIN body' : body'[k] \notin {1, 3}
    BY <1>1 DEF BodyOK
  <2>4. \A j, k \in DOMAIN body' : body'[j] = body'[k] => j = k
    BY <1>1 DEF BodyOK
  <2>5. ASSUME NEW j \in DOMAIN body', NEW k \in DOMAIN body', j < k, NEW p \in DOMAIN code', NEW r \in DOMAIN code',
               code'[p].n = body'[j], code'[r].n = body'[k]
        PROVE  FALSE
    <3>1. code'[p].n = 2 /\ code'[r].n = 2
      BY <1>6, <2>3, <2>5
    <3>2. j = k
      BY <2>4, <2>5, <3>1
    <3>3. QED
      BY <1>12, <2>5, <3>2
  <2>6. DOMAIN calls' = {}
    BY <1>1
  <2>7. QED
    BY <2>2, <2>5, <2>6 DEF OrderOK
<1>19. QED
  BY <1>1, <1>2, <1>8, <1>9, <1>10, <1>13, <1>14, <1>15, <1>16, <1>17, <1>18 DEF IInv

StackFacts ==
  /\ Len(calls) \in Nat /\ DOMAIN calls = 1 .. Len(calls)
  /\ \A q \in 1 .. Len(calls) :
       /\ calls[q] \in [n : Id, i : Nat] /\ calls[q].n \in Id /\ calls[q].i \in Nat
       /\ Len(Operands(calls[q].n)) \in Nat
       /\ DOMAIN Operands(calls[q].n) = 1 .. Len(Operands(calls[q].n))

LEMMA StackTyped ==
  ASSUME NodesOK, StackOK
  PROVE  StackFacts
<1> DEFINE R == [n : Id, i : Nat]
<1>1. calls \in Seq(R)
  BY DEF StackOK
<1>2. Len(calls) \in Nat /\ DOMAIN calls = 1 .. Len(calls) /\ \A q \in 1 .. Len(calls) : calls[q] \in R
  <2> HIDE DEF R
  <2>1. QED
    BY <1>1
<1>3. \A q \in 1 .. Len(calls) : calls[q].n \in Id /\ calls[q].i \in Nat
  BY <1>2
<1>4. \A m \in Id : Operands(m) \in Seq(Nat)
  BY NodeFacts DEF Operands
<1>5. QED
  BY <1>2, <1>3, <1>4 DEF StackFacts

(* No call of qbe_compile_node is inside another one of the same node.     *)
LEMMA StackDistinct ==
  ASSUME NodesOK, Acyclic, StackOK
  PROVE  \A h, k \in DOMAIN calls : calls[h].n = calls[k].n => h = k
<1>1. StackFacts
  BY StackTyped
<1>2. ASSUME NEW q \in DOMAIN calls, q > 1
      PROVE  q - 1 \in DOMAIN calls /\ calls[q - 1].n \in Range(nodes[calls[q].n].use)
  <2>1. calls[q].i >= 2 /\ Operands(calls[q].n)[calls[q].i - 1] = calls[q - 1].n
        /\ calls[q].i <= Len(Operands(calls[q].n)) + 1
    BY <1>2 DEF StackOK
  <2>2. calls[q].i - 1 \in DOMAIN Operands(calls[q].n)
    BY <1>1, <2>1 DEF StackFacts
  <2>3. q - 1 \in DOMAIN calls
    BY <1>1, <1>2 DEF StackFacts
  <2>4. QED
    BY <2>1, <2>2, <2>3 DEF Range, Operands
<1>3. ASSUME NEW h \in DOMAIN calls, NEW k \in DOMAIN calls, h < k, calls[h].n = calls[k].n
      PROVE  FALSE
  <2> DEFINE S == {calls[q].n : q \in h .. k}
  <2>1. h .. k \subseteq DOMAIN calls /\ h \in h .. k /\ k \in h .. k
    BY <1>1, <1>3 DEF StackFacts
  <2>2. S \subseteq Id /\ S # {}
    BY <1>1, <2>1 DEF StackFacts
  <2>3. PICK m \in S : Range(nodes[m].use) \cap S = {}
    BY <2>2 DEF Acyclic
  <2>4. PICK q \in h .. k : m = calls[q].n
    BY <2>3
  <2>5. PICK r \in h .. k : m = calls[r].n /\ r > h
    <3>1. CASE q = h
      BY <1>1, <1>3, <2>1, <2>4, <3>1 DEF StackFacts
    <3>2. CASE q # h
      BY <1>1, <1>3, <2>4, <3>2 DEF StackFacts
    <3>3. QED
      BY <3>1, <3>2
  <2>6. r \in DOMAIN calls /\ r > 1 /\ r - 1 \in h .. k
    BY <1>1, <1>3, <2>1, <2>5 DEF StackFacts
  <2>7. calls[r - 1].n \in Range(nodes[m].use) /\ calls[r - 1].n \in S
    BY <1>2, <2>5, <2>6
  <2>8. QED
    BY <2>3, <2>7
<1>4. QED
  <2>1. ASSUME NEW h \in DOMAIN calls, NEW k \in DOMAIN calls, calls[h].n = calls[k].n PROVE h = k
    <3>1. ~ (h < k) /\ ~ (k < h)
      BY <1>3, <2>1
    <3>2. QED
      BY <1>1, <3>1 DEF StackFacts
  <2>2. QED
    BY <2>1

(* A call that waits for the operand u of its node.                        *)
Inner(m, j, u) ==
  /\ j <= Len(Operands(m)) + 1
  /\ j # 0 => m \notin ssa
  /\ j >= 2
  /\ Operands(m)[j - 1] = u
  /\ \A i \in 1 .. j - 1 : i < j - 1 => Operands(m)[i] \in ssa

LEMMA InnerNext ==
  ASSUME NEW m, NEW j \in Nat, j >= 1, j <= Len(Operands(m)), Len(Operands(m)) \in Nat,
         m \notin ssa, \A i \in 1 .. j - 1 : Operands(m)[i] \in ssa
  PROVE  Inner(m, j + 1, Operands(m)[j])
<1>1. j + 1 - 1 = j /\ j + 1 <= Len(Operands(m)) + 1 /\ j + 1 >= 2
  OBVIOUS
<1>2. \A i \in 1 .. j : i < j => i \in 1 .. j - 1
  OBVIOUS
<1>3. \A i \in 1 .. j : i < j => Operands(m)[i] \in ssa
  BY <1>2
<1>4. QED
  BY <1>1, <1>3 DEF Inner

(* A call returns: its node is compiled, or it was the statement.          *)
LEMMA Popped ==
  ASSUME NodesOK, StackOK, calls # <<>>, calls' = Tail(calls), UNCHANGED <<nodes, body, at>>,
         ssa \subseteq ssa', Len(calls) = 1 \/ calls[1].n \in ssa',
         \A q \in 2 .. Len(calls) : calls[q].n \notin ssa
                                  => calls[q].n \notin ssa'
  PROVE  /\ StackOK'
         /\ Through' = IF Len(calls) = 1 THEN at - 1 ELSE at - 2
         /\ DOMAIN calls' = 1 .. Len(calls) - 1
         /\ \A q \in 1 .. Len(calls) - 1 : q + 1 \in DOMAIN calls /\ calls'[q] = calls[q + 1]
<1>1. StackFacts
  BY StackTyped
<1> DEFINE R == [n : Id, i : Nat]
           last == Len(calls) - 1
<1>2. calls \in Seq(R)
  BY DEF StackOK
<1>3. /\ calls' \in Seq(R) /\ Len(calls') = last /\ DOMAIN calls' = 1 .. last /\ last \in Nat
      /\ \A q \in 1 .. last : q + 1 \in 2 .. Len(calls) /\ calls'[q] = calls[q + 1]
  <2> HIDE DEF R
  <2>1. QED
    BY <1>2
<1>4. \A m : Operands(m)' = Operands(m)
  BY DEF Operands
<1>5. Id' = Id
  BY DEF Id
<1>6. calls' # <<>> => calls'[Len(calls')].n = body[at - 1]
  <2>1. ASSUME calls' # <<>> PROVE calls'[Len(calls')].n = body[at - 1]
    <3>1. last \in 1 .. last
      BY <1>2, <1>3, <2>1
    <3>2. calls'[last] = calls[last + 1] /\ last + 1 = Len(calls)
      BY <1>1, <1>3, <3>1 DEF StackFacts
    <3>3. QED
      BY <1>3, <3>2 DEF StackOK
  <2>2. QED
    BY <2>1
<1>7. ASSUME NEW q \in 1 .. last
      PROVE  /\ calls'[q].i <= Len(Operands(calls'[q].n)) + 1
             /\ calls'[q].i # 0 => calls'[q].n \notin ssa'
             /\ q > 1 => calls'[q].i >= 2 /\ Operands(calls'[q].n)[calls'[q].i - 1] = calls'[q - 1].n
             /\ \A i \in 1 .. calls'[q].i - 1 :
                  q = 1 \/ i < calls'[q].i - 1 => Operands(calls'[q].n)[i] \in ssa'
  <2> DEFINE m == calls[q + 1].n
             j == calls[q + 1].i
  <2>1. q + 1 \in DOMAIN calls /\ q + 1 > 1 /\ calls'[q].n = m /\ calls'[q].i = j /\ q + 1 - 1 = q /\ q + 1 # 1
        /\ q + 1 \in 2 .. Len(calls)
    BY <1>1, <1>3 DEF StackFacts
  <2>2. /\ j <= Len(Operands(m)) + 1 /\ m \notin ssa
        /\ j >= 2 /\ Operands(m)[j - 1] = calls[q].n
        /\ \A i \in 1 .. j - 1 : i < j - 1 => Operands(m)[i] \in ssa
    <3>1. \A r \in DOMAIN calls : r > 1 => Inner(calls[r].n, calls[r].i, calls[r - 1].n)
      BY DEF StackOK, Inner
    <3>2. Inner(m, j, calls[q].n)
      BY <2>1, <3>1
    <3>3. j \in Nat
      BY <1>1, <2>1 DEF StackFacts
    <3> HIDE DEF m, j
    <3>4. QED
      BY <3>2, <3>3 DEF Inner
  <2>3. j \in Nat
    BY <1>1, <2>1 DEF StackFacts
  <2> HIDE DEF m, j
  <2>4. m \notin ssa'
    BY <2>1, <2>2 DEF m
  <2>5. q > 1 => calls'[q - 1].n = calls[q].n
    <3>1. ASSUME q > 1 PROVE calls'[q - 1].n = calls[q].n
      <4>1. q - 1 \in 1 .. last /\ q - 1 + 1 = q
        BY <1>3, <3>1
      <4>2. QED
        BY <1>3, <4>1
    <3>2. QED
      BY <3>1
  <2>6. \A i \in 1 .. j - 1 : q = 1 \/ i < j - 1 => Operands(m)[i] \in ssa'
    <3>1. ASSUME NEW i \in 1 .. j - 1, q = 1 \/ i < j - 1 PROVE Operands(m)[i] \in ssa'
      <4>1. CASE i < j - 1
        BY <2>2, <4>1
      <4>2. CASE ~ (i < j - 1)
        <5>1. i = j - 1 /\ q = 1
          BY <2>3, <3>1, <4>2
        <5>2. calls[1].n \in ssa'
          BY <1>1, <1>3, <2>1, SMTT(30) DEF StackFacts
        <5>3. QED
          BY <2>2, <5>1, <5>2
      <4>3. QED
        BY <4>1, <4>2
    <3>2. QED
      BY <3>1
  <2>7. QED
    BY <2>1, <2>2, <2>4, <2>5, <2>6
<1>8. StackOK'
  BY <1>3, <1>4, <1>5, <1>6, <1>7 DEF StackOK
<1>9. Through' = IF Len(calls) = 1 THEN at - 1 ELSE at - 2
  <2>1. calls' = <<>> <=> Len(calls) = 1
    <3>1. calls' \in Seq(R) /\ Len(calls') = Len(calls) - 1 /\ Len(calls) \in Nat
      BY <1>1, <1>3 DEF StackFacts
    <3> HIDE DEF R, last
    <3>2. \A s \in Seq(R) : s = <<>> <=> Len(s) = 0
      OBVIOUS
    <3>3. calls' = <<>> <=> Len(calls') = 0
      BY <3>1, <3>2
    <3>4. QED
      BY <3>1, <3>3
  <2>2. QED
    BY <2>1 DEF Through
<1>10. QED
  BY <1>1, <1>3, <1>8, <1>9 DEF StackFacts

LEMMA Wider ==
  ASSUME NEW a \in Nat, NEW b \in Nat, a <= b
  PROVE  \A h \in 1 .. a - 1 : h \in 1 .. b - 1
OBVIOUS

(* Steps that write nothing.                                               *)
LEMMA QuietInv ==
  ASSUME IInv, fpc = "compile", fpc' = "compile", UNCHANGED <<built, names, code>>,
         StackOK', Statements', \A h \in 1 .. Through : h \in 1 .. Through',
         at' \in {at, at + 1},
         \A q \in DOMAIN calls' : calls'[q].n \in Reaches(body[at - 1])'
  PROVE  IInv'
<1>1. /\ NodesOK /\ Acyclic /\ BodyOK /\ Of({"block"}) \subseteq Range(body)
      /\ Marked /\ Statements /\ TextOK /\ Written /\ UsesOK /\ LabelsOK /\ OrderOK
  BY DEF IInv
<1>2. /\ nodes' = nodes /\ body' = body /\ ssa' = ssa /\ iota' = iota /\ locals' = locals
      /\ blocks' = blocks /\ code' = code
  BY DEF built, names
<1>3. /\ NodesOK' /\ Acyclic' /\ BodyOK' /\ Id' = Id
      /\ \A K : Of(K)' = Of(K)
      /\ \A n : Kind(n)' = Kind(n) /\ Operands(n)' = Operands(n)
      /\ \A n : Reaches(n)' = Reaches(n) /\ Root(n)' = Root(n)
  BY <1>1, BuiltKept
<1>4. (Of({"block"}) \subseteq Range(body))'
  BY <1>1, <1>2, <1>3
<1>5. Marked'
  BY <1>1, <1>2, <1>3 DEF Marked
<1>6. TextOK'
  BY <1>1, <1>2, <1>3 DEF TextOK
<1>7. Written'
  BY <1>1, <1>2, <1>3 DEF Written
<1>8. UsesOK'
  BY <1>1, <1>2, <1>3 DEF UsesOK
<1>9. LabelsOK'
  BY <1>1, <1>2, <1>3 DEF LabelsOK, Target
<1>10. OrderOK'
  <2>1. \A k : Alone(k)' <=> Alone(k)
    BY <1>2, <1>3 DEF Alone
  <2>2. at \in Nat /\ \A h \in 1 .. at - 1 : h \in 1 .. at' - 1
    <3>1. Len(body) \in Nat /\ at \in 2 .. Len(body) + 1
      BY <1>1 DEF Statements, BodyOK
    <3>2. at \in Nat /\ at' \in Nat /\ at <= at'
      BY <3>1
    <3>3. QED
      BY <3>2, Wider
  <2>3. \A p \in DOMAIN code' :
          code'[p].n \in {1, 3} \/ \E h \in 1 .. at' - 1 : code'[p].n \in Reaches(body[h])'
    <3>1. ASSUME NEW p \in DOMAIN code, code[p].n \notin {1, 3}
          PROVE  \E h \in 1 .. at' - 1 : code[p].n \in Reaches(body[h])
      <4>1. PICK h \in 1 .. at - 1 : code[p].n \in Reaches(body[h])
        BY <1>1, <3>1 DEF OrderOK
      <4>2. QED
        BY <2>2, <4>1
    <3>2. QED
      BY <1>2, <1>3, <3>1
  <2>4. \A j, k \in DOMAIN body' : j < k /\ Alone(k)' =>
          \A p, r \in DOMAIN code' : code'[p].n = body'[j] /\ code'[r].n = body'[k] => p < r
    BY <1>1, <1>2, <2>1 DEF OrderOK
  <2>5. QED
    BY <2>3, <2>4 DEF OrderOK
<1>11. QED
  BY <1>3, <1>4, <1>5, <1>6, <1>7, <1>8, <1>9, <1>10 DEF IInv

LEMMA NextStatementInv ==
  ASSUME IInv, NextStatement
  PROVE  IInv'
<1>1. /\ NodesOK /\ Acyclic /\ BodyOK /\ StackOK /\ Statements /\ fpc = "compile" /\ fpc' = "compile"
      /\ calls = <<>> /\ at <= Len(body) /\ calls' = <<[n |-> body[at], i |-> 0]>> /\ at' = at + 1
      /\ UNCHANGED <<built, names, code>>
  BY DEF IInv, NextStatement
<1>2. /\ Id' = Id
      /\ \A n : Kind(n)' = Kind(n) /\ Operands(n)' = Operands(n)
      /\ \A n : Reaches(n)' = Reaches(n) /\ Root(n)' = Root(n)
  BY <1>1, BuiltKept
<1>3. /\ body' = body /\ body \in Seq(Id) /\ Len(body) \in Nat /\ at \in 2 .. Len(body) /\ at \in Nat
      /\ ssa' = ssa /\ code' = code
  BY <1>1 DEF Statements, BodyOK, built, names
<1>4. body[at] \in Id /\ Operands(body[at]) \in Seq(Nat) /\ at' - 1 = at
  <2>1. body[at] \in Id /\ at' - 1 = at
    BY <1>1, <1>3
  <2>2. QED
    BY <1>1, <2>1, NodeFacts DEF Operands
<1>5. /\ Len(calls') = 1 /\ DOMAIN calls' = {1} /\ calls'[1].n = body[at] /\ calls'[1].i = 0
      /\ calls' \in Seq([n : Id, i : Nat])
  BY <1>1, <1>4
<1>6. StackOK'
  BY <1>1, <1>2, <1>3, <1>4, <1>5 DEF StackOK
<1>7. Through' = Through /\ Through = at - 1
  BY <1>1, <1>3 DEF Through
<1>8. Statements'
  <2>1. at' \in 2 .. Len(body') + 1
    BY <1>1, <1>3
  <2>2. \A h \in 1 .. Through' :
          IF Kind(body[h])' \in ControlKinds THEN \E p \in DOMAIN code' : code'[p].n = body'[h]
          ELSE body'[h] \in ssa'
    BY <1>1, <1>2, <1>3, <1>7 DEF Statements
  <2>3. QED
    BY <2>1, <2>2 DEF Statements
<1>9. \A q \in DOMAIN calls' : calls'[q].n \in Reaches(body[at - 1])'
  <2>1. body[at] \in Reaches(body[at])
    BY <1>1, <1>4, ReachFacts
  <2>2. Reaches(body[at - 1])' = Reaches(body[at])
    BY <1>2, <1>3, <1>4
  <2>3. QED
    BY <1>5, <2>1, <2>2
<1>10. QED
  BY <1>1, <1>6, <1>7, <1>8, <1>9, QuietInv

LEMMA EnterInv ==
  ASSUME IInv, Enter
  PROVE  IInv'
<1>1. /\ NodesOK /\ Acyclic /\ BodyOK /\ StackOK /\ Statements /\ Marked /\ OrderOK
      /\ fpc = "compile" /\ fpc' = "compile"
      /\ calls # <<>> /\ UNCHANGED <<built, names, code, at>>
  BY DEF IInv, Enter
<1>2. /\ Id' = Id
      /\ \A n : Kind(n)' = Kind(n) /\ Operands(n)' = Operands(n)
      /\ \A n : Reaches(n)' = Reaches(n) /\ Root(n)' = Root(n)
  BY <1>1, BuiltKept
<1>3. /\ nodes' = nodes /\ body' = body /\ ssa' = ssa /\ code' = code /\ at' = at /\ at \in Nat
      /\ Len(body) \in Nat /\ Statements
  BY <1>1 DEF Statements, BodyOK, built, names
<1>4. StackFacts /\ Len(calls) >= 1
  BY <1>1, StackTyped DEF StackOK, StackFacts
<1>5. This = calls[1] /\ This.i = 0
  BY <1>1 DEF This, Enter
<1>6. CASE calls[1].n \in ssa
  <2>1. calls' = Tail(calls)
    BY <1>5, <1>6 DEF Enter, Compiled
  <2>2. /\ StackOK'
        /\ Through' = IF Len(calls) = 1 THEN at - 1 ELSE at - 2
        /\ DOMAIN calls' = 1 .. Len(calls) - 1
        /\ \A q \in 1 .. Len(calls) - 1 : q + 1 \in DOMAIN calls /\ calls'[q] = calls[q + 1]
    BY <1>1, <1>3, <1>6, <2>1, Popped
  <2>3. Through = at - 2
    BY <1>1 DEF Through
  <2>4. Statements'
    <3>1. Len(calls) = 1 => body[at - 1] \in ssa
      BY <1>1, <1>6 DEF StackOK
    <3>2. \A h \in 1 .. at - 2 :
            IF Kind(body[h]) \in ControlKinds THEN \E p \in DOMAIN code : code[p].n = body[h]
            ELSE body[h] \in ssa
      BY <1>1, <2>3 DEF Statements
    <3>3. ASSUME NEW h \in 1 .. Through'
          PROVE  IF Kind(body[h]) \in ControlKinds THEN \E p \in DOMAIN code : code[p].n = body[h]
                 ELSE body[h] \in ssa
      <4>1. h \in 1 .. at - 2 \/ (h = at - 1 /\ Len(calls) = 1)
        BY <1>3, <1>4, <2>2, <3>3 DEF StackFacts
      <4>2. CASE h \in 1 .. at - 2
        BY <3>2, <4>2
      <4>3. CASE h = at - 1 /\ Len(calls) = 1
        <5>1. body[h] \in ssa
          BY <3>1, <4>3
        <5>2. QED
          BY <1>1, <5>1 DEF Marked
      <4>4. QED
        BY <4>1, <4>2, <4>3
    <3>4. \A h \in 1 .. Through' :
            IF Kind(body[h])' \in ControlKinds THEN \E p \in DOMAIN code' : code'[p].n = body'[h]
            ELSE body'[h] \in ssa'
      BY <1>2, <1>3, <3>3
    <3>5. QED
      BY <1>3, <3>4 DEF Statements
  <2>5. \A q \in DOMAIN calls' : calls'[q].n \in Reaches(body[at - 1])'
    BY <1>1, <1>2, <1>3, <2>2 DEF OrderOK
  <2>6. \A h \in 1 .. Through : h \in 1 .. Through'
    BY <1>3, <2>2, <2>3
  <2>7. QED
    BY <1>1, <2>2, <2>4, <2>5, <2>6, QuietInv
<1>7. CASE calls[1].n \notin ssa
  <2> DEFINE R == [n : Id, i : Nat]
             top == [calls[1] EXCEPT !.i = 1]
  <2>1. calls' = <<top>> \o Tail(calls)
    BY <1>5, <1>7 DEF Enter, Compiled
  <2>2. calls \in Seq(R) /\ top \in R /\ top.n = calls[1].n /\ top.i = 1
    BY <1>1, <1>4 DEF StackOK, StackFacts
  <2> HIDE DEF R, top
  <2>3. /\ calls' \in Seq(R) /\ Len(calls') = Len(calls) /\ DOMAIN calls' = DOMAIN calls /\ calls'[1] = top
        /\ \A q \in 2 .. Len(calls) : calls'[q] = calls[q]
    BY <1>4, <2>1, <2>2 DEF StackFacts
  <2>4. \A q \in DOMAIN calls : calls'[q].n = calls[q].n /\ (q # 1 => calls'[q] = calls[q])
    BY <1>4, <2>2, <2>3 DEF StackFacts
  <2>5. calls' # <<>>
    BY <1>4, <2>3
  <2>6. calls'[Len(calls')].n = body[at - 1]
    <3>1. Len(calls) \in DOMAIN calls
      BY <1>4 DEF StackFacts
    <3>2. QED
      BY <1>1, <2>3, <2>4, <3>1 DEF StackOK
  <2>7. ASSUME NEW q \in DOMAIN calls
        PROVE  /\ calls'[q].i <= Len(Operands(calls'[q].n)) + 1
               /\ calls'[q].i # 0 => calls'[q].n \notin ssa'
               /\ q > 1 => calls'[q].i >= 2 /\ Operands(calls'[q].n)[calls'[q].i - 1] = calls'[q - 1].n
               /\ \A i \in 1 .. calls'[q].i - 1 :
                    q = 1 \/ i < calls'[q].i - 1 => Operands(calls'[q].n)[i] \in ssa'
    <3>1. CASE q = 1
      <4>1. calls'[q].n = calls[1].n /\ calls'[q].i = 1 /\ Len(Operands(calls[1].n)) \in Nat
        BY <1>4, <2>2, <2>3, <3>1 DEF StackFacts
      <4>2. QED
        BY <1>3, <1>7, <3>1, <4>1
    <3>2. CASE q # 1
      <4>1. q - 1 \in DOMAIN calls
        BY <1>4, <3>2 DEF StackFacts
      <4>2. calls'[q] = calls[q] /\ calls'[q - 1].n = calls[q - 1].n
        BY <2>4, <3>2, <4>1
      <4>3. QED
        BY <1>1, <1>3, <4>2 DEF StackOK
    <3>3. QED
      BY <3>1, <3>2
  <2>8. StackOK'
    BY <1>2, <1>3, <2>3, <2>6, <2>7 DEF StackOK, R
  <2>9. Through' = Through
    BY <1>1, <1>3, <2>5 DEF Through
  <2>10. Statements'
    BY <1>2, <1>3, <2>9 DEF Statements
  <2>11. \A q \in DOMAIN calls' : calls'[q].n \in Reaches(body[at - 1])'
    BY <1>1, <1>2, <1>3, <2>3, <2>4 DEF OrderOK
  <2>12. QED
    BY <1>1, <2>8, <2>9, <2>10, <2>11, QuietInv
<1>8. QED
  BY <1>6, <1>7

LEMMA OperandInv ==
  ASSUME IInv, CompileOperand
  PROVE  IInv'
<1>1. /\ NodesOK /\ Acyclic /\ BodyOK /\ StackOK /\ Statements /\ Marked /\ OrderOK
      /\ fpc = "compile" /\ fpc' = "compile"
      /\ calls # <<>> /\ UNCHANGED <<built, names, code, at>>
  BY DEF IInv, CompileOperand
<1>2. /\ Id' = Id
      /\ \A n : Kind(n)' = Kind(n) /\ Operands(n)' = Operands(n)
      /\ \A n : Reaches(n)' = Reaches(n) /\ Root(n)' = Root(n)
  BY <1>1, BuiltKept
<1>3. /\ nodes' = nodes /\ body' = body /\ ssa' = ssa /\ code' = code /\ at' = at /\ at \in 2 .. Len(body) + 1
      /\ Len(body) \in Nat
  BY <1>1 DEF Statements, BodyOK, built, names
<1>4. StackFacts /\ Len(calls) >= 1
  BY <1>1, StackTyped DEF StackOK, StackFacts
<1> DEFINE R == [n : Id, i : Nat]
           n == calls[1].n
           j == calls[1].i
           u == Operands(n)[j]
           top == [n |-> u, i |-> 0]
           next == [calls[1] EXCEPT !.i = @ + 1]
<1>5. This = calls[1] /\ j \in DOMAIN Operands(n) /\ calls' = <<top, next>> \o Tail(calls)
  BY <1>1 DEF This, CompileOperand
<1>6. n \in Id /\ j \in Nat /\ j >= 1 /\ j <= Len(Operands(n)) /\ Len(Operands(n)) \in Nat
  BY <1>4, <1>5 DEF StackFacts
<1>7. u \in Range(nodes[n].use) /\ u \in Id
  <2>1. u \in Range(nodes[n].use)
    BY <1>5 DEF Operands, Range
  <2>2. QED
    BY <1>1, <1>6, <2>1, NodeFacts
<1>8. calls \in Seq(R) /\ top \in R /\ next \in R /\ next.n = n /\ next.i = j + 1 /\ top.n = u /\ top.i = 0
  BY <1>1, <1>4, <1>6, <1>7, SMTT(30) DEF StackOK, StackFacts
<1> HIDE DEF R, top, next, u
<1>9. /\ calls' \in Seq(R) /\ Len(calls') = Len(calls) + 1 /\ calls'[1] = top /\ calls'[2] = next
      /\ \A q \in 3 .. Len(calls) + 1 : calls'[q] = calls[q - 1]
  BY <1>4, <1>5, <1>8 DEF StackFacts
<1>10. DOMAIN calls' = 1 .. Len(calls) + 1
  BY <1>4, <1>9 DEF StackFacts
<1>11. calls' # <<>>
  BY <1>4, <1>9 DEF StackFacts
<1>12. /\ j <= Len(Operands(n)) + 1 /\ n \notin ssa
       /\ \A i \in 1 .. j - 1 : Operands(n)[i] \in ssa
  BY <1>1, <1>4, <1>6 DEF StackOK, StackFacts
<1>13. \A q \in 2 .. Len(calls) + 1 : q - 1 \in DOMAIN calls /\ calls'[q].n = calls[q - 1].n
  BY <1>4, <1>8, <1>9 DEF StackFacts
<1>14. calls'[Len(calls')].n = body[at - 1]
  BY <1>1, <1>4, <1>9, <1>13 DEF StackOK, StackFacts
<1>15. ASSUME NEW q \in DOMAIN calls'
       PROVE  /\ calls'[q].i <= Len(Operands(calls'[q].n)) + 1
              /\ calls'[q].i # 0 => calls'[q].n \notin ssa'
              /\ q > 1 => calls'[q].i >= 2 /\ Operands(calls'[q].n)[calls'[q].i - 1] = calls'[q - 1].n
              /\ \A i \in 1 .. calls'[q].i - 1 :
                   q = 1 \/ i < calls'[q].i - 1 => Operands(calls'[q].n)[i] \in ssa'
  <2>1. CASE q = 1
    <3>1. calls'[q].n = u /\ calls'[q].i = 0 /\ Len(Operands(u)) \in Nat
      BY <1>1, <1>7, <1>8, <1>9, <2>1, NodeFacts DEF Operands
    <3>2. QED
      BY <2>1, <3>1
  <2>2. CASE q = 2
    <3>1. calls'[q].n = n /\ calls'[q].i = j + 1 /\ calls'[q - 1].n = u
      BY <1>8, <1>9, <2>2
    <3>2. Inner(n, j + 1, u)
      BY <1>6, <1>12, InnerNext DEF u
    <3>3. Inner(calls'[q].n, calls'[q].i, calls'[q - 1].n) /\ calls'[q].i \in Nat
      BY <1>6, <3>1, <3>2
    <3>4. QED
      BY <1>3, <2>2, <3>3 DEF Inner
  <2>3. CASE q > 2
    <3>1. q - 1 \in DOMAIN calls /\ q - 1 > 1 /\ calls'[q] = calls[q - 1] /\ calls'[q - 1].n = calls[q - 1 - 1].n
      <4>1. q \in 3 .. Len(calls) + 1 /\ q - 1 \in 2 .. Len(calls) + 1
        BY <1>4, <1>10, <2>3 DEF StackFacts
      <4>2. QED
        BY <1>9, <1>13, <4>1
    <3>2. \A r \in DOMAIN calls : r > 1 => Inner(calls[r].n, calls[r].i, calls[r - 1].n)
      BY <1>1 DEF StackOK, Inner
    <3>3. Inner(calls'[q].n, calls'[q].i, calls'[q - 1].n) /\ calls'[q].i \in Nat
      BY <1>4, <3>1, <3>2 DEF StackFacts
    <3>4. QED
      BY <1>3, <2>3, <3>3 DEF Inner
  <2>4. QED
    BY <1>4, <1>10, <2>1, <2>2, <2>3 DEF StackFacts
<1>16. StackOK'
  BY <1>2, <1>3, <1>9, <1>14, <1>15 DEF StackOK, R
<1>17. Through' = Through
  BY <1>1, <1>3, <1>11 DEF Through
<1>18. Statements'
  BY <1>1, <1>2, <1>3, <1>17 DEF Statements
<1>19. \A q \in DOMAIN calls' : calls'[q].n \in Reaches(body[at - 1])'
  <2>1. n \in Reaches(body[at - 1]) /\ body[at - 1] \in Id
    <3>1. 1 \in DOMAIN calls
      BY <1>4 DEF StackFacts
    <3>2. at - 1 \in 1 .. Len(body)
      BY <1>3
    <3>3. QED
      BY <1>1, <3>1, <3>2 DEF OrderOK, BodyOK
  <2>2. u \in Reaches(body[at - 1])
    BY <1>1, <1>7, <2>1, ReachFacts
  <2>3. ASSUME NEW q \in DOMAIN calls' PROVE calls'[q].n \in Reaches(body[at - 1])
    <3>1. CASE q = 1
      BY <1>8, <1>9, <2>2, <3>1
    <3>2. CASE q # 1
      <4>1. q - 1 \in DOMAIN calls /\ calls'[q].n = calls[q - 1].n
        BY <1>4, <1>10, <1>13, <3>2 DEF StackFacts
      <4>2. QED
        BY <1>1, <4>1 DEF OrderOK
    <3>3. QED
      BY <3>1, <3>2
  <2>4. Reaches(body[at - 1])' = Reaches(body[at - 1])
    BY <1>2, <1>3
  <2>5. QED
    BY <2>3, <2>4
<1>20. QED
  BY <1>1, <1>16, <1>17, <1>18, <1>19, QuietInv

-----------------------------------------------------------------------------
(* A node is compiled, behind its operands: marked, named and written.     *)
EntrySet == [n : Id, def : Seq(Nat), use : Seq(Nat), to : Seq(Nat)]

Emitting(n) ==
  /\ fpc = "compile" /\ fpc' = "compile" /\ calls # <<>> /\ calls' = Tail(calls)
  /\ UNCHANGED <<nodes, body, at>>
  /\ n = calls[1].n /\ n \in Id /\ n \notin ssa /\ Range(nodes[n].use) \subseteq ssa
  /\ n \in Reaches(body[at - 1])
  /\ Len(calls) = 1 => n = body[at - 1]
  /\ Kind(n) \in ControlKinds => Len(calls) = 1
  /\ \A q \in 2 .. Len(calls) : calls[q].n # n

Marks(n) == ssa' = IF Kind(n) \in ControlKinds THEN ssa ELSE ssa \cup {n}

Names(n) ==
  /\ Labels(iota', blocks')
  /\ \A m \in Id : Kind(m) # "block" /\ m # n => iota'[m] = iota[m]
  /\ \A m \in Id : Kind(m) = "block" /\ iota[m] # 0 => iota'[m] = iota[m]
  /\ Kind(n) \in Named => iota'[n] = locals /\ locals' = locals + 1
  /\ Kind(n) \notin Named => locals' = locals
  /\ Kind(n) = "alias" => iota'[n] = iota[Operands(n)[1]]
  /\ Kind(n) \notin Named \cup {"alias", "block"} => iota'[n] = iota[n]

Entered(n, e) ==
  /\ e \in EntrySet /\ e.n = n
  /\ e.def = IF Kind(n) \in Named THEN <<iota'[n]>> ELSE <<>>
  /\ DOMAIN e.use = DOMAIN Operands(n)
  /\ \A i \in DOMAIN e.use : e.use[i] = iota[Operands(n)[i]]
  /\ \A i \in DOMAIN e.to : /\ Target(n, i) \in Of({"block"})
                            /\ iota'[Target(n, i)] # 0 /\ e.to[i] = iota'[Target(n, i)]
  /\ Kind(n) = "block" => 1 \in DOMAIN e.to

Writes(n) ==
  /\ Kind(n) = "alias" => code' = code
  /\ Kind(n) # "alias" => \E e : Entered(n, e) /\ code' = Append(code, e)

LEMMA ReadyFacts ==
  ASSUME IInv, NEW kinds, Ready(kinds)
  PROVE  Emitting(This.n) /\ Kind(This.n) \in kinds
<1>1. /\ NodesOK /\ Acyclic /\ BodyOK /\ StackOK /\ Statements /\ OrderOK
      /\ fpc = "compile" /\ fpc' = "compile" /\ calls # <<>> /\ calls' = Tail(calls)
      /\ UNCHANGED <<nodes, body, at>>
  BY DEF IInv, Ready, built
<1>2. StackFacts /\ Len(calls) >= 1 /\ 1 \in DOMAIN calls
  <2>1. StackFacts /\ Len(calls) >= 1
    BY <1>1, StackTyped DEF StackOK, StackFacts
  <2>2. QED
    BY <2>1 DEF StackFacts
<1> DEFINE n == calls[1].n
<1>3. This.n = n /\ calls[1].i = Len(Operands(n)) + 1 /\ Kind(n) \in kinds
  BY DEF This, Ready, Kind
<1>4. n \in Id /\ Len(Operands(n)) \in Nat /\ DOMAIN Operands(n) = 1 .. Len(Operands(n))
  BY <1>2 DEF StackFacts
<1>5. n \notin ssa /\ \A i \in 1 .. calls[1].i - 1 : Operands(n)[i] \in ssa
  BY <1>1, <1>2, <1>3, <1>4 DEF StackOK
<1>6. Range(nodes[n].use) \subseteq ssa
  <2>1. \A i \in DOMAIN Operands(n) : Operands(n)[i] \in ssa
    BY <1>3, <1>4, <1>5
  <2>2. QED
    BY <2>1 DEF Range, Operands
<1>7. n \in Reaches(body[at - 1])
  BY <1>1, <1>2 DEF OrderOK
<1>8. Len(calls) = 1 => n = body[at - 1]
  BY <1>1 DEF StackOK
<1>9. \A q \in 2 .. Len(calls) : calls[q].n # n
  <2>1. \A q \in 2 .. Len(calls) : q \in DOMAIN calls /\ q # 1
    BY <1>2 DEF StackFacts
  <2>2. QED
    BY <1>1, <1>2, <2>1, StackDistinct
<1>10. Kind(n) \in ControlKinds => Len(calls) = 1
  <2>1. ASSUME Len(calls) # 1 PROVE Kind(n) \in OperandKinds
    <3>1. 2 \in DOMAIN calls /\ 2 > 1 /\ 2 - 1 = 1
      BY <1>2, <2>1 DEF StackFacts
    <3>2. \A r \in DOMAIN calls : r > 1 => Inner(calls[r].n, calls[r].i, calls[r - 1].n)
      BY <1>1 DEF StackOK, Inner
    <3>3. Inner(calls[2].n, calls[2].i, n)
      BY <3>1, <3>2
    <3>4. calls[2].n \in Id /\ calls[2].i \in Nat
          /\ Len(Operands(calls[2].n)) \in Nat
          /\ DOMAIN Operands(calls[2].n) = 1 .. Len(Operands(calls[2].n))
      BY <1>2, <3>1 DEF StackFacts
    <3>5. calls[2].i - 1 \in DOMAIN Operands(calls[2].n) /\ Operands(calls[2].n)[calls[2].i - 1] = n
      BY <3>3, <3>4 DEF Inner
    <3>6. n \in Range(nodes[calls[2].n].use)
      BY <3>5 DEF Range, Operands
    <3>7. n \in Of(OperandKinds)
      BY <1>1, <3>4, <3>6, NodeFacts
    <3>8. QED
      BY <3>7 DEF Of, Kind
  <2>2. QED
    BY <2>1 DEF OperandKinds, ControlKinds
<1>11. QED
  BY <1>1, <1>3, <1>4, <1>5, <1>6, <1>7, <1>8, <1>9, <1>10 DEF Emitting

(* Every value that is compiled has an instruction, under its own name or  *)
(* the one of what it stands for.                                          *)
LEMMA ValuesDefined ==
  ASSUME NodesOK, Marked, TextOK, Written
  PROVE  \A u \in ssa : Kind(u) \in OperandKinds =>
           \E r \in DOMAIN code : code[r].n = Root(u) /\ code[r].def = <<iota[u]>>
<1> DEFINE Good(u) == \E r \in DOMAIN code : code[r].n = Root(u) /\ code[r].def = <<iota[u]>>
           Bad == {u \in ssa : Kind(u) \in OperandKinds /\ ~ Good(u)}
<1>1. ssa \subseteq Id /\ \A u \in Id : u \in Nat
  BY NodeFacts DEF Marked
<1>2. ASSUME Bad # {} PROVE FALSE
  <2>1. PICK u \in Bad : \A v \in Bad : u <= v
    <3>1. Bad \in SUBSET Nat
      BY <1>1
    <3> HIDE DEF Bad
    <3>2. QED
      BY <1>2, <3>1, Least
  <2>2. u \in ssa /\ u \in Id /\ u \in Nat /\ Kind(u) \in OperandKinds /\ ~ Good(u)
    BY <1>1, <2>1
  <2>3. CASE Kind(u) = "alias"
    <3> DEFINE v == Operands(u)[1]
    <3>1. Len(nodes[u].use) = 1 /\ nodes[u].use[1] < u
      BY <2>2, <2>3 DEF NodesOK
    <3>2. nodes[u].use \in Seq(Nat) /\ Range(nodes[u].use) \subseteq Of(OperandKinds)
      BY <2>2, NodeFacts
    <3>3. v \in Range(nodes[u].use) /\ v < u
      BY <3>1, <3>2 DEF Range, Operands
    <3>4. v \in ssa /\ Kind(v) \in OperandKinds /\ v \in Nat
      BY <1>1, <2>2, <3>2, <3>3 DEF Marked, Of, Kind
    <3>5. v \notin Bad
      BY <2>1, <2>2, <3>3, <3>4
    <3>6. Root(u) = Root(v) /\ iota[u] = iota[v]
      BY <2>2, <2>3, RootFacts DEF Written
    <3> HIDE DEF v
    <3>7. QED
      BY <2>2, <3>4, <3>5, <3>6
  <2>4. CASE Kind(u) # "alias"
    <3>1. Root(u) = u /\ Kind(u) \in Named
      BY <2>2, <2>4, RootFacts DEF OperandKinds, Named
    <3>2. PICK p \in DOMAIN code : code[p].n = u
      BY <2>2, <2>4 DEF Written
    <3>3. code[p].def = <<iota[u]>>
      BY <3>1, <3>2 DEF TextOK
    <3>4. QED
      BY <2>2, <3>1, <3>2, <3>3
  <2>5. QED
    BY <2>3, <2>4
<1>3. QED
  BY <1>2

(* A node that is compiled now is not in the text.                         *)
LEMMA NotYet ==
  ASSUME IInv, NEW n, Emitting(n)
  PROVE  \A p \in DOMAIN code : code[p].n # n
<1>1. BodyOK /\ StackOK /\ Statements /\ TextOK
  BY DEF IInv, Emitting
<1>2. ASSUME NEW p \in DOMAIN code, code[p].n = n PROVE FALSE
  <2>1. CASE Kind(n) \notin ControlKinds
    BY <1>1, <1>2, <2>1 DEF TextOK, Emitting
  <2>2. CASE Kind(n) \in ControlKinds
    <3>1. n = body[at - 1] /\ Through = at - 2
      BY <2>2 DEF Emitting, Through
    <3>2. PICK h \in 1 .. at - 2 : body[h] = n
      BY <1>1, <1>2, <2>2, <3>1 DEF TextOK
    <3>3. Len(body) \in Nat /\ DOMAIN body = 1 .. Len(body) /\ at \in 2 .. Len(body) + 1
      BY <1>1 DEF BodyOK, Statements
    <3>4. h \in DOMAIN body /\ at - 1 \in DOMAIN body /\ h # at - 1
      BY <3>2, <3>3
    <3>5. QED
      BY <1>1, <3>1, <3>2, <3>4 DEF BodyOK
  <2>3. QED
    BY <2>1, <2>2
<1>3. QED
  BY <1>2

LEMMA EmissionInv ==
  ASSUME IInv, NEW n, Emitting(n), Marks(n), Names(n), Writes(n)
  PROVE  IInv'
<1>1. /\ NodesOK /\ Acyclic /\ BodyOK /\ Of({"block"}) \subseteq Range(body)
      /\ Marked /\ StackOK /\ Statements /\ TextOK /\ Written /\ UsesOK /\ LabelsOK /\ OrderOK
  BY DEF IInv, Emitting
<1>2. /\ nodes' = nodes /\ body' = body /\ at' = at /\ calls # <<>> /\ calls' = Tail(calls)
      /\ n = calls[1].n /\ n \in Id /\ n \notin ssa /\ Range(nodes[n].use) \subseteq ssa
  BY DEF Emitting
<1>3. /\ NodesOK' /\ Acyclic' /\ BodyOK' /\ Id' = Id
      /\ \A K : Of(K)' = Of(K)
      /\ \A m : Kind(m)' = Kind(m) /\ Operands(m)' = Operands(m)
      /\ \A m : Reaches(m)' = Reaches(m) /\ Root(m)' = Root(m)
  BY <1>1, <1>2, BuiltKept DEF built
<1>4. (Of({"block"}) \subseteq Range(body))'
  BY <1>1, <1>2, <1>3
<1>5. StackFacts /\ Len(calls) >= 1
  <2>1. StackFacts /\ calls \in Seq([n : Id, i : Nat]) /\ calls # <<>>
    BY <1>1, <1>2, StackTyped DEF StackOK
  <2>2. QED
    BY <2>1 DEF StackFacts
<1>6. /\ Len(body) \in Nat /\ DOMAIN body = 1 .. Len(body) /\ at \in 2 .. Len(body) + 1
      /\ at \in Nat /\ Through = at - 2
  BY <1>1, <1>2 DEF BodyOK, Statements, Through
<1>7. /\ ssa \subseteq ssa' /\ \A m \in ssa' : m \in ssa \/ m = n
      /\ Kind(n) \notin ControlKinds => n \in ssa'
      /\ Kind(n) \in ControlKinds => ssa' = ssa
  BY DEF Marks
<1>8. /\ \A m \in ssa : m \in Id /\ m # n /\ Kind(m) \notin ControlKinds /\ Kind(m) # "block"
      /\ \A m \in ssa : iota'[m] = iota[m]
  <2>1. \A m \in ssa : m \in Id /\ m # n /\ Kind(m) \notin ControlKinds /\ Kind(m) # "block"
    BY <1>1, <1>2 DEF Marked, ControlKinds
  <2>2. QED
    BY <2>1 DEF Names
<1>9. /\ StackOK'
      /\ Through' = IF Len(calls) = 1 THEN at - 1 ELSE at - 2
      /\ DOMAIN calls' = 1 .. Len(calls) - 1
      /\ \A q \in 1 .. Len(calls) - 1 : q + 1 \in DOMAIN calls /\ calls'[q] = calls[q + 1]
  <2>1. Len(calls) = 1 \/ calls[1].n \in ssa'
    BY <1>2, <1>7 DEF Emitting
  <2>2. \A q \in 2 .. Len(calls) : calls[q].n \notin ssa => calls[q].n \notin ssa'
    BY <1>7 DEF Emitting
  <2>3. QED
    BY <1>1, <1>2, <1>7, <2>1, <2>2, Popped
<1>10. Marked'
  <2>1. ssa' \subseteq Id /\ {1, 3} \subseteq ssa'
    BY <1>1, <1>2, <1>7 DEF Marked
  <2>2. \A m \in ssa' : Kind(m) \notin ControlKinds /\ Range(nodes[m].use) \subseteq ssa'
    <3>1. \A m \in ssa : Kind(m) \notin ControlKinds /\ Range(nodes[m].use) \subseteq ssa
      BY <1>1 DEF Marked
    <3>2. QED
      BY <1>2, <1>7, <3>1
  <2>3. QED
    BY <1>2, <1>3, <2>1, <2>2 DEF Marked
<1>11. /\ Len(code) \in Nat /\ DOMAIN code = 1 .. Len(code) /\ code \in Seq(EntrySet)
  BY <1>1 DEF TextOK, EntrySet
<1> DEFINE new == Len(code) + 1
<1>12. /\ \A p \in DOMAIN code : p \in DOMAIN code' /\ code'[p] = code[p] /\ p < new
       /\ Kind(n) = "alias" => DOMAIN code' = DOMAIN code
       /\ Kind(n) # "alias" => DOMAIN code' = DOMAIN code \cup {new} /\ Entered(n, code'[new])
       /\ code' \in Seq(EntrySet)
  <2>1. CASE Kind(n) = "alias"
    BY <1>11, <2>1 DEF Writes
  <2>2. CASE Kind(n) # "alias"
    <3>1. PICK e : Entered(n, e) /\ code' = Append(code, e)
      BY <2>2 DEF Writes
    <3>2. e \in EntrySet
      BY <3>1 DEF Entered
    <3> HIDE DEF EntrySet
    <3>3. /\ code' \in Seq(EntrySet) /\ Len(code') = new /\ code'[new] = e
          /\ \A p \in 1 .. Len(code) : code'[p] = code[p]
      BY <1>11, <3>1, <3>2
    <3>4. DOMAIN code' = 1 .. new /\ DOMAIN code' = DOMAIN code \cup {new}
      BY <1>11, <3>3
    <3>5. \A p \in DOMAIN code : p \in DOMAIN code' /\ code'[p] = code[p] /\ p < new
      BY <1>11, <3>3, <3>4
    <3>6. QED
      BY <2>2, <3>1, <3>3, <3>4, <3>5
  <2>3. QED
    BY <2>1, <2>2
<1>13. \A p \in DOMAIN code : code[p].n # n
  BY NotYet
<1>14. new \notin DOMAIN code
  BY <1>11
<1> HIDE DEF new
<1>15. Kind(n) # "alias" => code'[new].n = n
  BY <1>12 DEF Entered
<1>16. Statements'
  <2>1. ASSUME NEW h \in 1 .. Through'
        PROVE  IF Kind(body[h]) \in ControlKinds THEN \E p \in DOMAIN code' : code'[p].n = body[h]
               ELSE body[h] \in ssa'
    <3>1. h \in 1 .. at - 2 \/ (h = at - 1 /\ Len(calls) = 1)
      BY <1>5, <1>6, <1>9 DEF StackFacts
    <3>2. CASE h \in 1 .. at - 2
      BY <1>1, <1>6, <1>7, <1>12, <3>2 DEF Statements
    <3>3. CASE h = at - 1 /\ Len(calls) = 1
      <4>1. body[h] = n
        BY <3>3 DEF Emitting
      <4>2. Kind(n) \in ControlKinds => Kind(n) # "alias"
        BY DEF ControlKinds
      <4>3. QED
        BY <1>7, <1>12, <1>15, <4>1, <4>2
    <3>4. QED
      BY <3>1, <3>2, <3>3
  <2>2. \A h \in 1 .. Through' :
          IF Kind(body[h])' \in ControlKinds THEN \E p \in DOMAIN code' : code'[p].n = body'[h]
          ELSE body'[h] \in ssa'
    BY <1>2, <1>3, <2>1
  <2>3. QED
    BY <1>2, <1>6, <2>2 DEF Statements
<1>17. TextOK'
  <2>1. \A p, r \in DOMAIN code' : code'[p].n = code'[r].n => p = r
    <3>1. \A p, r \in DOMAIN code : code[p].n = code[r].n => p = r
      BY <1>1 DEF TextOK
    <3>2. QED
      BY <1>12, <1>13, <1>15, <3>1
  <2>2. ASSUME NEW p \in DOMAIN code', NEW m, m = code'[p].n
        PROVE  /\ Kind(m) # "alias"
               /\ IF Kind(m) \in ControlKinds THEN \E h \in 1 .. Through' : body[h] = m ELSE m \in ssa'
               /\ code'[p].def = IF Kind(m) \in Named THEN <<iota'[m]>> ELSE <<>>
    <3>1. CASE p \in DOMAIN code
      <4>1. /\ m = code[p].n /\ code'[p].def = code[p].def
            /\ Kind(m) # "alias"
            /\ IF Kind(m) \in ControlKinds THEN \E h \in 1 .. at - 2 : body[h] = m ELSE m \in ssa
            /\ code[p].def = IF Kind(m) \in Named THEN <<iota[m]>> ELSE <<>>
        BY <1>1, <1>6, <1>12, <2>2, <3>1 DEF TextOK
      <4>2. \A h \in 1 .. at - 2 : h \in 1 .. Through'
        BY <1>6, <1>9
      <4>3. Kind(m) \in Named => Kind(m) \notin ControlKinds
        BY DEF Named, ControlKinds
      <4>4. QED
        BY <1>7, <1>8, <4>1, <4>2, <4>3
    <3>2. CASE p \notin DOMAIN code
      <4>1. p = new /\ m = n /\ Kind(n) # "alias" /\ Entered(n, code'[p])
        BY <1>12, <1>15, <2>2, <3>2
      <4>2. Kind(n) \in ControlKinds => at - 1 \in 1 .. Through' /\ body[at - 1] = n
        BY <1>6, <1>9 DEF Emitting
      <4>3. QED
        BY <1>7, <4>1, <4>2 DEF Entered
    <3>3. QED
      BY <3>1, <3>2
  <2>3. \A p \in DOMAIN code' :
          LET m == code'[p].n
          IN /\ Kind(code[p].n)' # "alias"
             /\ IF Kind(code[p].n)' \in ControlKinds THEN \E h \in 1 .. Through' : body'[h] = m ELSE m \in ssa'
             /\ code'[p].def = IF Kind(code[p].n)' \in Named THEN <<iota'[m]>> ELSE <<>>
    BY <1>2, <1>3, <2>2
  <2>4. code' \in Seq([n : Id', def : Seq(Nat), use : Seq(Nat), to : Seq(Nat)])
    BY <1>3, <1>12 DEF EntrySet
  <2>5. QED
    BY <2>1, <2>3, <2>4 DEF TextOK
<1>18. locals \in Nat /\ locals' \in Nat /\ locals <= locals' /\ iota' \in [Id -> Nat]
  BY <1>1 DEF Written, Names, Labels
<1>19. Written'
  <2>1. ASSUME NEW m \in ssa', Kind(m) # "alias" PROVE \E p \in DOMAIN code' : code'[p].n = m
    <3>1. CASE m = n
      BY <1>12, <1>15, <2>1, <3>1
    <3>2. CASE m \in ssa
      <4>1. PICK p \in DOMAIN code : code[p].n = m
        BY <1>1, <2>1, <3>2 DEF Written
      <4>2. QED
        BY <1>12, <4>1
    <3>3. QED
      BY <1>7, <3>1, <3>2
  <2>2. ASSUME NEW m \in ssa', Kind(m) \in Named
        PROVE  iota'[m] < locals' /\ (m # n => iota'[m] = iota[m] /\ iota[m] < locals /\ iota[m] \in Nat)
    <3>1. CASE m = n
      BY <1>18, <2>2, <3>1 DEF Names
    <3>2. CASE m # n
      <4>1. m \in ssa /\ m \in Id
        BY <1>7, <1>8, <3>2
      <4>2. iota'[m] = iota[m] /\ iota[m] < locals /\ iota[m] \in Nat
        BY <1>1, <1>8, <2>2, <4>1 DEF Written
      <4>3. QED
        BY <1>18, <4>2
    <3>3. QED
      BY <3>1, <3>2
  <2>3. ASSUME NEW m \in ssa', Kind(m) = "alias" PROVE iota'[m] = iota'[Operands(m)[1]]
    <3>1. m \in Id /\ Operands(m)[1] \in ssa
      <4>1. m \in Id
        BY <1>2, <1>7, <1>8
      <4>2. Len(nodes[m].use) = 1 /\ nodes[m].use \in Seq(Nat)
        BY <1>1, <2>3, <4>1, NodeFacts DEF NodesOK
      <4>3. Operands(m)[1] \in Range(nodes[m].use)
        BY <4>2 DEF Range, Operands
      <4>4. QED
        BY <1>1, <1>2, <1>7, <4>1, <4>3 DEF Marked
    <3>2. CASE m = n
      BY <1>8, <2>3, <3>1, <3>2 DEF Names
    <3>3. CASE m # n
      BY <1>1, <1>7, <1>8, <2>3, <3>1, <3>3 DEF Written
    <3>4. QED
      BY <3>2, <3>3
  <2>4. ASSUME NEW m \in ssa', NEW k \in ssa', Kind(m) \in Named, Kind(k) \in Named, iota'[m] = iota'[k]
        PROVE  m = k
    <3>1. CASE m # n /\ k # n
      BY <1>1, <1>7, <2>2, <2>4, <3>1 DEF Written
    <3>2. CASE m = n /\ k # n
      BY <1>18, <2>2, <2>4, <3>2 DEF Names
    <3>3. CASE m # n /\ k = n
      BY <1>18, <2>2, <2>4, <3>3 DEF Names
    <3>4. QED
      BY <3>1, <3>2, <3>3
  <2>5. \A m \in ssa' :
          /\ Kind(m)' # "alias" => \E p \in DOMAIN code' : code'[p].n = m
          /\ Kind(m)' = "alias" => iota'[m] = iota'[Operands(m)[1]']
    BY <1>3, <2>1, <2>3
  <2>6. \A m, k \in ssa' : Kind(m)' \in Named /\ Kind(k)' \in Named /\ iota'[m] = iota'[k] => m = k
    BY <1>3, <2>4
  <2>7. ASSUME NEW m \in Id, Kind(m) # "block" PROVE iota'[m] < locals'
    <3>1. iota[m] < locals /\ iota[m] \in Nat
      BY <1>1, <2>7 DEF Written
    <3>2. CASE m # n \/ Kind(m) \notin Named \cup {"alias"}
      <4>1. iota'[m] = iota[m]
        BY <2>7, <3>2 DEF Names
      <4>2. QED
        BY <1>18, <3>1, <4>1
    <3>3. CASE m = n /\ Kind(n) \in Named
      BY <1>18, <3>3 DEF Names
    <3>4. CASE m = n /\ Kind(n) = "alias"
      <4>1. Len(nodes[n].use) = 1 /\ nodes[n].use \in Seq(Nat)
        BY <1>1, <1>2, <3>4, NodeFacts DEF NodesOK
      <4>2. Operands(n)[1] \in Range(nodes[n].use)
        BY <4>1 DEF Range, Operands
      <4>3. Operands(n)[1] \in Id /\ Kind(Operands(n)[1]) # "block"
        BY <1>2, <1>8, <4>2
      <4>4. iota[Operands(n)[1]] < locals /\ iota[Operands(n)[1]] \in Nat
        BY <1>1, <4>3 DEF Written
      <4>5. iota'[m] = iota[Operands(n)[1]]
        BY <3>4 DEF Names
      <4>6. QED
        BY <1>18, <4>4, <4>5
    <3>5. QED
      BY <3>2, <3>3, <3>4
  <2>8. \A m \in Id' : Kind(m)' # "block" => iota'[m] < locals'
    BY <1>3, <2>7
  <2>9. QED
    BY <1>3, <1>18, <2>5, <2>6, <2>8 DEF Written
<1>20. UsesOK'
  <2>1. ASSUME NEW p \in DOMAIN code', NEW i \in DOMAIN code'[p].use, NEW m, m = code'[p].n
        PROVE  \E r \in 1 .. p - 1 :
                 code'[r].n = Root(Operands(m)[i]) /\ code'[r].def = <<code'[p].use[i]>>
    <3>1. CASE p \in DOMAIN code
      <4>1. PICK r \in 1 .. p - 1 : code[r].n = Root(Operands(m)[i]) /\ code[r].def = <<code[p].use[i]>>
        <5>1. code'[p] = code[p] /\ m = code[p].n /\ i \in DOMAIN code[p].use
          BY <1>12, <2>1, <3>1
        <5>2. QED
          BY <1>1, <2>1, <3>1, <5>1 DEF UsesOK
      <4>2. r \in DOMAIN code
        BY <1>11, <3>1, <4>1
      <4>3. QED
        BY <1>12, <3>1, <4>1, <4>2
    <3>2. CASE p \notin DOMAIN code
      <4>1. p = new /\ m = n /\ Entered(n, code'[p])
        BY <1>12, <1>15, <2>1, <3>2
      <4> DEFINE u == Operands(n)[i]
      <4>2. i \in DOMAIN Operands(n) /\ code'[p].use[i] = iota[u]
        BY <2>1, <4>1 DEF Entered
      <4>3. u \in Range(nodes[n].use)
        BY <4>2 DEF Operands, Range
      <4>4. u \in ssa /\ Kind(u) \in OperandKinds
        BY <1>1, <1>2, <4>3, NodeFacts DEF Of, Kind
      <4> HIDE DEF u
      <4>5. PICK r \in DOMAIN code : code[r].n = Root(u) /\ code[r].def = <<iota[u]>>
        BY <1>1, <4>4, ValuesDefined
      <4>6. r \in 1 .. p - 1
        BY <1>11, <4>1, <4>5 DEF new
      <4>7. QED
        BY <1>12, <4>1, <4>2, <4>5, <4>6 DEF u
    <3>3. QED
      BY <3>1, <3>2
  <2>2. \A p \in DOMAIN code' : \A i \in DOMAIN code'[p].use :
          \E r \in 1 .. p - 1 :
            code'[r].n = Root(Operands(code[p].n)[i])' /\ code'[r].def = <<code'[p].use[i]>>
    BY <1>3, <2>1
  <2>3. QED
    BY <2>2 DEF UsesOK
<1>21. LabelsOK'
  <2>1. \A m, i : Target(m, i)' = Target(m, i)
    BY <1>2, <1>3 DEF Target
  <2>2. /\ blocks' \in Nat \ {0}
        /\ \A c \in Of({"block"}) : iota'[c] < blocks'
        /\ \A c, d \in Of({"block"}) : iota'[c] = iota'[d] /\ iota'[c] # 0 => c = d
    BY DEF Names, Labels
  <2>3. ASSUME NEW p \in DOMAIN code'
        PROVE  /\ \A i \in DOMAIN code'[p].to :
                    /\ Target(code'[p].n, i) \in Of({"block"})
                    /\ iota'[Target(code'[p].n, i)] # 0
                    /\ code'[p].to[i] = iota'[Target(code'[p].n, i)]
               /\ Kind(code'[p].n) = "block" => 1 \in DOMAIN code'[p].to
    <3>1. CASE p \in DOMAIN code
      <4>1. code'[p] = code[p]
        BY <1>12, <3>1
      <4>2. Kind(code[p].n) = "block" => 1 \in DOMAIN code[p].to
        BY <1>1, <3>1 DEF LabelsOK
      <4>3. ASSUME NEW i \in DOMAIN code[p].to, NEW c, c = Target(code[p].n, i)
            PROVE  c \in Of({"block"}) /\ iota'[c] # 0 /\ code[p].to[i] = iota'[c]
        <5>1. c \in Of({"block"}) /\ iota[c] # 0 /\ code[p].to[i] = iota[c]
          BY <1>1, <3>1, <4>3 DEF LabelsOK
        <5>2. iota'[c] = iota[c]
          BY <5>1 DEF Names, Of, Kind
        <5>3. QED
          BY <5>1, <5>2
      <4>4. QED
        BY <4>1, <4>2, <4>3
    <3>2. CASE p \notin DOMAIN code
      <4>1. code'[p].n = n /\ Entered(n, code'[p])
        BY <1>12, <1>15, <3>2
      <4>2. QED
        BY <4>1 DEF Entered
    <3>3. QED
      BY <3>1, <3>2
  <2>4. Of({"block"})' = Of({"block"})
    BY <1>3
  <2>5. \A p \in DOMAIN code' :
          /\ \A i \in DOMAIN code'[p].to :
               LET c == Target(code[p].n, i)'
               IN c \in Of({"block"})' /\ iota'[c] # 0 /\ code'[p].to[i] = iota'[c]
          /\ Kind(code[p].n)' = "block" => 1 \in DOMAIN code'[p].to
    BY <1>3, <2>1, <2>3, <2>4
  <2>6. \A c \in Of({"block"})' : iota'[c] < blocks'
    BY <2>2, <2>4
  <2>7. \A c, d \in Of({"block"})' : iota'[c] = iota'[d] /\ iota'[c] # 0 => c = d
    BY <2>2, <2>4
  <2>8. blocks' \in Nat \ {0}
    BY <2>2
  <2>9. QED
    BY <2>5, <2>6, <2>7, <2>8 DEF LabelsOK
<1>22. OrderOK'
  <2>1. \A k : Alone(k)' <=> Alone(k)
    BY <1>2, <1>3 DEF Alone
  <2>2. ASSUME NEW p \in DOMAIN code'
        PROVE  code'[p].n \in {1, 3} \/ \E h \in 1 .. at - 1 : code'[p].n \in Reaches(body[h])
    <3>1. CASE p \in DOMAIN code
      BY <1>1, <1>12, <3>1 DEF OrderOK
    <3>2. CASE p \notin DOMAIN code
      <4>1. code'[p].n = n /\ at - 1 \in 1 .. at - 1
        BY <1>6, <1>12, <1>15, <3>2
      <4>2. QED
        BY <4>1 DEF Emitting
    <3>3. QED
      BY <3>1, <3>2
  <2>3. \A p \in DOMAIN code' :
          code'[p].n \in {1, 3} \/ \E h \in 1 .. at' - 1 : code'[p].n \in Reaches(body[h])'
    BY <1>2, <1>3, <2>2
  <2>4. \A q \in DOMAIN calls' : calls'[q].n \in Reaches(body[at - 1])'
    BY <1>1, <1>2, <1>3, <1>9 DEF OrderOK
  <2>5. ASSUME NEW j \in DOMAIN body, NEW k \in DOMAIN body, j < k, Alone(k),
               NEW p \in DOMAIN code', NEW r \in DOMAIN code', code'[p].n = body[j], code'[r].n = body[k]
        PROVE  p < r
    <3>1. CASE p \in DOMAIN code /\ r \in DOMAIN code
      BY <1>1, <1>12, <2>5, <3>1 DEF OrderOK
    <3>2. CASE p \in DOMAIN code /\ r \notin DOMAIN code
      BY <1>12, <3>2
    <3>3. CASE p \notin DOMAIN code
      <4>1. body[j] = n
        BY <1>12, <1>15, <2>5, <3>3
      <4>2. body[j] # body[k]
        BY <1>1, <1>6, <2>5 DEF BodyOK
      <4>3. r \in DOMAIN code
        BY <1>12, <1>15, <2>5, <4>1, <4>2
      <4>4. code[r].n = body[k] /\ body[k] \notin {1, 3}
        BY <1>1, <1>12, <2>5, <4>3 DEF BodyOK
      <4>5. PICK h \in 1 .. at - 1 : body[k] \in Reaches(body[h])
        BY <1>1, <4>3, <4>4 DEF OrderOK
      <4>6. ~ (h \in 1 .. k - 1)
        BY <2>5, <4>5 DEF Alone
      <4>7. j \in 1 .. at - 2
        BY <1>6, <2>5, <4>5, <4>6
      <4>8. IF Kind(n) \in ControlKinds THEN \E q \in DOMAIN code : code[q].n = n ELSE n \in ssa
        BY <1>1, <1>6, <4>1, <4>7 DEF Statements
      <4>9. QED
        BY <1>2, <1>13, <4>8
    <3>4. QED
      BY <3>1, <3>2, <3>3
  <2>6. \A j, k \in DOMAIN body' : j < k /\ Alone(k)' =>
          \A p, r \in DOMAIN code' : code'[p].n = body'[j] /\ code'[r].n = body'[k] => p < r
    BY <1>2, <2>1, <2>5
  <2>7. QED
    BY <1>2, <2>3, <2>4, <2>6 DEF OrderOK
<1>23. QED
  BY <1>3, <1>4, <1>9, <1>10, <1>16, <1>17, <1>19, <1>20, <1>21, <1>22 DEF IInv, Emitting

LEMMA NodeTyped ==
  ASSUME IInv, NEW n, Emitting(n)
  PROVE  /\ NodesOK /\ Labels(iota, blocks) /\ locals \in Nat
         /\ nodes[n].to \in Seq(Of({"block"}))
         /\ DOMAIN Operands(n) = 1 .. Len(Operands(n)) /\ Len(Operands(n)) \in Nat
         /\ [i \in DOMAIN Operands(n) |-> iota[Operands(n)[i]]] \in Seq(Nat)
<1>1. NodesOK /\ Written /\ LabelsOK /\ n \in Id
  BY DEF IInv, Emitting
<1>2. locals \in Nat /\ iota \in [Id -> Nat] /\ Labels(iota, blocks)
  BY <1>1 DEF Written, LabelsOK, Labels
<1>3. Operands(n) \in Seq(Nat) /\ nodes[n].to \in Seq(Nat) /\ Range(nodes[n].use) \subseteq Id
  BY <1>1, NodeFacts DEF Operands
<1>4. \A i \in DOMAIN nodes[n].to : nodes[n].to[i] \in Of({"block"})
  BY <1>1 DEF NodesOK
<1>5. nodes[n].to \in Seq(Of({"block"}))
  <2> DEFINE B == Of({"block"})
             to == nodes[n].to
  <2>1. to \in Seq(Nat) /\ \A i \in DOMAIN to : to[i] \in B
    BY <1>3, <1>4
  <2> HIDE DEF B, to
  <2>2. to \in Seq(B)
    BY <2>1
  <2>3. QED
    BY <2>2 DEF B, to
<1>6. Len(Operands(n)) \in Nat /\ DOMAIN Operands(n) = 1 .. Len(Operands(n))
  BY <1>3
<1>7. \A i \in DOMAIN Operands(n) : iota[Operands(n)[i]] \in Nat
  BY <1>2, <1>3 DEF Range, Operands
<1>8. QED
  BY <1>1, <1>2, <1>5, <1>6, <1>7

(* The operations, phis and calls that have a value.                       *)
LEMMA DefineInv ==
  ASSUME IInv, Ready({"op", "phi", "call"}), NEW to \in Seq(Of({"block"})), Define(to),
         to = <<>> \/ to = nodes[This.n].to
  PROVE  IInv'
<1> DEFINE n == This.n
           uses == [i \in DOMAIN Operands(n) |-> iota[Operands(n)[i]]]
           labels == [i \in DOMAIN to |-> Labelled(to).iota[to[i]]]
           e == Entry(n, <<locals>>, uses, labels)
<1>1. Emitting(n) /\ Kind(n) \in {"op", "phi", "call"}
  BY ReadyFacts
<1>2. /\ iota' = [Labelled(to).iota EXCEPT ![n] = locals] /\ blocks' = Labelled(to).blocks
      /\ ssa' = ssa \cup {n} /\ locals' = locals + 1 /\ code' = Append(code, e)
  BY DEF Define, Uses
<1> HIDE DEF n
<1>3. /\ NodesOK /\ Labels(iota, blocks) /\ locals \in Nat /\ n \in Id
      /\ uses \in Seq(Nat) /\ DOMAIN uses = DOMAIN Operands(n)
  BY <1>1, NodeTyped DEF Emitting
<1> DEFINE li == Labelled(to).iota
<1>4. /\ Labels(li, blocks')
      /\ \A i \in DOMAIN to : li[to[i]] # 0
      /\ \A c \in Id : iota[c] # 0 \/ c \notin Of({"block"}) => li[c] = iota[c]
  BY <1>2, <1>3, LabelledFacts
<1>5. \A i \in DOMAIN to : to[i] \in Of({"block"}) /\ Target(n, i) = to[i]
  <2>1. \A i \in DOMAIN to : to[i] \in Of({"block"})
    OBVIOUS
  <2>2. to = nodes[n].to \/ DOMAIN to = {}
    BY DEF n
  <2>3. QED
    BY <1>1, <2>1, <2>2 DEF Target
<1>6. /\ li \in [Id -> Nat] /\ iota' = [li EXCEPT ![n] = locals]
      /\ n \notin Of({"block"}) /\ Of({"block"}) \subseteq Id
  BY <1>1, <1>2, <1>4 DEF Labels, Of, Kind
<1>7. labels \in Seq(Nat) /\ DOMAIN labels = DOMAIN to
  BY <1>5, <1>6
<1> HIDE DEF uses, labels, li
<1>8. /\ iota' \in [Id -> Nat] /\ iota'[n] = locals /\ \A c \in Id : c # n => iota'[c] = li[c]
      /\ \A c \in Of({"block"}) : iota'[c] = li[c]
  BY <1>3, <1>6
<1>9. Labels(iota', blocks')
  BY <1>4, <1>8 DEF Labels
<1>10. Marks(n)
  BY <1>1, <1>2 DEF Marks, ControlKinds
<1>11. Names(n)
  BY <1>1, <1>2, <1>4, <1>8, <1>9 DEF Names, Named, Of, Kind
<1>12. Entered(n, e)
  <2>1. <<locals>> \in Seq(Nat)
    BY <1>3
  <2>2. e \in EntrySet /\ e.n = n /\ e.def = <<iota'[n]>> /\ e.use = uses /\ e.to = labels
    BY <1>3, <1>7, <1>8, <2>1 DEF Entry, EntrySet
  <2>3. \A i \in DOMAIN uses : uses[i] = iota[Operands(n)[i]]
    BY DEF uses
  <2>4. \A i \in DOMAIN labels : /\ Target(n, i) \in Of({"block"})
                                 /\ iota'[Target(n, i)] # 0 /\ labels[i] = iota'[Target(n, i)]
    BY <1>4, <1>5, <1>7, <1>8 DEF labels, li
  <2> HIDE DEF e
  <2>5. QED
    BY <1>1, <1>3, <2>2, <2>3, <2>4 DEF Entered, Named
<1>13. Writes(n)
  BY <1>1, <1>2, <1>12 DEF Writes
<1>14. QED
  BY <1>1, <1>10, <1>11, <1>13, EmissionInv

LEMMA AliasInv ==
  ASSUME IInv, EmitAlias
  PROVE  IInv'
<1> DEFINE n == This.n
<1>1. Emitting(n) /\ Kind(n) \in {"alias"}
  BY ReadyFacts DEF EmitAlias
<1>2. /\ iota' = [iota EXCEPT ![n] = iota[Operands(n)[1]]] /\ ssa' = ssa \cup {n}
      /\ locals' = locals /\ blocks' = blocks /\ code' = code
  BY DEF EmitAlias
<1> HIDE DEF n
<1>3. /\ NodesOK /\ Labels(iota, blocks) /\ n \in Id
      /\ DOMAIN Operands(n) = 1 .. Len(Operands(n)) /\ Len(Operands(n)) \in Nat
      /\ [i \in DOMAIN Operands(n) |-> iota[Operands(n)[i]]] \in Seq(Nat)
  BY <1>1, NodeTyped DEF Emitting
<1>4. iota[Operands(n)[1]] \in Nat
  <2>1. Len(nodes[n].use) = 1
    BY <1>1, <1>3 DEF NodesOK
  <2>2. 1 \in DOMAIN Operands(n)
    BY <1>3, <2>1 DEF Operands
  <2>3. [i \in DOMAIN Operands(n) |-> iota[Operands(n)[i]]][1] \in Nat
    BY <1>3, <2>2
  <2>4. QED
    BY <2>2, <2>3
<1>5. /\ iota \in [Id -> Nat] /\ n \notin Of({"block"}) /\ Of({"block"}) \subseteq Id
  BY <1>1, <1>3 DEF Labels, Of, Kind
<1>6. /\ iota' \in [Id -> Nat] /\ iota'[n] = iota[Operands(n)[1]]
      /\ \A c \in Id : c # n => iota'[c] = iota[c]
      /\ \A c \in Of({"block"}) : iota'[c] = iota[c]
  BY <1>2, <1>3, <1>4, <1>5
<1>7. Labels(iota', blocks')
  BY <1>2, <1>3, <1>6 DEF Labels
<1>8. Names(n)
  BY <1>1, <1>2, <1>6, <1>7 DEF Names, Named
<1>9. Marks(n) /\ Writes(n)
  BY <1>1, <1>2 DEF Marks, Writes, ControlKinds
<1>10. QED
  BY <1>1, <1>8, <1>9, EmissionInv

LEMMA EffectInv ==
  ASSUME IInv, EmitEffect
  PROVE  IInv'
<1> DEFINE n == This.n
           uses == [i \in DOMAIN Operands(n) |-> iota[Operands(n)[i]]]
           e == Entry(n, <<>>, uses, <<>>)
<1>1. Emitting(n) /\ Kind(n) \in {"store", "void"}
  BY ReadyFacts DEF EmitEffect
<1>2. /\ iota' = iota /\ ssa' = ssa \cup {n} /\ locals' = locals /\ blocks' = blocks
      /\ code' = Append(code, e)
  BY DEF EmitEffect, Uses
<1> HIDE DEF n
<1>3. /\ NodesOK /\ Labels(iota, blocks) /\ n \in Id
      /\ uses \in Seq(Nat) /\ DOMAIN uses = DOMAIN Operands(n)
  BY <1>1, NodeTyped DEF Emitting
<1>4. Names(n)
  BY <1>1, <1>2, <1>3 DEF Names, Named
<1>5. Entered(n, e)
  <2>1. \A i \in DOMAIN uses : uses[i] = iota[Operands(n)[i]]
    OBVIOUS
  <2> HIDE DEF uses
  <2>2. <<>> \in Seq(Nat) /\ DOMAIN <<>> = {}
    OBVIOUS
  <2>3. e \in EntrySet /\ e.n = n /\ e.def = <<>> /\ e.use = uses /\ e.to = <<>>
    BY <1>3, <2>2 DEF Entry, EntrySet
  <2> HIDE DEF e
  <2>4. QED
    BY <1>1, <1>3, <2>1, <2>2, <2>3 DEF Entered, Named
<1>6. Marks(n) /\ Writes(n)
  BY <1>1, <1>2, <1>5 DEF Marks, Writes, ControlKinds
<1>7. QED
  BY <1>1, <1>4, <1>6, EmissionInv

(* Jumps, branches, returns and blocks mention blocks.                     *)
Mentioned(n) == IF nodes[n].kind = "block" THEN <<n>> ELSE nodes[n].to

LEMMA ControlEmitted ==
  ASSUME IInv, NEW n, NEW to, to = Mentioned(n), NEW uses, NEW labels,
         Emitting(n), Kind(n) \in {"jump", "branch", "ret", "block"},
         uses = [i \in DOMAIN Operands(n) |-> iota[Operands(n)[i]]],
         labels = [i \in DOMAIN to |-> Labelled(to).iota[to[i]]],
         iota' = Labelled(to).iota, blocks' = Labelled(to).blocks, UNCHANGED <<ssa, locals>>,
         code' = Append(code, Entry(n, <<>>, uses, labels))
  PROVE  IInv'
<1> DEFINE e == Entry(n, <<>>, uses, labels)
<1>1. Emitting(n) /\ Kind(n) \in {"jump", "branch", "ret", "block"}
  OBVIOUS
<1>2. /\ iota' = Labelled(to).iota /\ blocks' = Labelled(to).blocks
      /\ ssa' = ssa /\ locals' = locals /\ code' = Append(code, e)
  OBVIOUS
<1>3. /\ NodesOK /\ Labels(iota, blocks) /\ n \in Id /\ nodes[n].to \in Seq(Of({"block"}))
      /\ uses \in Seq(Nat) /\ DOMAIN uses = DOMAIN Operands(n)
  BY <1>1, NodeTyped DEF Emitting
<1>4. to \in Seq(Of({"block"}))
  <2>1. CASE Kind(n) = "block"
    <3>1. n \in Of({"block"})
      BY <1>3, <2>1 DEF Of, Kind
    <3>2. to = <<n>>
      BY <2>1 DEF Kind, Mentioned
    <3>3. QED
      BY <3>1, <3>2
  <2>2. CASE Kind(n) # "block"
    BY <1>3, <2>2 DEF Kind, Mentioned
  <2>3. QED
    BY <2>1, <2>2
<1>5. /\ \A i \in DOMAIN to : to[i] \in Of({"block"}) /\ Target(n, i) = to[i]
      /\ Kind(n) = "block" => 1 \in DOMAIN to
  <2>1. CASE Kind(n) = "block"
    <3>1. to = <<n>>
      BY <2>1 DEF Kind, Mentioned
    <3>2. DOMAIN to = {1} /\ to[1] = n
      BY <3>1
    <3>3. n \in Of({"block"}) /\ \A i : Target(n, i) = n
      BY <1>3, <2>1 DEF Of, Kind, Target
    <3>4. QED
      BY <3>2, <3>3
  <2>2. CASE Kind(n) # "block"
    <3>1. to = nodes[n].to
      BY <2>2 DEF Kind, Mentioned
    <3>2. \A i \in DOMAIN nodes[n].to : nodes[n].to[i] \in Of({"block"})
      BY <1>3 DEF NodesOK
    <3>3. QED
      BY <2>2, <3>1, <3>2 DEF Target
  <2>3. QED
    BY <2>1, <2>2
<1> DEFINE li == Labelled(to).iota
<1>6. /\ Labels(li, blocks') /\ iota' = li
      /\ \A i \in DOMAIN to : li[to[i]] # 0
      /\ \A c \in Id : iota[c] # 0 \/ c \notin Of({"block"}) => li[c] = iota[c]
  BY <1>2, <1>3, <1>4, LabelledFacts
<1>7. labels \in Seq(Nat) /\ DOMAIN labels = DOMAIN to
  <2>1. li \in [Id -> Nat] /\ Of({"block"}) \subseteq Id
    BY <1>6 DEF Labels, Of
  <2>2. QED
    BY <1>4, <1>5, <2>1
<1> HIDE DEF li
<1>8. Names(n)
  BY <1>1, <1>2, <1>3, <1>6 DEF Names, Named, Of, Kind
<1>9. Entered(n, e)
  <2>1. \A i \in DOMAIN uses : uses[i] = iota[Operands(n)[i]]
    OBVIOUS
  <2>2. \A i \in DOMAIN labels : /\ Target(n, i) \in Of({"block"})
                                 /\ iota'[Target(n, i)] # 0 /\ labels[i] = iota'[Target(n, i)]
    BY <1>5, <1>6, <1>7 DEF li
  <2>3. <<>> \in Seq(Nat)
    OBVIOUS
  <2>4. e \in EntrySet /\ e.n = n /\ e.def = <<>> /\ e.use = uses /\ e.to = labels
    BY <1>3, <1>7, <2>3 DEF Entry, EntrySet
  <2> HIDE DEF e
  <2>5. QED
    BY <1>1, <1>3, <1>5, <1>7, <2>1, <2>2, <2>4 DEF Entered, Named
<1>10. Marks(n) /\ Writes(n)
  BY <1>1, <1>2, <1>9 DEF Marks, Writes, ControlKinds
<1>11. QED
  BY <1>1, <1>8, <1>10, EmissionInv

LEMMA ControlInv ==
  ASSUME IInv, EmitControl
  PROVE  IInv'
<1>1. Ready({"jump", "branch", "ret", "block"})
  BY DEF EmitControl
<1>2. Emitting(This.n) /\ Kind(This.n) \in {"jump", "branch", "ret", "block"}
  BY <1>1, ReadyFacts
<1>3. PICK to : to = Mentioned(This.n)
  OBVIOUS
<1>4. /\ iota' = Labelled(to).iota /\ blocks' = Labelled(to).blocks /\ UNCHANGED <<ssa, locals>>
      /\ code' = Append(code, Entry(This.n, <<>>, Uses, [i \in DOMAIN to |-> Labelled(to).iota[to[i]]]))
  <2>1. UNCHANGED <<ssa, locals>>
    BY Zenon DEF EmitControl
  <2>2. to = IF nodes[This.n].kind = "block" THEN <<This.n>> ELSE nodes[This.n].to
    BY <1>3 DEF Mentioned
  <2>3. iota' = Labelled(to).iota /\ blocks' = Labelled(to).blocks
    BY <2>2, Zenon DEF EmitControl
  <2>4. code' = Append(code, Entry(This.n, <<>>, Uses, [i \in DOMAIN to |-> Labelled(to).iota[to[i]]]))
    BY <2>2, Zenon DEF EmitControl
  <2>5. QED
    BY <2>1, <2>3, <2>4
<1>5. QED
  BY <1>2, <1>3, <1>4, ControlEmitted DEF Uses

-----------------------------------------------------------------------------
LEMMA KeptInv ==
  ASSUME IInv, UNCHANGED <<built, names, at, calls, code>>,
         fpc' = fpc \/ (fpc = "compile" /\ fpc' = "done" /\ calls = <<>> /\ at = Len(body) + 1)
  PROVE  IInv'
<1>1. NodesOK /\ Acyclic /\ BodyOK
  BY DEF IInv
<1>2. /\ nodes' = nodes /\ body' = body /\ ssa' = ssa /\ iota' = iota /\ locals' = locals
      /\ blocks' = blocks /\ code' = code /\ calls' = calls /\ at' = at
  BY DEF built, names
<1>3. /\ NodesOK' /\ Acyclic' /\ BodyOK' /\ Id' = Id
      /\ \A K : Of(K)' = Of(K)
      /\ \A n : Kind(n)' = Kind(n) /\ Operands(n)' = Operands(n)
      /\ \A n : Reaches(n)' = Reaches(n) /\ Root(n)' = Root(n)
  BY <1>1, BuiltKept
<1>4. CASE fpc = "build"
  <2>1. Unstarted
    BY <1>4 DEF IInv
  <2>2. Unstarted'
    BY <1>2, <1>3, <2>1 DEF Unstarted
  <2>3. QED
    BY <1>3, <1>4, <2>2 DEF IInv
<1>5. CASE fpc # "build"
  <2>1. /\ Of({"block"}) \subseteq Range(body)
        /\ Marked /\ StackOK /\ Statements /\ TextOK /\ Written /\ UsesOK /\ LabelsOK /\ OrderOK
    BY <1>5 DEF IInv
  <2>2. (Of({"block"}) \subseteq Range(body))'
    BY <1>2, <1>3, <2>1
  <2>3. Through' = Through
    BY <1>2 DEF Through
  <2>4. Marked'
    BY <1>2, <1>3, <2>1 DEF Marked
  <2>5. StackOK'
    BY <1>2, <1>3, <2>1 DEF StackOK
  <2>6. Statements'
    BY <1>2, <1>3, <2>1, <2>3 DEF Statements
  <2>7. TextOK'
    BY <1>2, <1>3, <2>1, <2>3 DEF TextOK
  <2>8. Written'
    BY <1>2, <1>3, <2>1 DEF Written
  <2>9. UsesOK'
    BY <1>2, <1>3, <2>1 DEF UsesOK
  <2>10. LabelsOK'
    BY <1>2, <1>3, <2>1 DEF LabelsOK, Target
  <2>11. OrderOK'
    <3>1. \A k : Alone(k)' <=> Alone(k)
      BY <1>2, <1>3 DEF Alone
    <3>2. QED
      BY <1>2, <1>3, <2>1, <3>1 DEF OrderOK
  <2>12. fpc' \in {"compile", "done"} /\ (fpc' = "done" => calls' = <<>> /\ at' = Len(body') + 1)
    BY <1>2, <1>5 DEF IInv
  <2>13. QED
    BY <1>3, <2>2, <2>4, <2>5, <2>6, <2>7, <2>8, <2>9, <2>10, <2>11, <2>12 DEF IInv
<1>6. QED
  BY <1>4, <1>5

LEMMA FinishInv ==
  ASSUME IInv, Finish
  PROVE  IInv'
<1>1. /\ fpc = "compile" /\ fpc' = "done" /\ calls = <<>> /\ at > Len(body)
      /\ UNCHANGED <<built, names, at, calls, code>>
  BY DEF Finish
<1>2. BodyOK /\ Statements
  BY <1>1 DEF IInv
<1>3. at = Len(body) + 1
  BY <1>1, <1>2 DEF BodyOK, Statements
<1>4. QED
  BY <1>1, <1>3, KeptInv

(* IInv is an inductive invariant of the functions the host can build, of  *)
(* any size.                                                               *)
THEOREM Invariance == FnSpec => []IInv
<1>1. FnInit => IInv
  BY InitInv
<1>2. IInv /\ [FnNext]_fnVars => IInv'
  <2> SUFFICES ASSUME IInv, [FnNext]_fnVars PROVE IInv'
    OBVIOUS
  <2>1. CASE Host
    BY <2>1, HostInv
  <2>2. CASE Compile
    BY <2>2, CompileInv
  <2>3. CASE NextStatement
    BY <2>3, NextStatementInv
  <2>4. CASE Enter
    BY <2>4, EnterInv
  <2>5. CASE CompileOperand
    BY <2>5, OperandInv
  <2>6. CASE EmitOp \/ EmitCall
    <3>1. Ready({"op", "phi", "call"}) /\ Define(<<>>)
      BY <2>6 DEF EmitOp, EmitCall, Ready
    <3>2. <<>> \in Seq(Of({"block"}))
      OBVIOUS
    <3>3. QED
      BY <3>1, <3>2, DefineInv
  <2>7. CASE EmitPhi
    <3>1. Ready({"op", "phi", "call"}) /\ Define(nodes[This.n].to)
      BY <2>7 DEF EmitPhi, Ready
    <3>2. nodes[This.n].to \in Seq(Of({"block"}))
      BY <3>1, ReadyFacts, NodeTyped
    <3>3. QED
      BY <3>1, <3>2, DefineInv
  <2>8. CASE EmitAlias
    BY <2>8, AliasInv
  <2>9. CASE EmitEffect
    BY <2>9, EffectInv
  <2>10. CASE EmitControl
    BY <2>10, ControlInv
  <2>11. CASE Finish
    BY <2>11, FinishInv
  <2>12. CASE UNCHANGED fnVars
    BY <2>12, KeptInv DEF fnVars, built, names
  <2>13. QED
    BY <2>1, <2>2, <2>3, <2>4, <2>5, <2>6, <2>7, <2>8, <2>9, <2>10, <2>11, <2>12 DEF FnNext
<1>3. QED
  BY <1>1, <1>2, PTL DEF FnSpec

-----------------------------------------------------------------------------
(* The counters are ahead of every number given out, and the recursion of  *)
(* qbe_compile_node never meets a node that it is in.                      *)
THEOREM TypeCorrect == FnSpec => []FnOK
<1>1. IInv => FnOK
  <2> SUFFICES ASSUME IInv PROVE FnOK
    OBVIOUS
  <2>1. fpc \in {"build", "compile", "done"}
    BY DEF IInv
  <2>2. ASSUME fpc # "build", NEW n \in Id
        PROVE  iota[n] < (IF nodes[n].kind = "block" THEN blocks ELSE locals)
    <3>1. Written /\ LabelsOK
      BY <2>2 DEF IInv
    <3>2. CASE Kind(n) = "block"
      BY <3>1, <3>2 DEF LabelsOK, Of, Kind
    <3>3. CASE Kind(n) # "block"
      BY <3>1, <3>3 DEF Written, Kind
    <3>4. QED
      BY <3>2, <3>3
  <2>3. \A h, k \in DOMAIN calls : calls[h].n = calls[k].n => h = k
    <3>1. CASE fpc = "build"
      BY <3>1 DEF IInv, Unstarted
    <3>2. CASE fpc # "build"
      BY <3>2, StackDistinct DEF IInv
    <3>3. QED
      BY <3>1, <3>2
  <2>4. QED
    BY <2>1, <2>2, <2>3 DEF FnOK
<1>2. QED
  BY <1>1, Invariance, PTL

(* Every instruction uses the names of the values that were meant, each    *)
(* defined further up, and no name is defined twice.                       *)
THEOREM UsesAreDefined == FnSpec => []NamesDefined
<1>1. IInv => NamesDefined
  <2> SUFFICES ASSUME IInv, fpc = "done"
               PROVE  \A k \in DOMAIN code :
                        /\ \A i \in DOMAIN code[k].use :
                             \E j \in 1 .. k - 1 :
                               code[j].n = Root(Operands(code[k].n)[i]) /\ code[j].def = <<code[k].use[i]>>
                        /\ \A j \in 1 .. k - 1 : code[j].def = code[k].def => code[k].def = <<>>
    BY DEF NamesDefined
  <2>1. TextOK /\ Written /\ UsesOK
    BY DEF IInv
  <2>2. DOMAIN code = 1 .. Len(code) /\ Len(code) \in Nat
    BY <2>1 DEF TextOK
  <2>3. ASSUME NEW k \in DOMAIN code, NEW j \in 1 .. k - 1, code[j].def = code[k].def, code[k].def # <<>>
        PROVE  FALSE
    <3> DEFINE m == code[j].n
               n == code[k].n
    <3>1. j \in DOMAIN code /\ j # k
      BY <2>2, <2>3
    <3>2. Kind(n) \in Named /\ code[k].def = <<iota[n]>>
      BY <2>1, <2>3 DEF TextOK
    <3>3. Kind(m) \in Named /\ code[j].def = <<iota[m]>>
      BY <2>1, <2>3, <3>1 DEF TextOK
    <3>4. m \in ssa /\ n \in ssa
      BY <2>1, <3>1, <3>2, <3>3 DEF TextOK, Named, ControlKinds
    <3> HIDE DEF m, n
    <3>5. iota[m] = iota[n]
      BY <2>3, <3>2, <3>3
    <3>6. m = n
      BY <2>1, <3>2, <3>3, <3>4, <3>5 DEF Written
    <3>7. QED
      BY <2>1, <3>1, <3>6 DEF TextOK, m, n
  <2>4. QED
    BY <2>1, <2>3 DEF UsesOK
<1>2. QED
  BY <1>1, Invariance, PTL

(* Every node of the body is compiled once, and what nobody needed earlier *)
(* stands in the order of the body.                                        *)
THEOREM BodyInOrder == FnSpec => []OnceInOrder
<1>1. IInv => OnceInOrder
  <2> SUFFICES ASSUME IInv, fpc = "done" PROVE OnceInOrder
    BY DEF OnceInOrder
  <2>1. /\ BodyOK /\ TextOK /\ Written /\ Statements /\ OrderOK
        /\ calls = <<>> /\ at = Len(body) + 1
    BY DEF IInv
  <2>2. DOMAIN body = 1 .. Len(body) /\ Len(body) \in Nat /\ Through = Len(body)
    BY <2>1 DEF BodyOK, Through
  <2>3. ASSUME NEW n \in Range(body) PROVE Kind(n) = "alias" \/ \E k \in DOMAIN code : code[k].n = n
    <3>1. PICK h \in DOMAIN body : body[h] = n
      BY DEF Range
    <3>2. IF Kind(n) \in ControlKinds THEN \E p \in DOMAIN code : code[p].n = n ELSE n \in ssa
      BY <2>1, <2>2, <3>1 DEF Statements
    <3>3. QED
      BY <2>1, <3>2 DEF Written
  <2>4. \A j, k \in DOMAIN code : code[j].n = code[k].n => j = k
    BY <2>1 DEF TextOK
  <2>5. \A j, k \in DOMAIN body :
          (j < k /\ \A h \in 1 .. k - 1 : body[k] \notin Reaches(body[h])) =>
            \A p, r \in DOMAIN code : code[p].n = body[j] /\ code[r].n = body[k] => p < r
    BY <2>1 DEF OrderOK, Alone
  <2>6. QED
    BY <2>3, <2>4, <2>5 DEF OnceInOrder, Kind
<1>2. QED
  BY <1>1, Invariance, PTL

(* Jumps and phis mention the label of the block that was meant, and no    *)
(* two blocks have the same one.                                           *)
THEOREM JumpsReachTheirBlocks == FnSpec => []LabelsAgree
<1>1. IInv => LabelsAgree
  <2> SUFFICES ASSUME IInv, fpc = "done", NEW b \in Of({"block"})
               PROVE  \E k \in DOMAIN code :
                        /\ code[k].n = b
                        /\ \A j \in DOMAIN code : \A i \in DOMAIN code[j].to :
                             LET c == IF nodes[code[j].n].kind = "block" THEN code[j].n
                                      ELSE nodes[code[j].n].to[i]
                             IN code[j].to[i] = code[k].to[1] <=> c = b
    BY DEF LabelsAgree
  <2>1. /\ BodyOK /\ Statements /\ LabelsOK /\ Of({"block"}) \subseteq Range(body)
        /\ calls = <<>> /\ at = Len(body) + 1
    BY DEF IInv
  <2>2. DOMAIN body = 1 .. Len(body) /\ Len(body) \in Nat /\ Through = Len(body)
    BY <2>1 DEF BodyOK, Through
  <2>3. PICK h \in DOMAIN body : body[h] = b
    BY <2>1 DEF Range
  <2>4. Kind(b) = "block" /\ Kind(b) \in ControlKinds
    BY DEF Of, Kind, ControlKinds
  <2>5. PICK k \in DOMAIN code : code[k].n = b
    BY <2>1, <2>2, <2>3, <2>4 DEF Statements
  <2>6. 1 \in DOMAIN code[k].to /\ Target(code[k].n, 1) = b
    BY <2>1, <2>4, <2>5 DEF LabelsOK, Target
  <2>7. iota[b] # 0 /\ code[k].to[1] = iota[b]
    BY <2>1, <2>6 DEF LabelsOK
  <2>8. ASSUME NEW j \in DOMAIN code, NEW i \in DOMAIN code[j].to, NEW c, c = Target(code[j].n, i)
        PROVE  code[j].to[i] = code[k].to[1] <=> c = b
    <3>1. c \in Of({"block"}) /\ iota[c] # 0 /\ code[j].to[i] = iota[c]
      BY <2>1, <2>8 DEF LabelsOK
    <3>2. iota[c] = iota[b] <=> c = b
      BY <2>1, <2>7, <3>1 DEF LabelsOK
    <3>3. QED
      BY <2>7, <3>1, <3>2
  <2>9. QED
    BY <2>5, <2>8 DEF Target, Kind
<1>2. QED
  BY <1>1, Invariance, PTL
=============================================================================
