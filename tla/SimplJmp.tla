------------------------------ MODULE SimplJmp ------------------------------
(***************************************************************************)
(* The threading of jumps (uffind, qbe_simpljmp in src/cfg.c), the last    *)
(* change to the graph before a function is emitted: jumps to empty blocks *)
(* go where those go, and all plain returns become one block.              *)
(*                                                                         *)
(* Blocks are in the order of the list; uf is indexed by the ids of        *)
(* qbe_fillrpo, which only serve as names.                                 *)
(***************************************************************************)
EXTENDS Rpo

Ret == N       \* the new block

VARIABLES
  tpc,      \* "first", "second" or "done"
  tb,       \* the block a loop is at
  jmp,      \* "ret0", "hlt", "jmp" or "br"
  uf,       \* the union-find forest, None for a null pointer
  code      \* what never changes: the blocks without instructions, and the
            \* jumps and successors the function came with

threadVars == <<tpc, tb, jmp, s1, s2, uf, code>>

(* A jump with its successors; the two arms of a branch are alike.         *)
ThreadJumps ==
  LET T == Listed \ {Start}
  IN {<<k, None, None>> : k \in {"ret0", "hlt"}}
       \cup {<<"jmp", t, None>> : t \in T}
       \cup {<<"br", t[1], t[2]>> : t \in {u \in T \X T : u[1] <= u[2]}}

ReachedBy(f) ==
  LET within[k \in 0 .. N] ==
        IF k = 0 THEN {Start}
        ELSE LET T == within[k - 1]
             IN T \cup (({f[a][2] : a \in T} \cup {f[a][3] : a \in T}) \ {None})
  IN within[N]

ThreadInit ==
  /\ tpc = "first" /\ tb = Start
  /\ \E f \in [Listed -> ThreadJumps], E \in SUBSET Listed :
       /\ ReachedBy(f) = Listed
       /\ jmp = [a \in Listed \cup {Ret} |-> IF a = Ret THEN "ret0" ELSE f[a][1]]
       /\ s1 = [a \in Listed \cup {Ret} |-> IF a = Ret THEN None ELSE f[a][2]]
       /\ s2 = [a \in Listed \cup {Ret} |-> IF a = Ret THEN None ELSE f[a][3]]
       /\ code = [empty |-> E, jmp |-> jmp, s1 |-> s1, s2 |-> s2]
  /\ uf = [a \in Listed \cup {Ret} |-> None]

-----------------------------------------------------------------------------
(* Where uffind leaves *pb, and uf with the path to it compressed.         *)
Root(f, a) ==
  LET up[c \in DOMAIN f] == IF f[c] = None THEN c ELSE up[f[c]] IN up[a]
Path(f, a) ==
  LET up[c \in DOMAIN f] == IF f[c] = None THEN {} ELSE {c} \cup up[f[c]] IN up[a]
Compress(f, a) ==
  [c \in DOMAIN f |-> IF c \in Path(f, a) THEN Root(f, a) ELSE f[c]]

(* A block that only jumps.                                                *)
Forwards(a, j) == a \in code.empty /\ j = "jmp"

(* Mutant of First: the target is taken as it is written.                  *)
FirstNoFind ==
  /\ tpc = "first" /\ tb \in Listed
  /\ LET j == IF jmp[tb] = "ret0" THEN "jmp" ELSE jmp[tb]
         t == IF jmp[tb] = "ret0" THEN Ret ELSE s1[tb]
     IN /\ jmp' = [jmp EXCEPT ![tb] = j] /\ s1' = [s1 EXCEPT ![tb] = t]
        /\ uf' = IF Forwards(tb, j) /\ t # tb THEN [uf EXCEPT ![tb] = t] ELSE uf
  /\ tb' = tb + 1
  /\ UNCHANGED <<tpc, s2, code>>

(* The first loop: returns become jumps, and a block that only jumps joins *)
(* the tree of its target, unless that is the block itself.                *)
First ==
  /\ tpc = "first" /\ tb \in Listed
  /\ LET j == IF jmp[tb] = "ret0" THEN "jmp" ELSE jmp[tb]
         t == IF jmp[tb] = "ret0" THEN Ret ELSE s1[tb]
     IN /\ jmp' = [jmp EXCEPT ![tb] = j]
        /\ IF Forwards(tb, j)
           THEN LET r == Root(uf, t)
                    f == Compress(uf, t)
                IN /\ s1' = [s1 EXCEPT ![tb] = r]
                   /\ uf' = IF r # tb THEN [f EXCEPT ![tb] = r] ELSE f
           ELSE s1' = [s1 EXCEPT ![tb] = t] /\ UNCHANGED uf
  /\ tb' = tb + 1
  /\ UNCHANGED <<tpc, s2, code>>

FirstEnd ==
  /\ tpc = "first" /\ tb \notin Listed
  /\ tpc' = "second" /\ tb' = Start
  /\ UNCHANGED <<jmp, s1, s2, uf, code>>

(* Mutant of Second: the first arm is looked up where the second belongs.  *)
SecondOtherArm ==
  /\ tpc = "second" /\ tb \in Listed
  /\ LET f1 == IF s1[tb] = None THEN uf ELSE Compress(uf, s1[tb])
         t1 == IF s1[tb] = None THEN None ELSE Root(uf, s1[tb])
         t2 == IF s2[tb] = None THEN None ELSE Root(f1, s1[tb])
         same == t1 # None /\ t1 = t2
     IN /\ s1' = [s1 EXCEPT ![tb] = t1]
        /\ s2' = [s2 EXCEPT ![tb] = IF same THEN None ELSE t2]
        /\ jmp' = IF same THEN [jmp EXCEPT ![tb] = "jmp"] ELSE jmp
        /\ uf' = f1
  /\ tb' = tb + 1
  /\ UNCHANGED <<tpc, code>>

(* The second loop: successors are replaced by the roots of their trees;   *)
(* a branch whose arms became the same is a jump.                          *)
Second ==
  /\ tpc = "second" /\ tb \in Listed
  /\ LET f1 == IF s1[tb] = None THEN uf ELSE Compress(uf, s1[tb])
         t1 == IF s1[tb] = None THEN None ELSE Root(uf, s1[tb])
         t2 == IF s2[tb] = None THEN None ELSE Root(f1, s2[tb])
         same == t1 # None /\ t1 = t2
     IN /\ s1' = [s1 EXCEPT ![tb] = t1]
        /\ s2' = [s2 EXCEPT ![tb] = IF same THEN None ELSE t2]
        /\ jmp' = IF same THEN [jmp EXCEPT ![tb] = "jmp"] ELSE jmp
        /\ uf' = IF s2[tb] = None THEN f1 ELSE Compress(f1, s2[tb])
  /\ tb' = tb + 1
  /\ UNCHANGED <<tpc, code>>

(* The new block joins the end of the list.                                *)
SecondEnd ==
  /\ tpc = "second" /\ tb \notin Listed
  /\ tpc' = "done"
  /\ UNCHANGED <<tb, jmp, s1, s2, uf, code>>

ThreadNext == First \/ FirstEnd \/ Second \/ SecondEnd

ThreadSpec == ThreadInit /\ [][ThreadNext]_threadVars

-----------------------------------------------------------------------------
(* What a run meets first from block a on, given the jumps j and first     *)
(* successors t of a function: a block with instructions or a choice of    *)
(* its own, a return, or an endless round of empty blocks.                 *)
Meets(j, t, a) ==
  LET go[k \in 0 .. N + 1] ==
        [c \in Listed \cup {Ret} |->
           IF c \notin code.empty /\ c # Ret THEN c
           ELSE IF j[c] = "ret0" THEN Ret
           ELSE IF j[c] # "jmp" \/ code.jmp[c] = "br" THEN c
           ELSE IF k = 0 THEN None
           ELSE go[k - 1][t[c]]]
  IN go[N + 1][a]
Before(a) == Meets(code.jmp, code.s1, a)
After(a) == Meets(jmp, s1, a)

(* Types; a jump has one successor and a branch has two.                   *)
ThreadOK ==
  /\ tpc \in {"first", "second", "done"} /\ tb \in 0 .. N
  /\ uf \in [Listed \cup {Ret} -> Listed \cup {Ret, None}] /\ uf[Ret] = None
  /\ \A a \in Listed : (jmp[a] \in {"jmp", "br"} <=> s1[a] # None) /\ (jmp[a] = "br" <=> s2[a] # None)

(* The trees have no cycle, whatever rounds the empty blocks make: uffind, *)
(* which follows them without a bound, returns.                            *)
Forest ==
  \A a \in Listed :
    LET up[k \in 0 .. N + 1] == IF k = 0 THEN a
                                ELSE LET c == up[k - 1] IN IF c = None THEN None ELSE uf[c]
    IN up[N + 1] = None

(* The next thing that happens behind block a is the one that would have   *)
(* happened.                                                               *)
SameRun(a) ==
  CASE code.jmp[a] = "ret0" -> jmp[a] = "jmp" /\ s1[a] = Ret
    [] code.jmp[a] = "hlt"  -> jmp[a] = "hlt"
    [] code.jmp[a] = "jmp"  -> jmp[a] = "jmp" /\ After(s1[a]) = Before(code.s1[a])
    [] code.jmp[a] = "br"   ->
         /\ After(s1[a]) = Before(code.s1[a])
         /\ After(IF jmp[a] = "jmp" THEN s1[a] ELSE s2[a]) = Before(code.s2[a])
=============================================================================
