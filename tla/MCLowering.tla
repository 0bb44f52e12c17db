----------------------------- MODULE MCLowering -----------------------------
(* Three structs, arrays included, of bytes and longs: enough for a struct *)
(* in a struct in an array, for two equal structs that embed a third, and  *)
(* for a packed one inside a plain one.  Of variables, runs of zeros and   *)
(* of other bytes on both sides of a word: one initialiser of four runs,   *)
(* or up to two of two runs or symbols.  Stores of every size up to a      *)
(* little more than what memset is called for.  Functions of three fixed   *)
(* nodes and four made by the host: calls made before or after the         *)
(* statements that need them, one an argument of the other, blocks jumped  *)
(* to before or after they are placed, and phis.                           *)
EXTENDS Lowering, Sequences

Runs == {0, 1, 2, 7, 8, 9}
Run(n, b) == [i \in 1 .. n |-> b]
Data(d) == [ref |-> FALSE, data |-> d]
Symbol == [ref |-> TRUE, data |-> <<>>]
Long == {Data(Run(a, FALSE) \o Run(b, TRUE) \o Run(c, FALSE) \o Run(d, TRUE)) : a, b, c, d \in Runs}
Short == {Data(Run(a, FALSE) \o Run(b, TRUE)) : a, b \in Runs}
         \cup {Data(Run(a, TRUE) \o Run(b, FALSE)) : a, b \in Runs} \cup {Symbol}
MCInits == {<<>>} \cup {<<i>> : i \in Long \cup {Symbol}} \cup {<<i, j>> : i, j \in Short}
NodeKinds == {"op", "alias", "store", "call", "void", "phi", "block", "jump", "branch", "ret"}
MCMaxOf == [kind \in NodeKinds |-> IF kind = "jump" THEN 2 ELSE 1]
MCSlacks == {0, 3, 8}
=============================================================================
