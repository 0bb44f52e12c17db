------------------------------ MODULE MCCalls ------------------------------
(***************************************************************************)
(* Calls with few registers, so that three or four arguments run out of    *)
(* them, for structs of every shape the conventions tell apart.            *)
(***************************************************************************)
EXTENDS Calls

F(k) == [type |-> k, len |-> [b |-> 1, h |-> 2, w |-> 4, l |-> 8, s |-> 4, d |-> 8][k]]
Pad(n) == [type |-> "pad", len |-> n]
Sub(t) == [type |-> "typ", of |-> t]

MCTypes ==
  "empty" :> [size |-> 0, fields |-> << >>] @@
  "bh" :> [size |-> 4, fields |-> <<F("b"), Pad(1), F("h")>>] @@
  "lw" :> [size |-> 16, fields |-> <<F("l"), F("w")>>] @@
  "sw" :> [size |-> 8, fields |-> <<F("s"), F("w")>>] @@
  "bd" :> [size |-> 16, fields |-> <<F("b"), Pad(7), F("d")>>] @@
  "dl" :> [size |-> 16, fields |-> <<F("d"), F("l")>>] @@
  "sss" :> [size |-> 12, fields |-> <<F("s"), F("s"), F("s")>>] @@
  "big" :> [size |-> 24, fields |-> <<F("l"), F("d"), F("l")>>] @@
  "s1" :> [size |-> 4, fields |-> <<F("s")>>] @@
  "s_s" :> [size |-> 8, fields |-> <<F("s"), Sub("s1")>>] @@
  "s_w" :> [size |-> 8, fields |-> <<Sub("s1"), F("w")>>] @@
  "w_lw" :> [size |-> 24, fields |-> <<F("w"), Pad(4), Sub("lw")>>] @@
  "d_bh" :> [size |-> 16, fields |-> <<F("d"), Sub("bh")>>]

Targets == {"amd64_sysv", "arm64", "arm64_apple", "rv64"}
All == DOMAIN MCTypes \cup Scalars
Core == {"w", "d", "lw", "dl", "sss", "big"}

(* A struct whose first field is a struct of floats is left out for rv64,  *)
(* which takes the field after it from the same offset.                    *)
Sound(c) == c.target = "rv64" => "s_w" \notin ToSet(c.args) \cup {c.ret}

UpTo(S, n) == UNION {[1 .. m -> S] : m \in 0 .. n}

MCSignatures ==
  {c \in [target : Targets, args : UpTo(All, 1), ret : All \cup {"none"}]
         \cup [target : Targets, args : [1 .. 2 -> All], ret : {"none", "big"}]
         \cup [target : Targets, args : [1 .. 3 -> All], ret : {"none"}]
         \cup [target : Targets, args : [1 .. 4 -> Core], ret : {"none", "big"}]
         \cup {[target |-> t, args |-> named \o <<"...">> \o rest, ret |-> r] :
                 t \in Targets, named \in UpTo({"l", "d", "big", "lw", "dl", "sss"}, 3), rest \in UpTo(Scalars, 2), r \in {"w", "big"}}
     : Sound(c)}
=============================================================================
