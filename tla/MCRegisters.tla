---------------------------- MODULE MCRegisters ----------------------------
(* Three blocks and four registers: one global, the one that takes an      *)
(* argument and returns a result, another a call may overwrite, one it     *)
(* keeps.  Up to two phis, in one block or in two: each may merge the      *)
(* other, so that they exchange their values on the edge of a loop.        *)
EXTENDS Registers

MCOrder == <<"g", "r", "s", "c", "t", "u", "v", "p", "q">>
MCJoins == ("p" :> {"v", "q", "const"}) @@ ("q" :> {"u", "p"})
Group(a, to) == <<Copy("r", a), Call(<<"r">>, {"r"}), Copy(to, "r")>>
MCEntry == {<<Copy("t", "r"), Copy("u", "s")>>, <<Copy("t", "r")>>}
MCBodies ==
  {<< >>, <<Op("none", <<"t", "u">>, 1)>>, <<Op("v", <<"t", "u">>, 0)>>,
   Group("t", "v"), <<Op("u", <<"t">>, 0)>> \o Group("u", "v"),
   <<Op("none", <<"p", "t">>, 1)>>, <<Copy("r", "v")>>}
=============================================================================
