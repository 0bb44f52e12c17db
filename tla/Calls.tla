------------------------------- MODULE Calls -------------------------------
(***************************************************************************)
(* A call under each of the conventions: both sides are lowered for the    *)
(* same target, as the whole program is.                                   *)
(***************************************************************************)
EXTENDS CallAbi

Sysv == INSTANCE SysvAbi
Arm64 == INSTANCE Arm64Abi
Rv64 == INSTANCE Rv64Abi

Next ==
  \/ sig.target = "amd64_sysv" /\ Sysv!Next
  \/ sig.target \in {"arm64", "arm64_apple"} /\ Arm64!Next
  \/ sig.target = "rv64" /\ Rv64!Next

Spec == Init /\ [][Next]_vars

(* A named struct did not fit the registers that were left on arm64, so    *)
(* that nothing else may be passed in them.                                *)
ClosedRegisters ==
  /\ sig.target = "arm64"
  /\ LET cl == Arm64!ArgsClass(Fixed(sig.args))
     IN cl.gp + cl.ngp < NGp \/ cl.fp + cl.nfp < NFp

(* A variadic callee that starts its list and asks for the arguments after *)
(* the named ones by their types gets their values in order: the counts    *)
(* selvastart takes from the named arguments say where selcall put the     *)
(* next ones.  It does not where a named struct closed registers on arm64: *)
(* arm64_selvastart counts those in use.                                   *)
VariadicsArrive ==
  pc \in {"vaarg", "return"} /\ ~ClosedRegisters =>
    \A n \in DOMAIN got : Same(Variadic[n], Len(Fixed(sig.args)) + 1 + n, got[n])
=============================================================================
