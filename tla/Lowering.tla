------------------------------ MODULE Lowering ------------------------------
(***************************************************************************)
(* What qbe_compile (src/builder.c) computes of the sizes and the bytes    *)
(* the host gives it: the layout and the declarations of its types, the    *)
(* items of its variables, the text of a function, and the pieces of a     *)
(* store within it.  The four share no state but q, and a behaviour        *)
(* follows one.                                                            *)
(***************************************************************************)
EXTENDS StoreBytes, StructTypes, StaticData, FnText

NoStore ==
  /\ spc = "none" /\ zeros = FALSE /\ size = 0 /\ first = TRUE
  /\ stored = 0 /\ remaining = 0 /\ addr = 0 /\ writes = {}
NoTypes ==
  /\ tpc = "none" /\ structs = <<>> /\ held = {} /\ arrays = {}
  /\ cache = <<>> /\ out = <<>> /\ stack = <<>>
NoData ==
  /\ dpc = "none" /\ inits = <<>> /\ dsize = 0 /\ k = 1 /\ left = <<>> /\ written = 0
  /\ text = <<>> /\ item = TRUE /\ zero = 0 /\ label = <<>> /\ image = <<>>
NoFn ==
  /\ fpc = "none" /\ nodes = <<>> /\ body = <<>> /\ ssa = {} /\ iota = <<>> /\ locals = 0
  /\ blocks = 0 /\ at = 1 /\ calls = <<>> /\ code = <<>>

LowerInit ==
  \/ TypesInit /\ NoData /\ NoStore /\ NoFn
  \/ NoTypes /\ DataInit /\ NoStore /\ NoFn
  \/ NoTypes /\ NoData /\ StoreInit /\ NoFn
  \/ NoTypes /\ NoData /\ NoStore /\ FnInit

LowerNext ==
  \/ UNCHANGED <<dataVars, fnVars, storeVars>> /\ TypesNext
  \/ UNCHANGED <<typeVars, fnVars, storeVars>> /\ DataNext
  \/ StoreNext /\ UNCHANGED <<typeVars, fnVars, dataVars>>
  \/ UNCHANGED <<typeVars, dataVars, storeVars>> /\ FnNext

LowerSpec == LowerInit /\ [][LowerNext]_<<storeVars, typeVars, dataVars, fnVars>>
=============================================================================
