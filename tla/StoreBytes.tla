----------------------------- MODULE StoreBytes -----------------------------
(***************************************************************************)
(* A store of constant bytes or of zeros to a local object, which          *)
(* qbe_compile_node (src/builder.c) writes as stores of the widest fitting *)
(* integers, each to an address that is computed from the previous one, or *)
(* as a call of memset.                                                    *)
(*                                                                         *)
(* The state is that of the loop, together with what the instructions      *)
(* written so far will do: an address is an offset from the destination,   *)
(* and memory maps offsets to the positions of the bytes stored there.     *)
(***************************************************************************)
EXTENDS Integers

CONSTANT MaxSize   \* bound on the size of the type that is stored

ASSUME SizeAssumption == MaxSize \in Nat

VARIABLES
  spc,        \* "store" or "done"
  zeros,      \* whether the store has no data
  size,       \* qbe_sizeof(n->type)
  first,      \* whether i is 0
  stored,     \* size of the last store
  remaining,
  addr,       \* the value of the name of n; of the destination at first
  writes      \* the stores: [at |-> offset, width, from |-> position]

storeVars == <<spc, zeros, size, first, stored, remaining, addr, writes>>

MemsetAbove == 128

StoreInit ==
  /\ spc = "store" /\ zeros \in BOOLEAN /\ size \in 0 .. MaxSize
  /\ first = TRUE /\ stored = 0 /\ remaining = size /\ addr = 0 /\ writes = {}

(* Mutant of Width: an odd byte goes first.                                *)
WidthOddFirst(n) == IF n % 2 = 1 THEN 1 ELSE IF n >= 8 THEN 8 ELSE IF n >= 4 THEN 4 ELSE 2

Width(n) == IF n >= 8 THEN 8 ELSE IF n >= 4 THEN 4 ELSE IF n >= 2 THEN 2 ELSE 1

(* Mutant of Address: every address is computed from the destination.      *)
AddressFromStart == IF first THEN 0 ELSE stored

(* The operand of the store: the destination, or a new name for the sum of *)
(* the last address and the size of the last store.                        *)
Address == IF first THEN 0 ELSE addr + stored

Memset ==
  /\ spc = "store" /\ zeros /\ size > MemsetAbove
  /\ writes' = {[at |-> 0, width |-> size, from |-> 0]} /\ remaining' = 0
  /\ spc' = "done"
  /\ UNCHANGED <<zeros, size, first, stored, addr>>

StoreChunk ==
  /\ spc = "store" /\ remaining > 0 /\ ~(zeros /\ size > MemsetAbove)
  /\ addr' = Address
  /\ stored' = Width(remaining)
  /\ remaining' = remaining - Width(remaining)
  /\ writes' = writes \cup {[at |-> Address, width |-> Width(remaining), from |-> size - remaining]}
  /\ first' = FALSE
  /\ UNCHANGED <<spc, zeros, size>>

StoreEnd ==
  /\ spc = "store" /\ remaining = 0
  /\ spc' = "done"
  /\ UNCHANGED <<zeros, size, first, stored, remaining, addr, writes>>

StoreNext == Memset \/ StoreChunk \/ StoreEnd

StoreSpec == StoreInit /\ [][StoreNext]_storeVars

-----------------------------------------------------------------------------
Bytes(w) == w.at .. w.at + w.width - 1

(* Types; what is left to store is what no store has written yet.          *)
StoreOK ==
  /\ remaining \in 0 .. size /\ stored \in {0, 1, 2, 4, 8}
  /\ UNION {Bytes(w) : w \in writes} = 0 .. size - remaining - 1

(* Every byte of the object gets its own byte of the data, once, and none  *)
(* outside the object is touched.                                          *)
WholeStored ==
  /\ \A w \in writes : w.at = w.from
  /\ \A v, w \in writes : Bytes(v) \cap Bytes(w) # {} => v = w
  /\ spc = "done" => UNION {Bytes(w) : w \in writes} = 0 .. size - 1

(* A store within an aligned object is aligned, however odd the sizes.     *)
StoresAligned == \A w \in writes : w.width <= 8 => w.at % w.width = 0

=============================================================================
