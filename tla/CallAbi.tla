------------------------------ MODULE CallAbi ------------------------------
(***************************************************************************)
(* A call of one compiled function by another: what the calling            *)
(* conventions of the three backends have in common.                       *)
(*                                                                         *)
(* A backend lowers the two sides apart.  selcall rewrites a call into     *)
(* copies to registers and stores to the stack, selpar the parameters into *)
(* reads of the same places, selret a return, and nothing but the          *)
(* signature ties them together.  The modules SysvAbi, Arm64Abi and        *)
(* Rv64Abi give the code each writes as actions over the state below; they *)
(* run one after the other, as the lowered instructions do.                *)
(*                                                                         *)
(* Memory is made of bytes, and a byte is named by where it comes from:    *)
(* <<i, k>> is byte k of argument i, and of the result when i is 0.        *)
(*                                                                         *)
(* No alignment above 8, union or dark type, environment or sub-word       *)
(* argument occurs: the builder writes none.                               *)
(***************************************************************************)
EXTENDS Integers, Sequences, FiniteSets, TLC, SequencesExt

CONSTANTS
  NGp, NFp,    \* how many integer and float registers pass arguments
  Types,       \* the struct types by name: [size, fields]
  Signatures   \* the calls: [target, args, ret]; "..." may be among the args

ASSUME RegisterAssumption == NGp \in 1 .. 6 /\ NFp \in 1 .. 8

VARIABLES
  sig,     \* the call that is made
  pc,      \* "call", "entry", "start", "vaarg", "return", "result", "done"
  reg,     \* the registers that hold something
  stack,   \* the stack arguments, from the stack pointer of the call upwards
  blob,    \* memory of the caller that pointers lead to; 0 is for the result
  call,    \* CALL(...) of the call: the registers it uses and defines
  frame,   \* what the callee keeps: its count of registers, its stack, retr
  save,    \* the register save area of a variadic callee
  ap,      \* its va_list
  params,  \* the parameters of the callee, as they arrived
  got,     \* the values va_arg gave
  result   \* what the caller finds as the result

vars == <<sig, pc, reg, stack, blob, call, frame, save, ap, params, got, result>>

Width == [w |-> 4, l |-> 8, s |-> 4, d |-> 8]
Scalars == DOMAIN Width
KBase(k) == IF k \in {"w", "l"} THEN "gp" ELSE "fp"
IsStruct(a) == a \in DOMAIN Types

Fixed(args) == IF Contains(args, "...") THEN SubSeq(args, 1, SelectInSeq(args, LAMBDA a : a = "...") - 1)
               ELSE args
IsVariadic(args) == Contains(args, "...")
SizeOf(a) == IF IsStruct(a) THEN Types[a].size ELSE Width[a]
RoundUp(n, al) == ((n + al - 1) \div al) * al

(* The fields of a struct type, and those of the structs within it, each   *)
(* at its offset.                                                          *)
Parts[t \in DOMAIN Types] ==
  LET Add(s, f) ==
        IF f.type = "typ"
        THEN LET inner == Parts[f.of]
             IN [off |-> s.off + Types[f.of].size,
                 parts |-> s.parts \o [j \in DOMAIN inner |-> [inner[j] EXCEPT !.off = @ + s.off]]]
        ELSE [off |-> s.off + f.len,
              parts |-> Append(s.parts, [type |-> f.type, off |-> s.off, len |-> f.len])]
  IN FoldLeft(Add, [off |-> 0, parts |-> << >>], Types[t].fields).parts

(* The bytes of a type that are not padding.                               *)
DataBytes(a) ==
  IF IsStruct(a) THEN UNION {p.off .. p.off + p.len - 1 : p \in {q \in ToSet(Parts[a]) : q.type # "pad"}}
  ELSE 0 .. Width[a] - 1

---------------------------------------------------------------------------
(* Registers and memory                                                    *)

Junk == <<>>
Fresh(n) == [k \in 0 .. n - 1 |-> Junk]
Value(i, a) == [k \in 0 .. SizeOf(a) - 1 |-> <<i, k>>]

(* The eight bytes of a register after a load of w bytes.                  *)
Load(m, off, w) ==
  [k \in 0 .. 7 |-> IF k < w /\ off + k \in DOMAIN m THEN m[off + k] ELSE Junk]

(* A store of w bytes of v; also a blit.                                   *)
Store(m, off, v, w) ==
  [k \in DOMAIN m |-> IF k - off \in (0 .. w - 1) \cap DOMAIN v THEN v[k - off] ELSE m[k]]

(* The address of the memory made for argument i, as a register holds it.  *)
Address(i) == [k \in 0 .. 7 |-> <<-1 - i, k>>]
Pointed(v, n) == IF \E i \in DOMAIN blob : v = Address(i)
                 THEN blob[CHOOSE i \in DOMAIN blob : v = Address(i)] ELSE Fresh(n)

(* What a register holds where only those in rs are known to be in use:    *)
(* the allocator may overwrite every other one between a copy and the call *)
(* and between the start of a function and the copies that empty it.       *)
Get(regs, r) == IF r \in DOMAIN regs THEN regs[r] ELSE Fresh(8)
Kept(regs, rs) == [r \in DOMAIN regs \cap rs |-> regs[r]]

(* A copy of argument i into a memory of its own, for each i in is.        *)
Copies(args, is) == [i \in is |-> Store(Fresh(SizeOf(args[i])), 0, Value(i, args[i]), SizeOf(args[i]))]

---------------------------------------------------------------------------
Init ==
  /\ sig \in Signatures
  /\ pc = "call"
  /\ reg = << >> /\ stack = << >> /\ blob = << >> /\ save = << >>
  /\ call = [gp |-> 0, fp |-> 0] /\ frame = [gp |-> 0, fp |-> 0] /\ ap = [stk |-> 0]
  /\ params = << >> /\ got = << >> /\ result = << >>

(* Where the body of the callee begins: with its va_list or at its return. *)
Body == IF IsVariadic(sig.args) THEN "start" ELSE "return"

Variadic == SubSeq(sig.args, Len(Fixed(sig.args)) + 2, Len(sig.args))

(* va_arg gives the next value, until the callee has read all there are.   *)
VaArgGives(v) ==
  /\ got' = Append(got, v)
  /\ pc' = IF Len(got) + 1 = Len(Variadic) THEN "return" ELSE "vaarg"

---------------------------------------------------------------------------
(* Properties                                                              *)

Same(a, i, v) == \A k \in DataBytes(a) : k \in DOMAIN v /\ v[k] = <<i, k>>

(* Every byte of every named argument is found by the callee at the same   *)
(* offset of the parameter, whichever registers, stack slots and copies    *)
(* selcall gave it to and selpar looks for it in, and although only the    *)
(* registers the two sides declare are kept in between.                    *)
ArgumentsArrive ==
  pc = "return" => \A i \in DOMAIN params : Same(sig.args[i], i, params[i])

(* Every byte of the result is found by the caller at the same offset of   *)
(* the object it made for it, or in the temporary of the call.             *)
ResultArrives == (pc = "done" /\ sig.ret /= "none") => Same(sig.ret, 0, result)
=============================================================================
