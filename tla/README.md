# A TLA+ verification of libqbe

libqbe is the QBE compiler back end as a C library. A host program builds functions, variables and types with a
builder API, `qbe_compile` prints them as text in the QBE intermediate language, and `qbe_generate` parses that text,
runs the QBE passes on every function and pipes the assembly to `cc`. This directory holds TLA+ modules of its
parts, the configurations TLC checks them with, and theorems about them that TLAPS checks. `PROJECT.json` maps every
definition that models code to the lines it models.

## Inventory

| component | source | state | operations | what is hard |
|---|---|---|---|---|
| arenas and builder | `src/arena.h`, `src/builder.c`, `include/qbe.h` | chunks of the arena; lists of functions, variables, structs; two hash tables of types; the text | make and link nodes, size a type, compile a node, compile a program | cached sizes that go stale, numbering of types and values, order of emission |
| driver | `src/compile.c` | pipe, child, SIGPIPE disposition, target | `qbe_generate` | two processes, a bounded pipe, early death of either side |
| parser | `src/parse.c` | token, tables of temporaries, blocks and types | `qbe_parse`, `qbe_typecheck`, `qbe_err` | errors end the process in the middle of a call |
| pools and tables | `src/util.c` | pool of chunks, intern table, sets, `insb` | `qbe_alloc`, `qbe_freeall`, `qbe_intern`, `qbe_emit`, set operations | what survives a function or a call |
| control-flow graph | `src/cfg.c` | predecessors, reverse post-order, dominators, frontiers, loop depths | `qbe_fillpreds`, `qbe_fillrpo`, `qbe_filldom`, `qbe_fillfron`, `qbe_fillloop`, `qbe_simpljmp` | fixpoints, loops of empty blocks, double edges |
| SSA construction | `src/ssa.c`, `src/mem.c` | uses, phis, stacks of names | `qbe_filluse`, `qbe_ssa`, `qbe_ssacheck`, `qbe_promote`, `qbe_coalesce` | renaming along the dominator tree |
| optimisations | `src/alias.c`, `src/load.c`, `src/copy.c`, `src/fold.c`, `src/simpl.c` | alias classes, available values, lattice values | one pass each | fixpoints, agreement with the semantics |
| liveness | `src/live.c` | in, out, gen, nlive of every block | `qbe_filllive`, `qbe_liveon` | in-place fixpoint over phis |
| spilling | `src/spill.c` | slots, sets of temporaries in registers | `qbe_fillcost`, `qbe_spill` | register limit at every point, packing of slots |
| register allocation | `src/rega.c` | map from temporaries to registers, hints, parallel moves | `qbe_rega` | moves on edges happen at once; eviction around calls |
| targets | `src/amd64`, `src/arm64`, `src/rv64`, `src/abi.c` | tables | ABI lowering, instruction selection, emission | argument classes, frame layout |
| emission | `src/emit.c` | stashed constants, runs of zeros, debug files | `qbe_emitdat`, `qbe_emitfin`, `qbe_emitdbgfile` | state kept between data items |
| demo | `demo/main.c` | none | examples of the API | |

The components interact by calls in one thread: `qbe_generate` calls the parser, which calls back for every function,
data definition and debug file; the callback runs the passes one after the other on the same `Fn`, and each pass
relies on the tables an earlier one left (`rpo`, `use`, `in`, `slot`). Only the driver deals with another process.

### What is hard, and what makes each part correct

`PROJECT.json` lists the hazards at their lines. In short:

- Driver. Two processes share a pipe of bounded capacity, each may end before the other, every call of the system may
  fail, and what a failed call leaves behind is inherited by the child of the next one. Correct: 0 is returned only if
  a `cc` that accepted had read the whole program; a call always comes back or ends the process; no child is left
  waiting unless the host leaked the write end it waits on.
- Moves, slots. The moves of an edge happen at once and are emitted as a sequence, backwards, with 32-bit and 64-bit
  moves mixed; slots are packed on demand from the low end and addressed from the high end of a frame whose size
  is not known yet. Correct: the sequence has the effect of the moves, in both halves; no two values share a byte,
  all are aligned and inside the frame.
- Graph and dataflow passes. They are fixpoints computed in place, in an order another pass left behind, over graphs
  with irreducible loops, double edges, empty endless loops and blocks that nothing reaches. Correct: at the end the
  tables say what the paths of the graph say, and the iteration gets there.
- Builder. Layouts and names are cached and go stale when the host goes on building; a node may be compiled at its use,
  before the place it was given; a declaration may only name earlier ones. Correct: what the builder tells the host,
  what the text says and what the parser makes of the text are the same.
- Data. Three components each keep state between items (what the comma depends on, the zeros held back). Correct:
  the bytes of the object file are those of the host.
- SSA form, optimisations. A variable is renamed, left alone or promoted by counts and by liveness; loads are put
  together from accesses on all paths; slots share memory by ranges found in one pass. Correct: along every path of the
  code that comes out every load, branch and callee sees what it would have seen in the host's function.
- Spilling and allocation. Blocks are visited against the flow and decide about values on edges whose other end
  decides later. Correct: along every path each instruction finds what it reads in the register or slot it reads.
- Calling conventions. The two sides of a call are lowered apart, from the signature alone. Correct: every byte of
  every argument and of the result is found where the other side put it.
- Parser, tables, arena: see *Not modelled*.

## Modules

Each module names the functions it models; `PROJECT.json` has the lines of every definition. What TLC checks is a
`.cfg` and an `MC` module of the same name that defines the values of the constants; `StackSlots`, `Generate`, `BlockOrder` and
`BlockAnalyses` need none and have a `.cfg` of their own. A `...Proofs` module has the theorems about the
component it extends. A definition that
is introduced as a mutant of another one is not part of any specification: put in the place of the other, it is a bug
that the property named in `PROJECT.json` has to find.

The modules follow a program through the library. `Lowering` composes what the builder does (`StructTypes`, `FnText`,
`StaticData`, `StoreBytes`); `Generate` is the driver around everything; `BlockOrder` and `BlockAnalyses` are the graph
passes; `Middle` (`Ssa`, `CopyElim`, `Fold`) and `Memory` (`Alias`, `LoadOpt`, `Coalesce`) the passes between parser and target;
`Calls` (`CallAbi`, `SysvAbi`, `Arm64Abi`, `Rv64Abi`) the conventions; `Registers` (`Live`, `Spill`, `RegAlloc`) goes from SSA form to
registers, with `ParallelMove` and `StackSlots` under it. Four of them (`Middle`, `Memory`, `Registers`, `Calls`) end with an
execution: the code that comes out runs beside what went in, along every path, and the properties compare the two.

### ParallelMove, ParallelMoveProofs
`pmadd`, `pmgen` and `pmrec` of `rega.c`. The state is `pm` and the statuses of its moves, the recursion of `pmrec` as
an explicit stack with its `k` and return value, and, instead of the emitted instructions, their meaning: `lo` and
`hi` say of which location each location has the low and the high half after the code emitted so far has run. As
`qbe_emit` works backwards, an instruction is composed in front. Actions: `PmAdd`, `PmAddDie` (the array is full),
`PmGen`, one action for each way a call of `pmrec` begins (`RecSelf`, `RecCopy`, `RecCycle`, `RecDescend`), one for
each way it continues after its recursive call (`RetCycleEnd`, `RetSwap`, `RetCopy`), and the loop of `pmgen`.

### StackSlots, RegistersProofs
`fnslot` while instruction selection gives slots to constant-size allocs, one pass for each alignment (`FastAlloc`,
`FastAllocFails`, `NextPass`), then the two counters of `slot()` in `spill.c` (`SlotWide`, `SlotNarrow`) and the
padding at the end of `qbe_spill` (`FrameEnd`). Slots are mathematical integers: the test that keeps their sum
below `INT_MAX` is a guard on amd64 and rv64, and missing in `arm64/isel.c:291`, where the sum of huge locals would wrap. `SlotOffset` and `framesz` are the functions of `amd64/emit.c` that turn a
slot into an offset from the frame pointer. A temporary asks for its slot whenever the spiller meets it: any order.

### Generate, GenerateProofs
`qbe_generate` with one action per system call or stdio function, and the child it forks with its own. The holders of
each end of each pipe are sets of processes, because `fork` duplicates whatever earlier calls left open. The program
is a number of units of text followed by a good end or by a parse error (`qbe_err` exits the process). `cc`, the kernel
and stdio are external, modelled by what the code relies on. `Emit` stands for the whole of `func`, `data` and `dbgfile`.

### Rpo, SimplJmp, BlockOrder, BlockOrderProofs
`Rpo` is `qbe_fillpreds`, `rporec` (its recursion as a stack), `qbe_edgedel` with its assertions, and the sweep of `qbe_fillrpo`,
on every function of `N` blocks, reached or not, with one phi in each block. `SimplJmp` is `uffind` and the two loops of
`qbe_simpljmp`: the union-find forest is compressed while the second loop reads it. `SimplJmp` extends `Rpo`, and `BlockOrder` composes them as `func` does:
a parsed function is numbered; an allocated one is threaded (`SimplJmp`), numbered again, which drops what threading left
unreached, and laid out (`Relink`).

### FlowGraph, Dominators, Loops, BlockAnalyses, BlockAnalysesProofs
`FlowGraph` defines the numbered graphs that `Rpo` produces and what dominance means in them. `Dominators` is `inter`,
`qbe_filldom`, `qbe_sdom` and `qbe_fillfron`, one predecessor, one step of a walk or of a climb at a time, predecessors in any
order. `Loops` is `loopmark` and `qbe_loopiter`, with `calls`, which records each call of the function it is given. It extends
`Dominators`, whose graph it works on; each has a name of its own for its initial predicate, its next-state relation and its
variables (`DomInit`, `LoopNext`, ...). `BlockAnalyses` composes the two, in the order `func` of `compile.c` runs them.

### Ssa, CopyElim, Fold, Middle
`Ssa`: `qbe_promote`, `phiins`, `renblk` with `rendef` and `getstk`, and `qbe_ssacheck`, for one local variable of the host; these
passes treat variables independently. `phiins` is an action per block scanned, per block taken from its list and per
member of a frontier; `renblk` an action per call, its recursion the list of calls to come. The results of `qbe_filldom`,
`qbe_fillfron` and `qbe_filllive` are taken by their meaning, which `BlockAnalyses` and `Live` check against the code.
`CopyElim` writes the function out as code and is `qbe_copy`: the pass over the blocks in order, `phisimpl` with its search
for clusters, the substitution. `Fold` is `qbe_fold`: the work list of edges threaded through the edges, the stack of uses,
`visitphi`, `visitins`, `visitjmp`, and the trimming of blocks, phis, instructions and jumps. `Middle` runs them in the order of
`func` and then runs the result beside the host's function.

### Alias, LoadOpt, Coalesce, Memory
What stays in memory. `Alias` is `alias.c`: the abstract address of every temporary, the slots that escape, the bytes of
each ever written, and the verdicts `must`, `may` and `no`. `LoadOpt` is `load.c`: the search `def` as a stack of calls, each
with its slice and mask, backwards through instructions (`ScanStop`, `ScanTake`; `ScanPast` takes all that goes by at once)
and blocks (`Reuse`, `NoMore`, `Single`, `NewPhi`), the callers that put pieces together (`FromBlit`, `FromRest`, `FromPred`,
`FromEdge`), the log of insertions that a failure cuts back, and its application. `Coalesce` is `qbe_coalesce` of `mem.c`:
ranges in one pass backwards (`Ranges`, an action per block), dead stores, dead slots, fusing, substitution, blits turned
round. `Memory` composes them and adds the copies `simpl.c` makes of a blit. Values are eight bytes with a provenance
each, objects have the size of their alloc, `pass` hands an aggregate to a callee by value, `call` may read and write whatever
is known outside. The depths of loops are not computed yet when `func` calls `qbe_loadopt`, so `load()` of `load.c` is dead code
there and not modelled.

### CallAbi, SysvAbi, Arm64Abi, Rv64Abi, Calls
`CallAbi` has the state both sides of a call share (registers, the stack, memory as bytes named by the argument they come
from) and the two promises that are the same for all. `SysvAbi`, `Arm64Abi` (with Apple's variant) and `Rv64Abi` each model `selcall`, `selpar`, `selret`,
`selvastart` and `selvaarg` with the classification of arguments and the register masks; a register that no mask declares is
lost in between, as the allocator would lose it. `Calls` lets a program be compiled for each target and says what a variadic callee finds.
The builder writes variadic calls and no variadic function; the callee's side is what the passes make of one in the text.

### Live, Spill, RegAlloc, Registers, RegistersProofs
`Live` is `qbe_liveon`, `bset` and `qbe_filllive`, an action per visit of a block. `Spill` is `qbe_fillcost` and `qbe_spill`, an action per
block: what is kept at its end, at loops too, limits, the backward pass over instructions with reloads, stores and groups
of copies around calls, phis. `RegAlloc` is `qbe_rega`: order of the blocks, hints, `ralloc`, `rfree`, `doblk` with operands, swaps and
calls, the moves shared at the start of a block and those on edges. A parallel move is one step; `ParallelMove` shows that
the instructions `pmgen` emits for it have that effect. `Registers` runs the three passes one after the other and then the code
beside the function. `Selected` is what the passes take for granted of the registers instruction selection has put in:
nothing writes a global one, no other is read at the start of a block that is jumped to, what a call returns in is read behind it.
`RegistersProofs` is about `Live` as it runs there and about `StackSlots`.

### StructTypes, FnText, StaticData, StoreBytes, Lowering and their proofs
`StructTypes`: structs and arrays from `qbe_struct_new`, `qbe_struct_add_field`, `qbe_type_struct`, `qbe_type_array` to the declarations that
`qbe_compile_struct` writes (its recursion as a stack) and the sizes that `parsefields` of `parse.c` computes from those. The
caches are compared by the equality functions of the code; their hashing is left out.
`FnText`: the host's calls that make and place nodes, then `qbe_compile_node` over the body, its recursion as a stack. A node
has operands and blocks, an instruction of the text the names it defines and uses and the labels it mentions. A load of
a struct is an alias of its operand, as in the code.
`StaticData`: a variable on its way through three components: the items written by `qbe_compile`, the loop of `parsedat`, the
state of `qbe_emitdat` that holds zeros back until it knows the section.
`StoreBytes`: the part of `qbe_compile_node` that stores a whole object in pieces of eight, four, two and one bytes, or calls
`memset`, as an action per round. `Lowering` composes the four: it extends them all, with a name of their own for the initial
predicate, the next-state relation and the variables of each (`TypesInit`, `FnNext`, `DataSpec`, ...), and takes a step of one
of one of them. They share no state but the program they write, so a behaviour of `Lowering` follows one component, and what
`StructTypesProofs`, `FnTextProofs` and `BytesProofs` (of `StoreBytes` and `StaticData`) prove of the specification of one is what the run checks of it.

## Runs

A run checks all reachable states of its instance. Deadlock checking is off in all of them, as every specification
ends: a host that stops calling, a pass that is done, a run that returns.

| run | instance | why it is enough |
|---|---|---|
| `parallel_move` | three registers, two slots, a constant, up to four moves of either width | three locations make the shortest cycle in which the width found last must reach a swap emitted first; a fourth and fifth make trees hanging off it. The rest is the theorem |
| `stack_slots` | five locals of 0 to 3 units or of more than is accepted, `INT_MAX` 19, five temporaries, variadic | five locals of 16 bytes pass the limit; two wide and three narrow temporaries open, jump over, fill and reopen the hole |
| `generate` | two calls, three units of text, buffer and pipe of one unit, all failures | the second call runs with what the first left; the text overflows buffer and pipe together |
| `block_order` | all graphs of four parsed blocks, any of them deeper; all functions of four allocated ones, any of them empty | irreducible loops, unreached loops that branch into reached blocks, double edges; rounds of empty blocks of every length up to three, with tails |
| `block_analyses` | graphs of five numbered blocks, up to seven edges | with five blocks a second pass over the dominators corrects the first; loops nest, share headers and have two entries |
| `middle` | four blocks, five edges; a menu of loads and stores of new values, constants and changed values in each block, with one block of other sizes, classes or uses | phis that need phis, clusters of phis, variables undefined on some paths, branches that die and come to life |
| `memory` | four blocks on eight graphs, two of them with a loop of one block; two slots of eight and four bytes, a global, a pointer of the caller's, pointers from phis and from memory; some 4500 functions | every pair of overlapping accesses before a load; joins and loops that need phis; slots fused in either order, with blits between them in either direction |
| `calls` | two general and three float argument registers, up to four arguments, thirteen struct types, variadic calls with up to three named arguments, structs in one and in several registers among them, and two scalars behind the marker, four targets | every argument meets every way of running out of registers; structs of each class of each convention |
| `registers` | three blocks, four edges, four registers (one global, two a call overwrites, one it keeps), three temporaries and two of phis, which may merge each other; seven bodies with calls, copies, operands in memory | a value across a call, around a loop and through a phi at once, with fewer registers than values |
| `lowering` | three structs or arrays of bytes and longs, arrays of a length the parser's `int` has and of one it has not, five entries a type; up to two initialisers with runs of zeros around 8, 4, 2 and 1 bytes; stores of up to 137 bytes; four nodes of the host's, of ten kinds | nesting two deep and equal structs met in either order; every width beside every kind of neighbour; both sides of the limit for `memset`; two calls, one an argument of the other, around a store |
| `jumps` | as `registers` | expects a violation, see *Findings* |
| `fold_edges` | as `middle` | expects a violation, see *Findings* |

Bounds on counters are constants with `Max` in their names, `Chain` and `MaxIp` in `Coalesce`; everything else is a small set.

What the properties say:

- `parallel_move`: `MovesRealised`, the emitted sequence has the effect of all moves at once, the high halves of the 64-bit
  moves included; `CyclesClosed`; `DiesOnlyOfSlots`, the array overflows only when phis in slots add moves.
- `stack_slots`: `NoOverlap`; `Framed`, aligned and inside the frame; `OneHole`, the comment of `slot()`: at most one
  unit is unused, and `slot4` knows which.
- `generate`: `SuccessComplete`, 0 is returned only if a `cc` that accepted had read the whole program; `CutShortForCause`,
  neither side of a pipe loses the other without a cause the model names; `Returns` and `ChildrenEnd`, liveness.
- `block_order`: `RetreatingEdgesAreLoops`, `PhisMatchEdges`, `Forest` (`uffind` returns), `SameRuns`, the emitted order does what the
  function did.
- `block_analyses`: `IdomExact`, `FrontierExact` and `LoopsExact`, what the fixpoints find is what the paths say; `Terminates`.
- `middle`: `LoadsSeeLast`, `JumpsFollowHost`, `StoppedForCause`: the compiler gives up only on a load that may come before any
  store.
- `memory`: `LoadsSeeStores`, every load, callee and caller gets the bytes it would have got; `StopsForCause`, the assertions of
  `mem.c` fail for a loop of one block and a phi of a later address only (Defects), and `qbe_dom` in `load.c` for nothing.
- `calls`: `ArgumentsArrive`, `VariadicsArrive` (but where a struct closed registers on arm64), `ResultArrives`.
- `registers`: `LiveExact`, `PressureExact`, the sets and the counts are those of the paths; `UsesFindValues`; `NoFault`, the assertions
  of the two passes hold and each value expected in memory has a slot.
- `lowering`: `LayoutSound`, `LayoutAgrees`, `DeclaredOnce` for types; `Accepted`, `ImageExact` for data (an initialiser of no bytes
  leaves two commas behind each other, which the parser refuses: nothing else does); `WholeStored`, `StoresAligned` for
  stores; `NamesDefined`, `OnceInOrder`, `LabelsAgree` for bodies.

### Fairness
The library is sequential: a pass that has a step to take takes it. `BlockAnalyses` assumes weak fairness of its
next-state relation and nothing else. In `Generate` the operating system runs the host while it can run (`WF` of
`HostStep`) and every child (`WF` of `ChildStep`: `cc` reads while there is input and ends after the end of it). No
fairness is assumed of failures, of an early death of `cc` or of the host's decision to call again. A host in
`waitpid` thus leaves it only when its child has ended: one that waits for a child that waits for it stays there.

## Findings

Both were reproduced with the program built from this source.

- `jumps`. When the value a conditional jump tests is spilled at the end of its block, `qbe_spill` puts its slot into the
  jump (`spill.c:425`). The rv64 emitter asserts that a jump tests a register (`rv64/emit.c:558`) and fails; the other targets
  replaced the test by flags before.
- `fold_edges`. `visitjmp` asserts `edge[n][0].dead` when it finds the tested value to be 0 (`fold.c:135`). A value that is
  undefined on the first path and 0 on a second one is Top at first, Top counts as not 0, and the edge is alive by then.

### Defects
Found while modelling and reproduced, without a run of their own; the instances leave them out or the property names them, as
said here.

- `alias.c:150`. A phi lets its arguments escape, but an argument defined behind it (around a loop) has no alias yet and
  escapes nothing, against the comment "unless the other is provably local" on which `qbe_alias` relies. A load is
  replaced although a store through the phi changed its bytes, or `assert(u->type == UIns)` (`mem.c:361`) ends the host.
  `MCMemory` has such functions (`LatePhi`): `LoadsSeeStores` says nothing of them, `StopsForCause` names them.
- `load.c:299`. "All the bits set to 0 in the mask argument are zeroed in the result" does not hold for an access that ends
  behind the slice: `off + sz < sl.sz` is the test for a shift to the left. The upper bits of a wide temporary that was stored
  narrow get into a load that straddles it. Accesses in `MCMemory` are aligned or lie within one store, loads unsigned.
- `mem.c:299`. `assert(b->loop > n)` fails for a loop of one block into which a slot is live, and the host ends. `StopsForCause`
  names it (`OwnLoop`).
- `parse.c:982`. `parsefields` reads the length of an array into an `int`, while `qbe_type_array` takes a `size_t`: an array of
  2^32 + 4 bytes, which `qbe_sizeof` tells the host to be that long, is passed by value in a register as one of 4.
  `LayoutAgrees` holds as long as no array is longer (`CountsFit`). Of the fields the parser keeps `NField` entries.
- `spill.c:427`. What must be reloaded for the value a jump tests is written while `qbe_curi` is still 0, in front of the reset
  of the instruction buffer, and the host ends with a fault: 26 values that live through a loop of one block do on rv64. The
  run `registers` reaches it; `NoFault` exempts this fault and no other.
- `rv64/abi.c:109`. `fpstruct` does not advance its offset behind a nested struct: the int of `{{float}, int}` is read from the
  bytes of the float. `MCCalls` leaves out fields behind a nested struct on rv64 (`Sound`).
- `arm64/abi.c:719`. `arm64_selvastart` counts the registers the named arguments use and not those a struct that did not fit
  closed (`arm64/abi.c:278`): with one general register left, a struct of two words and then the marker, the caller puts
  the next integer on the stack and the callee looks for it in the last register. `VariadicsArrive` exempts these signatures and no
  others (`ClosedRegisters`).
- `rv64/abi.c` passes variadic floats in structs in float registers, which `va_arg` does not look in. Only a callee in C
  asks for structs: `Calls` has scalars behind the marker.

## Proofs

TLAPS checks these for all values of the constants, under the named assumptions of each module (disjointness of the sets
of locations, natural numbers for sizes).

- `ParallelMoveProofs`: `TypeCorrect`, `PrefixCorrect`, `MovesCorrect`, `CyclesAreClosed`. That the moves are realised in the end
  is not inductive: in the middle of a chain some locations hold what others must get. The invariant `IInv` says what
  the stack of activations is (a chain of moves, each overwriting the source of the next, all `Moving` and nothing else
  `Moving`), whether a cycle is open, and what `lo` and `hi` are at that point: the finished moves are realised, and while a
  cycle is open the source of the top of the stack is to be found where the cycle was entered. The high halves need the
  same with only the 64-bit moves, provided `k` is as wide as the moves on the open cycle. `CyclesAreClosed` also bounds the
  recursion: no move is waited for twice.
  `OnlySpillsFill` needs that a register is the target of one move at most and that `pm` has room for every register.
- `RegistersProofs`: `LivenessIsExact` and `PressureIsExact`, for every selected function: any number of blocks, of instructions and of phis in
  each block, any loops; of the registers one is global (`g`) and one returns results (`r`). The sets are updated in place and read by other blocks in the same pass, so halfway they are neither of the last pass nor of
  this one. `RegInv` says what holds all along: nothing is counted live behind a block that no path makes live there; a block that
  was visited has, at its start and in its pressure, what its instructions make of its present `out` (`Visited`, by `Alive` and
  `Pressure`, an induction backwards over the block); one that was not is empty, and the first pass counts as a change; and in a pass
  that has met no change yet, no visited block lacks anything its successors ask for (`Settled`). A pass without a change therefore
  leaves `out` closed backwards along the edges, and `OutOf`, which the definition of live uses, is the least such set. For the pressure it takes
  one fact more, that a call's results are live behind it: `qbe_filllive` subtracts all of them from the count whether they are or not.
  `PackingCorrect`, `HoleIsKnown`, `FrameCorrect` (states `Framed`), of `StackSlots`. `IInv` adds to the comment of `slot()` that
  locals lie below `locs`, temporaries above, that the counters are even or at the hole, and that what is left of an
  alignment pass stays aligned from the high end because every later size is a multiple of it.
- `BytesProofs`: of `StoreBytes`, `StoresWhole` and `AlwaysAligned`. `IInv` says that the pieces written cover exactly the bytes
  below the current one, and that the current offset is a multiple of the next width.
  Of `StaticData`, `DataTypes`, `ParserAccepts` and `ImageIsExact`, for initialisers of any number, length and bytes. `Whole` is what the
  variable must become. `DataInv` says that the items written spell `Whole` up to the byte the builder is at (`Items`: the place
  where each item starts exists as a function, as for the fields of a struct), that the bytes it has left are those of
  `Whole` from there (`Remains`), that what the parser has not read spells the rest of `Whole`, and that the file or the zeros held back
  are its beginning (`Begun`). For `ParserAccepts`, items and commas alternate and an item is due exactly where the builder has
  more to write (`Turn`); that needs every initialiser to have bytes (`NoEmpty`).
- `GenerateProofs`: `TypeCorrect`, `PipesAreCutForCause`, `SuccessIsComplete`, for any number of calls, units of text and
  capacities. `Conserved` says that what the host has written is what the children have read and what is in the pipe and in
  the buffer, call by call; `IInv` adds who holds which end at each program counter of the host: until the host has closed
  its own write end the child cannot see the end of the text, and a write that meets no reader ends the host or the call.
- `BlockOrderProofs`: of `SimplJmp`, `FindReturns` and `ThreadingKeepsRuns`; of `BlockOrder`, that is of both orders a function gets,
  `RetreatingEdges`, `PhisFollowEdges`, `OrderFindReturns` and `OrderKeepsRuns`, for functions of any number of blocks with any edges.
  *Threading.* The forest of `uffind` is compressed by the loop that builds it and by the loop that reads it. `IInv` says that only blocks
  that pass a run on are linked, that what such a block passes to is in its tree, and that no set of linked blocks passes only
  to itself: a round of empty blocks is never closed. Ids grow along a path of the forest but for its last step (`Ordered`), so paths
  end, and compression, which leads to a root at once, keeps that. `Threaded` then says of each jump what the second loop made of it,
  and that behind each block the same thing happens next follows through the roots.
  *Numbering.* `RpoInv` describes the search by its calls (`CallOK`): a block that waits for its number reaches every block above it, each of
  its successors is visited or will be before its turn comes, and every call but the first was made for an edge of a block that waits.
  So an edge of a block that gets its number goes to a higher number or to a block that still waits and therefore
  reaches it (`Numbered`). That a number is left, so that none is -1, is counted: the numbers given are as many as the blocks that have one.
  In the sweep the numbers are in two scales, before and behind the place it is at (`Place`, `Sorted`), and each phi lists
  without repetition the blocks of the list with an edge to it (`Graph`, `Preds`), which is why `qbe_edgedel` finds its edge and
  leaves none behind.
  *Both.* `OrderInv` joins them: threading ends with a list of all blocks, as `RpoInv` wants it, and what a run meets depends only on the
  targets of blocks that are reached (`MeetsAgree`), which the sweep leaves alone.
- `BlockAnalysesProofs`: `DominatorsAreExact`, `FrontiersAreExact`, `LoopsAreExact`, and `AnalysesAreExact` of the composition, for every
  graph, irreducible ones included. The paths of a graph are a closure that grows in `N` steps; `ClosureFacts` shows that it is the
  least closed set, which is all that is used of it. While `qbe_filldom` iterates, the idoms are neither right nor growing
  towards what is right: a walk follows idoms that the same pass changes. What does hold (`TreeInv`) is that they form a tree
  downwards in the numbering, that from each block a path leads to what has it as idom without going below it, and that no
  dominator of a block is missing from its chain. `Common` and `Meeting` say what `d` and the two ends of a walk keep: what the chains of
  the predecessors seen so far share. A pass that changes nothing has then found each idom on the chains of
  all predecessors (`Stable`), and a set of blocks closed like that holds no block that does not dominate
  (`StableExact`). `ClimbInv` gives the frontiers edge by edge. For the loops, `MarkInv` says that what `loopmark` owes to the blocks it has
  marked waits on its stack, so that it stops with exactly the blocks that reach a back edge without going below the
  header (`LoopOf`), and `NaturalLoopMarked` that this is the natural loop if every loop has one entry.
- `FnTextProofs`: `TypeCorrect`, `UsesAreDefined`, `BodyInOrder`, `JumpsReachTheirBlocks`, for bodies of any number of nodes, nested to any
  depth. `Acyclic` says that in every set of nodes one has no operand in the set, which building keeps as operands exist before
  the nodes that use them; so no node is twice on the stack of `qbe_compile_node`. `IInv` says which operands each call on the
  stack has behind it, that what is marked as written has its operands written, and that the numbers of nodes and of labels
  are each given once.
- `StructTypesProofs`: `TypesCorrect`, `LayoutsAreSound`, `ShapesAreDeclaredOnce`, `ParserAgrees`, for any number of structs, fields and
  elements, nested to any depth; the last for arrays no longer than an `int`, and for those fields the parser keeps entries of. No struct is, at whatever depth, a part of itself: that is stated as the existence of a
  minimal element in every set of structs (`Acyclic`), which each action of the host keeps because it adds fields to structs
  nobody embeds. It is what makes the recursion of `qbe_compile_struct` meet a struct at most once on its stack (`NoRepeat`). `IInv`
  then says of a stack frame which fields have been declared, and of a declaration that it comes after those of its
  fields and that its shape is new. `ParserAgrees` follows by induction along the declarations: structs of one
  shape have one layout (`LaidUnique`), and the parser's recursion over the fields has the builder's layout as its solution.

The assumptions are those of the constants, and TLC evaluates each in some run: `LocAssumption`, `RegsAssumption` and `Tmp0Assumption` of the moves, sizes and
capacities that are natural numbers (`GenerateAssumption`, `SlotAssumption`, `SizeAssumption`, `NAssumption`), basic types of 1, 2, 4 or 8
bytes (`StructAssumption`), initialisers that are symbols or sequences of bytes (`DataAssumption`), registers and temporaries that are finitely many and
disjoint (`RegsAssumption` of `Live`) and have an order (`OrderAssumption`). None bounds a function, a program or a type.

Induction over numbers is by least element (`Least`, `SetInduction` in the proof modules), from the well-foundedness of `<` on
the natural numbers: the library's induction rules take an operator as a parameter, which the installed provers cannot
instantiate. A recursion over the fields of a struct, and `FlattenSeq` over the initialisers, is handled the same way: show that a solution of the
equation exists, so that the `CHOOSE` behind the recursive function satisfies it, and compare the two by induction.

Only model-checked:

- Liveness (`Returns`, `ChildrenEnd`, `Terminates`): out of the prover's reach.
- What compares two executions or speaks of results they rest on: `Middle`, `Memory`, `Calls`, and of `Registers` `UsesFindValues` and
  `NoFault`. Those two need, for every function, that the spiller never keeps more values than there are registers and that the maps
  of `RegAlloc` agree with what the spiller kept at both ends of every edge.

## Not modelled

`PROJECT.json` has a reason for each component. Left out of the modules above:

- Registers: a second class of registers (the counts of the two do not interact), the class of a spilled temporary, the 29
  bits a reference keeps of a slot, overflow of loop depths in an int.
- Calls: the count in `rax`, sub-word arguments, the environment, unions, alignment above 8; `va_start` and `va_arg` stand in for
  a callee in C.
- Middle: `ext` and widths in `iscopy`, `foldint` beyond two operations on one bit, variables that are arguments of phis, which the
  builder does not make of slots; of a jump's successors the first is the lower block.
- Memory: signed and float loads, slots above 64 bytes, an aggregate that is passed by value and was never stored (it becomes
  a null pointer, "crash" in the code, and is undefined in the model).
- Builder: debug line nodes, the spelling of names and literals, a field added to a struct another type embeds, fields of
  type void, memory behind a struct that is loaded by alias.
- Parser and type checker (but for data and struct fields), pools, intern table, bit sets, arena, hash tables of types, the
  tables of instruction selection and emission, the pool of float constants and the debug files: no module. What the
  tables of a target mean is the meaning of an instruction set, which nothing in the repository states.

## What is left

In this order.

1. Proofs: `CallAbi`; `NoFault` of `Spill` and `RegAlloc`, beginning with the number of values the spiller keeps.
2. `HashCache` beneath `StructTypes`: open addressing refines the sets used there. `Intern`, `Pool` and `Arena`.
3. The parser's tables, so that builder and parser are checked as one.
4. The constant pool and the debug files of `emit.c`.
