------------------------------- MODULE FnText -------------------------------
(***************************************************************************)
(* The body of a function, from the calls of the builder to the text that  *)
(* QBE reads (src/builder.c).  The host makes nodes; most of them are      *)
(* linked into the body at once, calls when it says so (qbe_build_call).   *)
(* qbe_compile walks the body, and qbe_compile_node compiles the operands  *)
(* of a node first, wherever they stand: a value gets its name (iota) with *)
(* its instruction, a block with its first mention.                        *)
(*                                                                         *)
(* Node 1 is an argument, node 2 the first block, node 3 a local variable. *)
(* A load of a struct is an "alias": it stands for its operand; a "void"   *)
(* is a call that returns nothing.  Constants and globals have their names *)
(* from the start and are left out.                                        *)
(***************************************************************************)
EXTENDS Integers, FiniteSets, SequencesExt

CONSTANTS
  MaxArgs,   \* bound on the arguments of a call
  MaxOf,     \* how many nodes of each kind the host makes at most
  MaxNodes   \* bound on the nodes, the fixed ones included

Kinds == {"op", "alias", "store", "call", "void", "phi", "block", "jump", "branch", "ret"}

ASSUME FnAssumption ==
  MaxArgs \in Nat /\ MaxNodes \in Nat \ {0, 1, 2} /\ MaxOf \in [Kinds -> Nat]

VARIABLES
  fpc,     \* "build", "compile" or "done"
  nodes,   \* the nodes: [kind, use |-> operands, to |-> blocks]
  body,    \* fn->body
  ssa,     \* the nodes that are compiled: ssa is not QBE_SSA_NIL
  iota,    \* their names; of a block 0 until it is mentioned
  locals,  \* q->locals
  blocks,  \* q->blocks
  at,      \* next node of the body to be compiled
  calls,   \* calls of qbe_compile_node: [n |-> node, i |-> next operand]
  code     \* instructions: [n |-> node, def, use |-> names, to |-> labels]

built == <<nodes, body>>
names == <<ssa, iota, locals, blocks>>
fnVars == <<fpc, nodes, body, ssa, iota, locals, blocks, at, calls, code>>

Node(kind, use, to) == [kind |-> kind, use |-> use, to |-> to]
Id == DOMAIN nodes
Of(kinds) == {n \in Id : nodes[n].kind \in kinds}
Defining == {"op", "phi", "call"}
Values == Of({"arg", "alias"} \cup Defining)
Addresses == Of({"var", "alias", "op", "call"})
Reaches(m) ==    \* the operands of m, theirs, and m
  LET r[n \in Id] == {n} \cup UNION {r[u] : u \in Range(nodes[n].use)} IN r[m]

FnInit ==
  /\ nodes = <<Node("arg", <<>>, <<>>), Node("block", <<>>, <<>>), Node("var", <<>>, <<>>)>>
  /\ body = <<2>>
  /\ fpc = "build" /\ ssa = {} /\ iota = <<0, 0, 0>> /\ locals = 0 /\ blocks = 0
  /\ at = 1 /\ calls = <<>> /\ code = <<>>

-----------------------------------------------------------------------------
(* The host.  It ends a block with one jump, and places phis at the start. *)
LastKind == nodes[body[Len(body)]].kind
Open == LastKind \notin {"jump", "branch", "ret"}

Make(node) ==
  /\ fpc = "build" /\ Len(nodes) < MaxNodes
  /\ Cardinality(Of({node.kind}) \ {2}) < MaxOf[node.kind]
  /\ nodes' = Append(nodes, node) /\ iota' = Append(iota, 0)
  /\ UNCHANGED <<fpc, ssa, locals, blocks, at, calls, code>>

(* qbe_node_build                                                          *)
Build(node) == Open /\ Make(node) /\ body' = Append(body, Len(nodes) + 1)

(* qbe_build_unary, qbe_build_cast, qbe_build_load; of those with two      *)
(* operands the store is enough.                                           *)
BuildOp(u) == Build(Node("op", <<u>>, <<>>))
BuildStructLoad(u) == Build(Node("alias", <<u>>, <<>>))
BuildStore(u, v) == Build(Node("store", <<u, v>>, <<>>))
BuildPhi(u, v, b, c) ==
  /\ LastKind \in {"block", "phi"} /\ b # c
  /\ \A w \in {u, v} : nodes[w].kind = "arg" \/ w \in Range(body)
  /\ Build(Node("phi", <<u, v>>, <<b, c>>))
BuildJump(b) == Build(Node("jump", <<>>, <<b>>))
BuildBranch(u, b, c) == Build(Node("branch", <<u>>, <<b, c>>))
BuildReturn(u) == Build(Node("ret", <<u>>, <<>>))

(* qbe_call_new, qbe_block_new: nothing happens before they are used, so   *)
(* that it is as well to make them first.                                  *)
Only(kinds) == \A n \in Id \ {1, 3} : nodes[n].kind \in kinds
CallNew(kind) == Only({"block", "call", "void"}) /\ Make(Node(kind, <<>>, <<>>)) /\ UNCHANGED body
BlockNew == Only({"block"}) /\ Make(Node("block", <<>>, <<>>)) /\ UNCHANGED body

(* qbe_call_add_arg: a call is no operand of itself.                       *)
CallAddArg(c, u) ==
  /\ fpc = "build" /\ c \notin Reaches(u) /\ Len(nodes[c].use) < MaxArgs
  /\ nodes' = [nodes EXCEPT ![c].use = Append(@, u)]
  /\ UNCHANGED <<fpc, body, names, at, calls, code>>

(* qbe_build_call, qbe_build_block: once for each.                         *)
Place(n) ==
  /\ fpc = "build" /\ n \notin Range(body)
  /\ nodes[n].kind # "block" => Open
  /\ body' = Append(body, n)
  /\ UNCHANGED <<fpc, nodes, names, at, calls, code>>

-----------------------------------------------------------------------------
(* qbe_block_iota for the blocks of a sequence: names, and the counter.    *)
Entry(n, def, use, to) == [n |-> n, def |-> def, use |-> use, to |-> to]

(* Mutant of Labelled: a number for each mention.                          *)
LabelledAnew(bs) ==
  [iota |-> [n \in Id |-> IF n \in Range(bs)
                          THEN blocks - 1 + (CHOOSE i \in DOMAIN bs : bs[i] = n) ELSE iota[n]],
   blocks |-> blocks + Len(bs)]

Labelled(bs) ==
  LET l[k \in 0 .. Len(bs)] ==
        IF k = 0 THEN [iota |-> iota, blocks |-> blocks]
        ELSE LET m == l[k - 1]
             IN IF m.iota[bs[k]] # 0 THEN m
                ELSE [iota |-> [m.iota EXCEPT ![bs[k]] = m.blocks], blocks |-> m.blocks + 1]
  IN l[Len(bs)]

(* qbe_compile up to the statements: the argument, the label of the first  *)
(* block, the variable.  Block 0 would be one that has no name yet.        *)
Compile ==
  /\ fpc = "build" /\ ~Open
  /\ \A n \in Id : nodes[n].kind = "block" => n \in Range(body)
  /\ fpc' = "compile" /\ at' = 2
  /\ locals' = 2 /\ blocks' = 2
  /\ ssa' = {1, 3} /\ iota' = [iota EXCEPT ![1] = 0, ![2] = 1, ![3] = 1]
  /\ code' = <<Entry(1, <<0>>, <<>>, <<>>), Entry(2, <<>>, <<>>, <<1>>), Entry(3, <<1>>, <<>>, <<>>)>>
  /\ UNCHANGED <<nodes, body, calls>>

(* Mutant of NextStatement: values are left to whoever needs them.         *)
NextStatementLazy ==
  /\ fpc = "compile" /\ calls = <<>> /\ at <= Len(body)
  /\ calls' = IF nodes[body[at]].kind = "call" THEN <<>> ELSE <<[n |-> body[at], i |-> 0]>>
  /\ at' = at + 1
  /\ UNCHANGED <<fpc, built, names, code>>

NextStatement ==
  /\ fpc = "compile" /\ calls = <<>> /\ at <= Len(body)
  /\ calls' = <<[n |-> body[at], i |-> 0]>> /\ at' = at + 1
  /\ UNCHANGED <<fpc, built, names, code>>

This == Head(calls)
Operands(n) == nodes[n].use

Compiled(n) == n \in ssa

(* qbe_compile_node: a compiled node is done, another one's operands are   *)
(* compiled first.                                                         *)
Enter ==
  /\ fpc = "compile" /\ calls # <<>> /\ This.i = 0
  /\ calls' = IF Compiled(This.n) THEN Tail(calls) ELSE <<[This EXCEPT !.i = 1]>> \o Tail(calls)
  /\ UNCHANGED <<fpc, built, names, at, code>>

CompileOperand ==
  /\ fpc = "compile" /\ calls # <<>> /\ This.i \in DOMAIN Operands(This.n)
  /\ calls' = <<[n |-> Operands(This.n)[This.i], i |-> 0], [This EXCEPT !.i = @ + 1]>> \o Tail(calls)
  /\ UNCHANGED <<fpc, built, names, at, code>>

Ready(kinds) ==
  /\ fpc = "compile" /\ calls # <<>>
  /\ This.i = Len(Operands(This.n)) + 1 /\ nodes[This.n].kind \in kinds
  /\ calls' = Tail(calls)
  /\ UNCHANGED <<fpc, built, at>>
Uses == [i \in DOMAIN Operands(This.n) |-> iota[Operands(This.n)[i]]]

(* An instruction with a value, that mentions the blocks to.               *)
Define(to) ==
  LET l == Labelled(to)
  IN /\ iota' = [l.iota EXCEPT ![This.n] = locals] /\ blocks' = l.blocks
     /\ code' = Append(code, Entry(This.n, <<locals>>, Uses, [i \in DOMAIN to |-> l.iota[to[i]]]))
     /\ ssa' = ssa \cup {This.n} /\ locals' = locals + 1

EmitOp == Ready({"op"}) /\ Define(<<>>)
EmitPhi == Ready({"phi"}) /\ Define(nodes[This.n].to)
EmitCall == Ready({"call"}) /\ Define(<<>>)

(* Mutant of EmitAlias: the name is not taken over.                        *)
EmitAliasUnnamed ==
  /\ Ready({"alias"})
  /\ ssa' = ssa \cup {This.n}
  /\ UNCHANGED <<iota, locals, blocks, code>>

(* A load of a struct only goes by the name of its operand.                *)
EmitAlias ==
  /\ Ready({"alias"})
  /\ iota' = [iota EXCEPT ![This.n] = iota[Operands(This.n)[1]]]
  /\ ssa' = ssa \cup {This.n}
  /\ UNCHANGED <<locals, blocks, code>>

(* Stores and calls that return nothing are marked, but have no name.      *)
EmitEffect ==
  /\ Ready({"store", "void"})
  /\ code' = Append(code, Entry(This.n, <<>>, Uses, <<>>))
  /\ ssa' = ssa \cup {This.n}
  /\ UNCHANGED <<iota, locals, blocks>>

(* Jumps, branches, returns and labels have no name and keep no mark.      *)
EmitControl ==
  /\ Ready({"jump", "branch", "ret", "block"})
  /\ LET to == IF nodes[This.n].kind = "block" THEN <<This.n>> ELSE nodes[This.n].to
         l  == Labelled(to)
     IN /\ iota' = l.iota /\ blocks' = l.blocks
        /\ code' = Append(code, Entry(This.n, <<>>, Uses, [i \in DOMAIN to |-> l.iota[to[i]]]))
  /\ UNCHANGED <<ssa, locals>>

Finish ==
  /\ fpc = "compile" /\ calls = <<>> /\ at > Len(body)
  /\ fpc' = "done"
  /\ UNCHANGED <<built, names, at, calls, code>>

Host ==
  \/ \E u \in Values : BuildOp(u)
  \/ \E u \in Addresses : BuildStructLoad(u) \/ \E v \in Values : BuildStore(u, v)
  \/ \E u, v \in Values, b, c \in Of({"block"}) : BuildPhi(u, v, b, c)
  \/ \E b \in Of({"block"}) : BuildJump(b)
  \/ \E u \in Values, b, c \in Of({"block"}) : BuildBranch(u, b, c)
  \/ \E u \in Values : BuildReturn(u)
  \/ CallNew("call") \/ CallNew("void") \/ BlockNew
  \/ \E c \in Of({"call", "void"}), u \in Values : CallAddArg(c, u)
  \/ \E n \in Of({"call", "void", "block"}) : Place(n)

FnNext ==
  \/ Host \/ Compile \/ NextStatement \/ Enter \/ CompileOperand
  \/ EmitOp \/ EmitPhi \/ EmitCall \/ EmitAlias \/ EmitEffect \/ EmitControl \/ Finish

FnSpec == FnInit /\ [][FnNext]_fnVars

-----------------------------------------------------------------------------
(* Types; the counters are ahead of every number given out, and no call of *)
(* qbe_compile_node is inside another one of the same node.                *)
FnOK ==
  /\ fpc \in {"build", "compile", "done"}
  /\ fpc # "build" =>
       \A n \in Id : iota[n] < (IF nodes[n].kind = "block" THEN blocks ELSE locals)
  /\ \A h, k \in DOMAIN calls : calls[h].n = calls[k].n => h = k

(* The node whose instruction defines the value n goes by.                 *)
Root(n) ==
  LET r[m \in Id] == IF nodes[m].kind = "alias" THEN r[Operands(m)[1]] ELSE m IN r[n]

(* An instruction uses the names of the values the host meant, each of     *)
(* them defined further up, and no name is defined twice.                  *)
NamesDefined ==
  fpc = "done" => \A k \in DOMAIN code :
    /\ \A i \in DOMAIN code[k].use :
         \E j \in 1 .. k - 1 :
           code[j].n = Root(Operands(code[k].n)[i]) /\ code[j].def = <<code[k].use[i]>>
    /\ \A j \in 1 .. k - 1 : code[j].def = code[k].def => code[k].def = <<>>

(* Every node of the body is compiled once, however often it is mentioned, *)
(* and what no earlier statement needs stands where the host put it:       *)
(* calls, stores and loads happen in the order of the body.                *)
OnceInOrder ==
  fpc = "done" =>
    /\ \A j, k \in DOMAIN code : code[j].n = code[k].n => j = k
    /\ \A n \in Range(body) : nodes[n].kind = "alias" \/ \E k \in DOMAIN code : code[k].n = n
    /\ \A j, k \in DOMAIN body :
         (j < k /\ \A h \in 1 .. k - 1 : body[k] \notin Reaches(body[h])) =>
           \A p, r \in DOMAIN code : code[p].n = body[j] /\ code[r].n = body[k] => p < r

(* Jumps and phis, backward or forward, mention the label of the block     *)
(* that was meant, and no two blocks have the same one.                    *)
LabelsAgree ==
  fpc = "done" =>
    \A b \in Of({"block"}) :
      \E k \in DOMAIN code :
        /\ code[k].n = b
        /\ \A j \in DOMAIN code : \A i \in DOMAIN code[j].to :
             LET c == IF nodes[code[j].n].kind = "block" THEN code[j].n ELSE nodes[code[j].n].to[i]
             IN code[j].to[i] = code[k].to[1] <=> c = b
=============================================================================
