----------------------------- MODULE StaticData -----------------------------
(***************************************************************************)
(* A global variable on its way into the object file: qbe_compile          *)
(* (src/builder.c) writes its initialisers as data items, parsedat         *)
(* (src/parse.c) reads the items, qbe_emitdat (src/emit.c) turns them into *)
(* assembler directives.                                                   *)
(*                                                                         *)
(* A byte of data is 0 or a number that tells it from the others; the      *)
(* address of a symbol is eight bytes -k, for the k-th initialiser.  The   *)
(* text is a sequence of items and commas.                                 *)
(***************************************************************************)
EXTENDS Integers, SequencesExt

CONSTANTS
  Inits,    \* the lists of initialisers that are tried: of "ref"s and of
            \* sequences of BOOLEANs, FALSE for the bytes that are 0
  Slacks    \* by how much the type may be larger than its initialisers

ASSUME DataAssumption ==
  Inits \subseteq Seq([ref : BOOLEAN, data : Seq(BOOLEAN)]) /\ Slacks \subseteq Nat

VARIABLES
  dpc,     \* "write", "parse", "done" or "error"
  inits,   \* the initialisers: [ref |-> BOOLEAN, data |-> bytes]
  dsize,   \* size of the type of the variable
  k,       \* the initialiser being written
  left,    \* what remains of its bytes
  written, \* bytes the initialisers before it stand for
  text,    \* the contents of the braces; then what the parser has not read
  item,    \* whether the parser is at the start of an item
  zero,    \* zero of qbe_emitdat: zeros held back, -1 in the data section
  label,   \* the sections the variable got a label in
  image    \* the bytes behind the label

dataVars == <<dpc, inits, dsize, k, left, written, text, item, zero, label, image>>

Zeros(n) == [i \in 1 .. n |-> 0]
SymbolBytes(j) == [i \in 1 .. 8 |-> -j]
HostBytes(j, d) == [i \in DOMAIN d |-> IF d[i] THEN 100 * j + i ELSE 0]
Content == FlattenSeq([j \in DOMAIN inits |-> inits[j].data])
DataOf(j) == IF j \in DOMAIN inits /\ ~inits[j].ref THEN inits[j].data ELSE <<>>

(* The host may add empty data.                                            *)
DataInit ==
  /\ \E l \in Inits :
       inits = [j \in DOMAIN l |->
                 [ref |-> l[j].ref, data |-> IF l[j].ref THEN SymbolBytes(j) ELSE HostBytes(j, l[j].data)]]
  /\ \E n \in Slacks : dsize = n + Len(Content)
  /\ dpc = "write" /\ k = 1 /\ left = DataOf(1)
  /\ written = 0 /\ text = <<>> /\ item = TRUE /\ zero = 0 /\ label = <<>> /\ image = <<>>

Item(type, bytes) == [type |-> type, bytes |-> bytes]
Comma == Item(",", <<>>)
CommaIf(b) == IF b THEN <<Comma>> ELSE <<>>

-----------------------------------------------------------------------------
(* A variable without initialisers.                                        *)
WriteZero ==
  /\ dpc = "write" /\ inits = <<>>
  /\ text' = <<Item("z", Zeros(dsize))>>
  /\ dpc' = "parse"
  /\ UNCHANGED <<inits, dsize, k, left, written, item, zero, label, image>>

(* A symbol, and on to the next initialiser.                               *)
WriteRef ==
  /\ dpc = "write" /\ k \in DOMAIN inits /\ inits[k].ref
  /\ text' = text \o <<Item("l", inits[k].data)>> \o CommaIf(k < Len(inits))
  /\ written' = written + 8
  /\ k' = k + 1 /\ left' = DataOf(k + 1)
  /\ UNCHANGED <<dpc, inits, dsize, item, zero, label, image>>

(* The number of zeros d starts with.                                      *)
ZeroRun(d) ==
  IF \A i \in DOMAIN d : d[i] = 0 THEN Len(d)
  ELSE (CHOOSE i \in DOMAIN d : d[i] # 0 /\ \A h \in 1 .. i - 1 : d[h] = 0) - 1

(* A run of zeros is worth an item of its own.                             *)
SkipsZeros(d) == ZeroRun(d) > 0 /\ (ZeroRun(d) >= 8 \/ Len(d) < 8)

(* Bytes of the next item, and its letter.                                 *)
ItemWidth(n) == IF n >= 8 THEN 8 ELSE IF n >= 4 THEN 4 ELSE IF n >= 2 THEN 2 ELSE 1
Letter(w) == CASE w = 8 -> "l" [] w = 4 -> "w" [] w = 2 -> "h" [] w = 1 -> "b"

Chunk(d) == IF d = <<>> THEN <<>> ELSE <<Item(Letter(ItemWidth(Len(d))), SubSeq(d, 1, Min({ItemWidth(Len(d)), Len(d)})))>>
Behind(d, n) == SubSeq(d, n + 1, Len(d))

(* Mutant of WriteData: the comma behind a run of zeros is written in any  *)
(* case.                                                                   *)
WriteDataComma ==
  /\ dpc = "write" /\ left # <<>>
  /\ LET z    == IF SkipsZeros(left) THEN ZeroRun(left) ELSE 0
         rest == Behind(left, z)
         end  == Behind(rest, ItemWidth(Len(rest)))
     IN /\ text' = text \o (IF z > 0 THEN <<Item("z", Zeros(z)), Comma>> ELSE <<>>)
                         \o Chunk(rest) \o CommaIf(end # <<>>)
        /\ left' = end
  /\ UNCHANGED <<dpc, inits, dsize, k, written, item, zero, label, image>>

(* A round of the loop over the bytes: a run of zeros, then the widest     *)
(* item that fits in what remains.                                         *)
WriteData ==
  /\ dpc = "write" /\ left # <<>>
  /\ LET z    == IF SkipsZeros(left) THEN ZeroRun(left) ELSE 0
         rest == Behind(left, z)
         end  == Behind(rest, ItemWidth(Len(rest)))
     IN /\ text' = text \o (IF z > 0 THEN <<Item("z", Zeros(z))>> \o CommaIf(rest # <<>>) ELSE <<>>)
                         \o Chunk(rest) \o CommaIf(end # <<>>)
        /\ left' = end
  /\ UNCHANGED <<dpc, inits, dsize, k, written, item, zero, label, image>>

(* The end of the data, and on to the next initialiser.                    *)
WriteDataEnd ==
  /\ dpc = "write" /\ k \in DOMAIN inits /\ ~inits[k].ref /\ left = <<>>
  /\ text' = text \o CommaIf(k < Len(inits))
  /\ written' = written + Len(inits[k].data)
  /\ k' = k + 1 /\ left' = DataOf(k + 1)
  /\ UNCHANGED <<dpc, inits, dsize, item, zero, label, image>>

(* Mutant of WriteEnd: the padding is as long as the variable.             *)
WriteEndWhole ==
  /\ dpc = "write" /\ inits # <<>> /\ k > Len(inits)
  /\ text' = text \o (IF written < dsize THEN <<Comma, Item("z", Zeros(dsize))>> ELSE <<>>)
  /\ dpc' = "parse"
  /\ UNCHANGED <<inits, dsize, k, left, written, item, zero, label, image>>

(* What the initialisers leave of the variable is zero.                    *)
WriteEnd ==
  /\ dpc = "write" /\ inits # <<>> /\ k > Len(inits)
  /\ text' = text \o (IF written < dsize THEN <<Comma, Item("z", Zeros(dsize - written))>> ELSE <<>>)
  /\ dpc' = "parse"
  /\ UNCHANGED <<inits, dsize, k, left, written, item, zero, label, image>>

-----------------------------------------------------------------------------
(* Mutant of EmitZeros: zeros are held back in the data section too.       *)
EmitZerosLate(n) ==
  /\ zero' = (IF zero # -1 THEN zero + n ELSE zero)
  /\ UNCHANGED <<label, image>>

(* DZ of qbe_emitdat: zeros may still turn out to be all there is.         *)
EmitZeros(n) ==
  IF zero # -1 THEN zero' = zero + n /\ UNCHANGED <<label, image>>
  ELSE image' = image \o Zeros(n) /\ UNCHANGED <<zero, label>>

(* Any other item: the data section is opened and gets the zeros held back.*)
EmitBytes(b) ==
  /\ label' = IF zero # -1 THEN Append(label, "data") ELSE label
  /\ image' = image \o (IF zero # -1 THEN Zeros(zero) ELSE <<>>) \o b
  /\ zero' = -1

(* A round of the loop of parsedat, up to the token behind the item.       *)
ParseItem ==
  /\ dpc = "parse" /\ text # <<>> /\ item /\ Head(text) # Comma
  /\ IF Head(text).type = "z" THEN EmitZeros(Len(Head(text).bytes)) ELSE EmitBytes(Head(text).bytes)
  /\ text' = Tail(text) /\ item' = FALSE
  /\ UNCHANGED <<dpc, inits, dsize, k, left, written>>

ParseComma ==
  /\ dpc = "parse" /\ text # <<>> /\ ~item /\ Head(text) = Comma
  /\ text' = Tail(text) /\ item' = TRUE
  /\ UNCHANGED <<dpc, inits, dsize, k, left, written, zero, label, image>>

(* "invalid size specifier in data" and ", or } expected".                 *)
ParseError ==
  /\ text # <<>> /\ (Head(text) = Comma <=> item)
  /\ dpc = "parse" /\ dpc' = "error"
  /\ UNCHANGED <<inits, dsize, k, left, written, text, item, zero, label, image>>

(* The closing brace, also behind a comma, and DEnd of qbe_emitdat.        *)
ParseEnd ==
  /\ dpc = "parse" /\ text = <<>>
  /\ label' = IF zero # -1 THEN Append(label, "bss") ELSE label
  /\ image' = IF zero # -1 THEN Zeros(zero) ELSE image
  /\ dpc' = "done"
  /\ UNCHANGED <<inits, dsize, k, left, written, text, item, zero>>

DataNext ==
  \/ WriteZero \/ WriteRef \/ WriteData \/ WriteDataEnd \/ WriteEnd
  \/ ParseItem \/ ParseComma \/ ParseError \/ ParseEnd

DataSpec == DataInit /\ [][DataNext]_dataVars

-----------------------------------------------------------------------------
(* Types; an item is as wide as its letter says.                           *)
DataOK ==
  /\ dpc \in {"write", "parse", "done", "error"} /\ zero \in -1 .. dsize
  /\ \A i \in DOMAIN text :
       text[i].type \in {"l", "w", "h", "b"} => text[i].type = Letter(Len(text[i].bytes))

(* The parser takes what the builder writes: no item is missing between    *)
(* two commas, whatever the runs of zeros end at, unless the host added    *)
(* data of no bytes.                                                       *)
Accepted == dpc = "error" => \E j \in DOMAIN inits : inits[j].data = <<>>

(* The variable in the object file is the host's data, byte for byte, and  *)
(* zero behind it, no shorter and no longer than its type.                 *)
ImageExact == dpc = "done" => image = Content \o Zeros(dsize - Len(Content))

=============================================================================
