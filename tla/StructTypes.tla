---------------------------- MODULE StructTypes ----------------------------
(***************************************************************************)
(* Struct and array types (src/builder.c): their layout, computed when the *)
(* type is taken (qbe_type_struct), the cache of array types               *)
(* (qbe_type_array), and their declarations in the text handed to QBE      *)
(* (qbe_compile_struct), of which the parser (parsefields in src/parse.c)  *)
(* computes a layout of its own.                                           *)
(*                                                                         *)
(* The host embeds only types that are up to date, and gives a struct no   *)
(* field once another type embeds it.  A struct is its position in         *)
(* q->structs; the caches are sets of what was inserted.  Sizes are        *)
(* mathematical integers, of 64 bits in the code; what the parser keeps in *)
(* an int is narrowed as it is there.                                      *)
(***************************************************************************)
EXTENDS Integers, FiniteSets, SequencesExt

CONSTANTS
  Sizes,       \* sizes, and alignments, of the basic types in use
  Counts,      \* lengths of arrays
  IntMax,      \* INT_MAX of the parser
  NField,      \* entries the parser keeps of a type
  MaxStructs,  \* bound on the structs, those of arrays included
  MaxParts     \* bound on structs and fields together, but for the arrays' field

ASSUME StructAssumption ==
  /\ Sizes \subseteq {1, 2, 4, 8} /\ Counts \subseteq Nat \ {0}
  /\ IntMax \in Nat /\ NField \in Nat
  /\ MaxStructs \in Nat /\ MaxParts \in Nat

VARIABLES
  tpc,      \* "build", "compile", "done" or "abort"
  structs,  \* q->structs
  held,     \* structs whose type the host has
  arrays,   \* the array cache
  cache,    \* the struct cache: structs in the order of their iotas
  out,      \* the declarations written
  stack     \* calls of qbe_compile_struct: [st |-> struct, at |-> next field]

typeVars == <<tpc, structs, held, arrays, cache, out, stack>>

Structs == DOMAIN structs
Basic(sz) == [spec |-> 0, size |-> sz]
StructType(s) == [spec |-> s, size |-> 0]
TypesHeld == {Basic(sz) : sz \in Sizes} \cup {StructType(s) : s \in held}

TypesInit ==
  /\ tpc = "build" /\ structs = <<>> /\ held = {} /\ arrays = {}
  /\ cache = <<>> /\ out = <<>> /\ stack = <<>>

-----------------------------------------------------------------------------
(* qbe_type_info, where its assertion holds.                               *)
LayoutReady(ss, t) == t.spec # 0 => ss[t.spec].ready
Info(ss, t) ==
  IF t.spec = 0 THEN [size |-> t.size, align |-> t.size]
  ELSE [size |-> ss[t.spec].size, align |-> ss[t.spec].align]

RoundUp(n, a) == n + ((a - (n % a)) % a)

(* What a field takes, and the offsets behind the first i fields.          *)
Extent(ss, f) == Info(ss, f.type).size * f.repeat
Ends(ss, fs, packed) ==
  LET end[i \in 0 .. Len(fs)] ==
        IF i = 0 THEN 0
        ELSE (IF packed THEN end[i - 1] ELSE RoundUp(end[i - 1], Info(ss, fs[i].type).align))
               + Extent(ss, fs[i])
  IN end

(* The body of qbe_type_struct: the struct s of ss with its layout.        *)
Layout(ss, s) ==
  LET fs  == ss[s].fields
      end == Ends(ss, fs, ss[s].packed)
      al  == IF ss[s].packed THEN 1 ELSE Max({1} \cup {Info(ss, fs[i].type).align : i \in DOMAIN fs})
  IN [ss[s] EXCEPT !.ready = TRUE, !.align = al,
        !.size = IF ss[s].packed THEN end[Len(fs)] ELSE RoundUp(end[Len(fs)], al),
        !.fields = [i \in DOMAIN fs |-> [fs[i] EXCEPT !.offset = end[i] - Extent(ss, fs[i])]]]

(* qbe_struct_new                                                          *)
Fresh(packed) ==
  [fields |-> <<>>, packed |-> packed, ready |-> FALSE, size |-> 0, align |-> 0,
   compiled |-> FALSE, iota |-> 0]
Field(t, n) == [type |-> t, repeat |-> n, offset |-> 0]

FieldsAdded ==
  FoldLeft(LAMBDA n, st : n + Len(st.fields), 0, structs) - Cardinality(arrays)

StructNew(packed) ==
  /\ tpc = "build" /\ Len(structs) < MaxStructs /\ FieldsAdded + Len(structs) < MaxParts
  /\ structs' = Append(structs, Fresh(packed))
  /\ UNCHANGED <<tpc, held, arrays, cache, out, stack>>

(* Some type embeds s.                                                     *)
Embedded(s) ==
  \E r \in Structs : \E i \in DOMAIN structs[r].fields : structs[r].fields[i].type.spec = s

(* Mutant of StructAddField: the layout that was taken stays.              *)
StructAddFieldStale(s, t) ==
  /\ tpc = "build" /\ s \in Structs /\ ~Embedded(s) /\ t.spec # s /\ LayoutReady(structs, t)
  /\ FieldsAdded + Len(structs) < MaxParts /\ \A a \in arrays : a.st # s
  /\ structs' = [structs EXCEPT ![s].fields = Append(@, Field(t, 1))]
  /\ UNCHANGED <<tpc, held, arrays, cache, out, stack>>

(* qbe_struct_add_field: the layout is computed anew with the next type.   *)
StructAddField(s, t) ==
  /\ tpc = "build" /\ s \in Structs /\ ~Embedded(s) /\ t.spec # s /\ LayoutReady(structs, t)
  /\ FieldsAdded + Len(structs) < MaxParts /\ \A a \in arrays : a.st # s
  /\ structs' = [structs EXCEPT ![s].ready = FALSE, ![s].fields = Append(@, Field(t, 1))]
  /\ UNCHANGED <<tpc, held, arrays, cache, out, stack>>

(* qbe_type_struct                                                         *)
TypeStruct(s) ==
  /\ tpc = "build" /\ s \in Structs
  /\ s \notin held \/ ~structs[s].ready
  /\ held' = held \cup {s}
  /\ IF structs[s].ready THEN UNCHANGED <<tpc, structs>>
     ELSE IF \A i \in DOMAIN structs[s].fields : LayoutReady(structs, structs[s].fields[i].type)
          THEN structs' = [structs EXCEPT ![s] = Layout(structs, s)] /\ UNCHANGED tpc
          ELSE tpc' = "abort" /\ UNCHANGED structs
  /\ UNCHANGED <<arrays, cache, out, stack>>

(* qbe_type_array: the type cached for the key, or a struct with a single  *)
(* repeated field.                                                         *)
TypeArray(t, n) ==
  /\ tpc = "build" /\ LayoutReady(structs, t) /\ Len(structs) < MaxStructs
  /\ FieldsAdded + Len(structs) < MaxParts
  /\ \A a \in arrays : ~(a.type = t /\ a.count = n)
  /\ LET s == Len(structs) + 1
         ss == Append(structs, [Fresh(FALSE) EXCEPT !.fields = <<Field(t, n)>>])
     IN /\ structs' = [ss EXCEPT ![s] = Layout(ss, s)]
        /\ held' = held \cup {s}
        /\ arrays' = arrays \cup {[type |-> t, count |-> n, st |-> s]}
  /\ UNCHANGED <<tpc, cache, out, stack>>

-----------------------------------------------------------------------------
(* The loop of qbe_compile over q->structs: a call for each, in order.     *)
CompileStructs ==
  /\ tpc = "build"
  /\ tpc' = "compile"
  /\ stack' = [s \in Structs |-> [st |-> s, at |-> 0]]
  /\ UNCHANGED <<structs, held, arrays, cache, out>>

Shape(s) ==
  [packed |-> structs[s].packed,
   fields |-> [i \in DOMAIN structs[s].fields |->
                 <<structs[s].fields[i].type, structs[s].fields[i].repeat>>]]

(* qbe_struct_equal                                                        *)
SameStruct(a, b) == Shape(a) = Shape(b)

Call == Head(stack)

(* A call that does nothing.                                               *)
StructSkip ==
  /\ tpc = "compile" /\ stack # <<>> /\ Call.at = 0
  /\ ~structs[Call.st].ready \/ structs[Call.st].compiled
  /\ stack' = Tail(stack)
  /\ UNCHANGED <<tpc, structs, held, arrays, cache, out>>

(* An equal struct has been declared: this one goes by its name.           *)
StructKnown ==
  /\ tpc = "compile" /\ stack # <<>> /\ Call.at = 0
  /\ structs[Call.st].ready /\ ~structs[Call.st].compiled
  /\ \E r \in Range(cache) :
       /\ SameStruct(Call.st, r)
       /\ structs' = [structs EXCEPT ![Call.st].compiled = TRUE, ![Call.st].iota = structs[r].iota]
  /\ stack' = Tail(stack)
  /\ UNCHANGED <<tpc, held, arrays, cache, out>>

(* A struct to be declared: its embedded structs first.                    *)
StructEnter ==
  /\ tpc = "compile" /\ stack # <<>> /\ Call.at = 0
  /\ structs[Call.st].ready /\ ~structs[Call.st].compiled
  /\ \A r \in Range(cache) : ~SameStruct(Call.st, r)
  /\ structs' = [structs EXCEPT ![Call.st].compiled = TRUE]
  /\ stack' = <<[Call EXCEPT !.at = IF structs[Call.st].packed
                                    THEN Len(structs[Call.st].fields) + 1 ELSE 1]>> \o Tail(stack)
  /\ UNCHANGED <<tpc, held, arrays, cache, out>>

(* Mutant of StructNested: the declarations of the fields are left for     *)
(* their own turn.                                                         *)
StructNestedLater ==
  /\ tpc = "compile" /\ stack # <<>>
  /\ Call.at \in DOMAIN structs[Call.st].fields
  /\ stack' = <<[Call EXCEPT !.at = @ + 1]>> \o Tail(stack)
  /\ UNCHANGED <<tpc, structs, held, arrays, cache, out>>

StructNested ==
  /\ tpc = "compile" /\ stack # <<>>
  /\ Call.at \in DOMAIN structs[Call.st].fields
  /\ LET t == structs[Call.st].fields[Call.at].type
         rest == <<[Call EXCEPT !.at = @ + 1]>> \o Tail(stack)
     IN stack' = IF t.spec = 0 THEN rest ELSE <<[st |-> t.spec, at |-> 0]>> \o rest
  /\ UNCHANGED <<tpc, structs, held, arrays, cache, out>>

(* Mutant of Declaration: the length of an array is not written.           *)
DeclarationNoRepeat(s, iota) ==
  [iota |-> iota, align |-> structs[s].align, dark |-> structs[s].packed, size |-> structs[s].size,
   fields |-> IF structs[s].packed THEN <<>>
              ELSE [i \in DOMAIN structs[s].fields |->
                     LET f == structs[s].fields[i]
                     IN [basic |-> f.type.size, repeat |-> 1,
                         iota |-> IF f.type.spec = 0 THEN 0 ELSE structs[f.type.spec].iota]]]

(* The declaration: a packed struct is opaque, of another one the fields   *)
(* are named, by size or by declaration.                                   *)
Declaration(s, iota) ==
  [iota |-> iota, align |-> structs[s].align, dark |-> structs[s].packed, size |-> structs[s].size,
   fields |-> IF structs[s].packed THEN <<>>
              ELSE [i \in DOMAIN structs[s].fields |->
                     LET f == structs[s].fields[i]
                     IN [basic |-> f.type.size, repeat |-> f.repeat,
                         iota |-> IF f.type.spec = 0 THEN 0 ELSE structs[f.type.spec].iota]]]

(* The end of qbe_compile_struct: a new name and the declaration.          *)
StructDeclare ==
  /\ tpc = "compile" /\ stack # <<>>
  /\ Call.at = Len(structs[Call.st].fields) + 1
  /\ cache' = Append(cache, Call.st)
  /\ structs' = [structs EXCEPT ![Call.st].iota = Len(cache)]
  /\ out' = Append(out, Declaration(Call.st, Len(cache)))
  /\ stack' = Tail(stack)
  /\ UNCHANGED <<tpc, held, arrays>>

StructsCompiled ==
  /\ tpc = "compile" /\ stack = <<>>
  /\ tpc' = "done"
  /\ UNCHANGED <<structs, held, arrays, cache, out, stack>>

TypesNext ==
  \/ \E p \in BOOLEAN : StructNew(p)
  \/ \E s \in Structs : \E t \in TypesHeld : StructAddField(s, t)
  \/ \E s \in Structs : TypeStruct(s)
  \/ \E t \in TypesHeld, n \in Counts : TypeArray(t, n)
  \/ CompileStructs \/ StructSkip \/ StructKnown \/ StructEnter \/ StructNested
  \/ StructDeclare \/ StructsCompiled

TypesSpec == TypesInit /\ [][TypesNext]_typeVars

-----------------------------------------------------------------------------
(* parsefields: the size, the alignment and the offsets the parser gives   *)
(* the k-th declaration; a field may only name an earlier one.             *)

(* The length of an array is read into an int.                             *)
Narrowed(n) == ((n + IntMax + 1) % (2 * IntMax + 2)) - IntMax - 1

FieldInfo(p, f) ==
  IF f.basic # 0 THEN [size |-> f.basic, align |-> f.basic]
  ELSE [size |-> p[f.iota + 1].size, align |-> p[f.iota + 1].align]
FieldExtent(p, f) == FieldInfo(p, f).size * Narrowed(f.repeat)
FieldEnds(p, fs) ==
  LET end[i \in 0 .. Len(fs)] ==
        IF i = 0 THEN 0
        ELSE RoundUp(end[i - 1], FieldInfo(p, fs[i]).align) + FieldExtent(p, fs[i])
  IN end

(* The fields whose first element has an entry: an entry for the padding   *)
(* in front of a field and one for each element, until there are NField.   *)
Recorded(end, aligns, counts) ==
  LET pad(i) == IF end[i - 1] % aligns[i] = 0 THEN 0 ELSE 1
      entries[i \in 0 .. Len(counts)] ==
        IF i = 0 THEN 0 ELSE entries[i - 1] + pad(i) + Max({0, counts[i]})
  IN {i \in DOMAIN counts : counts[i] > 0 /\ entries[i - 1] + pad(i) < NField}

ParsedFields(p, d) ==
  LET end    == FieldEnds(p, d.fields)
      aligns == [i \in DOMAIN d.fields |-> FieldInfo(p, d.fields[i]).align]
      counts == [i \in DOMAIN d.fields |-> Narrowed(d.fields[i].repeat)]
      al     == Max({d.align} \cup {FieldInfo(p, d.fields[i]).align : i \in DOMAIN d.fields})
  IN IF d.dark THEN [size |-> d.size, align |-> d.align, offset |-> <<>>]
     ELSE [size |-> RoundUp(end[Len(d.fields)], al), align |-> al,
           offset |-> [i \in Recorded(end, aligns, counts) |-> end[i] - FieldExtent(p, d.fields[i])]]
Parsed ==
  LET p[k \in DOMAIN out] == ParsedFields(p, out[k]) IN p

(* Types; no assertion fails: the layout of an embedded struct is ready    *)
(* whenever it is asked for; and the cache knows every declaration once.   *)
TypesOK ==
  /\ tpc \in {"build", "compile", "done"}
  /\ held \subseteq Structs /\ Len(out) = Len(cache)
  /\ \A s \in Structs : structs[s].iota \in 0 .. Len(cache) /\ structs[s].size \in Nat
  /\ \A r, s \in DOMAIN cache : cache[r] = cache[s] => r = s

(* A layout, however often it was taken and outdated by more fields, keeps *)
(* the fields apart, aligns them, the elements of arrays included, and is  *)
(* no larger than it must be.                                              *)
LayoutSound ==
  \A s \in Structs : structs[s].ready =>
    LET st == structs[s]
        al(i) == IF st.packed THEN 1 ELSE Info(structs, st.fields[i].type).align
        behind(i) == IF i = 0 THEN 0 ELSE st.fields[i].offset + Extent(structs, st.fields[i])
    IN /\ st.size % st.align = 0
       /\ \A i \in DOMAIN st.fields :
            /\ st.fields[i].offset % al(i) = 0 /\ st.align % al(i) = 0
            /\ behind(i - 1) <= st.fields[i].offset /\ st.fields[i].offset < behind(i - 1) + al(i)
       /\ behind(Len(st.fields)) <= st.size /\ st.size < behind(Len(st.fields)) + st.align

DeclaredFirst ==
  \A k \in DOMAIN out :
    /\ out[k].iota = k - 1
    /\ \A i \in DOMAIN out[k].fields :
         out[k].fields[i].basic = 0 => out[k].fields[i].iota < k - 1

OneNamePerShape ==
  tpc = "done" =>
    \A r, s \in Structs : structs[r].ready /\ structs[s].ready =>
      (Shape(r) = Shape(s) <=> structs[r].iota = structs[s].iota)

(* A declaration only names structs declared before it, and structs share  *)
(* a declaration exactly when their fields are the same                    *)
(* (qbe_compile_struct, qbe_struct_equal).                                 *)
DeclaredOnce == DeclaredFirst /\ OneNamePerShape

(* Every array of the program is as long as an int can say.                *)
CountsFit == \A s \in Structs : \A i \in DOMAIN structs[s].fields : structs[s].fields[i].repeat <= IntMax

(* Host, builder and parser agree: whichever struct of the same shape gave *)
(* a type its declaration, QBE gives it the size and the alignment that    *)
(* qbe_sizeof told the host, and what it keeps of the fields has the       *)
(* offsets of qbe_offsetof.  It does not where the length of an array does *)
(* not fit the int that parsefields reads it into, and it keeps no more    *)
(* than the first NField entries.                                          *)
LayoutAgrees ==
  tpc = "done" /\ DeclaredFirst /\ CountsFit =>
    \A s \in Structs : structs[s].ready =>
      /\ structs[s].iota + 1 \in DOMAIN out
      /\ LET d == Parsed[structs[s].iota + 1]
         IN /\ d.size = structs[s].size /\ d.align = structs[s].align
            /\ \A i \in DOMAIN d.offset : d.offset[i] = structs[s].fields[i].offset

=============================================================================
