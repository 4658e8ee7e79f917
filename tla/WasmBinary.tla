----------------------------- MODULE WasmBinary -----------------------------
(* The binary format of modules: what serialize writes of a module, and what it makes of a    *)
(* stream of bytes.  A contract's code is read, changed by the injection passes, written and   *)
(* read again when it is instantiated.                                                      *)
EXTENDS Integers, Sequences, SequencesExt, Operators

-----------------------------------------------------------------------------
(* validateDefinitions: the definitions of a module that has been read.  A module is          *)
(* [types, functions, tables, memories, globals, exports, start, tableSegments, dataSegments,  *)
(*  userSections]; an index space is [imports, defs].                                         *)
CONSTANTS
    maxTableSize,     \* UINT32_MAX
    maxMemoryPages

NoMax == -1           \* UINT64_MAX in a size constraint
NoStart == -1         \* UINTPTR_MAX as the start function's index

size(space) == Len(space.imports) + Len(space.defs)
getType(space, index) ==
    IF index < Len(space.imports) THEN space.imports[index + 1].type
    ELSE space.defs[index - Len(space.imports) + 1].type

validType(t) == t \in IntTypes \cup FloatTypes
validReturn(t) == t = "none" \/ validType(t)

validSize(constraints, maxMax) ==
    LET max == IF constraints.max = NoMax THEN maxMax ELSE constraints.max
    IN  constraints.min <= max /\ max <= maxMax

validTable(t)  == t.elementType = "anyfunc" /\ validSize(t.size, maxTableSize)
validMemory(t) == validSize(t.size, maxMemoryPages)

(* validateGlobalIndex, for uses that want an immutable global.                            *)
immutableGlobal(m, index, mustBeImport) ==
    /\ index < size(m.globals)
    /\ mustBeImport => index < Len(m.globals.imports)
    /\ ~getType(m.globals, index).isMutable

validInitializer(m, e, expected) ==
    CASE e.type = "i32_const"  -> expected = "i32"
      [] e.type = "i64_const"  -> expected = "i64"
      [] e.type = "f32_const"  -> expected = "f32"
      [] e.type = "f64_const"  -> expected = "f64"
      [] e.type = "get_global" -> immutableGlobal(m, e.n, TRUE) /\ getType(m.globals, e.n).type = expected

validExport(m, x) ==
    CASE x.kind = "function" -> x.index < size(m.functions)
      [] x.kind = "table"    -> x.index < size(m.tables)
      [] x.kind = "memory"   -> x.index < size(m.memories)
      [] x.kind = "global"   -> immutableGlobal(m, x.index, FALSE)
      [] OTHER               -> FALSE

validStart(m) ==
    m.start # NoStart =>
        /\ m.start < size(m.functions)
        /\ m.types[getType(m.functions, m.start) + 1] = [params |-> <<>>, ret |-> "none"]

ForAll(P(_), s) == \A k \in 1..Len(s) : P(s[k])

validateDefinitions(m) ==
    /\ ForAll(LAMBDA t : ForAll(validType, t.params) /\ validReturn(t.ret), m.types)
    /\ ForAll(LAMBDA i : i.type < Len(m.types), m.functions.imports)
    /\ ForAll(LAMBDA i : validTable(i.type), m.tables.imports)
    /\ ForAll(LAMBDA i : validMemory(i.type), m.memories.imports)
    /\ ForAll(LAMBDA i : validType(i.type.type) /\ ~i.type.isMutable, m.globals.imports)
    /\ ForAll(LAMBDA d : d.type < Len(m.types) /\ ForAll(validType, d.locals), m.functions.defs)
    /\ ForAll(LAMBDA d : validType(d.type.type) /\ validInitializer(m, d.initializer, d.type.type), m.globals.defs)
    /\ ForAll(LAMBDA d : validTable(d.type), m.tables.defs) /\ size(m.tables) <= 1
    /\ ForAll(LAMBDA d : validMemory(d.type), m.memories.defs) /\ size(m.memories) <= 1
    /\ ForAll(LAMBDA x : validExport(m, x), m.exports)
    /\ \A a, b \in 1..Len(m.exports) : m.exports[a].name = m.exports[b].name => a = b
    /\ validStart(m)
    /\ ForAll(LAMBDA d : d.index < size(m.memories) /\ validInitializer(m, d.baseOffset, "i32"), m.dataSegments)
    /\ ForAll(LAMBDA t : /\ t.index < size(m.tables) /\ validInitializer(m, t.baseOffset, "i32")
                         /\ ForAll(LAMBDA f : f < size(m.functions), t.indices), m.tableSegments)

-----------------------------------------------------------------------------
(* Byte streams: what the stream classes and the serialize functions of the containers and   *)
(* numbers write, and what they read back.  A byte has its 8 bits; the 32 and 64 bit numbers *)
(* have the widths the constants give them.                                                 *)
(*                                                                                         *)
(* Writing is a sequence of bytes.  Reading is a set of [v, s], the value read and the bytes  *)
(* left, empty when the reader throws.                                                      *)
CONSTANTS
    Bits32, Bits64,            \* the widths of U32 and U64
    Bytes32, Bytes64,          \* how many bytes a float of each size takes
    wasm_page_size,            \* limits of the reader
    maximum_func_local_bytes,
    maximum_section_elements,
    maximum_code_size,
    maximum_local_sets

ASSUME WidthsAssumption == Bits32 \in 8..30 /\ Bits64 \in Bits32..30

Byte == 0..255

-----------------------------------------------------------------------------
(* Reading in sequence: G on what D read.                                                  *)
Read(value, rest) == {[v |-> value, s |-> rest]}
Bind(results, G(_, _)) == UNION {G(r.v, r.s) : r \in results}
Only(results, P(_)) == {r \in results : P(r.v)}
Mapped(results, F(_)) == {[v |-> F(r.v), s |-> r.s] : r \in results}

(* advance: the next n bytes, if there are as many.                                        *)
advance(s, n) == IF n <= Len(s) THEN Read(SubSeq(s, 1, n), SubSeq(s, n + 1, Len(s))) ELSE {}
readBytes(s, n) == IF n < wasm_page_size THEN advance(s, n) ELSE {}
readByte(s) == IF s # <<>> THEN Read(Head(s), Tail(s)) ELSE {}

(* Native values are little endian.                                                        *)
RECURSIVE littleEndian(_, _)
littleEndian(value, n) == IF n = 0 THEN <<>> ELSE <<value % 256>> \o littleEndian(value \div 256, n - 1)
RECURSIVE fromBytes(_)
fromBytes(bytes) == IF bytes = <<>> THEN 0 ELSE Head(bytes) + 256 * fromBytes(Tail(bytes))
readNative(s, n) == Mapped(readBytes(s, n), fromBytes)

-----------------------------------------------------------------------------
(* LEB128                                                                                  *)

RECURSIVE groups(_, _)
groups(value, signed) ==
    LET low  == value % 128
        rest == value \div 128
        more == IF signed
                THEN \/ rest \notin {0, -1}
                     \/ rest >= 0 /\ low >= 64
                     \/ rest < 0 /\ low < 64
                ELSE rest # 0
    IN  IF more THEN <<low + 128>> \o groups(rest, signed) ELSE <<low>>

(* A kind of number: how many bits, and the least and greatest value.                      *)
VarUInt(bits)     == [bits |-> bits, min |-> 0, max |-> 2^bits - 1]
VarSInt(bits)     == [bits |-> bits, min |-> -2^(bits - 1), max |-> 2^(bits - 1) - 1]
signed(k)         == k.min < 0

(* serializeVarInt of an output stream.  A value out of range throws.                      *)
writeVar(k, value) == IF k.min <= value /\ value <= k.max THEN {groups(value, signed(k))} ELSE {}

maxBytes(k) == (k.bits + 6) \div 7
usedBitsInLastByte(k) == k.bits - (maxBytes(k) - 1) * 7

(* The bytes up to the first without the continuation bit, at most maxBytes.               *)
RECURSIVE takeGroups(_, _)
takeGroups(s, limit) ==
    IF limit = 0 THEN Read(<<>>, s)
    ELSE Bind(readByte(s), LAMBDA b, t :
             IF b < 128 THEN Read(<<b>>, t) ELSE Mapped(takeGroups(t, limit - 1), LAMBDA bs : <<b>> \o bs))

(* Fault: the continuation bit of the last byte is not looked at.                          *)
unusedBitsFault(k, last) ==
    LET used == usedBitsInLastByte(k)
        unused == (last % 128) \div 2^used
    IN  IF signed(k) /\ (last \div 2^(used - 1)) % 2 = 1 THEN unused = 2^(7 - used) - 1 ELSE unused = 0

(* The bits of byte maxBytes above those the number has: all 0 in an unsigned number, and in   *)
(* a signed one copies of the sign, with the continuation bit 0.                            *)
unusedBits(k, last) ==
    LET used == usedBitsInLastByte(k)
        unused == last \div 2^used
    IN  IF signed(k) /\ (last \div 2^(used - 1)) % 2 = 1 THEN unused = 2^(7 - used) - 1 ELSE unused = 0

RECURSIVE joined(_)
joined(bytes) == IF bytes = <<>> THEN 0 ELSE (Head(bytes) % 128) + 128 * joined(Tail(bytes))
extended(k, bytes) ==
    LET value == joined(bytes) IN
    IF signed(k) /\ Last(bytes) % 128 >= 64 THEN value - 128^Len(bytes) ELSE value

(* serializeVarInt of an input stream: the bytes after the ones read are 0.                *)
readVar(k, s) ==
    LET n == maxBytes(k) IN
    Mapped(Only(takeGroups(s, n),
                LAMBDA bs : /\ unusedBits(k, IF Len(bs) = n THEN Last(bs) ELSE 0)
                            /\ extended(k, bs) \in k.min..k.max),
           LAMBDA bs : extended(k, bs))

U1  == VarUInt(1)
U7  == VarUInt(7)
U32 == VarUInt(Bits32)
I7  == VarSInt(7)
I32 == VarSInt(Bits32)
I64 == VarSInt(Bits64)

-----------------------------------------------------------------------------
(* Containers                                                                              *)

(* Concatenation of what is written; nothing when one of the parts throws.                 *)
RECURSIVE Written(_)
Written(parts) ==
    IF parts = <<>> THEN {<<>>} ELSE {a \o b : a \in Head(parts), b \in Written(Tail(parts))}

writeBytes(bytes) == Written(<<writeVar(U32, Len(bytes)), {bytes}>>)
writeArray(W(_), elements) ==
    Written(<<writeVar(U32, Len(elements))>> \o [k \in 1..Len(elements) |-> W(elements[k])])

readConstant(s, bytes) == Only(readBytes(s, Len(bytes)), LAMBDA b : b = bytes)

readString(s) ==
    Bind(readVar(U32, s), LAMBDA n, t : IF n < maximum_func_local_bytes THEN advance(t, n) ELSE {})

(* n elements read by D, one after the other: as each takes a byte or more, more elements    *)
(* than bytes always run into the end of the stream.                                        *)
readEach(D(_), n, s) ==
    LET upTo[k \in 0..n] ==
            IF k = 0 THEN Read(<<>>, s)
            ELSE Bind(upTo[k - 1], LAMBDA sofar, t : Mapped(D(t), LAMBDA e : Append(sofar, e)))
    IN  IF n <= Len(s) THEN upTo[n] ELSE {}
readArray(D(_), s) ==
    Bind(readVar(U32, s), LAMBDA n, t : IF n < maximum_func_local_bytes THEN readEach(D, n, t) ELSE {})

-----------------------------------------------------------------------------
(* UTF8::validateString                                                                    *)

Tail2(s, low, high) == Len(s) >= 2 /\ s[2] \in low..high
Continues(s, n) == Len(s) >= n /\ \A k \in 3..n : s[k] \in 128..191

(* How many bytes of s the next character takes, 0 when it is not valid.                   *)
character(s) ==
    CASE s[1] < 128           -> 1
      [] s[1] \in 194..223    -> IF Tail2(s, 128, 191) THEN 2 ELSE 0
      [] s[1] = 224           -> IF Tail2(s, 160, 191) /\ Continues(s, 3) THEN 3 ELSE 0
      [] s[1] = 237           -> IF Tail2(s, 160, 159) /\ Continues(s, 3) THEN 3 ELSE 0
      [] s[1] \in 225..239 \ {237} -> IF Tail2(s, 128, 191) /\ Continues(s, 3) THEN 3 ELSE 0
      [] s[1] = 240           -> IF Tail2(s, 144, 191) /\ Continues(s, 4) THEN 4 ELSE 0
      [] s[1] \in 241..243    -> IF Tail2(s, 128, 191) /\ Continues(s, 4) THEN 4 ELSE 0
      [] s[1] = 244           -> IF Tail2(s, 128, 143) /\ Continues(s, 4) THEN 4 ELSE 0
      [] OTHER                -> 0

RECURSIVE validateString(_)
validateString(s) == s = <<>> \/ (character(s) > 0 /\ validateString(SubSeq(s, character(s) + 1, Len(s))))

(* UTF8::encodeCodepoint, on the code points that fit four bytes.                          *)
encodeCodepoint(c) ==
    LET group(shift) == 128 + ((c \div 2^shift) % 64) IN
    CASE c < 128                  -> <<c>>
      [] c \in 128..2047          -> <<192 + (c \div 64), group(0)>>
      [] c \in 2048..65535        -> <<224 + (c \div 4096), group(6), group(0)>>
      [] c \in 65536..2097151     -> <<240 + (c \div 262144), group(12), group(6), group(0)>>

-----------------------------------------------------------------------------
V(m, signature, locals) ==
    INSTANCE CodeValidation WITH
        Types <- m.types, Signature <- signature, Locals <- locals,
        Functions <- [k \in 1..size(m.functions) |-> getType(m.functions, k - 1)],
        Globals <- [k \in 1..size(m.globals) |-> getType(m.globals, k - 1)],
        HasTable <- size(m.tables) > 0, HasMemory <- size(m.memories) > 0

-----------------------------------------------------------------------------
(* Types.  A value type is written as the negative of its number; numbers that are no type   *)
(* are "bad", which no check accepts.                                                       *)

typeNumber(t) == CASE t = "i32" -> 1 [] t = "i64" -> 2 [] t = "f32" -> 3 [] t = "f64" -> 4 [] OTHER -> 0
numberedType(n, zero) == IF n = 0 THEN zero ELSE IF n \in 1..4 THEN AllTypes[n] ELSE "bad"

writeType(t) == writeVar(I7, -typeNumber(t))
readType(s)  == Mapped(readVar(I7, s), LAMBDA n : numberedType(-n, "any"))

writeResult(t) == IF t = "none" THEN writeVar(U1, 0) ELSE Written(<<writeVar(U1, 1), writeType(t)>>)
readResult(s)  ==
    Bind(readVar(U1, s), LAMBDA arity, t :
        IF arity = 0 THEN Read("none", t) ELSE Mapped(readVar(I7, t), LAMBDA n : numberedType(-n, "none")))

writeSize(c) == Written(<<writeVar(U32, IF c.max # NoMax THEN 1 ELSE 0), writeVar(U32, c.min)>>
                        \o IF c.max # NoMax THEN <<writeVar(U32, c.max)>> ELSE <<>>)
readSize(s)  ==
    Bind(readVar(U32, s), LAMBDA flags, t : Bind(readVar(U32, t), LAMBDA min, u :
        IF flags % 2 = 1 THEN Mapped(readVar(U32, u), LAMBDA max : [min |-> min, max |-> max])
        ELSE Read([min |-> min, max |-> NoMax], u)))

anyfunc == 112
writeTable(t)  == Written(<<{<<IF t.elementType = "anyfunc" THEN anyfunc ELSE 0>>}, writeSize(t.size)>>)
readTable(s)   ==
    Bind(readByte(s), LAMBDA e, t :
        Mapped(readSize(t), LAMBDA c : [elementType |-> IF e = anyfunc THEN "anyfunc" ELSE "bad", size |-> c]))
writeMemory(t) == writeSize(t.size)
readMemory(s)  == Mapped(readSize(s), LAMBDA c : [size |-> c])
writeGlobal(g) == Written(<<writeType(g.type), writeVar(U1, IF g.isMutable THEN 1 ELSE 0)>>)
readGlobal(s)  ==
    Bind(readType(s), LAMBDA type, t : Mapped(readVar(U1, t), LAMBDA mut : [type |-> type, isMutable |-> mut = 1]))

ObjectKinds == <<"function", "table", "memory", "global">>
writeKind(kind) == {<<SelectInSeq(ObjectKinds, LAMBDA k : k = kind) - 1>>}
readKind(s) == Mapped(readByte(s), LAMBDA b : IF b < 4 THEN ObjectKinds[b + 1] ELSE "bad")

-----------------------------------------------------------------------------
(* Definitions                                                                             *)

endOpcode == Opcode(NoImm("end"))
literal(n, type)  == CASE type = "i32" -> writeVar(I32, n) [] type = "i64" -> writeVar(I64, n)
                       [] type = "f32" -> {littleEndian(n, Bytes32)} [] type = "f64" -> {littleEndian(n, Bytes64)}
readLiteral(type, s) == CASE type = "i32" -> readVar(I32, s) [] type = "i64" -> readVar(I64, s)
                          [] type = "f32" -> readNative(s, Bytes32) [] type = "f64" -> readNative(s, Bytes64)

Initializers == <<"i32_const", "i64_const", "f32_const", "f64_const">>
initializerOpcode(type) ==
    IF type = "get_global" THEN Opcode(Indexed("get_global", 0))
    ELSE Opcode(Literal(AllTypes[SelectInSeq(Initializers, LAMBDA t : t = type)], 0))
writeInitializer(e) ==
    Written(<<{<<initializerOpcode(e.type)>>},
              IF e.type = "get_global" THEN writeVar(U32, e.n)
              ELSE literal(e.n, AllTypes[SelectInSeq(Initializers, LAMBDA t : t = e.type)]),
              {<<endOpcode>>}>>)
(* What follows the opcode b; first is the opcode of the first kind of literal.               *)
readInitializerImm(b, t, first) ==
    CASE b = Opcode(Indexed("get_global", 0)) -> Mapped(readVar(U32, t), LAMBDA n : [type |-> "get_global", n |-> n])
      [] b \in first..first + 3 ->
             Mapped(readLiteral(AllTypes[b - first + 1], t), LAMBDA n : [type |-> Initializers[b - first + 1], n |-> n])
      [] OTHER -> {}
readInitializer(s) ==
    Bind(Bind(readByte(s), LAMBDA b, t : readInitializerImm(b, t, Opcode(Literal("i32", 0)))),
         LAMBDA e, t : Mapped(readConstant(t, <<endOpcode>>), LAMBDA b : e))

writeExport(x) ==
    IF validateString(x.name) THEN Written(<<writeBytes(x.name), writeKind(x.kind), writeVar(U32, x.index)>>) ELSE {}
readExport(s) ==
    Bind(Only(readString(s), validateString), LAMBDA name, t : Bind(readKind(t), LAMBDA kind, u :
        Mapped(readVar(U32, u), LAMBDA index : [name |-> name, kind |-> kind, index |-> index])))

writeGlobalDef(d) == Written(<<writeGlobal(d.type), writeInitializer(d.initializer)>>)
readGlobalDef(s)  ==
    Bind(readGlobal(s), LAMBDA g, t : Mapped(readInitializer(t), LAMBDA e : [type |-> g, initializer |-> e]))

writeDataSegment(d) == Written(<<writeVar(U32, d.index), writeInitializer(d.baseOffset), writeBytes(d.data)>>)
writeTableSegment(t) ==
    Written(<<writeVar(U32, t.index), writeInitializer(t.baseOffset), writeArray(LAMBDA f : writeVar(U32, f), t.indices)>>)
readSegment(s, D(_), Segment(_, _, _)) ==
    Bind(readVar(U32, s), LAMBDA index, t : Bind(readInitializer(t), LAMBDA e, u :
        Mapped(D(u), LAMBDA content : Segment(index, e, content))))
readDataSegment(s)  == readSegment(s, LAMBDA u : readArray(readByte, u),
                                   LAMBDA i, e, c : [index |-> i, baseOffset |-> e, data |-> c])
readTableSegment(s) == readSegment(s, LAMBDA u : readArray(LAMBDA w : readVar(U32, w), u),
                                   LAMBDA i, e, c : [index |-> i, baseOffset |-> e, indices |-> c])

-----------------------------------------------------------------------------
(* Operators and function bodies                                                           *)

(* Every opcode of this build has one byte; a larger first byte starts an opcode of two,      *)
(* which no operator has.                                                                   *)
readOpcode(s) == Only(readByte(s), LAMBDA b : b <= maxSingleByteOpcode /\ b \in DOMAIN Opcodes)

noResult == -64
writeImm(i) ==
    CASE i.op \in ControlStructureImm -> writeVar(I7, IF i.type = "none" THEN noResult ELSE -typeNumber(i.type))
      [] i.op \in {"br", "br_if", "get_local", "set_local", "tee_local", "get_global", "set_global", "call"} -> writeVar(U32, i.n)
      [] i.op = "br_table" -> Written(<<writeArray(LAMBDA d : writeVar(U32, d), i.to), writeVar(U32, i.n)>>)
      [] i.op = "call_indirect" -> Written(<<writeVar(U32, i.n), {<<0>>}>>)
      [] i.op \in {"current_memory", "grow_memory"} -> {<<0>>}
      [] i.op = "const" -> literal(i.n, i.type)
      [] i.op \in {"load", "store"} -> Written(<<writeVar(U7, i.align), writeVar(U32, i.n)>>)
      [] OTHER -> {<<>>}
readImm(i, s) ==
    CASE i.op \in ControlStructureImm ->
             Mapped(readVar(I7, s), LAMBDA n : [i EXCEPT !.type = IF n = noResult THEN "none" ELSE numberedType(-n, "none")])
      [] i.op \in {"br", "br_if", "get_local", "set_local", "tee_local", "get_global", "set_global", "call"} ->
             Mapped(readVar(U32, s), LAMBDA n : [i EXCEPT !.n = n])
      [] i.op = "br_table" ->
             Bind(readArray(LAMBDA u : readVar(U32, u), s), LAMBDA to, t :
                 Mapped(readVar(U32, t), LAMBDA n : [i EXCEPT !.to = to, !.n = n]))
      [] i.op = "call_indirect" ->
             Bind(readVar(U32, s), LAMBDA n, t : Mapped(readConstant(t, <<0>>), LAMBDA b : [i EXCEPT !.n = n]))
      [] i.op \in {"current_memory", "grow_memory"} -> Mapped(readConstant(s, <<0>>), LAMBDA b : i)
      [] i.op = "const" -> Mapped(readLiteral(i.type, s), LAMBDA n : [i EXCEPT !.n = n])
      [] i.op \in {"load", "store"} ->
             Bind(readVar(U7, s), LAMBDA align, t :
                 Mapped(readVar(U32, t), LAMBDA n : [i EXCEPT !.align = align, !.n = n]))
      [] OTHER -> Read(i, s)

(* Runs of locals of the same type.                                                        *)
RECURSIVE localSets(_)
localSets(types) ==
    IF types = <<>> THEN <<>>
    ELSE LET n == CHOOSE n \in 1..Len(types) :
                      /\ \A k \in 1..n : types[k] = types[1]
                      /\ n = Len(types) \/ types[n + 1] # types[1]
         IN  <<[num |-> n, type |-> types[1]]>> \o localSets(SubSeq(types, n + 1, Len(types)))

writeBody(def) ==
    LET sets == writeArray(LAMBDA l : Written(<<writeVar(U32, l.num), writeType(l.type)>>), localSets(def.locals))
        code == Written([k \in 1..Len(def.code) |-> Written(<<{<<Opcode(def.code[k])>>}, writeImm(def.code[k])>>)])
    IN  UNION {writeBytes(body) : body \in Written(<<sets, code>>)}

(* The local sets, as the types of the locals they stand for.                              *)
RECURSIVE readLocals(_, _, _, _)
readLocals(n, accum, types, s) ==
    IF n = 0 THEN Read(types, s)
    ELSE Bind(readVar(U32, s), LAMBDA num, t : Bind(readType(t), LAMBDA type, u :
             IF accum + 4 * num > maximum_func_local_bytes THEN {}
             ELSE readLocals(n - 1, accum + 4 * num, types \o [k \in 1..num |-> type], u)))

finishes(m, signature, locals, v) == V(m, signature, locals)!finish(v) # {}

(* The operators to the end of the body, each validated when it has been read; as each takes  *)
(* a byte or more, there are no more operators than bytes.                                  *)
readCode(m, signature, locals, s, v) ==
    LET more[n \in 0..Len(s)] ==
            IF n = 0 THEN {[v |-> <<>>, s |-> s, w |-> v]}
            ELSE UNION {IF r.s = <<>> THEN {r}
                        ELSE UNION {UNION {{[v |-> Append(r.v, i.v), s |-> i.s, w |-> w] :
                                               w \in V(m, signature, locals)!validated(r.w, i.v)} :
                                           i \in readImm(Opcodes[o.v], o.s)} :
                                    o \in readOpcode(r.s)} :
                        r \in more[n - 1]}
    IN  {r.v : r \in {q \in more[Len(s)] : finishes(m, signature, locals, q.w)}}

readBody(m, def, s) ==
    LET signature == m.types[def.type + 1] IN
    Bind(readVar(U32, s), LAMBDA numBytes, t : Bind(advance(t, numBytes), LAMBDA body, rest :
        Bind(readVar(U32, body), LAMBDA numSets, u :
            IF numBytes >= maximum_code_size \/ numSets >= maximum_local_sets \/ numSets > Len(u) THEN {}
            ELSE Bind(readLocals(numSets, 0, <<>>, u), LAMBDA locals, w :
                     {[v |-> [def EXCEPT !.locals = @ \o locals, !.code = code], s |-> rest] :
                         code \in readCode(m, signature, locals, w, V(m, signature, locals)!FunctionContext)}))))

-----------------------------------------------------------------------------
(* Sections                                                                                *)

Sections == <<"type", "import", "functionDeclarations", "table", "memory", "global", "export", "start", "elem",
              "functionDefinitions", "data">>
userSection == 0

writeFunctionType(t) == Written(<<{<<96>>}, writeArray(writeType, t.params), writeResult(t.ret)>>)
readFunctionType(s) ==
    Bind(readConstant(s, <<96>>), LAMBDA tag, t : Bind(readArray(readType, t), LAMBDA params, u :
        Mapped(readResult(u), LAMBDA ret : [params |-> params, ret |-> ret])))

spaces(m) == <<m.functions, m.tables, m.memories, m.globals>>
writeImports(m) ==
    LET writeTyped(k, type) == CASE k = 1 -> writeVar(U32, type) [] k = 2 -> writeTable(type)
                                 [] k = 3 -> writeMemory(type) [] k = 4 -> writeGlobal(type)
        ofKind(k) == Written([n \in 1..Len(spaces(m)[k].imports) |->
                        LET i == spaces(m)[k].imports[n]
                        IN  Written(<<writeBytes(i.moduleName), writeBytes(i.exportName), {<<k - 1>>}, writeTyped(k, i.type)>>)])
        total == Len(m.functions.imports) + Len(m.tables.imports) + Len(m.memories.imports) + Len(m.globals.imports)
    IN  Written(<<writeVar(U32, total), ofKind(1), ofKind(2), ofKind(3), ofKind(4)>>)

(* One import: the type's own check, then the limit, on the number of function imports        *)
(* whatever the kind.                                                                      *)
readImport(m, s) ==
    LET imported(kind, names, type) ==
            LET i == [type |-> type, moduleName |-> names[1], exportName |-> names[2]] IN
            CASE kind = "function" -> [m EXCEPT !.functions.imports = Append(@, i)]
              [] kind = "table"    -> [m EXCEPT !.tables.imports = Append(@, i)]
              [] kind = "memory"   -> [m EXCEPT !.memories.imports = Append(@, i)]
              [] kind = "global"   -> [m EXCEPT !.globals.imports = Append(@, i)]
        readTyped(kind, t) ==
            CASE kind = "function" -> Only(readVar(U32, t), LAMBDA index : index < Len(m.types))
              [] kind = "table"    -> readTable(t)
              [] kind = "memory"   -> readMemory(t)
              [] kind = "global"   -> readGlobal(t)
              [] OTHER             -> {}
    IN  Bind(readString(s), LAMBDA moduleName, t : Bind(readString(t), LAMBDA exportName, u :
            IF ~validateString(moduleName) \/ ~validateString(exportName) THEN {}
            ELSE Bind(readKind(u), LAMBDA kind, w :
                Only(Mapped(readTyped(kind, w), LAMBDA type : imported(kind, <<moduleName, exportName>>, type)),
                     LAMBDA n : Len(n.functions.imports) < maximum_section_elements))))
readImports(m, s) ==
    Bind(readVar(U32, s), LAMBDA total, rest :
        LET after[k \in 0..total] == IF k = 0 THEN Read(m, rest) ELSE Bind(after[k - 1], LAMBDA n, t : readImport(n, t))
        IN  IF total <= Len(rest) THEN after[total] ELSE {})

readFunctions(m, s) ==
    Bind(readVar(U32, s), LAMBDA n, t :
        IF n >= maximum_section_elements THEN {}
        ELSE Mapped(readEach(LAMBDA u : Only(readVar(U32, u), LAMBDA index : index < Len(m.types)), n, t),
                    LAMBDA types : [m EXCEPT !.functions.defs =
                                        [k \in 1..n |-> [type |-> types[k], locals |-> <<>>, code |-> <<>>]]]))

readBodies(m, s) ==
    LET defs == m.functions.defs IN
    Bind(readVar(U32, s), LAMBDA n, rest :
        LET after[k \in 0..n] ==
                IF k = 0 THEN Read(m, rest)
                ELSE Bind(after[k - 1], LAMBDA w, t :
                         Mapped(readBody(w, defs[k], t), LAMBDA d : [w EXCEPT !.functions.defs[k] = d]))
        IN  IF n = Len(defs) THEN after[n] ELSE {})

typed(F(_), s) == Mapped(F(s), LAMBDA type : [type |-> type])

(* The body of a section, as read into the module.                                         *)
readSectionBody(section, m, s) ==
    CASE section = "type"    -> Mapped(readArray(readFunctionType, s), LAMBDA x : [m EXCEPT !.types = x])
      [] section = "import"  -> readImports(m, s)
      [] section = "functionDeclarations" -> readFunctions(m, s)
      [] section = "table"   -> Mapped(readArray(LAMBDA t : typed(readTable, t), s), LAMBDA x : [m EXCEPT !.tables.defs = x])
      [] section = "memory"  -> Mapped(readArray(LAMBDA t : typed(readMemory, t), s), LAMBDA x : [m EXCEPT !.memories.defs = x])
      [] section = "global"  -> Mapped(readArray(readGlobalDef, s), LAMBDA x : [m EXCEPT !.globals.defs = x])
      [] section = "export"  -> Mapped(readArray(readExport, s), LAMBDA x : [m EXCEPT !.exports = x])
      [] section = "start"   -> Mapped(readVar(U32, s), LAMBDA x : [m EXCEPT !.start = x])
      [] section = "elem"    -> Mapped(readArray(readTableSegment, s), LAMBDA x : [m EXCEPT !.tableSegments = x])
      [] section = "functionDefinitions" -> readBodies(m, s)
      [] section = "data"    -> Mapped(readArray(readDataSegment, s), LAMBDA x : [m EXCEPT !.dataSegments = x])

writeSectionBody(section, m) ==
    CASE section = "type"    -> writeArray(writeFunctionType, m.types)
      [] section = "import"  -> writeImports(m)
      [] section = "functionDeclarations" -> writeArray(LAMBDA d : writeVar(U32, d.type), m.functions.defs)
      [] section = "table"   -> writeArray(LAMBDA d : writeTable(d.type), m.tables.defs)
      [] section = "memory"  -> writeArray(LAMBDA d : writeMemory(d.type), m.memories.defs)
      [] section = "global"  -> writeArray(writeGlobalDef, m.globals.defs)
      [] section = "export"  -> writeArray(writeExport, m.exports)
      [] section = "start"   -> writeVar(U32, m.start)
      [] section = "elem"    -> writeArray(writeTableSegment, m.tableSegments)
      [] section = "functionDefinitions" -> writeArray(writeBody, m.functions.defs)
      [] section = "data"    -> writeArray(writeDataSegment, m.dataSegments)

(* Fault: the start function is taken for missing when its index is 0.                     *)
hasSectionFault(section, m) ==
    CASE section = "type"    -> m.types # <<>>
      [] section = "import"  -> \E k \in 1..4 : spaces(m)[k].imports # <<>>
      [] section \in {"functionDeclarations", "functionDefinitions"} -> m.functions.defs # <<>>
      [] section = "table"   -> m.tables.defs # <<>>
      [] section = "memory"  -> m.memories.defs # <<>>
      [] section = "global"  -> m.globals.defs # <<>>
      [] section = "export"  -> m.exports # <<>>
      [] section = "start"   -> m.start > 0
      [] section = "elem"    -> m.tableSegments # <<>>
      [] section = "data"    -> m.dataSegments # <<>>

(* serializeModule leaves out the sections that would be empty.                            *)
hasSection(section, m) ==
    CASE section = "type"    -> m.types # <<>>
      [] section = "import"  -> \E k \in 1..4 : spaces(m)[k].imports # <<>>
      [] section \in {"functionDeclarations", "functionDefinitions"} -> m.functions.defs # <<>>
      [] section = "table"   -> m.tables.defs # <<>>
      [] section = "memory"  -> m.memories.defs # <<>>
      [] section = "global"  -> m.globals.defs # <<>>
      [] section = "export"  -> m.exports # <<>>
      [] section = "start"   -> m.start # NoStart
      [] section = "elem"    -> m.tableSegments # <<>>
      [] section = "data"    -> m.dataSegments # <<>>

writeSection(k, m) == UNION {Written(<<{<<k>>}, writeBytes(body)>>) : body \in writeSectionBody(Sections[k], m)}

(* A user section cannot be written: the writer asks for as many bytes of data as an output   *)
(* stream has room for, which no vector has.                                                *)
writeUserSections(m) == IF m.userSections = <<>> THEN {<<>>} ELSE {}

header == <<0, 97, 115, 109, 1, 0, 0, 0>>
emptySpace == [imports |-> <<>>, defs |-> <<>>]
emptyModule == [types |-> <<>>, functions |-> emptySpace, tables |-> emptySpace, memories |-> emptySpace,
                globals |-> emptySpace, exports |-> <<>>, start |-> NoStart, tableSegments |-> <<>>,
                dataSegments |-> <<>>, userSections |-> <<>>]

(* The pieces of the stream: the header, and one for each section.                         *)
RECURSIVE pieces(_, _)
pieces(m, k) ==
    IF k > Len(Sections) THEN {<<>>}
    ELSE {(IF hasSection(Sections[k], m) THEN <<piece>> ELSE <<>>) \o rest :
             piece \in IF hasSection(Sections[k], m) THEN writeSection(k, m) ELSE {<<>>}, rest \in pieces(m, k + 1)}
writeModule(m) == IF writeUserSections(m) = {} THEN {} ELSE {<<header>> \o rest : rest \in pieces(m, 1)}

readHeader(s) ==
    Bind(readConstant(s, SubSeq(header, 1, 4)), LAMBDA magic, t : readConstant(t, SubSeq(header, 5, 8)))

(* UserSection of an input stream: a name, and the rest of the section.                    *)
readUserSection(m, s) ==
    Bind(readVar(U32, Tail(s)), LAMBDA n, t : Bind(advance(t, n), LAMBDA body, rest :
        {[v |-> [m EXCEPT !.userSections = Append(@, [name |-> name.v, data |-> name.s])], s |-> rest] :
            name \in {x \in readString(body) : validateString(x.v) /\ Len(x.s) < wasm_page_size}}))

readSection(k, m, s) ==
    Bind(readVar(U32, Tail(s)), LAMBDA n, t : Bind(advance(t, n), LAMBDA body, rest :
        {[v |-> x.v, s |-> rest] : x \in {y \in readSectionBody(Sections[k], m, body) : y.s = <<>>}}))

(* The next section of the loop: known ones in the order of their numbers, user sections      *)
(* anywhere.                                                                               *)
nextSection(m, last, s) ==
    LET k == Head(s) IN
    CASE k = userSection -> readUserSection(m, s)
      [] k \in 1..Len(Sections) /\ k > last -> readSection(k, m, s)
      [] OTHER -> {}

(* The whole reader, as a function of the bytes.                                           *)
RECURSIVE readSections(_, _, _)
readSections(m, last, s) ==
    IF s = <<>> THEN {m}
    ELSE UNION {readSections(r.v, IF Head(s) = userSection THEN last ELSE Head(s), r.s) : r \in nextSection(m, last, s)}
readModule(s) == {m \in UNION {readSections(emptyModule, 0, r.s) : r \in readHeader(s)} : validateDefinitions(m)}
=============================================================================
