------------------------------ MODULE TextFormat ------------------------------
(* The text format, printed: the tokens of the text that print writes of a module, with the    *)
(* names it gives the module's objects.  Spaces, indentation and comments are left out; the     *)
(* lexer between the characters and the tokens is the module Lexer.                          *)
EXTENDS WasmBinary, TLC

CONSTANTS
    numBytesPerLine,       \* of the strings of a segment
    SignificandBits32, SignificandBits64

(* Tokens: <<type>>, or <<type, value>> for names, numbers, strings and operators.            *)
T(type)  == <<type>>
Name(n)  == <<"name", n>>
Num(n)   == <<"int", n>>
Op(i)    == <<"op", Opcode(i)>>
Tagged(tag, inner) == <<T("("), T(tag)>> \o inner \o <<T(")")>>

(* The concatenation of F on the elements.                                                 *)
Concat(F(_), s) == FlattenSeq([k \in 1..Len(s) |-> F(s[k])])

-----------------------------------------------------------------------------
(* DisassemblyNames.cpp: the names of functions and locals, kept in a user section            *)

nameSection == <<110, 97, 109, 101>>
sectionsNamed(m, name) == {k \in 1..Len(m.userSections) : m.userSections[k].name = name}

blankNames(m) ==
    [k \in 1..size(m.functions) |->
        LET params == Len(m.types[getType(m.functions, k - 1) + 1].params)
            n == IF k <= Len(m.functions.imports) THEN params
                 ELSE params + Len(m.functions.defs[k - Len(m.functions.imports)].locals)
        IN  [name |-> <<>>, locals |-> [l \in 1..n |-> <<>>]]]

(* Names that are read until the section ends or is malformed; the ones read before stay.      *)
RECURSIVE readLocalNames(_, _, _, _), readNames(_, _, _, _)
readLocalNames(names, k, left, s) ==
    LET l == left[1] IN
    IF l > left[2] THEN [names |-> names, s |-> {s}]
    ELSE IF readString(s) = {} THEN [names |-> names, s |-> {}]
    ELSE LET r == CHOOSE r \in readString(s) : TRUE
         IN  readLocalNames(IF l <= Len(names[k].locals) THEN [names EXCEPT ![k].locals[l] = r.v] ELSE names,
                            k, <<l + 1, left[2]>>, r.s)
readNames(names, k, n, s) ==
    IF k > n \/ readString(s) = {} THEN names
    ELSE LET r     == CHOOSE r \in readString(s) : TRUE
             named == [names EXCEPT ![k].name = r.v]
             count == readVar(U32, r.s)
         IN  IF count = {} THEN named
             ELSE LET c == CHOOSE c \in count : TRUE
                      l == readLocalNames(named, k, <<1, c.v>>, c.s)
                  IN  IF l.s = {} THEN l.names ELSE readNames(l.names, k + 1, n, CHOOSE t \in l.s : TRUE)

(* From the count of functions on, which is in a set that is empty if it cannot be read.       *)
readCounted(m, count) ==
    IF count = {} THEN blankNames(m)
    ELSE LET c == CHOOSE c \in count : TRUE
         IN  readNames(blankNames(m), 1, IF c.v < size(m.functions) THEN c.v ELSE size(m.functions), c.s)
nameSections(m) == sectionsNamed(m, nameSection)
getDisassemblyNames(m) ==
    IF nameSections(m) = {} THEN blankNames(m)
    ELSE readCounted(m, readVar(U32, m.userSections[CHOOSE k \in nameSections(m) : \A l \in nameSections(m) : k <= l].data))

writeNames(names) ==
    writeArray(LAMBDA f : Written(<<writeBytes(f.name), writeArray(writeBytes, f.locals)>>), names)
setDisassemblyNames(m, names) ==
    LET sections == nameSections(m)
        section  == [name |-> nameSection, data |-> CHOOSE bytes \in writeNames(names) : TRUE]
    IN  [m EXCEPT !.userSections =
            IF sections = {} THEN Append(@, section)
            ELSE [@ EXCEPT ![CHOOSE k \in sections : \A l \in sections : k <= l] = section]]

-----------------------------------------------------------------------------
(* NameScope                                                                               *)

RECURSIVE decimal(_)
decimal(n) == IF n < 10 THEN <<48 + n>> ELSE decimal(n \div 10) \o <<48 + (n % 10)>>

NameScope == [counts |-> <<>> :> 0, names |-> <<>>]
mapName(scope, name) ==
    IF name \in DOMAIN scope.counts
    THEN [counts |-> [scope.counts EXCEPT ![name] = @ + 1],
          names  |-> Append(scope.names, name \o decimal(scope.counts[name]))]
    ELSE [counts |-> (name :> 1) @@ scope.counts, names |-> Append(scope.names, name)]
mapNames(names) == FoldLeft(mapName, NameScope, names).names

(* ModulePrintContext: one scope for the objects of every kind, one for the locals of each     *)
(* function.                                                                               *)
endsOfKinds(m) ==
    LET sizes == <<Len(m.types), size(m.tables), size(m.memories), size(m.globals)>>
    IN  [k \in 0..4 |-> FoldLeft(LAMBDA a, b : a + b, 0, SubSeq(sizes, 1, k))]
namesByKind(all, ends, functions) ==
    LET part(k) == SubSeq(all, ends[k - 1] + 1, ends[k])
    IN  [types |-> part(1), tables |-> part(2), memories |-> part(3), globals |-> part(4),
         functions |-> SubSeq(all, ends[4] + 1, Len(all)),
         locals |-> [k \in 1..Len(functions) |-> mapNames(functions[k].locals)]]
scopedNames(ends, functions) ==
    namesByKind(mapNames([k \in 1..ends[4] |-> <<>>] \o [k \in 1..Len(functions) |-> functions[k].name]), ends, functions)
printNames(m) == scopedNames(endsOfKinds(m), getDisassemblyNames(m))

-----------------------------------------------------------------------------
(* Literals, strings and types                                                             *)

(* Floats::asString.  An infinity is printed as "infinity", which is no token.               *)
significandBits(type) == IF type = "f32" THEN SignificandBits32 ELSE SignificandBits64
bitsOf(type) == 8 * (IF type = "f32" THEN Bytes32 ELSE Bytes64)
asString(type, n) ==
    LET significand == n % 2^significandBits(type)
        exponents   == 2^(bitsOf(type) - 1 - significandBits(type))
        exponent    == (n \div 2^significandBits(type)) % exponents
        sign        == n \div 2^(bitsOf(type) - 1)
    IN  IF exponent # exponents - 1 THEN <<"hexFloat", n>>
        ELSE IF significand = 0 THEN T("unrecognized")
        ELSE <<"floatNaN", <<sign, significand>>>>
printLiteral(type, n) == IF type \in IntTypes THEN Num(n) ELSE asString(type, n)

nibbleToHexChar(v) == IF v < 10 THEN 48 + v ELSE 97 + v - 10
(* The characters of a string between its quotes.                                          *)
escapeString(bytes) ==
    Concat(LAMBDA c : CASE c = 92 -> <<92, 92>>
                        [] c = 34 -> <<92, 34>>
                        [] c = 10 -> <<92, 110>>
                        [] c # 10 /\ (c < 32 \/ c > 126) -> <<92, nibbleToHexChar(c \div 16), nibbleToHexChar(c % 16)>>
                        [] OTHER -> <<c>>, bytes)
Str(bytes) == <<"string", escapeString(bytes)>>
RECURSIVE printLines(_)
printLines(data) ==
    IF Len(data) <= numBytesPerLine THEN IF data = <<>> THEN <<>> ELSE <<Str(data)>>
    ELSE <<Str(SubSeq(data, 1, numBytesPerLine))>> \o printLines(SubSeq(data, numBytesPerLine + 1, Len(data)))

printResult(t) == IF t = "none" THEN <<>> ELSE Tagged("result", <<T(t)>>)
printSize(c)   == <<Num(c.min)>> \o IF c.max = NoMax THEN <<>> ELSE <<Num(c.max)>>
printFunctionType(t) ==
    (IF t.params = <<>> THEN <<>> ELSE Tagged("param", [k \in 1..Len(t.params) |-> T(t.params[k])])) \o printResult(t.ret)
printTable(t)  == printSize(t.size) \o <<T("anyfunc")>>
printMemory(t) == printSize(t.size)
printGlobal(g) == IF g.isMutable THEN Tagged("mut", <<T(g.type)>>) ELSE <<T(g.type)>>

printInitializer(names, e) ==
    LET type == AllTypes[SelectInSeq(Initializers, LAMBDA t : t = e.type)] IN
    <<T("(")>> \o (IF e.type = "get_global" THEN <<Op(Indexed("get_global", 0)), Name(names.globals[e.n + 1])>>
                   ELSE <<Op(Literal(type, 0)), printLiteral(type, e.n)>>) \o <<T(")")>>

-----------------------------------------------------------------------------
(* FunctionPrintContext                                                                    *)

(* The state of the printer: the tokens, the labels of the open structures, the outermost      *)
(* without one, and the scope of labels.                                                    *)
Letters == [block |-> <<98, 108, 111, 99, 107>>, loop |-> <<108, 111, 111, 112>>, if |-> <<105, 102>>]

getBranchTargetId(labels, depth) ==
    LET label == labels[Len(labels) - depth] IN IF label = <<>> THEN Num(depth) ELSE Name(label)

printMemoryImm(i) ==
    (IF i.n = 0 THEN <<>> ELSE <<T("offset"), T("="), Num(i.n)>>)
    \o (IF i.align = naturalAlignmentLog2(i) THEN <<>> ELSE <<T("align"), T("="), Num(2^i.align)>>)

printImm(names, locals, labels, i) ==
    CASE i.op \in {"br", "br_if"} -> <<getBranchTargetId(labels, i.n)>>
      [] i.op = "br_table" -> [k \in 1..Len(i.to) + 1 |-> getBranchTargetId(labels, Append(i.to, i.n)[k])]
      [] i.op \in {"get_local", "set_local", "tee_local"} -> <<Name(locals[i.n + 1])>>
      [] i.op \in {"get_global", "set_global"} -> <<Name(names.globals[i.n + 1])>>
      [] i.op = "call" -> <<Name(names.functions[i.n + 1])>>
      [] i.op = "call_indirect" -> <<Name(names.types[i.n + 1])>>
      [] i.op = "const" -> <<printLiteral(i.type, i.n)>>
      [] i.op \in {"load", "store"} -> printMemoryImm(i)
      [] OTHER -> <<>>

printOperator(names, locals, st, i) ==
    LET print(st1, tokens) == [st1 EXCEPT !.tokens = @ \o tokens]
        scope == mapName(st.scope, Letters[i.op])
        label == Last(scope.names)
    IN  CASE st.labels = <<>> -> st
          [] st.labels # <<>> /\ i.op \in ControlStructureImm ->
                 print([st EXCEPT !.scope = scope, !.labels = Append(@, label)],
                       <<T(i.op), Name(label)>> \o printResult(i.type))
          [] st.labels # <<>> /\ i.op = "else" -> print(st, <<T("else")>>)
          [] st.labels # <<>> /\ i.op = "end" ->
                 print([st EXCEPT !.labels = Front(@)], IF Len(st.labels) > 1 THEN <<T("end")>> ELSE <<>>)
          [] OTHER -> print(st, <<Op(i)>> \o printImm(names, locals, st.labels, i))

printFunctionBody(names, locals, code) ==
    FoldLeft(LAMBDA st, i : printOperator(names, locals, st, i),
             [tokens |-> <<>>, labels |-> <<<<>>>>, scope |-> NameScope], code).tokens

printFunction(m, names, k) ==
    LET def    == m.functions.defs[k]
        type   == m.types[def.type + 1]
        index  == Len(m.functions.imports) + k
        locals == names.locals[index]
        declared(tag, types, first) ==
            FlattenSeq([l \in 1..Len(types) |-> Tagged(tag, <<Name(locals[first + l]), T(types[l])>>)])
    IN  Tagged("func", <<Name(names.functions[index])>> \o declared("param", type.params, 0) \o printResult(type.ret)
                       \o declared("local", def.locals, Len(type.params))
                       \o printFunctionBody(names, locals, def.code))

-----------------------------------------------------------------------------
(* printModule                                                                             *)

Space == [function |-> "functions", table |-> "tables", memory |-> "memories", global |-> "globals"]
Keyword == [function |-> "func", table |-> "table", memory |-> "memory", global |-> "global"]
printType(m, kind, type) ==
    CASE kind = "function" -> printFunctionType(m.types[type + 1]) [] kind = "table" -> printTable(type)
      [] kind = "memory" -> printMemory(type) [] kind = "global" -> printGlobal(type)

printImports(m, names, kind) ==
    LET imports == m[Space[kind]].imports IN
    FlattenSeq([k \in 1..Len(imports) |->
        Tagged("import", <<Str(imports[k].moduleName), Str(imports[k].exportName)>>
                         \o Tagged(Keyword[kind], <<Name(names[Space[kind]][k])>> \o printType(m, kind, imports[k].type)))])
printDefs(m, names, kind, Rest(_)) ==
    LET defs == m[Space[kind]].defs IN
    FlattenSeq([k \in 1..Len(defs) |->
        Tagged(Keyword[kind], <<Name(names[Space[kind]][Len(m[Space[kind]].imports) + k])>>
                              \o printType(m, kind, defs[k].type) \o Rest(defs[k]))])

(* The start function is not printed.                                                      *)
printNamed(m, names) ==
    LET nothing(d) == <<>>
    IN  Tagged("module",
            FlattenSeq([k \in 1..Len(m.types) |->
                Tagged("type", <<Name(names.types[k])>> \o Tagged("func", printFunctionType(m.types[k])))])
            \o Concat(LAMBDA kind : printImports(m, names, kind), ObjectKinds)
            \o Concat(LAMBDA x : Tagged("export", <<Str(x.name)>>
                                     \o Tagged(Keyword[x.kind], <<Name(names[Space[x.kind]][x.index + 1])>>)), m.exports)
            \o printDefs(m, names, "memory", nothing)
            \o printDefs(m, names, "table", nothing)
            \o printDefs(m, names, "global", LAMBDA d : printInitializer(names, d.initializer))
            \o Concat(LAMBDA t : Tagged("elem", <<Name(names.tables[t.index + 1])>> \o printInitializer(names, t.baseOffset)
                                     \o [k \in 1..Len(t.indices) |-> Name(names.functions[t.indices[k] + 1])]),
                      m.tableSegments)
            \o Concat(LAMBDA d : Tagged("data", <<Name(names.memories[d.index + 1])>> \o printInitializer(names, d.baseOffset)
                                     \o printLines(d.data)), m.dataSegments)
            \o FlattenSeq([k \in 1..Len(m.functions.defs) |-> printFunction(m, names, k)])
            \o Concat(LAMBDA u : IF u.name = nameSection THEN <<>>
                                 ELSE Tagged("user_section", <<Str(u.name)>> \o printLines(u.data)), m.userSections))
       \o <<T("eof")>>
printModule(m) == printNamed(m, printNames(m))

-----------------------------------------------------------------------------
(* The text format, parsed: the module that parseModule makes of the tokens of a text.  A       *)
(* parser returns a set of [v, s], the value it parsed and the tokens left, empty once it has   *)
(* reported an error: the parser goes on after an error only to report others, and a text with   *)
(* an error is refused whatever follows.                                                    *)
CONSTANT numBytesPerPage

Sees(s, type)    == s[1][1] = type
require(s, type) == IF Sees(s, type) THEN Read(type, Tail(s)) ELSE {}
seesTagged(s, tag) == Sees(s, "(") /\ s[2][1] = tag

(* parseParenthesized, and tryParseParenthesizedTagged once the tag has been seen.             *)
Parenthesized(s, P(_)) ==
    Bind(require(s, "("), LAMBDA open, t : Bind(P(t), LAMBDA value, u : Mapped(require(u, ")"), LAMBDA close : value)))
Inside(s, P(_)) == Parenthesized(s, LAMBDA t : P(Tail(t)))

RECURSIVE findClosingParenthesis(_, _)
findClosingParenthesis(s, depth) ==
    CASE Sees(s, "eof") -> {}
      [] Sees(s, ")") /\ depth = 1 -> {s}
      [] Sees(s, ")") /\ depth > 1 -> findClosingParenthesis(Tail(s), depth - 1)
      [] Sees(s, "(") -> findClosingParenthesis(Tail(s), depth + 1)
      [] OTHER -> findClosingParenthesis(Tail(s), depth)

-----------------------------------------------------------------------------
(* Numbers, strings, names and references                                                  *)

(* tryParseInt: a negative number wraps around.                                            *)
parseInt(bits, s) ==
    IF Sees(s, "int") /\ s[1][2] \in -2^(bits - 1)..2^bits - 1 THEN Read(s[1][2] % 2^bits, Tail(s)) ELSE {}
asSigned(bits, n) == IF n < 2^(bits - 1) THEN n ELSE n - 2^bits

(* An integer as strtod and a cast take it for a float: to the nearest number of so many bits,     *)
(* of two the even one.                                                                     *)
toMultiple(unit, n) ==
    unit * (n \div unit + (IF 2 * (n % unit) > unit \/ (2 * (n % unit) = unit /\ (n \div unit) % 2 = 1) THEN 1 ELSE 0))
toBits(bits, n) == toMultiple(CHOOSE u \in {2^k : k \in 0..Bits64} : n < u * 2^bits /\ (u = 1 \/ 2 * n >= u * 2^bits), n)
(* parseNonSpecialF64 rounds to a double, the cast to a float rounds that.                     *)
nearestFloat(type, n) ==
    IF type = "f32" THEN toBits(SignificandBits32 + 1, toBits(SignificandBits64 + 1, n)) ELSE toBits(SignificandBits64 + 1, n)

(* The bits of an integer that a float has exactly; none if it is too large.                       *)
exponentBias(type) == 2^(bitsOf(type) - 2 - significandBits(type)) - 1
shiftedTo(n, k) == IF k < 0 THEN n \div 2^(-k) ELSE n * 2^k
integerBits(type, n) ==
    IF n = 0 THEN {0}
    ELSE {(e + exponentBias(type) - 1) * 2^significandBits(type) + shiftedTo(n, significandBits(type) - e) :
              e \in {k \in 0..Bits64 : k <= exponentBias(type) /\ n \div 2^k = 1}}
infinityBits(type) == (2 * exponentBias(type) + 1) * 2^significandBits(type)

(* tryParseFloat.  A token with a point or an exponent carries the bits of the float of its type   *)
(* that is nearest to it; a number without them is an integer, whose 0 has no sign here.            *)
parseFloat(type, s) ==
    LET withSign(negative, n) == (IF negative THEN 2^(bitsOf(type) - 1) ELSE 0) + n
    IN  CASE Sees(s, "int") ->
                 UNION {Read(withSign(s[1][2] < 0, b), Tail(s)) :
                            b \in integerBits(type, nearestFloat(type, IF s[1][2] < 0 THEN -s[1][2] ELSE s[1][2]))}
          [] s[1][1] \in {"decimalFloat", "hexFloat"} -> Read(s[1][2], Tail(s))
          [] Sees(s, "floatNaN") -> Read(withSign(s[1][2][1] = 1, infinityBits(type) + s[1][2][2]), Tail(s))
          [] Sees(s, "floatInf") -> Read(withSign(s[1][2] = 1, infinityBits(type)), Tail(s))
          [] OTHER -> {}
parseLiteral(type, s) ==
    CASE type = "i32" -> Mapped(parseInt(Bits32, s), LAMBDA n : asSigned(Bits32, n))
      [] type = "i64" -> Mapped(parseInt(Bits64, s), LAMBDA n : asSigned(Bits64, n))
      [] type \in FloatTypes -> parseFloat(type, s)

hexit(c) == CASE c \in 48..57 -> c - 48 [] c \in 97..102 -> c - 87 [] c \in 65..70 -> c - 55 [] OTHER -> -1
isHexit(c) == hexit(c) >= 0
Escapes == (116 :> 9) @@ (110 :> 10) @@ (114 :> 13) @@ (34 :> 34) @@ (39 :> 39) @@ (92 :> 92)

(* parseCharEscapeCode, after the backslash: the bytes it stands for and the characters left.    *)
(* The lexer has seen that the digits and braces are there.                                 *)
parseCharEscapeCode(s) ==
    CASE isHexit(s[1]) -> Read(<<hexit(s[1]) * 16 + hexit(s[2])>>, SubSeq(s, 3, Len(s)))
      [] s[1] = 117 ->
             LET end   == SelectInSeq(s, LAMBDA c : c = 125)
                 value == FoldLeft(LAMBDA n, c : IF n >= 1114112 THEN n ELSE n * 16 + hexit(c), 0, SubSeq(s, 3, end - 1))
             IN  IF value \in 55296..57343 \/ value >= 1114112 THEN {}
                 ELSE Read(encodeCodepoint(value), SubSeq(s, end + 1, Len(s)))
      [] s[1] \in DOMAIN Escapes -> Read(<<Escapes[s[1]]>>, Tail(s))
      [] OTHER -> {}
RECURSIVE unescaped(_)
unescaped(s) ==
    IF s = <<>> THEN {<<>>}
    ELSE IF Head(s) # 92 THEN {<<Head(s)>> \o rest : rest \in unescaped(Tail(s))}
    ELSE UNION {{r.v \o rest : rest \in unescaped(r.s)} : r \in parseCharEscapeCode(Tail(s))}

parseString(s) == IF Sees(s, "string") THEN {[v |-> bytes, s |-> Tail(s)] : bytes \in unescaped(s[1][2])} ELSE {}
parseUTF8String(s) == Only(parseString(s), validateString)
RECURSIVE parseStrings(_, _)
parseStrings(data, s) ==
    IF Sees(s, "string") THEN Bind(parseString(s), LAMBDA bytes, t : parseStrings(data \o bytes, t)) ELSE Read(data, s)

(* tryParseName: no name is the empty one.                                                 *)
tryParseName(s) == IF Sees(s, "name") THEN Read(s[1][2], Tail(s)) ELSE Read(<<>>, s)

noNames == [n \in {} |-> 0]
bindName(names, name, index) ==
    CASE name = <<>> -> {names} [] name \in DOMAIN names -> {} [] OTHER -> {(name :> index) @@ names}

(* A reference is a name or an index, or NoRef where there is none.                         *)
NoRef == <<"invalid">>
seesRef(s) == Sees(s, "name") \/ Sees(s, "int")
parseRef(s) ==
    IF Sees(s, "name") THEN Read(<<"name", s[1][2]>>, Tail(s))
    ELSE Mapped(parseInt(Bits32, s), LAMBDA n : <<"index", n>>)
tryParseRef(s) == IF seesRef(s) THEN parseRef(s) ELSE Read(NoRef, s)
RECURSIVE parseRefs(_, _)
parseRefs(refs, s) ==
    IF seesRef(s) THEN Bind(parseRef(s), LAMBDA ref, t : parseRefs(Append(refs, ref), t)) ELSE Read(refs, s)
resolveRef(names, maxIndex, ref) ==
    IF ref[1] = "index" THEN IF ref[2] < maxIndex THEN {ref[2]} ELSE {}
    ELSE IF ref[2] \in DOMAIN names THEN {names[ref[2]]} ELSE {}
(* Every reference of a sequence.                                                          *)
Resolved(refs, R(_)) ==
    IF \E k \in 1..Len(refs) : R(refs[k]) = {} THEN {}
    ELSE {[k \in 1..Len(refs) |-> CHOOSE i \in R(refs[k]) : TRUE]}

-----------------------------------------------------------------------------
(* Types                                                                                   *)

isValueType(token) == token[1] \in IntTypes \cup FloatTypes
parseValueType(s) == IF isValueType(s[1]) THEN Read(s[1][1], Tail(s)) ELSE {}
RECURSIVE parseValueTypes(_, _)
parseValueTypes(types, s) ==
    IF isValueType(s[1]) THEN parseValueTypes(Append(types, s[1][1]), Tail(s)) ELSE Read(types, s)

(* Parameters or locals, added to variables [types, names, disassembly]: one with a name, or    *)
(* any number without.                                                                      *)
RECURSIVE parseVariables(_, _, _)
parseVariables(tag, v, s) ==
    LET parseNamed(t) ==
            UNION {Mapped(parseValueType(Tail(t)), LAMBDA type :
                       [types |-> Append(v.types, type), names |-> names, disassembly |-> Append(v.disassembly, t[1][2])]) :
                   names \in bindName(v.names, t[1][2], Len(v.types))}
        parseUnnamed(t) ==
            Mapped(parseValueTypes(<<>>, t), LAMBDA types :
                [v EXCEPT !.types = @ \o types, !.disassembly = @ \o [k \in 1..Len(types) |-> <<>>]])
    IN  IF ~seesTagged(s, tag) THEN Read(v, s)
        ELSE Bind(Inside(s, LAMBDA t : IF Sees(t, "name") THEN parseNamed(t) ELSE parseUnnamed(t)),
                  LAMBDA w, t : parseVariables(tag, w, t))

RECURSIVE parseResults(_, _)
parseResults(types, s) ==
    IF seesTagged(s, "result") THEN Bind(Inside(s, LAMBDA t : parseValueTypes(types, t)), LAMBDA more, t : parseResults(more, t))
    ELSE IF Len(types) > 1 THEN {} ELSE Read(IF types = <<>> THEN "none" ELSE types[1], s)

noVariables == [types |-> <<>>, names |-> noNames, disassembly |-> <<>>]
(* The type, with the names of its parameters.                                             *)
parseFunctionType(s) ==
    Bind(parseVariables("param", noVariables, s), LAMBDA v, t :
        Mapped(parseResults(<<>>, t), LAMBDA ret : [type |-> [params |-> v.types, ret |-> ret], variables |-> v]))

parseTypeRef(s) == Inside(s, parseRef)
parseFunctionTypeRefAndOrDecl(s) ==
    Bind(IF seesTagged(s, "type") THEN parseTypeRef(s) ELSE Read(NoRef, s), LAMBDA ref, t :
        Mapped(parseFunctionType(t), LAMBDA f : [ref |-> ref, type |-> f.type, variables |-> f.variables]))

parseSizeConstraints(s, maxMax) ==
    Bind(parseInt(Bits64, s), LAMBDA min, t :
        IF ~Sees(t, "int") THEN Read([min |-> min, max |-> NoMax], t)
        ELSE Only(Mapped(parseInt(Bits64, t), LAMBDA max : [min |-> min, max |-> max]),
                  LAMBDA c : c.max <= maxMax /\ c.min <= c.max))
tableOf(c) == [elementType |-> "anyfunc", size |-> c]
parseTableType(s) ==
    Bind(parseSizeConstraints(s, maxTableSize), LAMBDA c, t : Mapped(require(t, "anyfunc"), LAMBDA token : tableOf(c)))
parseMemoryType(s) == Mapped(parseSizeConstraints(s, maxMemoryPages), LAMBDA c : [size |-> c])
parseGlobalType(s) ==
    IF seesTagged(s, "mut") THEN Mapped(Inside(s, parseValueType), LAMBDA t : [type |-> t, isMutable |-> TRUE])
    ELSE Mapped(parseValueType(s), LAMBDA t : [type |-> t, isMutable |-> FALSE])

-----------------------------------------------------------------------------
(* ModuleParseState: the module, the names of its objects, the names for the disassembly of      *)
(* the functions, and what is put off until all types, and until all declarations, are parsed.    *)

noModule ==
    [m |-> emptyModule, disassembly |-> <<>>, postType |-> <<>>, postDeclaration |-> <<>>,
     names |-> [types |-> noNames, functions |-> noNames, tables |-> noNames, memories |-> noNames, globals |-> noNames]]
Unresolved == -1

maxIndex(p, space) == IF space = "types" THEN Len(p.m.types) ELSE size(p.m[space])
resolve(p, space, ref) == resolveRef(p.names[space], maxIndex(p, space), ref)
precedesDefinitions(m) == \A kind \in DOMAIN Space : m[Space[kind]].defs = <<>>

(* bindName and push_back of an object whose entry is put in imports or defs.                 *)
add(p, kind, name, part, object, locals) ==
    {[p EXCEPT !.names[Space[kind]] = names, !.m[Space[kind]][part] = Append(@, object),
               !.disassembly = IF kind = "function" THEN Append(@, [name |-> name, locals |-> locals]) ELSE @] :
        names \in bindName(p.names[Space[kind]], name, size(p.m[Space[kind]]))}
later(p, callback) == [p EXCEPT !.postDeclaration = Append(@, callback)]

parseInitializerExpression(p, s) ==
    LET parseOperator(t) ==
            LET i == Opcodes[t[1][2]] IN
            CASE ~Sees(t, "op") -> {}
              [] Sees(t, "op") /\ i.op = "const" ->
                     Mapped(parseLiteral(i.type, Tail(t)), LAMBDA n : [type |-> Initializers[typeNumber(i.type)], n |-> n])
              [] Sees(t, "op") /\ i.op = "get_global" ->
                     Bind(parseRef(Tail(t)), LAMBDA ref, u :
                         {[v |-> [type |-> "get_global", n |-> n], s |-> u] : n \in resolve(p, "globals", ref)})
              [] OTHER -> {}
    IN  Parenthesized(s, parseOperator)

(* The type of an import and the import.  A function's type is resolved after all types.         *)
addImport(p, kind, name, strings, keepLocals, s) ==
    LET imported(type) == [type |-> type, moduleName |-> strings[1], exportName |-> strings[2]]
        ofKind == CASE kind = "table"  -> parseTableType(s) [] kind = "memory" -> parseMemoryType(s)
                    [] kind = "global" -> parseGlobalType(s)
        callback(u) == [part |-> "imports", index |-> Len(p.m.functions.imports) + 1, unresolved |-> u]
    IN  IF kind # "function"
        THEN Bind(ofKind, LAMBDA type, t : {[v |-> q, s |-> t] : q \in add(p, kind, name, "imports", imported(type), <<>>)})
        ELSE Bind(parseFunctionTypeRefAndOrDecl(s), LAMBDA u, t :
                 {[v |-> [q EXCEPT !.postType = Append(@, callback(u))], s |-> t] :
                     q \in add(p, kind, name, "imports", imported(Unresolved), IF keepLocals THEN u.variables.disassembly ELSE <<>>)})

Kinds == [func |-> "function", table |-> "table", memory |-> "memory", global |-> "global"]
parseImport(p, s) ==
    Bind(IF precedesDefinitions(p.m) THEN parseUTF8String(s) ELSE {}, LAMBDA moduleName, t :
    Bind(parseUTF8String(t), LAMBDA exportName, u :
        Parenthesized(u, LAMBDA w :
            IF w[1][1] \notin DOMAIN Kinds THEN {}
            ELSE Bind(tryParseName(Tail(w)), LAMBDA name, x :
                     addImport(p, Kinds[w[1][1]], name, <<moduleName, exportName>>, TRUE, x)))))

addExport(p, name, kind, index) == [p EXCEPT !.m.exports = Append(@, [name |-> name, kind |-> kind, index |-> index])]
parseExport(p, s) ==
    Bind(parseUTF8String(s), LAMBDA name, t :
        Parenthesized(t, LAMBDA u :
            IF u[1][1] \notin DOMAIN Kinds THEN {}
            ELSE Mapped(parseRef(Tail(u)), LAMBDA ref :
                     later(addExport(p, name, Kinds[u[1][1]], 0), [do |-> "export", index |-> Len(p.m.exports) + 1, ref |-> ref]))))

parseType(p, s) ==
    Bind(tryParseName(s), LAMBDA name, t :
        Bind(Parenthesized(t, LAMBDA u : Bind(require(u, "func"), LAMBDA token, w : parseFunctionType(w))), LAMBDA f, u :
            {[v |-> [p EXCEPT !.m.types = Append(@, f.type), !.names.types = names], s |-> u] :
                names \in bindName(p.names.types, name, Len(p.m.types))}))

-----------------------------------------------------------------------------
(* Segments and definitions                                                                *)

addData(p, index, offset, data) ==
    [p EXCEPT !.m.dataSegments = Append(@, [index |-> index, baseOffset |-> offset, data |-> data])]
parseData(p, s) ==
    Bind(tryParseRef(s), LAMBDA ref, t : Bind(parseInitializerExpression(p, t), LAMBDA e, u :
        Mapped(parseStrings(<<>>, u), LAMBDA data :
            later(addData(p, Unresolved, e, data), [do |-> "data", index |-> Len(p.m.dataSegments) + 1, ref |-> ref]))))

(* parseElemSegmentBody: how many elements, too.                                            *)
parseElements(p, ref, offset, s) ==
    Mapped(parseRefs(<<>>, s), LAMBDA refs :
        [p |-> later([p EXCEPT !.m.tableSegments = Append(@, [index |-> Unresolved, baseOffset |-> offset, indices |-> <<>>])],
                     [do |-> "elem", index |-> Len(p.m.tableSegments) + 1, ref |-> ref, elements |-> refs]),
         size |-> Len(refs)])
parseElem(p, s) ==
    Bind(tryParseRef(s), LAMBDA ref, t : Bind(parseInitializerExpression(p, t), LAMBDA e, u :
        Mapped(parseElements(p, ref, e, u), LAMBDA r : r.p)))

Exactly(n) == [min |-> n, max |-> n]
zeroOffset == [type |-> "i32_const", n |-> 0]

(* The parsers of definitions: [p, def], p with the segments and callbacks of the definition.     *)
parseTableDef(p, s) ==
    IF Sees(s, "int") THEN Mapped(parseTableType(s), LAMBDA type : [p |-> p, def |-> [type |-> type]])
    ELSE Bind(require(s, "anyfunc"), LAMBDA token, t :
             Mapped(Parenthesized(t, LAMBDA u : Bind(require(u, "elem"), LAMBDA tag, w :
                        parseElements(p, <<"index", size(p.m.tables)>>, zeroOffset, w))),
                    LAMBDA r : [p |-> r.p, def |-> [type |-> tableOf(Exactly(r.size))]]))

pagesOf(data) == (Len(data) + numBytesPerPage - 1) \div numBytesPerPage
parseMemoryDef(p, s) ==
    IF Sees(s, "int") THEN Mapped(parseMemoryType(s), LAMBDA type : [p |-> p, def |-> [type |-> type]])
    ELSE Mapped(Parenthesized(s, LAMBDA t : Bind(require(t, "data"), LAMBDA tag, u : parseStrings(<<>>, u))), LAMBDA data :
             [p |-> addData(p, size(p.m.memories), zeroOffset, data), def |-> [type |-> [size |-> Exactly(pagesOf(data))]]])

parseGlobalDef(p, s) ==
    Bind(parseGlobalType(s), LAMBDA type, t :
        Mapped(parseInitializerExpression(p, t), LAMBDA e : [p |-> p, def |-> [type |-> type, initializer |-> e]]))

(* parseFunctionDef: the body is left for later, its tokens skipped.                        *)
parseFunctionDef(p, s) ==
    LET callback(u, body) == [part |-> "defs", index |-> Len(p.m.functions.defs) + 1, unresolved |-> u, body |-> body] IN
    Bind(parseFunctionTypeRefAndOrDecl(s), LAMBDA u, t :
        {[v |-> [p |-> [p EXCEPT !.postType = Append(@, callback(u, t))],
                 def |-> [type |-> Unresolved, locals |-> <<>>, code |-> <<>>]], s |-> rest] :
            rest \in findClosingParenthesis(t, 1)})

RECURSIVE parseInlineExports(_, _, _)
parseInlineExports(p, kind, s) ==
    IF ~seesTagged(s, "export") THEN Read(p, s)
    ELSE Bind(Inside(s, parseUTF8String), LAMBDA name, t :
             parseInlineExports(addExport(p, name, kind, size(p.m[Space[kind]])), kind, t))

parseObjectDefOrImport(p, kind, s) ==
    LET parseStringPair(t) == Bind(parseUTF8String(t), LAMBDA first, u : Mapped(parseUTF8String(u), LAMBDA second : <<first, second>>))
        parseDef(q, t) == CASE kind = "function" -> parseFunctionDef(q, t) [] kind = "table"  -> parseTableDef(q, t)
                            [] kind = "memory"   -> parseMemoryDef(q, t)   [] kind = "global" -> parseGlobalDef(q, t)
    IN  Bind(tryParseName(s), LAMBDA name, t : Bind(parseInlineExports(p, kind, t), LAMBDA q, u :
            IF seesTagged(u, "import")
            THEN Bind(IF precedesDefinitions(q.m) THEN Inside(u, parseStringPair) ELSE {}, LAMBDA strings, w :
                     addImport(q, kind, name, strings, FALSE, w))
            ELSE Bind(parseDef(q, u), LAMBDA r, w :
                     {[v |-> x, s |-> w] : x \in add(r.p, kind, name, "defs", r.def, <<>>)})))

parseStart(p, s) == Mapped(parseRef(s), LAMBDA ref : later(p, [do |-> "start", ref |-> ref]))

parseDeclaration(p, s) ==
    Parenthesized(s, LAMBDA t :
        LET tag == t[1][1]
            u   == Tail(t)
        IN  CASE tag = "import" -> parseImport(p, u) [] tag = "export" -> parseExport(p, u)
              [] tag = "type"   -> parseType(p, u)   [] tag = "data"   -> parseData(p, u)
              [] tag = "elem"   -> parseElem(p, u)   [] tag = "start"  -> parseStart(p, u)
              [] tag \in DOMAIN Kinds -> parseObjectDefOrImport(p, Kinds[tag], u)
              [] OTHER -> {})

-----------------------------------------------------------------------------
(* Function bodies.  The context c is [p, signature, locals, names]; the state f is [code, w,     *)
(* labels, depth]: the operators written, the validator's context, the branch targets by name     *)
(* and how many are open.                                                                    *)

(* An operator is validated and written.                                                   *)
emit(c, f, i) ==
    {[f EXCEPT !.code = Append(@, i), !.w = w] : w \in V(c.p.m, c.signature, c.locals)!validated(f.w, i)}

(* ScopedBranchTarget.                                                                     *)
(* Fault: a name that is already bound keeps its outer target.                              *)
enterTargetFault(f, name) ==
    [f EXCEPT !.depth = @ + 1, !.labels = IF name = <<>> THEN @ ELSE @ @@ (name :> f.depth + 1)]

enterTarget(f, name) ==
    [f EXCEPT !.depth = @ + 1, !.labels = IF name = <<>> THEN @ ELSE (name :> f.depth + 1) @@ @]
leaveTarget(f, outer) == [f EXCEPT !.depth = outer.depth, !.labels = outer.labels]

resolveBranchTargetRef(f, ref) ==
    IF ref[1] = "index" THEN {ref[2]}
    ELSE IF ref[2] \in DOMAIN f.labels THEN {f.depth - f.labels[ref[2]]} ELSE {}

(* A label after else or end, which may be left out.                                       *)
parseRedundantName(name, s) == Mapped(Only(tryParseName(s), LAMBDA n : n \in {<<>>, name}), LAMBDA n : name)

(* "name =" and a number, or the default.                                                  *)
parseAttribute(tag, default, s) ==
    IF Sees(s, tag) THEN Bind(require(Tail(s), "="), LAMBDA token, t : parseInt(Bits32, t)) ELSE Read(default, s)

parseImm(c, f, i, s) ==
    LET index(R(_)) == Bind(parseRef(s), LAMBDA ref, t : {[v |-> [i EXCEPT !.n = n], s |-> t] : n \in R(ref)})
        numLocals == Len(c.signature.params) + Len(c.locals)
    IN  CASE i.op = "const" -> Mapped(parseLiteral(i.type, s), LAMBDA n : [i EXCEPT !.n = n])
          [] i.op \in {"br", "br_if"} -> index(LAMBDA ref : resolveBranchTargetRef(f, ref))
          [] i.op = "br_table" ->
                 Bind(parseRefs(<<>>, s), LAMBDA refs, t :
                     IF refs = <<>> THEN {}
                     ELSE {[v |-> [i EXCEPT !.to = Front(depths), !.n = Last(depths)], s |-> t] :
                              depths \in Resolved(refs, LAMBDA ref : resolveBranchTargetRef(f, ref))})
          [] i.op \in {"get_local", "set_local", "tee_local"} -> index(LAMBDA ref : resolveRef(c.names, numLocals, ref))
          [] i.op \in {"get_global", "set_global"} -> index(LAMBDA ref : resolve(c.p, "globals", ref))
          [] i.op = "call" -> index(LAMBDA ref : resolve(c.p, "functions", ref))
          [] i.op = "call_indirect" ->
                 Bind(IF seesTagged(s, "type") THEN parseTypeRef(s) ELSE parseRef(s), LAMBDA ref, t :
                     {[v |-> [i EXCEPT !.n = n], s |-> t] : n \in resolve(c.p, "types", ref)})
          [] i.op \in {"load", "store"} ->
                 Bind(parseAttribute("offset", 0, s), LAMBDA offset, t :
                 Bind(parseAttribute("align", 2^naturalAlignmentLog2(i), t), LAMBDA align, u :
                     {[v |-> [i EXCEPT !.n = offset, !.align = k], s |-> u] :
                         k \in {l \in 0..naturalAlignmentLog2(i) : 2^l = align}}))
          [] OTHER -> Read(i, s)

(* A label and a result type, in parentheses or not.                                       *)
parseControlImm(s) ==
    LET parseResult(t) == IF isValueType(t[1]) THEN Read(t[1][1], Tail(t)) ELSE Read("none", t)
    IN  Bind(tryParseName(s), LAMBDA name, t :
            Mapped(IF seesTagged(t, "result") THEN Inside(t, parseResult) ELSE parseResult(t),
                   LAMBDA type : [name |-> name, type |-> type]))

RECURSIVE parseExpr(_, _, _), parseExprSequence(_, _, _), parseInstrSequence(_, _, _)

(* Once the structure has been opened from outer: its end, and when flat the word end.          *)
parseEnd(c, f, outer, name, flat, s) ==
    UNION {IF flat THEN Bind(require(s, "end"), LAMBDA token, t :
                            Mapped(parseRedundantName(name, t), LAMBDA n : leaveTarget(g, outer)))
           ELSE Read(leaveTarget(g, outer), s) : g \in emit(c, f, NoImm("end"))}

(* parseBlock and parseLoop.                                                               *)
parseBlock(c, f, flat, s) ==
    Bind(parseControlImm(Tail(s)), LAMBDA imm, t :
        UNION {Bind(parseInstrSequence(c, enterTarget(g, imm.name), t), LAMBDA h, u : parseEnd(c, h, f, imm.name, flat, u)) :
               g \in emit(c, f, Structure(s[1][1], imm.type))})

(* The if of a sequence: then and else clauses without parentheses.                          *)
parseFlatIf(c, f, s) ==
    LET parseElse(name, h, t) ==
            IF ~Sees(t, "else") THEN Read(h, t)
            ELSE Bind(parseRedundantName(name, Tail(t)), LAMBDA n, u :
                     UNION {parseInstrSequence(c, e, u) : e \in emit(c, h, NoImm("else"))})
    IN  Bind(parseControlImm(Tail(s)), LAMBDA imm, t :
            UNION {Bind(parseInstrSequence(c, enterTarget(g, imm.name), t), LAMBDA h, u :
                       Bind(parseElse(imm.name, h, u), LAMBDA e, w : parseEnd(c, e, f, imm.name, TRUE, w))) :
                   g \in emit(c, f, Structure("if", imm.type))})

(* The if of an expression: an optional condition, then either (then ...) and (else ...) or     *)
(* one or two expressions.                                                                  *)
parseFoldedIf(c, f, s) ==
    LET parseElse(x) == Bind(require(x.s, "else"), LAMBDA token, t :
                            UNION {parseInstrSequence(c, e, t) : e \in emit(c, x.v, NoImm("else"))})
        parseClauses(g, t) ==
            IF seesTagged(t, "then")
            THEN Bind(Inside(t, LAMBDA u : parseInstrSequence(c, g, u)), LAMBDA h, u :
                     IF Sees(u, "(") THEN Parenthesized(u, LAMBDA w : parseElse([v |-> h, s |-> w])) ELSE Read(h, u))
            ELSE Bind(parseExpr(c, g, t), LAMBDA h, u :
                     IF Sees(u, ")") THEN Read(h, u) ELSE UNION {parseExpr(c, e, u) : e \in emit(c, h, NoImm("else"))})
    IN  Bind(parseControlImm(Tail(s)), LAMBDA imm, t :
        Bind(IF seesTagged(t, "then") THEN Read(f, t) ELSE parseExpr(c, f, t), LAMBDA cond, u :
            UNION {Bind(parseClauses(enterTarget(g, imm.name), u), LAMBDA h, w : parseEnd(c, h, f, imm.name, FALSE, w)) :
                   g \in emit(c, cond, Structure("if", imm.type))}))

(* parseOp: the operands of an expression come before its operator.                          *)
parseOp(c, f, flat, s) ==
    Bind(parseImm(c, f, Opcodes[s[1][2]], Tail(s)), LAMBDA i, t :
        Bind(IF flat THEN Read(f, t) ELSE parseExprSequence(c, f, t), LAMBDA g, u :
            {[v |-> h, s |-> u] : h \in emit(c, g, i)}))

parseExprSequence(c, f, s) ==
    IF Sees(s, ")") THEN Read(f, s) ELSE Bind(parseExpr(c, f, s), LAMBDA g, t : parseExprSequence(c, g, t))

parseExpr(c, f, s) ==
    Parenthesized(s, LAMBDA t :
        CASE t[1][1] \in {"block", "loop"} -> parseBlock(c, f, FALSE, t)
          [] Sees(t, "if") -> parseFoldedIf(c, f, t)
          [] Sees(t, "op") -> parseOp(c, f, FALSE, t)
          [] OTHER -> {})

parseInstrSequence(c, f, s) ==
    IF s[1][1] \in {")", "else", "end"} THEN Read(f, s)
    ELSE Bind(CASE Sees(s, "(") -> parseExpr(c, f, s)
                [] s[1][1] \in {"block", "loop"} -> parseBlock(c, f, TRUE, s)
                [] Sees(s, "if") -> parseFlatIf(c, f, s)
                [] Sees(s, "op") -> parseOp(c, f, TRUE, s)
                [] OTHER -> {},
              LAMBDA g, t : parseInstrSequence(c, g, t))

(* The locals and the code of a body.  What follows a stray else or end is not looked at.        *)
parseBody(p, callback) ==
    LET def       == p.m.functions.defs[callback.index]
        signature == p.m.types[def.type + 1]
        given     == callback.unresolved.variables
        first     == [given EXCEPT !.types = signature.params]
    IN  UNION {LET locals == SubSeq(v.v.types, Len(signature.params) + 1, Len(v.v.types))
                   c == [p |-> p, signature |-> signature, locals |-> locals, names |-> v.v.names]
                   f == [code |-> <<>>, w |-> V(p.m, signature, locals)!FunctionContext, labels |-> noNames, depth |-> 0]
                   function == Len(p.m.functions.imports) + callback.index
               IN  {[p EXCEPT !.m.functions.defs[callback.index] = [def EXCEPT !.locals = locals, !.code = g.code],
                              !.disassembly[function].locals = v.v.disassembly] :
                       g \in {h \in UNION {emit(c, r.v, NoImm("end")) : r \in parseInstrSequence(c, f, v.s)} :
                                 finishes(p.m, signature, locals, h.w)}} :
               v \in parseVariables("local", first, callback.body)}

-----------------------------------------------------------------------------
(* parseModule                                                                             *)

(* The last declared type that is the same, or a new one.                                   *)
getUniqueFunctionTypeIndex(p, type) ==
    LET same == {k \in 1..Len(p.m.types) : p.m.types[k] = type}
    IN  IF same # {} THEN [p |-> p, index |-> (CHOOSE k \in same : \A l \in same : l <= k) - 1]
        ELSE [p |-> [p EXCEPT !.m.types = Append(@, type)], index |-> Len(p.m.types)]
resolveFunctionType(p, u) ==
    IF u.ref[1] = "invalid" THEN {getUniqueFunctionTypeIndex(p, u.type)}
    ELSE {[p |-> p, index |-> k] :
             k \in {l \in resolve(p, "types", u.ref) :
                       u.type = [params |-> <<>>, ret |-> "none"] \/ p.m.types[l + 1] = u.type}}

postTypeCallback(p, callback) ==
    {LET q == [r.p EXCEPT !.m.functions[callback.part][callback.index].type = r.index]
     IN  IF callback.part = "imports" THEN q ELSE later(q, [do |-> "body", callback |-> callback]) :
        r \in resolveFunctionType(p, callback.unresolved)}

optionalRef(p, space, ref) ==
    CASE size(p.m[space]) = 0 -> {}
      [] size(p.m[space]) > 0 /\ ref[1] = "invalid" -> {0}
      [] OTHER -> resolve(p, space, ref)
postDeclarationCallback(p, callback) ==
    LET k == callback.index IN
    CASE callback.do = "export" ->
             {[p EXCEPT !.m.exports[k].index = i] : i \in resolve(p, Space[p.m.exports[k].kind], callback.ref)}
      [] callback.do = "data" -> {[p EXCEPT !.m.dataSegments[k].index = i] : i \in optionalRef(p, "memories", callback.ref)}
      [] callback.do = "elem" ->
             {[p EXCEPT !.m.tableSegments[k].index = i, !.m.tableSegments[k].indices = indices] :
                 i \in optionalRef(p, "tables", callback.ref),
                 indices \in Resolved(callback.elements, LAMBDA ref : resolve(p, "functions", ref))}
      [] callback.do = "start" -> {[p EXCEPT !.m.start = i] : i \in resolve(p, "functions", callback.ref)}
      [] callback.do = "body" -> parseBody(p, callback.callback)

RECURSIVE parseDeclarations(_, _)
parseDeclarations(p, s) ==
    IF Sees(s, ")") THEN Read(p, s) ELSE Bind(parseDeclaration(p, s), LAMBDA q, t : parseDeclarations(q, t))
parseModuleBody(p) ==
    LET resolved == FoldLeft(LAMBDA ps, callback : UNION {postTypeCallback(q, callback) : q \in ps}, {p}, p.postType)
        parsed(q) == FoldLeft(LAMBDA ps, callback : UNION {postDeclarationCallback(r, callback) : r \in ps}, {q}, q.postDeclaration)
    IN  {setDisassemblyNames(q.m, q.disassembly) :
            q \in {r \in UNION {parsed(t) : t \in resolved} : validateDefinitions(r.m)}}
parseModule(s) ==
    UNION {parseModuleBody(r.v) :
           r \in {x \in Parenthesized(s, LAMBDA t : Bind(require(t, "module"), LAMBDA token, u : parseDeclarations(noModule, u))) :
                     Sees(x.s, "eof")}}
=============================================================================
