-------------------------- MODULE MC_ModuleStream --------------------------
(* Small modules with every kind of section, import and operator immediate.                  *)
EXTENDS ModuleStream

a == <<97>>
Import(type, n) == [type |-> type, moduleName |-> a, exportName |-> <<98, n>>]
Init32(n) == [type |-> "i32_const", n |-> n]
Size(min, max) == [min |-> min, max |-> max]
Def(type, locals, code) == [type |-> type, locals |-> locals, code |-> code]
Void == [params |-> <<>>, ret |-> "none"]
Get(i) == Indexed("get_local", i)
End == NoImm("end")
Hinted(i, n) == [i EXCEPT !.align = n]

(* Every operator with an immediate.                                                       *)
Body1 == <<Structure("block", "none"), Structure("loop", "i32"), Get(0), Get(0), BranchTable(<<0, 1>>, 0), End, NoImm("drop"), End,
           Literal("i64", -65), NoImm("drop"), Literal("f32", 40000), Literal("f64", 8388609), NoImm("drop"), NoImm("drop"),
           Get(0), Get(0), Hinted(Load("load", "i32", 300), 2), Indexed("call_indirect", 1), Indexed("call", 1), End>>
Body2 == <<Literal("i32", -2^15), Indexed("set_global", 1), Get(0), NoImm("grow_memory"), End>>
Body3 == <<Get(0), Get(1), Hinted(Store("store16", "i64", 0), 1),
           Get(0), Structure("if", "i64"), Literal("i64", 2^21 - 1), NoImm("else"), NoImm("unreachable"), End, End>>

Full ==
    [types |-> <<Void, [params |-> <<"i32">>, ret |-> "none"], [params |-> <<"i32", "f64">>, ret |-> "i32"]>>,
     functions |-> [imports |-> <<Import(1, 1)>>,
                    defs |-> <<Def(0, <<>>, <<End>>), Def(1, <<"i64", "i64", "f32">>, Body1)>>],
     tables |-> [imports |-> <<>>, defs |-> <<[type |-> [elementType |-> "anyfunc", size |-> Size(1, 200)]]>>],
     memories |-> [imports |-> <<>>, defs |-> <<[type |-> [size |-> Size(1, NoMax)]]>>],
     globals |-> [imports |-> <<Import([type |-> "i32", isMutable |-> FALSE], 2)>>,
                  defs |-> <<[type |-> [type |-> "i32", isMutable |-> TRUE], initializer |-> [type |-> "get_global", n |-> 0]],
                             [type |-> [type |-> "f32", isMutable |-> FALSE], initializer |-> [type |-> "f32_const", n |-> 65535]]>>],
     exports |-> <<[name |-> a, kind |-> "function", index |-> 1], [name |-> <<195, 169>>, kind |-> "memory", index |-> 0]>>,
     start |-> 1,
     tableSegments |-> <<[index |-> 0, baseOffset |-> Init32(64), indices |-> <<2, 0>>]>>,
     dataSegments |-> <<[index |-> 0, baseOffset |-> [type |-> "get_global", n |-> 0], data |-> <<0, 255>>]>>,
     userSections |-> <<>>]

Imports ==
    [emptyModule EXCEPT
        !.types = <<Void>>,
        !.tables.imports = <<Import([elementType |-> "anyfunc", size |-> Size(0, NoMax)], 3)>>,
        !.memories.imports = <<Import([size |-> Size(0, 3)], 4)>>,
        !.functions.imports = <<Import(0, 5)>>,
        !.globals.imports = <<Import([type |-> "i64", isMutable |-> FALSE], 6)>>,
        !.globals.defs = <<[type |-> [type |-> "i64", isMutable |-> FALSE], initializer |-> [type |-> "i64_const", n |-> -2^21]]>>,
        !.exports = <<[name |-> a, kind |-> "global", index |-> 1], [name |-> <<>>, kind |-> "table", index |-> 0]>>]

Small(type, locals, code) ==
    [emptyModule EXCEPT !.types = <<type>>, !.functions.defs = <<Def(0, locals, code)>>,
                        !.memories.defs = <<[type |-> [size |-> Size(0, NoMax)]]>>,
                        !.globals.defs = <<[type |-> [type |-> "i32", isMutable |-> FALSE], initializer |-> Init32(0)],
                                           [type |-> [type |-> "i32", isMutable |-> TRUE], initializer |-> Init32(-1)]>>]

(* One operator of each opcode in code that cannot be reached, and literals at the ends of      *)
(* their ranges and of the numbers of bytes they take.                                       *)
OneOperator == {Small(Void, <<>>, <<NoImm("unreachable"), Opcodes[o], NoImm("unreachable"), End>>) :
                    o \in {p \in DOMAIN Opcodes : Opcodes[p].op \in {"unary", "binary", "load", "store", "nop", "drop"}}}
Literals == {Small([params |-> <<>>, ret |-> t], <<>>, <<Literal(t, n), End>>) :
                t \in {"i32", "i64"}, n \in {-2^15, -8193, -8192, -129, -128, -65, -64, -1, 0, 63, 64, 127, 128, 8191, 8192, 2^15 - 1}}

MCFragile == {emptyModule, Full, Imports, Small([params |-> <<"i32", "i64">>, ret |-> "i64"], <<"f32", "i32", "i32">>, Body3),
              Small([params |-> <<"i32">>, ret |-> "i32"], <<>>, Body2)}
(* Constants at the ends of the floats' ranges, and functions of two types that are equal.        *)
Infinity32 == 31 * 2^10
Infinity64 == 63 * 2^17
Floating(types, f, g) ==
    [emptyModule EXCEPT
        !.types = types,
        !.functions.defs = <<Def(0, <<>>, <<Literal("f32", f), NoImm("drop"), Literal("f64", g), NoImm("drop"), End>>),
                             Def(1, <<>>, <<NoImm("unreachable"), Indexed("call_indirect", 1), End>>)>>,
        !.tables.defs = <<[type |-> [elementType |-> "anyfunc", size |-> Size(1, 1)]]>>,
        !.globals.defs = <<[type |-> [type |-> "f64", isMutable |-> FALSE], initializer |-> [type |-> "f64_const", n |-> g]]>>]
Finite   == Floating(<<Void, [params |-> <<"f64">>, ret |-> "none"]>>, Infinity32 - 1, 2^23 + Infinity64 + 1)
Infinite32And64 == Floating(<<Void, [params |-> <<"f64">>, ret |-> "none"]>>, 2^15 + Infinity32, Infinity64)
EqualTypes == Floating(<<Void, Void>>, 0, 2^23)

StartsImport == [emptyModule EXCEPT !.types = <<Void>>, !.functions.imports = <<Import(0, 5)>>, !.start = 0]
MCModules == MCFragile \cup {StartsImport, Finite, Infinite32And64, EqualTypes} \cup OneOperator \cup Literals
MCDamageBytes == 0..20 \cup {32, 35, 36} \cup 62..70 \cup {96, 112} \cup 123..132 \cup {192, 195, 208, 255}
MCUserSection == <<0, 3, 1, 99, 42>>
MCStreamBytes == {0, 1, 2, 3, 4, 63, 64, 124, 126, 127, 128, 129, 192, 255}

-----------------------------------------------------------------------------
(* Texts in the forms the printer does not use.                                            *)
L == T("(")
R == T(")")
N(c) == Name(<<c>>)
S(chars) == <<"string", chars>>
Char == [a |-> 97, f |-> 102, g |-> 103, l |-> 108, s |-> 115, t |-> 116, x |-> 120]

(* Labels that hide outer ones, and a reference to the outer one after the inner one has ended.   *)
Folded ==
    <<T("block"), N(Char.a), T("i32"),
        L, T("if"), N(Char.a), L, Op(Get(0)), Num(0), R,
            L, T("then"), L, Op(Indexed("br", 0)), N(Char.a), R, R,
            L, T("else"), L, Op(Indexed("br", 0)), Num(1), L, Op(Literal("i32", 0)), Num(65535), R, R, R, R,
        L, Op(Indexed("br_if", 0)), N(Char.a), L, Op(Indexed("get_global", 0)), N(Char.x), R, L, Op(Get(0)), Num(0), R, R,
        L, T("if"), T("i32"), L, Op(Get(0)), Num(0), R, L, Op(Literal("i32", 0)), Num(1), R, L, Op(Literal("i32", 0)), Num(2), R, R,
        Op(BranchTable(<<>>, 0)), Num(1), N(Char.a), T("end")>>
FoldedCode ==
    <<Structure("block", "i32"),
        Get(0), Structure("if", "none"), Indexed("br", 0), NoImm("else"), Literal("i32", -1), Indexed("br", 1), End,
        Indexed("get_global", 0), Get(0), Indexed("br_if", 0),
        Get(0), Structure("if", "i32"), Literal("i32", 1), NoImm("else"), Literal("i32", 2), End,
        BranchTable(<<1>>, 0), End, End>>

Inline ==
    <<L, T("module"),
        L, T("type"), N(Char.t), L, T("func"), L, T("param"), T("i32"), R, L, T("result"), T("i32"), R, R, R,
        L, T("func"), N(Char.f), L, T("import"), S(a), S(<<98>>), R, L, T("type"), N(Char.t), R, R,
        L, T("memory"), L, T("export"), S(<<109>>), R, L, T("data"), S(<<92, 48, 48, 92, 102, 102>>), S(<<92, 117, 123, 69, 57, 125, 92, 116>>), R, R,
        L, T("table"), T("anyfunc"), L, T("elem"), N(Char.g), Num(0), R, R,
        L, T("start"), N(Char.s), R,
        L, T("global"), N(Char.x), L, T("mut"), T("i32"), R, L, Op(Literal("i32", 0)), Num(7), R, R,
        L, T("func"), N(Char.s), L, T("export"), S(<<115>>), R, L, T("local"), N(Char.l), T("i64"), R,
            L, Op(Indexed("set_local", 0)), N(Char.l), L, Op(Load("load32_u", "i64", 0)), T("offset"), T("="), Num(3), T("align"), T("="), Num(2),
                L, Op(Literal("i32", 0)), Num(0), R, R, R, R,
        L, T("func"), N(Char.g), L, T("type"), Num(0), R, L, T("param"), N(Char.a), T("i32"), R, L, T("result"), T("i32"), R>>
    \o Folded \o
    <<R, R, T("eof")>>
InlineModule ==
    [emptyModule EXCEPT
        !.types = <<[params |-> <<"i32">>, ret |-> "i32"], Void>>,
        !.functions = [imports |-> <<[type |-> 0, moduleName |-> a, exportName |-> <<98>>]>>,
                       defs |-> <<Def(1, <<"i64">>, <<Literal("i32", 0), Hinted(Load("load32_u", "i64", 3), 1), Indexed("set_local", 0), End>>),
                                  Def(0, <<>>, FoldedCode)>>],
        !.tables.defs = <<[type |-> [elementType |-> "anyfunc", size |-> Size(2, 2)]]>>,
        !.memories.defs = <<[type |-> [size |-> Size(2, 2)]]>>,
        !.globals.defs = <<[type |-> [type |-> "i32", isMutable |-> TRUE], initializer |-> Init32(7)]>>,
        !.exports = <<[name |-> <<109>>, kind |-> "memory", index |-> 0], [name |-> <<115>>, kind |-> "function", index |-> 1]>>,
        !.start = 1,
        !.tableSegments = <<[index |-> 0, baseOffset |-> Init32(0), indices |-> <<2, 0>>]>>,
        !.dataSegments = <<[index |-> 0, baseOffset |-> Init32(0), data |-> <<0, 255, 195, 169, 9>>]>>]
(* Every form of a float: integers that are exact, that round (to an even significand, and twice   *)
(* for f32) and that are negative, inf with and without a sign, and a decimal fraction.             *)
FloatText ==
    <<L, T("module"), L, T("global"), T("f32"), L, Op(Literal("f32", 0)), <<"floatInf", 1>>, R, R,
                      L, T("global"), T("f64"), L, Op(Literal("f64", 0)), <<"floatInf", 0>>, R, R,
                      L, T("global"), T("f32"), L, Op(Literal("f32", 0)), Num(-3), R, R,
                      L, T("global"), T("f32"), L, Op(Literal("f32", 0)), Num(2049), R, R,
                      L, T("global"), T("f64"), L, Op(Literal("f64", 0)), Num(524287), R, R,
                      L, T("global"), T("f32"), L, Op(Literal("f32", 0)), <<"decimalFloat", 14336>>, R, R, R, T("eof")>>
Global(type, n) == [type |-> [type |-> type, isMutable |-> FALSE],
                    initializer |-> [type |-> IF type = "f32" THEN "f32_const" ELSE "f64_const", n |-> n]]
FloatModule ==
    [emptyModule EXCEPT !.globals.defs =
        <<Global("f32", 2^15 + Infinity32), Global("f64", Infinity64), Global("f32", 2^15 + 16 * 2^10 + 2^9),
          Global("f32", 26 * 2^10), Global("f64", 50 * 2^17), Global("f32", 14336)>>]
MCTexts == {<<Inline, InlineModule>>, <<FloatText, FloatModule>>}
MCDamageTokens == {L, R, <<"floatInf", 0>>, <<"hexFloat", 14336>>, N(Char.a), Name(<<48>>), Num(0), Num(-1), Num(3), S(<<92, 57, 57>>), Op(Get(0)), Op(Indexed("call", 0)), Op(NoImm("nop"))}
                  \cup {T(type) : type \in {"i32", "i64", "anyfunc", "mut", "param", "result", "type", "block", "loop", "if", "then", "else", "end",
                                             "func", "import", "data", "elem"}}
=============================================================================
