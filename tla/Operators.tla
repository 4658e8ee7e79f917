------------------------------ MODULE Operators ------------------------------
(* The operators of function bodies with the types they take and leave.  An operator is a   *)
(* record; n is its immediate (a depth, an index, a literal, an offset), to the depths of a  *)
(* br_table, of and type the types of its operands and of its result, align the alignment    *)
(* hint of a load or store.                                                                *)
EXTENDS Integers, Sequences

Operator(op, name, n, to, of, type) ==
    [op |-> op, name |-> name, n |-> n, to |-> to, of |-> of, type |-> type, align |-> 0]

ControlStructureImm == {"block", "loop", "if"}
Structure(op, type) == Operator(op, op, 0, <<>>, "none", type)
NoImm(op)           == Operator(op, op, 0, <<>>, "none", "none")
Indexed(op, n)      == Operator(op, op, n, <<>>, "none", "none")
BranchTable(to, n)  == Operator("br_table", "br_table", n, to, "none", "none")

Literal(type, n)      == Operator("const", "const", n, <<>>, "none", type)
Unary(name, of, type)  == Operator("unary", name, 0, <<>>, of, type)
Binary(name, of, type) == Operator("binary", name, 0, <<>>, of, type)
Load(name, type, offset)  == Operator("load", name, offset, <<>>, "i32", type)
Store(name, of, offset)   == Operator("store", name, offset, <<>>, of, "none")

(* LOAD(T), STORE(T), NULLARY(T), BINARY(T,U), UNARY(T,U): the operands, the last on top.   *)
OperandTypes(i) ==
    CASE i.op \in {"nop", "const", "current_memory"} -> <<>>
      [] i.op \in {"load", "grow_memory"}            -> <<"i32">>
      [] i.op = "store"                              -> <<"i32", i.of>>
      [] i.op = "unary"                              -> <<i.of>>
      [] i.op = "binary"                             -> <<i.of, i.of>>
ResultTypeOf(i) == IF i.op \in {"current_memory", "grow_memory"} THEN "i32" ELSE i.type

IntTypes   == {"i32", "i64"}
FloatTypes == {"f32", "f64"}

Comparisons == {Binary(c, t, "i32") : c \in {"eq", "ne", "lt_s", "lt_u", "gt_s", "gt_u", "le_s", "le_u", "ge_s", "ge_u"},
                                      t \in IntTypes}
Divisions  == {Binary(d, t, t) : d \in {"div_s", "div_u", "rem_s", "rem_u"}, t \in IntTypes}
Arithmetic == {Binary(a, t, t) : a \in {"add", "sub", "mul", "and", "or", "xor", "shl", "shr_s", "shr_u", "rotl", "rotr"},
                                 t \in IntTypes}
BitCounts  == {Unary(u, t, t) : u \in {"clz", "ctz", "popcnt"}, t \in IntTypes} \cup {Unary("eqz", t, "i32") : t \in IntTypes}
IntConversions == {Unary("wrap", "i64", "i32"), Unary("extend_s", "i32", "i64"), Unary("extend_u", "i32", "i64")}

FloatComparisons == {Binary(c, t, "i32") : c \in {"eq", "ne", "lt", "gt", "le", "ge"}, t \in FloatTypes}
FloatArithmetic  ==
    {Unary(u, t, t) : u \in {"abs", "neg", "ceil", "floor", "trunc", "nearest", "sqrt"}, t \in FloatTypes}
        \cup {Binary(b, t, t) : b \in {"add", "sub", "mul", "div", "min", "max", "copysign"}, t \in FloatTypes}
FloatConversions ==
    {Unary(u, f, t) : u \in {"trunc_s", "trunc_u"}, f \in FloatTypes, t \in IntTypes}
        \cup {Unary(u, t, f) : u \in {"convert_s", "convert_u"}, f \in FloatTypes, t \in IntTypes}
        \cup {Unary("demote", "f64", "f32"), Unary("promote", "f32", "f64"),
              Unary("reinterpret", "f32", "i32"), Unary("reinterpret", "f64", "i64"),
              Unary("reinterpret", "i32", "f32"), Unary("reinterpret", "i64", "f64")}

Loads(offset) ==
    {Load("load", t, offset) : t \in IntTypes \cup FloatTypes}
        \cup {Load(l, t, offset) : l \in {"load8_s", "load8_u", "load16_s", "load16_u"}, t \in IntTypes}
        \cup {Load(l, "i64", offset) : l \in {"load32_s", "load32_u"}}
Stores(offset) ==
    {Store("store", t, offset) : t \in IntTypes \cup FloatTypes}
        \cup {Store(s, t, offset) : s \in {"store8", "store16"}, t \in IntTypes}
        \cup {Store("store32", "i64", offset)}

(* How many bytes of memory a load or store moves.                                        *)
Bytes(i) ==
    CASE i.name \in {"load8_s", "load8_u", "store8"}    -> 1
      [] i.name \in {"load16_s", "load16_u", "store16"} -> 2
      [] i.name \in {"load32_s", "load32_u", "store32"} -> 4
      [] i.name = "load"  -> IF i.type \in {"i32", "f32"} THEN 4 ELSE 8
      [] i.name = "store" -> IF i.of \in {"i32", "f32"} THEN 4 ELSE 8
naturalAlignmentLog2(i) == CHOOSE k \in 0..3 : 2^k = Bytes(i)

-----------------------------------------------------------------------------
(* The opcodes, in the order of the numbers they are given.                                *)

Each(F(_), names) == [k \in 1..Len(names) |-> F(names[k])]
At(first, operators) == [k \in first..first + Len(operators) - 1 |-> operators[k - first + 1]]
With(f, g) == [k \in DOMAIN f \cup DOMAIN g |-> IF k \in DOMAIN f THEN f[k] ELSE g[k]]

IntNames   == <<"clz", "ctz", "popcnt">>
IntOrder   == <<"add", "sub", "mul", "div_s", "div_u", "rem_s", "rem_u", "and", "or", "xor", "shl", "shr_s", "shr_u", "rotl", "rotr">>
IntTests   == <<"eq", "ne", "lt_s", "lt_u", "gt_s", "gt_u", "le_s", "le_u", "ge_s", "ge_u">>
FloatTests == <<"eq", "ne", "lt", "gt", "le", "ge">>
FloatUnary == <<"abs", "neg", "ceil", "floor", "trunc", "nearest", "sqrt">>
FloatOrder == <<"add", "sub", "mul", "div", "min", "max", "copysign">>
AllTypes   == <<"i32", "i64", "f32", "f64">>

Tests(t) == <<Unary("eqz", t, "i32")>> \o Each(LAMBDA n : Binary(n, t, "i32"), IntTests)
IntOps(t)   == Each(LAMBDA n : Unary(n, t, t), IntNames) \o Each(LAMBDA n : Binary(n, t, t), IntOrder)
FloatOps(t) == Each(LAMBDA n : Unary(n, t, t), FloatUnary) \o Each(LAMBDA n : Binary(n, t, t), FloatOrder)
Truncs(t)   == <<Unary("trunc_s", "f32", t), Unary("trunc_u", "f32", t), Unary("trunc_s", "f64", t), Unary("trunc_u", "f64", t)>>
Converts(t) == <<Unary("convert_s", "i32", t), Unary("convert_u", "i32", t), Unary("convert_s", "i64", t), Unary("convert_u", "i64", t)>>

ControlOperators    == With(At(2, <<Structure("block", "none"), Structure("loop", "none"), Structure("if", "none"), NoImm("else")>>),
                            At(11, <<NoImm("end")>>))
ParametricOperators ==
    With(At(0, <<NoImm("unreachable")>>),
    With(At(12, <<Indexed("br", 0), Indexed("br_if", 0), BranchTable(<<>>, 0), NoImm("return"), Indexed("call", 0),
                  Indexed("call_indirect", 0)>>),
    With(At(26, <<NoImm("drop"), NoImm("select")>>),
         At(32, Each(LAMBDA n : Indexed(n, 0), <<"get_local", "set_local", "tee_local", "get_global", "set_global">>)))))
MemoryOperators ==
    With(At(63, <<NoImm("current_memory"), NoImm("grow_memory")>>),
         At(40, Each(LAMBDA t : Load("load", t, 0), AllTypes)
                \o Each(LAMBDA n : Load(n, "i32", 0), <<"load8_s", "load8_u", "load16_s", "load16_u">>)
                \o Each(LAMBDA n : Load(n, "i64", 0), <<"load8_s", "load8_u", "load16_s", "load16_u", "load32_s", "load32_u">>)
                \o Each(LAMBDA t : Store("store", t, 0), AllTypes)
                \o Each(LAMBDA n : Store(n, "i32", 0), <<"store8", "store16">>)
                \o Each(LAMBDA n : Store(n, "i64", 0), <<"store8", "store16", "store32">>)))
NumericOperators ==
    At(65, Each(LAMBDA t : Literal(t, 0), AllTypes) \o Tests("i32") \o Tests("i64")
           \o Each(LAMBDA n : Binary(n, "f32", "i32"), FloatTests) \o Each(LAMBDA n : Binary(n, "f64", "i32"), FloatTests)
           \o IntOps("i32") \o IntOps("i64") \o FloatOps("f32") \o FloatOps("f64"))
ConversionOperators ==
    At(167, <<Unary("wrap", "i64", "i32")>> \o Truncs("i32")
            \o <<Unary("extend_s", "i32", "i64"), Unary("extend_u", "i32", "i64")>> \o Truncs("i64")
            \o Converts("f32") \o <<Unary("demote", "f64", "f32")>> \o Converts("f64")
            \o <<Unary("promote", "f32", "f64"), Unary("reinterpret", "f32", "i32"), Unary("reinterpret", "f64", "i64"),
                 Unary("reinterpret", "i32", "f32"), Unary("reinterpret", "i64", "f64")>>)

(* Opcode: the operator of each number, without its immediates.                            *)
Opcodes == With(At(1, <<NoImm("nop")>>),
           With(ControlOperators, With(ParametricOperators, With(MemoryOperators, With(NumericOperators, ConversionOperators)))))
maxSingleByteOpcode == 207

WithoutImm(i) == [i EXCEPT !.n = 0, !.to = <<>>, !.align = 0,
                           !.type = IF i.op \in ControlStructureImm THEN "none" ELSE @]
NumberIn(operators, i) == CHOOSE k \in DOMAIN operators : operators[k] = i
Opcode(i)     == NumberIn(Opcodes, WithoutImm(i))
=============================================================================
