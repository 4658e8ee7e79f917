----------------------------- MODULE MC_CodeGen -----------------------------
(* One small module, for each kind of operator a family of bodies that uses it, and what the    *)
(* bodies and their translation compute.                                                       *)
EXTENDS CodeGen

-----------------------------------------------------------------------------
(* What the code and the IR compute, beside the translation itself.                        *)
CONSTANTS Table, ByteBits, MemorySize, Fuel
R == INSTANCE CodeRun WITH Signature <- Type, Locals <- body.locals

(* The IR computes what the body means: for the same arguments it returns the same value or   *)
(* traps for the same reason, after the same calls and with the same globals and memory, and   *)
(* never depends on an undefined LLVM value.                                                  *)
CompiledFaithfully ==
    phase = "emitted" /\ asserted =>
        \A args \in body.args :
            R!Observed(R!RunIR(e.blocks, args)) = R!Observed(R!RunCode(OwnCode, args))

-----------------------------------------------------------------------------
(* The module and the bodies *)

MCTypes     == <<[params |-> <<>>, ret |-> "none"], [params |-> <<"i32", "i64">>, ret |-> "i32"],
                 [params |-> <<"i32">>, ret |-> "i64"], [params |-> <<"i32", "i64">>, ret |-> "i32"]>>
MCFunctions == <<1, 0>>
MCGlobals   == <<[type |-> "i32", isMutable |-> TRUE], [type |-> "i64", isMutable |-> FALSE]>>
MCTable     == <<3, -1, 0>>

I32s == {0, 1, 2, 7, 8, 15}
I64s == {0, 1, 127, 128, 255}
Body(params, ret, locals, operators, length, args) ==
    [params |-> params, ret |-> ret, locals |-> locals, operators |-> operators, length |-> length, args |-> args]

Ends  == {NoImm("end")}
Get(i) == Indexed("get_local", i)

(* Blocks, ifs and branches with and without results.                                      *)
Structures == Ends \cup {NoImm("else"), Structure("block", "i32"), Structure("if", "i32"), Structure("if", "none"),
                         Structure("loop", "i32"), Get(0), Literal("i64", 3),
                         Indexed("br", 0), Indexed("br", 1), Indexed("br_if", 1), NoImm("return"), NoImm("unreachable")}
Switches   == Ends \cup {Structure("block", "i32"), Structure("loop", "none"), Get(0), Get(1), BranchTable(<<0, 1>>, 0),
                         BranchTable(<<1, 0, 1>>, 1), BranchTable(<<0, 0>>, 2), NoImm("drop")}
Loops      == Ends \cup {Structure("loop", "none"), Structure("block", "none"), Get(0), Unary("eqz", "i32", "i32"),
                         Indexed("tee_local", 0), Indexed("br_if", 0), Indexed("br", 1)}
Others     == Ends \cup {Get(0), Get(1), Indexed("tee_local", 0), Indexed("set_local", 2), Indexed("get_global", 0),
                         Indexed("set_global", 0), Indexed("set_global", 1), NoImm("select"), NoImm("drop"),
                         NoImm("unreachable"), NoImm("nop"), Indexed("call", 0), Indexed("call", 1),
                         Indexed("call_indirect", 1), Indexed("call_indirect", 2)}
Memory     == Ends \cup {Get(0), Get(1), NoImm("current_memory"), NoImm("grow_memory")}
                   \cup Loads(0) \cup Loads(9) \cup Stores(1)
Numeric    == Ends \cup {Get(0), Get(1)} \cup Comparisons \cup Divisions \cup Arithmetic \cup BitCounts
                   \cup IntConversions \cup FloatComparisons \cup FloatArithmetic \cup FloatConversions
Pairs(s, t) == {<<a, b>> : a \in s, b \in t}

ValueTypes == <<"i32", "i64", "f32", "f64">>
Width(t) == IF t \in {"i32", "f32"} THEN 4 ELSE 8

MCBodies ==
    <<Body(<<"i32">>, "i32", <<>>, Structures, 7, {<<0>>, <<1>>}),
     Body(<<"i32", "i32">>, "i32", <<>>, Switches, 8, Pairs({0, 1, 2, 7}, {5})),
     Body(<<"i32">>, "i32", <<>>, Loops, 8, {<<0>>, <<1>>}),
     Body(<<"i32", "i64">>, "i32", <<"i64">>, Others, 5, Pairs({0, 1, 2, 3}, {0, 9})),
     Body(<<"i32", "i64">>, "i64", <<>>, Memory, 5, Pairs(I32s, I64s)),
     Body(<<"i32", "i64">>, "none", <<>>, Memory, 4, Pairs(I32s, I64s))>>
        \o [k \in 1..16 |->
               LET t == ValueTypes[1 + (k - 1) \div 4]  r == ValueTypes[1 + ((k - 1) % 4)]
               IN  Body(<<t, t>>, r, <<>>, Numeric, 4, IF Width(t) = 4 THEN Pairs(I32s, I32s) ELSE Pairs(I64s, I64s))]
=============================================================================
