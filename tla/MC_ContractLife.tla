--------------------------- MODULE MC_ContractLife ---------------------------
(* Contracts that differ from a plain one in one respect each, and the plain one's calls.   *)
EXTENDS ContractLife

MCPrices ==
    [CALL_BASE |-> 2, RECOVER_KEY |-> 5, SHA256_BASE |-> 3, SHA256_BYTE |-> 1, LOG_0 |-> 3,
     LOG_1 |-> 4, LOG_2 |-> 5, LOG_DATA |-> 1, MEMOP_BYTE |-> 1, TRANSFER |-> 6,
     DBSTORE_BASE |-> 4, DBSTORE_BYTE |-> 2, DBLOAD_BASE |-> 3, DBLOAD_BYTE |-> 2,
     DB_HAS |-> 3, DB_RMV |-> 4]
MCAddresses ==
    [get_from |-> <<1, 2>>, get_to |-> <<2, 1>>, get_owner |-> <<2, 2>>, get_user |-> <<0, 2>>]
MCActionData == <<2, 1, 2>>

MCPointers == {0, 2, 5, 6, -1}
MCLengths == {-1, 0, 2, 4}
MCRefPointers == {0, 3, 4, -1}
MCAmounts == {0, 8, -1}

Op(op) == [op |-> op, o |-> 0]
LoadAt(o) == [op |-> "i32_load", o |-> o]
End == <<Op("end")>>
Function(type, locals, code) == [type |-> type, locals |-> locals, code |-> code \o End]
Types == <<[ret |-> "none", params |-> <<"i64", "i64", "i64">>],
           [ret |-> "none", params |-> <<"i64">>], [ret |-> "none", params |-> <<"i32">>]>>
Apply0 == <<[kind |-> "function", name |-> "apply", index |-> 0]>>

Plain ==
    [memories |-> <<1>>, tables |-> <<1>>, types |-> Types, imports |-> <<>>,
     dataSegments |-> <<[constant |-> TRUE, base |-> 1, size |-> 2]>>,
     globals |-> <<[mutable |-> TRUE, type |-> "i64"]>>, exports |-> Apply0,
     functions |-> <<Function(1, <<>>, <<>>)>>]
WithApply(type) == [Plain EXCEPT !.functions = <<Function(type, <<>>, <<>>)>>]
Valid == WithApply(1)

FunctionImport(f) == [kind |-> "function", mod |-> f.mod, name |-> f.name, type |-> f.type]
Everything ==
    FoldSet(LAMBDA f, s : Append(s, FunctionImport(f)), <<>>,
            {f \in functionMap : f.mod = "env" \/ f.name = "use_gas"})

(* The contracts that run: apply takes the one argument, and everything is imported.        *)
Runner == [WithApply(2) EXCEPT !.imports = Everything,
                               !.exports = <<[Apply0[1] EXCEPT !.index = Len(Everything)]>>]
Runners == {Runner, [Runner EXCEPT !.memories = <<>>, !.dataSegments = <<>>]}

(* Module limits, at their edge and past it.                                                *)
Limits ==
    {[Valid EXCEPT !.memories = <<n>>] : n \in 1..3} \cup
    {[Valid EXCEPT !.dataSegments = <<[constant |-> c, base |-> b, size |-> n]>>] :
         c \in BOOLEAN, b \in {0, 5, 6}, n \in 0..2} \cup
    {[Valid EXCEPT !.tables = <<n>>] : n \in 2..3} \cup
    {[Valid EXCEPT !.globals = <<[mutable |-> m, type |-> "f64"], [mutable |-> TRUE, type |-> t]>>] :
         m \in BOOLEAN, t \in {"i32", "i64"}} \cup
    {[Valid EXCEPT !.functions = <<Function(1, ls, <<>>)>>] : ls \in {<<"i64">>, <<"i64", "f32">>}} \cup
    {[Valid EXCEPT !.functions = <<Function(1, <<>>, <<LoadAt(o)>>)>>] : o \in {11, 12}} \cup
    {[Valid EXCEPT !.exports = e] :
         e \in {<<>>, <<[kind |-> "memory", name |-> "apply", index |-> 0]>>}} \cup
    {WithApply(t) : t \in 1..3}

(* Imports of the registered names, of other types and from other modules.                  *)
SomeImports ==
    {FunctionImport(f) : f \in functionMap} \cup
    {[kind |-> "function", mod |-> "env", name |-> "memcpy", type |-> Types[3]],
     [kind |-> "function", mod |-> "wavmIntrinsics", name |-> "memcpy", type |-> Types[3]],
     [kind |-> "memory", mod |-> "env", name |-> "memory", type |-> Types[3]]}
Importing ==
    {[Valid EXCEPT !.imports = <<i>>,
                   !.exports = <<[Apply0[1] EXCEPT !.index = IF i.kind = "function" THEN 1 ELSE 0]>>] :
         i \in SomeImports}

(* Every operator that does not nest.                                                       *)
OneOperator ==
    {[Valid EXCEPT !.functions = <<Function(1, <<>>, <<Op(op)>>)>>] :
         op \in WASM_OP_SEQ \ Nests}

(* Well nested code, in one function and in two.                                            *)
Control == {"block", "if_", "else_", "end", "nop"}
RECURSIVE Nested(_, _)
Nested(code, stack) ==
    IF code = <<>> THEN stack = <<>>
    ELSE CASE code[1] \in {"block", "if_"} -> Nested(Tail(code), <<code[1]>> \o stack)
           [] code[1] = "nop"   -> Nested(Tail(code), stack)
           [] code[1] = "end"   -> stack # <<>> /\ Nested(Tail(code), Tail(stack))
           [] code[1] = "else_" -> stack # <<>> /\ Head(stack) = "if_"
                                   /\ Nested(Tail(code), <<"else_">> \o Tail(stack))
Codes(n) == {c \in UNION {[1..k -> Control \ {"nop"}] : k \in 0..n} : Nested(c, <<>>)}
OpsIn(c) == [k \in 1..Len(c) |-> Op(c[k])]
Nesting1 == {[Valid EXCEPT !.functions = <<Function(1, <<>>, OpsIn(c))>>] : c \in Codes(7)}
Nesting2 ==
    {[Valid EXCEPT !.functions = <<Function(1, <<>>, OpsIn(c)), Function(3, <<>>, OpsIn(d))>>] :
         c \in Codes(4), d \in Codes(4)}
(* Deeper than the limit, behind ifs whose else the depth counts.                           *)
Deep == {[Valid EXCEPT !.functions = <<Function(1, <<>>, OpsIn(c))>>] :
            c \in {[k \in 1..8 |-> IF k <= 4 THEN "block" ELSE "end"],
                   <<"block", "block", "block", "if_", "else_", "block", "end", "end", "end", "end", "end">>,
                   <<"block", "if_", "else_", "block", "block", "end", "end", "end", "end">>}}

MCModules == Runners \cup Limits \cup Importing \cup OneOperator \cup Nesting1 \cup Nesting2 \cup Deep
=============================================================================
