--------------------------- MODULE CodeValidation ---------------------------
(* The validator of function bodies: one operator per method that the decoder calls, on    *)
(* the context the method changes.  A method that throws a ValidationException has no       *)
(* result: each operator here returns the set of contexts its method can leave, empty when  *)
(* the method throws.                                                                       *)
(*                                                                                         *)
(* A context is [controlStack, stack]; a stack is a sequence of value types, "any" being    *)
(* the type of an operand that code after an unconditional branch takes from nowhere.       *)
EXTENDS Integers, Sequences, SequencesExt, Operators

CONSTANTS
    Types,        \* the function types of the module: [params, ret]
    Functions,    \* the type index of each function of the module, imports first
    Globals,      \* [type, isMutable] of each global
    HasTable, HasMemory,
    Signature,    \* the type of the function whose body is read
    Locals        \* the types of its locals that are not parameters

locals == Signature.params \o Locals

Top(v)      == Last(v.controlStack)
push(v, t)  == [v EXCEPT !.stack = IF t = "none" THEN @ ELSE Append(@, t)]

pushControlStack(v, type, branchArgumentType, resultType) ==
    [v EXCEPT !.controlStack = Append(@, [type |-> type, outerStackSize |-> Len(v.stack), isReachable |-> TRUE,
                                          branchArgumentType |-> branchArgumentType, resultType |-> resultType])]

FunctionContext ==
    pushControlStack([controlStack |-> <<>>, stack |-> <<>>], "function", Signature.ret, Signature.ret)

-----------------------------------------------------------------------------
(* Operands                                                                                *)

Height(v)  == Len(v.stack) - Top(v).outerStackSize
(* The type popOperand returns when `above` operands have been popped before.              *)
operand(v, above) == IF above < Height(v) THEN v.stack[Len(v.stack) - above] ELSE "any"
matches(expected, actual) == expected = actual \/ expected = "any" \/ actual = "any"

canPop(v, n)   == n <= Height(v) \/ ~Top(v).isReachable
popOperands(v, n) == [v EXCEPT !.stack = SubSeq(@, 1, Len(@) - (IF n < Height(v) THEN n ELSE Height(v)))]

(* popAndValidateOperands, the last type of the sequence being popped first.               *)
popAndValidate(v, expected) ==
    LET n == Len(expected) IN
    IF n = 0 THEN {v}
    ELSE IF /\ v.controlStack # <<>>
            /\ canPop(v, n)
            /\ \A k \in 0..n - 1 : matches(expected[n - k], operand(v, k))
         THEN {popOperands(v, n)} ELSE {}
result(t) == IF t = "none" THEN <<>> ELSE <<t>>

(* The operators that are listed with their operand types, and the calls.                  *)
operatorOn(v, params, ret) == {push(w, ret) : w \in popAndValidate(v, params)}

-----------------------------------------------------------------------------
(* Control structures                                                                      *)

validResult(t) == t \in {"none"} \cup IntTypes \cup FloatTypes
block(v, t) == IF validResult(t) THEN {pushControlStack(v, "block", t, t)} ELSE {}
loop(v, t)  == IF validResult(t) THEN {pushControlStack(v, "loop", "none", t)} ELSE {}
if_(v, t)   == IF validResult(t) THEN {pushControlStack(w, "ifThen", t, t) : w \in popAndValidate(v, <<"i32">>)} ELSE {}

popControlStack(v, isElse) ==
    LET top == Top(v) IN
    CASE Len(v.stack) > top.outerStackSize -> {}
      [] Len(v.stack) <= top.outerStackSize /\ isElse ->
             IF top.type = "ifThen"
             THEN {[v EXCEPT !.controlStack = Append(Front(@), [top EXCEPT !.type = "ifElse", !.isReachable = TRUE])]}
             ELSE {}
      [] Len(v.stack) <= top.outerStackSize /\ ~isElse ->
             IF top.type = "ifThen" /\ top.resultType # "none" THEN {}
             ELSE {push([v EXCEPT !.controlStack = Front(@)],
                        IF Len(v.controlStack) > 1 THEN top.resultType ELSE "none")}

closes(v, isElse) ==
    IF v.controlStack = <<>> THEN {}
    ELSE UNION {popControlStack(w, isElse) : w \in popAndValidate(v, result(Top(v).resultType))}
else_(v) == closes(v, TRUE)
end(v)   == closes(v, FALSE)

-----------------------------------------------------------------------------
(* Branches                                                                                *)

enterUnreachable(v) ==
    IF v.controlStack = <<>> THEN {}
    ELSE {[v EXCEPT !.stack = SubSeq(@, 1, Top(v).outerStackSize),
                    !.controlStack[Len(v.controlStack)].isReachable = FALSE]}

hasTarget(v, depth) == depth < Len(v.controlStack)
argumentOf(v, depth) == v.controlStack[Len(v.controlStack) - depth].branchArgumentType
leaves(v, expected) == UNION {enterUnreachable(w) : w \in popAndValidate(v, expected)}

return_(v)     == leaves(v, result(Signature.ret))
unreachable(v) == enterUnreachable(v)
br(v, depth)   == IF hasTarget(v, depth) THEN leaves(v, result(argumentOf(v, depth))) ELSE {}

(* Fault: the targets of the table are not compared with the default target.               *)
br_tableFault(v, depths, default) ==
    IF \A d \in Range(depths) \cup {default} : hasTarget(v, d)
    THEN leaves(v, Append(result(argumentOf(v, default)), "i32")) ELSE {}

br_table(v, depths, default) ==
    IF /\ \A d \in Range(depths) \cup {default} : hasTarget(v, d)
       /\ \A d \in Range(depths) : argumentOf(v, d) = argumentOf(v, default)
    THEN leaves(v, Append(result(argumentOf(v, default)), "i32")) ELSE {}

br_if(v, depth) ==
    IF hasTarget(v, depth)
    THEN operatorOn(v, Append(result(argumentOf(v, depth)), "i32"), argumentOf(v, depth)) ELSE {}

-----------------------------------------------------------------------------
(* Polymorphic operators, variables and calls                                              *)

drop(v) == popAndValidate(v, <<"any">>)

select(v) ==
    IF popAndValidate(v, <<"any", "any", "i32">>) # {} /\ matches(operand(v, 1), operand(v, 2))
    THEN operatorOn(v, <<"any", "any", "i32">>, operand(v, 1)) ELSE {}

get_local(v, i) == IF i < Len(locals) THEN {push(v, locals[i + 1])} ELSE {}
set_local(v, i) == IF i < Len(locals) THEN popAndValidate(v, <<locals[i + 1]>>) ELSE {}
tee_local(v, i) == IF i < Len(locals) THEN operatorOn(v, <<locals[i + 1]>>, locals[i + 1]) ELSE {}

get_global(v, i) == IF i < Len(Globals) THEN {push(v, Globals[i + 1].type)} ELSE {}
set_global(v, i) ==
    IF i < Len(Globals) /\ Globals[i + 1].isMutable THEN popAndValidate(v, <<Globals[i + 1].type>>) ELSE {}

call(v, f) ==
    IF f < Len(Functions)
    THEN LET type == Types[Functions[f + 1] + 1] IN operatorOn(v, type.params, type.ret) ELSE {}
call_indirect(v, t) ==
    IF t < Len(Types) /\ HasTable
    THEN operatorOn(v, Append(Types[t + 1].params, "i32"), Types[t + 1].ret) ELSE {}

(* Loads, stores and the memory size operators need a memory.                              *)
onMemory(v, params, ret) == IF HasMemory THEN operatorOn(v, params, ret) ELSE {}

aligned(i) == i.align <= naturalAlignmentLog2(i)

finish(v) == IF v.controlStack = <<>> THEN {v} ELSE {}

(* CodeValidationStream: the method of the operator.                                       *)
validated(v, i) ==
    CASE i.op = "block" -> block(v, i.type)     [] i.op = "loop" -> loop(v, i.type)
      [] i.op = "if" -> if_(v, i.type)          [] i.op = "else" -> else_(v)
      [] i.op = "end" -> end(v)                 [] i.op = "return" -> return_(v)
      [] i.op = "br" -> br(v, i.n)              [] i.op = "br_if" -> br_if(v, i.n)
      [] i.op = "br_table" -> br_table(v, i.to, i.n)
      [] i.op = "unreachable" -> unreachable(v)
      [] i.op = "drop" -> drop(v)               [] i.op = "select" -> select(v)
      [] i.op = "get_local" -> get_local(v, i.n)   [] i.op = "set_local" -> set_local(v, i.n)
      [] i.op = "tee_local" -> tee_local(v, i.n)
      [] i.op = "get_global" -> get_global(v, i.n) [] i.op = "set_global" -> set_global(v, i.n)
      [] i.op = "call" -> call(v, i.n)          [] i.op = "call_indirect" -> call_indirect(v, i.n)
      [] i.op \in {"load", "store"} -> IF aligned(i) THEN onMemory(v, OperandTypes(i), ResultTypeOf(i)) ELSE {}
      [] i.op \in {"current_memory", "grow_memory"} -> onMemory(v, OperandTypes(i), ResultTypeOf(i))
      [] i.op \in {"nop", "const", "unary", "binary"} -> operatorOn(v, OperandTypes(i), ResultTypeOf(i))
=============================================================================
