---------------------------- MODULE CodeEmission ----------------------------
(* The emitter of LLVM IR: one operator per method that the decoder calls, on the context   *)
(* the method changes.  The methods assert what the validator has checked; like those of     *)
(* CodeValidation they return the set of contexts they can leave, empty when an assertion    *)
(* fails (WAVM_ASSERT_THROW, errorUnless) or the stack is read outside its bounds.           *)
(*                                                                                         *)
(* The LLVM function is a sequence of basic blocks [phi, code, terms]: the type of the PHI   *)
(* node ("none" without one) and its incoming values, the instructions, and the terminators  *)
(* appended (LLVM wants exactly one).  A value is [kind, n, type], kind naming where it       *)
(* comes from: a constant, an argument of the function, an instruction, the PHI of a block.   *)
EXTENDS Integers, Sequences, FiniteSets, SequencesExt, Operators

CONSTANTS Types, Functions, Globals, Signature, Locals

locals == Signature.params \o Locals

Value(kind, n, type) == [kind |-> kind, n |-> n, type |-> type]
Constant(n, type)    == Value("const", n, type)
typedZero(type)      == Constant(0, type)

NewBlock(phiType) == [phi |-> phiType, in |-> <<>>, code |-> <<>>, terms |-> <<>>]
Block(e, k)       == Len(e.blocks) + k            \* the k-th block that is created next

(* BasicBlock::Create, with createPHI for the blocks that have a result.                   *)
create(e, phiTypes) == [e EXCEPT !.blocks = @ \o [k \in 1..Len(phiTypes) |-> NewBlock(phiTypes[k])],
                                 !.order  = @ \o [k \in 1..Len(phiTypes) |-> Block(e, k)]]
setInsertPoint(e, b) == [e EXCEPT !.insert = b]
(* BasicBlock::moveAfter the current block; the first block of a function is its entry.     *)
moveAfterInsert(e, b) ==
    LET where(s, c) == CHOOSE k \in 1..Len(s) : s[k] = c
        rest == RemoveAt(e.order, where(e.order, b))
    IN  [e EXCEPT !.order = InsertAt(rest, where(rest, e.insert) + 1, b)]
resumeAt(e, b) == setInsertPoint(moveAfterInsert(e, b), b)
terminate(e, op, args, to) ==
    [e EXCEPT !.blocks[e.insert].terms = Append(@, [op |-> op, args |-> args, to |-> to])]
addIncoming(e, b, value) == [e EXCEPT !.blocks[b].in = Append(@, [value |-> value, from |-> e.insert])]

(* An instruction in the current block; its value is the one numbered e.next.              *)
instr(e, op, args, type) ==
    [e EXCEPT !.blocks[e.insert].code = Append(@, [id |-> e.next, op |-> op, args |-> args, type |-> type]),
              !.next = @ + 1]
last(e, type) == Value("inst", e.next - 1, type)

Top(e)     == Last(e.controlStack)
base(e)    == IF e.controlStack = <<>> THEN 0 ELSE Top(e).outerStackSize
canPop(e, n)   == Len(e.stack) - base(e) >= n
popped(e, n)   == [e EXCEPT !.stack = SubSeq(@, 1, Len(@) - n)]
operands(e, n) == SubSeq(e.stack, Len(e.stack) - n + 1, Len(e.stack))
top(e)         == Last(e.stack)
push(e, value) == [e EXCEPT !.stack = Append(@, value)]

(* Pops n operands for an instruction and pushes its result, if it has one.                *)
through(e, n, op, type) ==
    LET f == instr(popped(e, n), op, operands(e, n), type)
    IN  IF type = "none" THEN f ELSE push(f, last(f, type))

(* A branch to a block that traps, and on to a new block.                                  *)
emitConditionalTrap(e, cause, args) ==
    LET trap == Block(e, 1)  skip == Block(e, 2)
        test == terminate(create(e, <<"none", "none">>), "trapif", <<cause>> \o args, <<trap, skip>>)
        body == terminate(setInsertPoint(test, trap), "trap", <<cause>>, <<>>)
    IN  setInsertPoint(body, skip)

-----------------------------------------------------------------------------
(* Control structures                                                                      *)

pushControlStack(e, type, resultType, endBlock, elseBlock) ==
    [e EXCEPT !.controlStack = Append(@,
        [type |-> type, resultType |-> resultType, endBlock |-> endBlock, elseBlock |-> elseBlock,
         outerStackSize |-> Len(e.stack), outerBranchTargetStackSize |-> Len(e.branchTargetStack),
         isReachable |-> TRUE])]
pushBranchTarget(e, argumentType, b) ==
    [e EXCEPT !.branchTargetStack = Append(@, [argumentType |-> argumentType, block |-> b])]
reachable(e) == e.controlStack = <<>> \/ Top(e).isReachable

block(e, t) ==
    LET endBlock == Block(e, 1)
        f == pushControlStack(create(e, <<t>>), "block", t, endBlock, 0)
    IN  IF reachable(e) THEN {pushBranchTarget(f, t, endBlock)} ELSE {}

loop(e, t) ==
    LET body == Block(e, 1)
        f    == setInsertPoint(terminate(create(e, <<"none", t>>), "br", <<>>, <<body>>), body)
    IN  IF reachable(e) THEN {pushBranchTarget(pushControlStack(f, "loop", t, Block(e, 2), 0), "none", body)} ELSE {}

if_(e, t) ==
    LET thenBlock == Block(e, 1)  elseBlock == Block(e, 2)  endBlock == Block(e, 3)
        test == terminate(popped(create(e, <<"none", "none", t>>), 1), "condbr", <<top(e)>>, <<thenBlock, elseBlock>>)
        f    == pushControlStack(setInsertPoint(test, thenBlock), "ifThen", t, endBlock, elseBlock)
    IN  IF canPop(e, 1) /\ reachable(e) THEN {pushBranchTarget(f, t, endBlock)} ELSE {}

(* The result of the current context goes to the PHI of its end, and control to that block. *)
toEnd(e) ==
    LET c == Top(e) IN
    CASE ~c.isReachable -> {e}
      [] c.isReachable /\ c.resultType = "none" -> {terminate(e, "br", <<>>, <<c.endBlock>>)}
      [] c.isReachable /\ c.resultType # "none" ->
             IF canPop(e, 1)
             THEN {terminate(addIncoming(popped(e, 1), c.endBlock, top(e)), "br", <<>>, <<c.endBlock>>)} ELSE {}

else_(e) ==
    LET c == Top(e)
        switch(f) == [resumeAt(f, c.elseBlock) EXCEPT
                         !.controlStack = Append(Front(@), [c EXCEPT !.type = "ifElse", !.isReachable = TRUE,
                                                                     !.elseBlock = 0])]
    IN  IF e.controlStack # <<>> /\ c.elseBlock # 0 /\ c.type = "ifThen"
        THEN {switch(f) : f \in {f \in toEnd(e) : Len(f.stack) = c.outerStackSize}} ELSE {}

(* The else block of an if that has no else clause.                                        *)
emptyElse(e, c) ==
    IF c.elseBlock = 0 THEN e ELSE terminate(resumeAt(e, c.elseBlock), "br", <<>>, <<c.endBlock>>)

end(e) ==
    LET c == Top(e)
        merged(f) == CASE c.resultType = "none" -> f
                       [] c.resultType # "none" /\ f.blocks[c.endBlock].in # <<>> ->
                              push(f, Value("phi", c.endBlock, c.resultType))
                       [] c.resultType # "none" /\ f.blocks[c.endBlock].in = <<>> ->
                              push([f EXCEPT !.blocks[c.endBlock].phi = "none"], typedZero(c.resultType))
        leave(f)  == [merged(resumeAt(emptyElse(f, c), c.endBlock)) EXCEPT
                         !.branchTargetStack = SubSeq(@, 1, c.outerBranchTargetStackSize),
                         !.controlStack = Front(@)]
    IN  IF e.controlStack # <<>> /\ c.outerBranchTargetStackSize <= Len(e.branchTargetStack)
        THEN {leave(f) : f \in {f \in toEnd(e) : Len(f.stack) = c.outerStackSize}} ELSE {}

-----------------------------------------------------------------------------
(* Branches                                                                                *)

hasTarget(e, depth) == depth < Len(e.branchTargetStack)
target(e, depth)    == e.branchTargetStack[Len(e.branchTargetStack) - depth]

enterUnreachable(e) ==
    IF Top(e).outerStackSize <= Len(e.stack)
    THEN {[e EXCEPT !.stack = SubSeq(@, 1, Top(e).outerStackSize),
                    !.controlStack[Len(e.controlStack)].isReachable = FALSE]} ELSE {}

br_if(e, depth) ==
    LET t == target(e, depth)  f == popped(e, 1)
        g == IF t.argumentType = "none" THEN f ELSE addIncoming(f, t.block, top(f))
    IN  IF canPop(e, 1) /\ hasTarget(e, depth) /\ (t.argumentType # "none" => f.stack # <<>>)
        THEN {setInsertPoint(terminate(create(g, <<"none">>), "condbr", <<top(e)>>, <<t.block, Block(e, 1)>>), Block(e, 1))}
        ELSE {}

(* To a block, with an argument unless the type is none.                                   *)
leaveTo(e, type, b) ==
    CASE type = "none" -> enterUnreachable(terminate(e, "br", <<>>, <<b>>))
      [] type # "none" -> IF canPop(e, 1)
                          THEN enterUnreachable(terminate(addIncoming(popped(e, 1), b, top(e)), "br", <<>>, <<b>>))
                          ELSE {}
br(e, depth) ==
    IF hasTarget(e, depth) THEN leaveTo(e, target(e, depth).argumentType, target(e, depth).block) ELSE {}
return_(e) == leaveTo(e, Signature.ret, e.controlStack[1].endBlock)

(* One incoming value for each edge of the switch.                                         *)
incomings(e, ds, argument) ==
    LET edgesTo(b) == {k \in 1..Len(ds) : target(e, ds[k]).block = b}
        new(b)     == [k \in 1..Cardinality(edgesTo(b)) |-> [value |-> argument, from |-> e.insert]]
    IN  [e EXCEPT !.blocks = [b \in 1..Len(e.blocks) |-> [e.blocks[b] EXCEPT !.in = @ \o new(b)]]]

br_table(e, depths, default) ==
    LET ds == Append(depths, default)
        argumentType == target(e, default).argumentType
        f  == popped(e, 1)
        g  == IF argumentType = "none" THEN f ELSE incomings(popped(f, 1), ds, top(f))
    IN  IF /\ canPop(e, 1) /\ (\A k \in 1..Len(ds) : hasTarget(e, ds[k]))
           /\ argumentType # "none" => canPop(f, 1)
        THEN enterUnreachable(terminate(g, "switch", <<top(e)>>, [k \in 1..Len(ds) |-> target(e, ds[k]).block])) ELSE {}

unreachable(e) == enterUnreachable(terminate(e, "trap", <<"unreachable">>, <<>>))

-----------------------------------------------------------------------------
(* Operators, variables and calls                                                          *)

drop(e) == IF e.stack # <<>> THEN {popped(e, 1)} ELSE {}
select(e) == IF canPop(e, 3) THEN {through(e, 3, NoImm("select"), e.stack[Len(e.stack) - 1].type)} ELSE {}

get_local(e, i) == IF i < Len(locals) THEN {through(e, 0, Indexed("get_local", i), locals[i + 1])} ELSE {}
set_local(e, i) == IF i < Len(locals) /\ canPop(e, 1) THEN {through(e, 1, Indexed("set_local", i), "none")} ELSE {}
tee_local(e, i) ==
    IF i < Len(locals) /\ e.stack # <<>> THEN {instr(e, Indexed("set_local", i), <<top(e)>>, "none")} ELSE {}
get_global(e, i) == IF i < Len(Globals) THEN {through(e, 0, Indexed("get_global", i), Globals[i + 1].type)} ELSE {}
set_global(e, i) == IF i < Len(Globals) /\ canPop(e, 1) THEN {through(e, 1, Indexed("set_global", i), "none")} ELSE {}

call(e, f) ==
    LET type == Types[Functions[f + 1] + 1]
    IN  IF f < Len(Functions) /\ canPop(e, Len(type.params))
        THEN {through(e, Len(type.params), Indexed("call", f), type.ret)} ELSE {}

call_indirect(e, t) ==
    LET type    == Types[t + 1]
        checked == emitConditionalTrap(emitConditionalTrap(popped(e, 1), "index", <<top(e)>>), "signature",
                                       <<top(e), t>>)
        n       == Len(type.params)
        f       == instr(popped(checked, n), Indexed("call_indirect", t), Append(operands(checked, n), top(e)), type.ret)
    IN  IF t < Len(Types) /\ canPop(e, n + 1) THEN {IF type.ret = "none" THEN f ELSE push(f, last(f, type.ret))} ELSE {}

(* Fault: a remainder whose quotient overflows is left to LLVM's srem.                     *)
remainderFault(e, i) == through(emitConditionalTrap(e, "zero", operands(e, 2)), 2, i, i.type)

(* rem_s branches around LLVM's srem where the quotient overflows.                         *)
remainder(e, i) ==
    LET f    == emitConditionalTrap(e, "zero", operands(e, 2))
        some == Block(f, 1)  done == Block(f, 2)
        test == terminate(create(f, <<"none", i.type>>), "overflowif", operands(e, 2), <<done, some>>)
        g    == instr(setInsertPoint(addIncoming(test, done, typedZero(i.type)), some), i, operands(e, 2), i.type)
        h    == terminate(addIncoming(g, done, last(g, i.type)), "br", <<>>, <<done>>)
    IN  push(popped(setInsertPoint(h, done), 2), Value("phi", done, i.type))

(* Divisions trap explicitly where LLVM's are undefined.                                   *)
division(e, i) ==
    CASE i.name = "div_s" -> through(emitConditionalTrap(e, "zeroOrOverflow", operands(e, 2)), 2, i, i.type)
      [] i.name \in {"div_u", "rem_u"} -> through(emitConditionalTrap(e, "zero", operands(e, 2)), 2, i, i.type)
      [] i.name = "rem_s" -> remainder(e, i)

operator(e, i) ==
    LET n == Len(OperandTypes(i)) IN
    CASE i.op = "const" -> {push(e, Constant(i.n, i.type))}
      [] i.op = "nop" -> {e}
      [] i.op \notin {"const", "nop"} ->
             IF ~canPop(e, n) THEN {}
             ELSE IF i \in Divisions THEN {division(e, i)} ELSE {through(e, n, i, ResultTypeOf(i))}

-----------------------------------------------------------------------------
(* The body: the return block and the root context, the entry block with the locals, then   *)
(* one operator after the other until the root context is popped.                           *)

EmitFunction ==
    LET initial(k) == IF k <= Len(Signature.params) THEN Value("arg", k, locals[k]) ELSE typedZero(locals[k])
        store(k)   == [id |-> k, op |-> Indexed("set_local", k - 1), args |-> <<initial(k)>>, type |-> "none"]
        entry      == [NewBlock("none") EXCEPT !.code = [k \in 1..Len(locals) |-> store(k)]]
        start      == [controlStack |-> <<>>, branchTargetStack |-> <<>>, stack |-> <<>>, depth |-> 0,
                       blocks |-> <<NewBlock(Signature.ret), entry>>, order |-> <<1, 2>>,
                       insert |-> 2, next |-> Len(locals) + 1]
    IN  pushBranchTarget(pushControlStack(start, "function", Signature.ret, 1, 0), Signature.ret, 1)

visit(e, i) ==
    CASE i.op = "block" -> block(e, i.type)     [] i.op = "loop" -> loop(e, i.type)
      [] i.op = "if" -> if_(e, i.type)          [] i.op = "else" -> else_(e)
      [] i.op = "end" -> end(e)                 [] i.op = "return" -> return_(e)
      [] i.op = "br" -> br(e, i.n)              [] i.op = "br_if" -> br_if(e, i.n)
      [] i.op = "br_table" -> br_table(e, i.to, i.n)
      [] i.op = "unreachable" -> unreachable(e)
      [] i.op = "drop" -> drop(e)               [] i.op = "select" -> select(e)
      [] i.op = "get_local" -> get_local(e, i.n)   [] i.op = "set_local" -> set_local(e, i.n)
      [] i.op = "tee_local" -> tee_local(e, i.n)
      [] i.op = "get_global" -> get_global(e, i.n) [] i.op = "set_global" -> set_global(e, i.n)
      [] i.op = "call" -> call(e, i.n)          [] i.op = "call_indirect" -> call_indirect(e, i.n)
      [] OTHER -> operator(e, i)

(* Operators after an unconditional branch are skipped, counting the structures they open.  *)
unreachableVisit(e, i) ==
    CASE i.op \in ControlStructureImm -> {[e EXCEPT !.depth = @ + 1]}
      [] i.op = "else" /\ e.depth = 0 -> else_(e)
      [] i.op = "end" -> IF e.depth = 0 THEN end(e) ELSE {[e EXCEPT !.depth = @ - 1]}
      [] OTHER -> {e}

(* The loop over the code ends with the root context, whatever follows it.                 *)
decodeOp(e, i) == CASE e.controlStack = <<>> -> {e}
                    [] e.controlStack # <<>> /\ Top(e).isReachable -> visit(e, i)
                    [] e.controlStack # <<>> /\ ~Top(e).isReachable -> unreachableVisit(e, i)

finish(e) ==
    IF e.insert # 1 THEN {}
    ELSE IF Signature.ret = "none" THEN {terminate(e, "ret", <<>>, <<>>)}
    ELSE IF canPop(e, 1) THEN {terminate(popped(e, 1), "ret", <<top(e)>>, <<>>)} ELSE {}
=============================================================================
