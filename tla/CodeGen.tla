------------------------------- MODULE CodeGen -------------------------------
(* A function body on its way to native code: each operator is checked by the validator     *)
(* while the module is read and given to the emitter when the module is instantiated.  The   *)
(* emitter only sees bodies that were validated to their end; it is run here together with    *)
(* the validator, which is the same because what follows an operator changes neither what     *)
(* the validator says of it nor what the emitter does with it, and every prefix that is       *)
(* valid so far can be completed (with unreachable, else and end).                            *)
EXTENDS Integers, Sequences, SequencesExt, FiniteSets, Operators

CONSTANTS
    Types, Functions, Globals, HasTable, HasMemory,   \* the module around the function
    MaxHeight, MaxTrailing,   \* bounds on the operand stack and on the operators after the last end
    Bodies        \* what is tried: a sequence of [params, ret, locals, operators, length, args]

VARIABLES
    family,       \* which of Bodies this behaviour is about
    code,         \* the operators so far
    v,            \* the validator's context
    e,            \* the emitter's context
    asserted,     \* no assertion of the emitter has failed
    phase         \* "reading" the body, or "emitted"

vars == <<family, code, v, e, asserted, phase>>

ValueType  == IntTypes \cup FloatTypes
ResultType == ValueType \cup {"none"}

(* What the decoder gives to its visitor: an opcode with its immediates.                   *)
Ops == {"block", "loop", "if", "else", "end", "return", "br", "br_if", "br_table", "unreachable", "drop", "select",
        "get_local", "set_local", "tee_local", "get_global", "set_global", "call", "call_indirect",
        "load", "store", "current_memory", "grow_memory", "nop", "const", "unary", "binary"}
IsOperator(i) ==
    /\ i \in [op : Ops, name : STRING, n : Nat, to : Seq(Nat), of : ResultType, type : ResultType, align : Nat]
    /\ i.op \in {"const", "unary", "binary", "load"} => i.type \in ValueType
    /\ i.op \in {"nop", "store"} => i.type = "none"
    /\ i.op \in {"unary", "binary", "store"} => i.of \in ValueType

(* The module's definitions were validated before its code is.                             *)
ASSUME ModuleAssumption ==
    /\ Types \in Seq([params : Seq(ValueType), ret : ResultType])
    /\ Functions \in Seq(0..Len(Types) - 1)
    /\ Globals \in Seq([type : ValueType, isMutable : BOOLEAN])

ASSUME BodiesAssumption ==
    \A k \in 1..Len(Bodies) :
        LET b == Bodies[k] IN
        /\ b.params \in Seq(ValueType) /\ b.ret \in ResultType /\ b.locals \in Seq(ValueType)
        /\ b.length \in Nat /\ \A i \in b.operators : IsOperator(i)

body == Bodies[family]
Type == [params |-> body.params, ret |-> body.ret]
V == INSTANCE CodeValidation WITH Signature <- Type, Locals <- body.locals
E == INSTANCE CodeEmission WITH Signature <- Type, Locals <- body.locals

Init ==
    /\ family \in 1..Len(Bodies)
    /\ code = <<>> /\ asserted = TRUE /\ phase = "reading"
    /\ v = V!FunctionContext
    /\ e = E!EmitFunction

(* The operators of the function itself: the emitter stops at its last end.                *)
Nesting(p) == 1 + Cardinality({k \in 1..p : code[k].op \in ControlStructureImm})
                - Cardinality({k \in 1..p : code[k].op = "end"})
OwnCode == LET ends == {p \in 1..Len(code) : Nesting(p) = 0}
           IN  SubSeq(code, 1, CHOOSE p \in ends : \A q \in ends : p <= q)

emit(results) == IF results = {} THEN asserted' = FALSE /\ e' = e ELSE asserted' = asserted /\ e' \in results

(* Bodies of bounded length that can still be closed within it.                            *)
InBounds ==
    /\ Len(code) + 1 + Len(v'.controlStack) <= body.length
    /\ Len(v'.stack) <= MaxHeight
    /\ v.controlStack = <<>> => Len(code) < Len(OwnCode) + MaxTrailing

(* The next operator of the body, if the validator accepts it.                             *)
Decode(i) ==
    /\ phase = "reading" /\ asserted
    /\ v' \in V!validated(v, i)
    /\ InBounds
    /\ emit(E!decodeOp(e, i))
    /\ code' = Append(code, i)
    /\ UNCHANGED <<family, phase>>

(* The end of the code: finish of the validator, then the end of the emitter's method.     *)
Finish ==
    /\ phase = "reading" /\ asserted
    /\ v' \in V!finish(v)
    /\ emit(E!finish(e))
    /\ phase' = "emitted"
    /\ UNCHANGED <<family, code>>

Next == (\E i \in body.operators : Decode(i)) \/ Finish
Spec == Init /\ [][Next]_vars

-----------------------------------------------------------------------------
Edges(p, b) == LET t == e.blocks[p].terms[1].to IN Cardinality({k \in 1..Len(t) : t[k] = b})
Incoming(p, b) == LET s == e.blocks[b].in IN Cardinality({k \in 1..Len(s) : s[k].from = p})

WellTyped(c) ==
    LET types == [k \in 1..Len(c.args) |-> c.args[k].type]
        params(n) == Types[n + 1].params
    IN  CASE c.op.op = "select" -> types[1] = types[2] /\ types[1] = c.type /\ types[3] = "i32"
          [] c.op.op = "set_local" -> types = <<E!locals[c.op.n + 1]>>
          [] c.op.op = "set_global" -> types = <<Globals[c.op.n + 1].type>>
          [] c.op.op \in {"get_local", "get_global"} -> types = <<>>
          [] c.op.op = "call" -> types = params(Functions[c.op.n + 1])
          [] c.op.op = "call_indirect" -> types = Append(params(c.op.n), "i32")
          [] OTHER -> types = OperandTypes(c.op)

(* What LLVM requires of a function: every basic block has one terminator, the PHI of a      *)
(* block has one value for every edge into it, operands have the types the instruction        *)
(* wants, and the first block is the entry.                                                  *)
WellFormedIR ==
    LET blocks == e.blocks IN
    /\ e.order[1] = 2
    /\ \A b \in 1..Len(blocks) : Len(blocks[b].terms) = 1
    /\ \A b \in 1..Len(blocks) :
          /\ \A k \in 1..Len(blocks[b].in) : blocks[b].in[k].value.type = blocks[b].phi
          /\ blocks[b].phi # "none" => \A p \in 1..Len(blocks) : Incoming(p, b) = Edges(p, b)
          /\ \A k \in 1..Len(blocks[b].code) : WellTyped(blocks[b].code[k])
          /\ LET t == blocks[b].terms[1] IN
             /\ t.op \in {"condbr", "switch"} => t.args[1].type = "i32"
             /\ t.op = "ret" => IF body.ret = "none" THEN t.args = <<>> ELSE t.args[1].type = body.ret

(* Code that passes validation never fails an assertion of the emitter, which takes the      *)
(* validator's word for every operand, branch and context, and the IR it leaves is one LLVM   *)
(* accepts.                                                                                  *)
ValidCodeEmits == asserted /\ (phase = "emitted" => WellFormedIR)

-----------------------------------------------------------------------------
(* The vocabulary of the proofs about CodeGen, and the inductive invariant InStep: the emitter's *)
(* stacks mirror the validator's, the blocks it still has to end are the ones its control stack *)
(* and its cursor name, and every branch into a block with a PHI brings it a value of its type. *)

(* The emitter's context.                                                  *)
Ctx(cs, bts, st, d, bs, ord, ins, nx) ==
    [controlStack |-> cs, branchTargetStack |-> bts, stack |-> st, depth |-> d,
     blocks |-> bs, order |-> ord, insert |-> ins, next |-> nx]

Fresh(phis)       == [k \in 1..Len(phis) |-> E!NewBlock(phis[k])]
Numbers(n, m)     == [k \in 1..m |-> n + k]
Ended(bs, p, t)   == [bs EXCEPT ![p].terms = Append(@, t)]
Given(bs, b, x)   == [bs EXCEPT ![b].in = Append(@, x)]
Coded(bs, p, c)   == [bs EXCEPT ![p].code = Append(@, c)]
Term(op, args, to) == [op |-> op, args |-> args, to |-> to]

-----------------------------------------------------------------------------
(* The control flow graph                                                  *)

Values       == [kind : {"const", "arg", "inst", "phi"}, n : Int, type : ValueType]
Incomings    == [value : Values, from : Nat]
OpRecords    == [op : Ops, name : STRING \cup Ops, n : Int, to : Seq(Nat), of : ResultType, type : ResultType, align : Nat]
Instructions == [id : Int, op : OpRecords, args : Seq(Values), type : ResultType]
Causes       == {"zero", "zeroOrOverflow", "index", "signature", "unreachable"}
TermOps      == {"br", "condbr", "switch", "trapif", "trap", "overflowif", "ret"}
TermArgs     == Values \cup Causes \cup Nat
Terms        == [op : TermOps, args : Seq(TermArgs), to : Seq(Nat)]
Blocks       == [phi : ResultType, in : Seq(Incomings), code : Seq(Instructions), terms : Seq(Terms)]

TypedTerm(t) ==
    /\ t.op \in {"condbr", "switch"} => t.args[1].type = "i32"
    /\ t.op = "ret" => IF body.ret = "none" THEN t.args = <<>> ELSE t.args[1].type = body.ret

From(s, p) == Cardinality({k \in 1..Len(s) : s[k].from = p})
To(s, b)   == Cardinality({k \in 1..Len(s) : s[k] = b})

Closed(bs) ==
    \A b \in 1..Len(bs) :
        /\ \A k \in 1..Len(bs[b].in) : bs[b].in[k].from \in 1..Len(bs)
        /\ bs[b].terms = <<>> \/ (Len(bs[b].terms) = 1 /\ \A k \in 1..Len(bs[b].terms[1].to) : bs[b].terms[1].to[k] \in 1..Len(bs))
TypedBlocks(bs) ==
    \A b \in 1..Len(bs) :
        /\ \A k \in 1..Len(bs[b].in) : bs[b].in[k].value.type = bs[b].phi
        /\ \A k \in 1..Len(bs[b].code) : WellTyped(bs[b].code[k])
        /\ bs[b].terms # <<>> => TypedTerm(bs[b].terms[1])
Matched(bs) ==
    \A b, p \in 1..Len(bs) :
        /\ bs[p].terms = <<>> => \A k \in 1..Len(bs[b].in) : bs[b].in[k].from # p
        /\ bs[p].terms # <<>> /\ bs[b].phi # "none" => From(bs[b].in, p) = To(bs[p].terms[1].to, b)
Graph(bs) == bs \in Seq(Blocks) /\ Closed(bs) /\ TypedBlocks(bs) /\ Matched(bs)

AllFrom(s, p)  == \A k \in 1..Len(s) : s[k].from = p
NoneFrom(s, p) == \A k \in 1..Len(s) : s[k].from # p

(* The terminator t is given to p, with as many incoming values as edges.  *)
Joins(bs, p, t, more, ds) ==
    /\ p \in 1..Len(bs) /\ bs[p].terms = <<>>
    /\ TypedTerm(t) /\ \A k \in 1..Len(t.to) : t.to[k] \in 1..Len(bs)
    /\ \A b \in 1..Len(bs) :
          /\ more[b] \in Seq(Incomings)
          /\ \A k \in 1..Len(more[b]) : more[b][k].from = p /\ more[b][k].value.type = bs[b].phi
          /\ bs[b].phi # "none" => Len(more[b]) = To(t.to, b)
    /\ ds \in Seq(Blocks) /\ Len(ds) = Len(bs)
    /\ \A b \in 1..Len(bs) :
          /\ ds[b].phi = bs[b].phi /\ ds[b].in = bs[b].in \o more[b] /\ ds[b].code = bs[b].code
          /\ ds[b].terms = IF b = p THEN <<t>> ELSE bs[b].terms

(* Edges to blocks without a PHI.                                          *)
Plain(bs, to) == \A k \in 1..Len(to) : to[k] \in 1..Len(bs) /\ bs[to[k]].phi = "none"
(* One edge to a, and others to blocks without a PHI.                      *)
Sole(bs, to, a) ==
    \E j \in 1..Len(to) : /\ to[j] = a
                          /\ \A k \in 1..Len(to) : k # j => to[k] # a /\ to[k] \in 1..Len(bs) /\ bs[to[k]].phi = "none"

(* x comes in once for every edge of a table.                              *)
Repeated(to, x, b) == [k \in 1..To(to, b) |-> x]
Tabled(bs, to, x)  == [b \in 1..Len(bs) |-> [bs[b] EXCEPT !.in = @ \o Repeated(to, x, b)]]

(* The current block ends and nothing else does.                           *)
Leaves(bs, ins, ds) ==
    /\ Graph(ds) /\ Len(ds) = Len(bs)
    /\ \A b \in 1..Len(bs) : ds[b].phi = bs[b].phi /\ (b # ins => ds[b].terms = bs[b].terms)
    /\ ds[ins].terms # <<>>

(* All the edges go to PHIs of the same type.                              *)
Even(bs, to, type) == \A k \in 1..Len(to) : to[k] \in 1..Len(bs) /\ bs[to[k]].phi = type

-----------------------------------------------------------------------------
(* The order of the blocks                                                 *)

InOrder(ord, n) == ord \in Seq(Nat) /\ \A b \in 1..n : \E k \in 1..Len(ord) : ord[k] = b
(* The return block, then the entry.                                       *)
Headed(ord) == Len(ord) >= 2 /\ ord[1] = 1 /\ ord[2] = 2 /\ \A k \in 2..Len(ord) : ord[k] # 1

Where(s, c) == CHOOSE k \in 1..Len(s) : s[k] = c
Moved(ord, b, a) == LET rest == RemoveAt(ord, Where(ord, b)) IN InsertAt(rest, Where(rest, a) + 1, b)

(* m is ord after moveAfter: i is where b was, j where a is without it.    *)
MovedAs(ord, b, a, m, i, j, rest) ==
    /\ i \in 1..Len(ord) /\ ord[i] = b
    /\ j \in 1..(Len(ord) - 1) /\ rest[j] = a /\ Len(rest) = Len(ord) - 1
    /\ \A k \in 1..(Len(ord) - 1) : rest[k] = IF k < i THEN ord[k] ELSE ord[k + 1]
    /\ m \in Seq(Nat) /\ Len(m) = Len(ord)
    /\ \A k \in 1..j : m[k] = rest[k]
    /\ m[j + 1] = b
    /\ \A k \in (j + 1)..(Len(ord) - 1) : m[k + 1] = rest[k]

-----------------------------------------------------------------------------
(* The emitter between two operators                                       *)

Contexts == [type : {"function", "block", "loop", "ifThen", "ifElse"}, resultType : ResultType, endBlock : Nat, elseBlock : Nat, outerStackSize : Nat,
             outerBranchTargetStackSize : Nat, isReachable : BOOLEAN]
Targets  == [argumentType : ResultType, block : Nat]

(* The end of every context and the else clause of an if are not begun.    *)
Ports(cs, bs) ==
    \A j \in 1..Len(cs) :
        /\ cs[j].endBlock \in 1..Len(bs) /\ bs[cs[j].endBlock].terms = <<>> /\ bs[cs[j].endBlock].phi = cs[j].resultType
        /\ IF j = 1 THEN cs[j].endBlock = 1 ELSE cs[j].endBlock > 2
        /\ IF cs[j].type = "ifThen"
           THEN /\ cs[j].elseBlock \in 3..Len(bs) /\ bs[cs[j].elseBlock].terms = <<>> /\ bs[cs[j].elseBlock].phi = "none"
           ELSE cs[j].elseBlock = 0
Distinct(cs, bts) ==
    \A j, l \in 1..Len(cs) :
        /\ cs[j].elseBlock # cs[l].endBlock
        /\ j < l => /\ cs[j].endBlock # cs[l].endBlock
                    /\ bts[j].block # cs[l].endBlock
                    /\ cs[j].elseBlock # 0 => cs[j].elseBlock # cs[l].elseBlock
Aimed(cs, bts, bs) ==
    /\ Len(bts) = Len(cs)
    /\ \A j \in 1..Len(cs) : bts[j].block \in 1..Len(bs) /\ bs[bts[j].block].phi = bts[j].argumentType
(* The block instructions go to; it has ended when the context is          *)
(* unreachable.                                                            *)
Cursor(cs, bs, ins) ==
    /\ ins \in 2..Len(bs)
    /\ \A j \in 1..Len(cs) : ins # cs[j].endBlock /\ ins # cs[j].elseBlock
    /\ cs[Len(cs)].isReachable <=> bs[ins].terms = <<>>
(* Every other block has ended.                                            *)
Waited(cs, bs, ins) ==
    \A b \in 1..Len(bs) : bs[b].terms = <<>> => b = ins \/ \E j \in 1..Len(cs) : b = cs[j].endBlock \/ b = cs[j].elseBlock
Heights(cs, st) ==
    /\ \A j \in 1..Len(cs) : /\ cs[j].outerStackSize <= Len(st)
                             /\ cs[j].outerBranchTargetStackSize = j - 1
                             /\ j < Len(cs) => cs[j].isReachable
    /\ \A j, l \in 1..Len(cs) : j < l => cs[j].outerStackSize <= cs[l].outerStackSize

Emitting(cs, bts, st, bs, ord, ins) ==
    /\ cs \in Seq(Contexts) /\ cs # <<>> /\ bts \in Seq(Targets) /\ st \in Seq(Values)
    /\ cs[1].resultType = body.ret
    /\ Graph(bs) /\ InOrder(ord, Len(bs)) /\ Headed(ord)
    /\ Ports(cs, bs) /\ Distinct(cs, bts) /\ Aimed(cs, bts, bs) /\ Cursor(cs, bs, ins) /\ Waited(cs, bs, ins)
    /\ Heights(cs, st)

(* Instructions are added, and blocks that end, but for the one where      *)
(* instructions go next.                                                   *)
Grows(bs, ins, ds, to) ==
    /\ Graph(ds) /\ Len(bs) <= Len(ds)
    /\ \A b \in 1..Len(bs) : ds[b].phi = bs[b].phi /\ (b # ins => ds[b].terms = bs[b].terms)
    /\ to \in 1..Len(ds) /\ ds[to].terms = <<>> /\ (to = ins \/ to > Len(bs))
    /\ \A b \in 1..Len(ds) : (b = ins \/ b > Len(bs)) /\ b # to => ds[b].terms # <<>>

-----------------------------------------------------------------------------
(* The methods of the emitter                                              *)

(* The emitter is at a point of well-formed IR, with these stacks.         *)
Holds(c, cs, bts, st, d) ==
    \E bs, ord, ins, nx : /\ c = Ctx(cs, bts, st, d, bs, ord, ins, nx)
                          /\ Emitting(cs, bts, st, bs, ord, ins) /\ nx \in Nat
Open(c, cs, bts, st, d) == Holds(c, cs, bts, st, d) /\ cs[Len(cs)].isReachable

(* Blocks are created.                                                     *)
Created(bs, phis, ds) ==
    /\ Graph(ds) /\ Len(bs) \in Nat /\ Len(phis) \in Nat /\ Len(ds) = Len(bs) + Len(phis)
    /\ \A b \in 1..Len(bs) : ds[b].phi = bs[b].phi /\ ds[b].terms = bs[b].terms
    /\ \A k \in 1..Len(phis) : ds[Len(bs) + k].phi = phis[k] /\ ds[Len(bs) + k].terms = <<>>

(* n operands give way to the result of an instruction.                    *)
Replaces(z, cs, bts, st, d, n, type) ==
    IF type = "none" THEN Open(z, cs, bts, SubSeq(st, 1, Len(st) - n), d)
    ELSE \E value \in Values : /\ value.type = type
                               /\ Open(z, cs, bts, Append(SubSeq(st, 1, Len(st) - n), value), d)

(* The graph of a remainder: a test, the division, and a block that joins. *)
RemGraph(bs, ins, type, args, zero, x, quotient) ==
    LET n  == Len(bs)
        d3 == Given(Ended(bs \o Fresh(<<"none", type>>), ins, Term("overflowif", args, <<n + 2, n + 1>>)),
                    n + 2, [value |-> zero, from |-> ins])
        d4 == Coded(d3, n + 1, x)
    IN  Ended(Given(d4, n + 2, [value |-> quotient, from |-> n + 1]), n + 1, Term("br", <<>>, <<n + 2>>))

(* Whatever number an instruction is given.                                *)
Fits(op, args, type) == \A k : WellTyped([id |-> k, op |-> op, args |-> args, type |-> type])

(* The values on top of the stack have these types.                        *)
Typed(st, types) ==
    /\ types \in Seq(ValueType) /\ Len(types) <= Len(st)
    /\ \A k \in 1..Len(types) : st[Len(st) - Len(types) + k].type = types[k]

ListedOps == {"load", "store", "current_memory", "grow_memory", "nop", "const", "unary", "binary"}

-----------------------------------------------------------------------------
(* The validator next to the emitter                                       *)

VCtx(vcs, vst) == [controlStack |-> vcs, stack |-> vst]
OperandType == ValueType \cup {"any"}
VContexts == [type : {"function", "block", "loop", "ifThen", "ifElse"}, outerStackSize : Nat, isReachable : BOOLEAN,
              branchArgumentType : ResultType, resultType : ResultType]

(* The same context, for the validator and for the emitter.                *)
Same(a, c, t) ==
    /\ a.type = c.type /\ a.resultType = c.resultType /\ a.outerStackSize = c.outerStackSize
    /\ a.isReachable = c.isReachable /\ a.branchArgumentType = t.argumentType
(* Contexts begin on top of each other.                                    *)
Rising(vcs, vst) ==
    /\ \A j \in 1..Len(vcs) : vcs[j].outerStackSize <= Len(vst)
    /\ \A j, l \in 1..Len(vcs) : j < l => vcs[j].outerStackSize <= vcs[l].outerStackSize
(* The emitter's values have the types of the validator's operands.        *)
Matching(vst, st) == Len(st) <= Len(vst) /\ \A k \in 1..Len(st) : vst[k] = st[k].type

Agree(vcs, vst, cs, bts, st, d) ==
    /\ vcs \in Seq(VContexts) /\ vst \in Seq(OperandType) /\ d \in Nat
    /\ Len(vcs) = Len(cs) + d /\ (d > 0 => ~cs[Len(cs)].isReachable)
    /\ \A j \in 1..Len(cs) : Same(vcs[j], cs[j], bts[j])
    /\ Rising(vcs, vst)
    /\ Matching(vst, st)
    /\ IF cs[Len(cs)].isReachable THEN Len(vst) = Len(st) ELSE Len(st) = cs[Len(cs)].outerStackSize

Live(x, c) ==
    /\ Holds(c, c.controlStack, c.branchTargetStack, c.stack, c.depth)
    /\ x = VCtx(x.controlStack, x.stack)
    /\ Agree(x.controlStack, x.stack, c.controlStack, c.branchTargetStack, c.stack, c.depth)

(* What popAndValidateOperands leaves.                                     *)
Pops(vcs, vst, expected, m) ==
    LET c == vcs[Len(vcs)] IN
    /\ m \in c.outerStackSize..Len(vst)
    /\ c.isReachable => /\ m = Len(vst) - Len(expected)
                        /\ \A k \in 1..Len(expected) : V!matches(expected[k], vst[m + k])

-----------------------------------------------------------------------------
(* Reachable operators that leave the control stack alone                  *)

(* The function is complete but for its return.                            *)
Returning(c) ==
    /\ \E bts, d, nx : c = Ctx(<<>>, bts, c.stack, d, c.blocks, c.order, 1, nx)
    /\ Graph(c.blocks) /\ Len(c.blocks) >= 2 /\ c.order[1] = 2 /\ c.stack \in Seq(Values)
    /\ \A b \in 1..Len(c.blocks) : c.blocks[b].terms = <<>> <=> b = 1
    /\ body.ret # "none" => c.stack # <<>> /\ c.stack[Len(c.stack)].type = body.ret

(* The method passes its assertions and leaves the emitter in step.        *)
Follows(w, results) == \E z : results = {z} /\ (Live(w, z) \/ Returning(z))

(* What is left to show of an operator with fixed operand types.           *)
Emits(results, cs, bts, st, d, params, ret) ==
    Typed(st, params) /\ cs[Len(cs)].outerStackSize <= Len(st) - Len(params)
        => \E z : results = {z} /\ Replaces(z, cs, bts, st, d, Len(params), ret)

(* The operands that an operator with an index takes.                      *)
Takes(op, n, types) ==
    CASE op = "set_local" -> types = <<E!locals[n + 1]>>
      [] op = "set_global" -> types = <<Globals[n + 1].type>>
      [] op \in {"get_local", "get_global"} -> types = <<>>
      [] op = "call" -> types = Types[Functions[n + 1] + 1].params
      [] op = "call_indirect" -> types = Append(Types[n + 1].params, "i32")
      [] OTHER -> FALSE

IndexedOps == {"get_local", "set_local", "get_global", "set_global", "call"}

-----------------------------------------------------------------------------
(* Control structures that begin                                           *)

(* A context is entered whose end, and else clause, are blocks created     *)
(* for it; instructions go on in a block that has not ended.               *)
Enters(bs, ins, ds, to, ctx, tgt, stack, depth) ==
    /\ Graph(ds) /\ Len(bs) <= Len(ds)
    /\ \A b \in 1..Len(bs) : ds[b].phi = bs[b].phi /\ (b # ins => ds[b].terms = bs[b].terms)
    /\ ctx \in Contexts /\ ctx.isReachable /\ ctx.outerStackSize = Len(stack) /\ ctx.outerBranchTargetStackSize = depth
    /\ ctx.endBlock \in (Len(bs) + 1)..Len(ds) /\ ds[ctx.endBlock].terms = <<>> /\ ds[ctx.endBlock].phi = ctx.resultType
    /\ IF ctx.type = "ifThen"
       THEN /\ ctx.elseBlock \in (Len(bs) + 1)..Len(ds) /\ ds[ctx.elseBlock].terms = <<>> /\ ds[ctx.elseBlock].phi = "none"
            /\ ctx.elseBlock # ctx.endBlock
       ELSE ctx.elseBlock = 0
    /\ tgt \in Targets /\ tgt.block \in 1..Len(ds) /\ ds[tgt.block].phi = tgt.argumentType
    /\ to \in 1..Len(ds) /\ ds[to].terms = <<>> /\ (to = ins \/ to > Len(bs)) /\ to # ctx.endBlock /\ to # ctx.elseBlock
    /\ \A b \in 1..Len(ds) : (b = ins \/ b > Len(bs)) /\ b # to /\ b # ctx.endBlock /\ b # ctx.elseBlock => ds[b].terms # <<>>

Context(type, t, endBlock, elseBlock, st, bts) ==
    [type |-> type, resultType |-> t, endBlock |-> endBlock, elseBlock |-> elseBlock,
     outerStackSize |-> Len(st), outerBranchTargetStackSize |-> Len(bts), isReachable |-> TRUE]
VContext(type, argument, t, vst) ==
    [type |-> type, outerStackSize |-> Len(vst), isReachable |-> TRUE, branchArgumentType |-> argument, resultType |-> t]
Target(argument, b) == [argumentType |-> argument, block |-> b]
BeginTypes == {"block", "loop", "ifThen"}

(* The blocks of a context that begins.                                    *)
Begins(bs, ins, ds, to, type, t, endBlock, elseBlock, argument, b) ==
    /\ type \in BeginTypes /\ t \in ResultType /\ argument \in ResultType
    /\ endBlock \in Nat /\ elseBlock \in Nat /\ b \in Nat
    /\ Graph(ds) /\ Len(bs) <= Len(ds)
    /\ \A a \in 1..Len(bs) : ds[a].phi = bs[a].phi /\ (a # ins => ds[a].terms = bs[a].terms)
    /\ endBlock \in (Len(bs) + 1)..Len(ds) /\ ds[endBlock].terms = <<>> /\ ds[endBlock].phi = t
    /\ IF type = "ifThen"
       THEN /\ elseBlock \in (Len(bs) + 1)..Len(ds) /\ ds[elseBlock].terms = <<>> /\ ds[elseBlock].phi = "none"
            /\ elseBlock # endBlock
       ELSE elseBlock = 0
    /\ b \in 1..Len(ds) /\ ds[b].phi = argument
    /\ to \in 1..Len(ds) /\ ds[to].terms = <<>> /\ (to = ins \/ to > Len(bs)) /\ to # endBlock /\ to # elseBlock
    /\ \A a \in 1..Len(ds) : (a = ins \/ a > Len(bs)) /\ a # to /\ a # endBlock /\ a # elseBlock => ds[a].terms # <<>>

(* Operands that the validator pops are there to be popped.                *)
PopsBoth(u, vcs, c, cs, bts, st, d, n) ==
    /\ n \in Nat /\ cs[Len(cs)].outerStackSize <= Len(st) - n
    /\ Open(E!popped(c, n), cs, bts, SubSeq(st, 1, Len(st) - n), d)
    /\ \E vlow : u = VCtx(vcs, vlow) /\ Agree(vcs, vlow, cs, bts, SubSeq(st, 1, Len(st) - n), d)

-----------------------------------------------------------------------------
(* Code that leaves its context                                            *)

(* The context on top becomes unreachable.                                 *)
Marked(cs) == [cs EXCEPT ![Len(cs)].isReachable = FALSE]

(* The current block has ended, and its context is about to be left.       *)
Closing(f, cs, bts, st, d) ==
    \E bs, ord, ins, nx : /\ f = Ctx(cs, bts, st, d, bs, ord, ins, nx)
                          /\ Emitting(Marked(cs), bts, st, bs, ord, ins) /\ nx \in Nat

(* The stack once a value of the type has been taken from it.              *)
Passed(st, type) == IF type = "none" THEN st ELSE SubSeq(st, 1, Len(st) - 1)
Passes(cs, st, type) == type # "none" => cs[Len(cs)].outerStackSize <= Len(st) - 1 /\ st[Len(st)].type = type

(* A branch that an operator or the end of a context makes.                *)
Branch(c, type, b) ==
    E!terminate(IF type = "none" THEN c ELSE E!addIncoming(E!popped(c, 1), b, E!top(c)), "br", <<>>, <<b>>)

(* The target of a branch: the same context for the validator and for the  *)
(* emitter, and a block whose PHI takes the argument.                      *)
Aims(vcs, vst, c, n) ==
    LET t == E!target(c, n) IN
    /\ E!hasTarget(c, n) /\ t.argumentType = V!argumentOf(VCtx(vcs, vst), n) /\ t.argumentType \in ResultType
    /\ t.block \in 1..Len(c.blocks) /\ t.block \in Nat /\ c.blocks[t.block].phi = t.argumentType

(* The graph of br_if: an edge to the target, with its argument, and one   *)
(* to a new block.                                                         *)
GivenIf(bs, b, x, ins) == IF bs[b].phi = "none" THEN bs ELSE Given(bs, b, [value |-> x, from |-> ins])

(* The graph of br_table: an edge for every depth, and as many arguments.  *)
TabledIf(bs, to, type, x, ins) == IF type = "none" THEN bs ELSE Tabled(bs, to, [value |-> x, from |-> ins])

(* What br_table takes from the stack: the argument, and the index on top. *)
Indexes(cs, st, type) ==
    /\ cs[Len(cs)].outerStackSize <= Len(st) - 1 /\ st[Len(st)].type = "i32"
    /\ Passes(cs, SubSeq(st, 1, Len(st) - 1), type)

-----------------------------------------------------------------------------
(* The end of a context                                                    *)

(* What the validator leaves of a context at its else or its end.          *)
Turned(vcs) ==
    Append(SubSeq(vcs, 1, Len(vcs) - 1), [vcs[Len(vcs)] EXCEPT !.type = "ifElse", !.isReachable = TRUE])
VEnded(vcs, vlow) ==
    VCtx(SubSeq(vcs, 1, Len(vcs) - 1),
         IF Len(vcs) > 1 /\ vcs[Len(vcs)].resultType # "none" THEN Append(vlow, vcs[Len(vcs)].resultType) ELSE vlow)
VClosing(w, vcs, u, isElse) ==
    LET top == vcs[Len(vcs)] IN
    \E vlow : /\ u = VCtx(vcs, vlow) /\ ~(Len(vlow) > top.outerStackSize)
              /\ IF isElse THEN top.type = "ifThen" /\ w = VCtx(Turned(vcs), vlow)
                           ELSE (top.type = "ifThen" => top.resultType = "none") /\ w = VEnded(vcs, vlow)

(* What is below the context for both, once its result has been taken.     *)
Meets(u, vcs, vlow, low, h) ==
    /\ u = VCtx(vcs, vlow) /\ vlow \in Seq(OperandType) /\ low \in Seq(Values) /\ h \in Nat
    /\ Len(vlow) = h /\ Len(low) = h /\ \A k \in 1..h : vlow[k] = low[k].type

(* The context on top turns from its then clause to its else clause.       *)
Switched(ms, xs) ==
    LET k == Len(ms) IN
    /\ xs \in Seq(Contexts) /\ Len(xs) = k /\ xs # <<>>
    /\ \A j \in 1..k : j < k => xs[j] = ms[j]
    /\ xs[k].resultType = ms[k].resultType /\ xs[k].endBlock = ms[k].endBlock
    /\ xs[k].outerStackSize = ms[k].outerStackSize
    /\ xs[k].outerBranchTargetStackSize = ms[k].outerBranchTargetStackSize
    /\ xs[k].type = "ifElse" /\ xs[k].elseBlock = 0 /\ xs[k].isReachable

(* The emitter's contexts after else.                                      *)
ETurned(cs) ==
    Append(SubSeq(cs, 1, Len(cs) - 1), [cs[Len(cs)] EXCEPT !.type = "ifElse", !.isReachable = TRUE, !.elseBlock = 0])

(* A stack without its last context.                                       *)
Shortened(s, r) == Len(r) = Len(s) - 1 /\ \A j \in 1..(Len(s) - 1) : r[j] = s[j]
(* The blocks when the end of a context begins: its PHI may have gone.     *)
Resumes(bs, b, ds) ==
    /\ Graph(ds) /\ Len(ds) = Len(bs)
    /\ \A a \in 1..Len(bs) : ds[a].terms = bs[a].terms /\ (a # b => ds[a].phi = bs[a].phi)

(* The context at its end, with nothing left of it but that end.           *)
Spent(ms, cs) ==
    LET k == Len(cs) IN
    /\ Len(ms) = k /\ ~ms[k].isReachable /\ ms[k].elseBlock = 0 /\ ms[k].endBlock = cs[k].endBlock
    /\ ms[k].resultType = cs[k].resultType /\ ms[k].outerStackSize = cs[k].outerStackSize
    /\ \A j \in 1..k : j < k => ms[j] = cs[j]
EmptyElse(g, cs, bts, low, d) ==
    \E ms, bs, ord, ins, nx : /\ g = Ctx(cs, bts, low, d, bs, ord, ins, nx) /\ nx \in Nat
                              /\ Emitting(ms, bts, low, bs, ord, ins) /\ Spent(ms, cs)

(* The blocks and the stack when the end begins: the result is the PHI,    *)
(* which goes when no value came to it.                                    *)
MergedBlocks(bs, b, type) == IF type # "none" /\ bs[b].in = <<>> THEN [bs EXCEPT ![b].phi = "none"] ELSE bs
MergedStack(low, bs, b, type) ==
    IF type = "none" THEN low
    ELSE Append(low, IF bs[b].in = <<>> THEN E!typedZero(type) ELSE E!Value("phi", b, type))

(* end, once the clause and the empty else have their branches.            *)
AtEnd(c, cs, bts, top, f, g) ==
    /\ c.controlStack = cs /\ cs # <<>> /\ c.branchTargetStack = bts
    /\ E!Top(c) = top /\ top.outerBranchTargetStackSize <= Len(bts)
    /\ E!toEnd(c) = {f} /\ Len(f.stack) = top.outerStackSize /\ E!emptyElse(f, top) = g

(* The result of a context on the stack around it.                         *)
Pushed(low, stack, type) ==
    /\ stack \in Seq(Values)
    /\ IF type = "none" THEN stack = low ELSE \E x \in Values : x.type = type /\ stack = Append(low, x)

(* Both leave the same context.                                            *)
Around(x, xs, ts, stack, d) == \E ys, types : x = VCtx(ys, types) /\ Agree(ys, types, xs, ts, stack, d)

-----------------------------------------------------------------------------
(* Code that is not reachable                                              *)

(* The validator leaves what is below the context on top alone.            *)
Kept(w, vcs, vst) ==
    \E types \in Seq(OperandType) : LET h == vcs[Len(vcs)].outerStackSize IN
        /\ w = VCtx(vcs, types) /\ h <= Len(types) /\ \A k \in 1..h : types[k] = vst[k]
PushTypes == OperandType \cup {"none"}
(* An operator of some operands and some result.                           *)
Typeable(x, w) == \E params, ret : Len(params) \in Nat /\ ret \in PushTypes /\ w \in V!operatorOn(x, params, ret)

(* What stays of the validator's contexts and operands.                    *)
Stays(ycs, yst, vcs, vst, cs, bts, st, q) ==
    /\ ycs \in Seq(VContexts) /\ yst \in Seq(OperandType) /\ q \in Nat /\ Len(ycs) = Len(cs) + q
    /\ \A j \in 1..Len(cs) : Same(ycs[j], cs[j], bts[j])
    /\ Rising(ycs, yst) /\ \A k \in 1..Len(st) : yst[k] = vst[k]

(* The operands that the emitter holds are below the validator's context.  *)
Held(vcs, vst, cs, bts, st, d) ==
    LET h == vcs[Len(vcs)].outerStackSize IN
    /\ d \in Nat /\ Len(vcs) = Len(cs) + d /\ h \in Nat /\ Len(st) <= h /\ Len(st) \in Nat
    /\ h <= Len(vst) /\ \A k \in 1..Len(st) : k \in 1..h
    /\ \A j \in 1..Len(cs) : Same(vcs[j], cs[j], bts[j]) /\ j \in 1..Len(vcs)
    /\ vcs \in Seq(VContexts) /\ vcs # <<>> /\ vst \in Seq(OperandType) /\ Rising(vcs, vst)
    /\ Len(cs) \in Nat /\ Len(cs) >= 1 /\ cs[Len(cs)].isReachable = FALSE

(* What the validator has when it closes a context of unreachable code.    *)
ClosesAt(w, vcs, vst, vlow, isElse) ==
    LET h == vcs[Len(vcs)].outerStackSize IN
    /\ vlow \in Seq(OperandType) /\ Len(vlow) = h /\ (\A k \in 1..h : vlow[k] = vst[k])
    /\ w = IF isElse THEN VCtx(Turned(vcs), vlow) ELSE VEnded(vcs, vlow)

(* The incoming values u are those of s and those of m, which come from block p.             *)
Joined(s, m, u, p) ==
    /\ \A k \in 1..Len(u) : (\E j \in 1..Len(s) : u[k] = s[j]) \/ (\E j \in 1..Len(m) : u[k] = m[j])
    /\ NoneFrom(s, p) => From(u, p) = Len(m)
    /\ \A q : q # p => From(u, q) = From(s, q)

(* ds is the graph bs once block p has been given its terminator.                            *)
Advanced(bs, p, ds) ==
    /\ Graph(ds) /\ Len(ds) = Len(bs) /\ ds[p].terms # <<>>
    /\ \A b \in 1..Len(bs) : ds[b].phi = bs[b].phi /\ (b # p => ds[b].terms = bs[b].terms)

IsReturn(t, args, to) == t \in Terms /\ t.op = "ret" /\ t.args = args /\ t.to = to

(* The operands above a context, whatever types were asked for, are known, and w pops them for *)
(* every list of parameters that names their types.                                          *)
Refits(x, w, expected, vst, st, floor) ==
    LET n == Len(expected) IN
    /\ n <= Len(st) - floor
    /\ \A k \in 0..n - 1 : /\ V!operand(x, k) = vst[Len(vst) - k]
                           /\ vst[Len(vst) - k] = st[Len(st) - k].type /\ st[Len(st) - k] \in Values
                           /\ V!matches(expected[n - k], vst[Len(vst) - k])
    /\ \A params : /\ Len(params) = n
                   /\ \A k \in 0..n - 1 : params[n - k] = vst[Len(vst) - k]
                   => w \in V!popAndValidate(x, params)

(* The operators that change no context.                                   *)
StackOps == ListedOps \cup IndexedOps \cup {"drop", "select", "tee_local", "call_indirect", "br_if"}

LeaveOps == {"br", "br_table", "return", "unreachable"}

-----------------------------------------------------------------------------
(* The first and the last step                                             *)

(* The stores of the parameters and of the zeroes of the other locals.     *)
InitialValue(k) == IF k <= Len(body.params) THEN E!Value("arg", k, E!locals[k]) ELSE E!typedZero(E!locals[k])
StoreLocal(k)   == [id |-> k, op |-> Indexed("set_local", k - 1), args |-> <<InitialValue(k)>>, type |-> "none"]
EntryBlock      == [phi |-> "none", in |-> <<>>, code |-> [k \in 1..Len(E!locals) |-> StoreLocal(k)], terms |-> <<>>]
ReturnBlock     == [phi |-> body.ret, in |-> <<>>, code |-> <<>>, terms |-> <<>>]

(* The function with its return.                                           *)
Complete(c) ==
    /\ c.order[1] = 2 /\ Graph(c.blocks)
    /\ \A b \in 1..Len(c.blocks) : Len(c.blocks[b].terms) = 1 /\ c.blocks[b].terms # <<>>

(* While a body is read, the emitter is in step with the validator or waits for the end of    *)
(* the code; then the function is complete.                                                  *)
InStep ==
    /\ family \in 1..Len(Bodies) /\ asserted = TRUE
    /\ \/ phase = "reading" /\ (Live(v, e) \/ Returning(e))
       \/ phase = "emitted" /\ Complete(e)
=============================================================================
