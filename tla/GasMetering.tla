----------------------------- MODULE GasMetering -----------------------------
(***************************************************************************)
(* The gas pass of wasm_binary_injection::inject and the run of the code   *)
(* it writes.                                                              *)
(*                                                                         *)
(* The pass reads the operators of a function one by one, adds up their    *)
(* prices and holds them back in tmp_stream.  An operator at which control *)
(* may part or meet flushes: a call of use_gas with the sum, then what was *)
(* held back, then the operator.  When the code runs, use_gas takes the    *)
(* sum from the budget or throws.  `credit' is what a frame has paid and   *)
(* not yet used; it exists in the model only.                              *)
(***************************************************************************)
EXTENDS WasmCode

CONSTANTS
    Program,        \* the function bodies validation lets through
    MaxCalls,       \* frames the native stack has room for, less one
    GasLimit,       \* the budget of the transaction
    GasCallBase     \* GAS_CALL_BASE, the price of an intrinsic

ASSUME GasAssumption ==
    /\ \A c \in Program : c \in Seq([op: Op, n: Nat]) /\ WellFormed(c)
    /\ MaxCalls \in Nat /\ GasLimit \in Nat /\ GasCallBase \in Nat

VARIABLES
    status,         \* "inject", then how the run stands
    code,           \* fd.code before the pass
    pos,            \* usegas_decoder: operators of code already read
    out,            \* usegas_code
    tmp_stream,     \* operators read since the last flush
    gas,            \* their price
    pc,             \* the operator of out that runs next
    credit,         \* paid and unused gas of the current frame
    callers,        \* return position and credit of the frames below
    remained        \* *remained_gas

passVars == <<code, pos, out, tmp_stream, gas>>
vars == <<status, passVars, pc, credit, callers, remained>>

-----------------------------------------------------------------------------
(* The pass.                                                               *)

(* Fault: the start of a loop does not flush.                              *)
FlushesNotAtLoop(i) ==
    i.op \in {"end", "br", "br_table", "br_if", "if", "else", "return"}

(* The cases of the switch in inject().                                    *)
Flushes(i) ==
    i.op \in {"end", "br", "br_table", "br_if", "if", "else", "return", "loop"}

(* i64.const amount; call use_gas                                          *)
use_gas(amount) == Instr("use_gas", amount)

Init ==
    /\ status = "inject"
    /\ code \in Program
    /\ pos = 0
    /\ out = <<>>
    /\ tmp_stream = <<>>
    /\ gas = 0
    /\ pc = 1
    /\ credit = 0
    /\ callers = <<>>
    /\ remained = GasLimit

(* Fault: the flushing operator goes ahead of the operators held back.     *)
DecodeMisordered ==
    /\ status = "inject" /\ pos < Len(code)
    /\ pos' = pos + 1
    /\ LET op == code[pos + 1]
           sum == gas + gas_table[op.op]
       IN  IF Flushes(op)
           THEN /\ out' = out \o (IF sum > 0 THEN <<use_gas(sum)>> ELSE <<>>)
                              \o <<op>> \o tmp_stream
                /\ tmp_stream' = <<>>
                /\ gas' = 0
           ELSE /\ tmp_stream' = Append(tmp_stream, op)
                /\ gas' = sum
                /\ UNCHANGED out
    /\ UNCHANGED <<status, code, pc, credit, callers, remained>>

(* One turn of the while loop.                                             *)
Decode ==
    /\ status = "inject" /\ pos < Len(code)
    /\ pos' = pos + 1
    /\ LET op == code[pos + 1]
           sum == gas + gas_table[op.op]
       IN  IF Flushes(op)
           THEN /\ out' = out \o (IF sum > 0 THEN <<use_gas(sum)>> ELSE <<>>)
                              \o tmp_stream \o <<op>>
                /\ tmp_stream' = <<>>
                /\ gas' = 0
           ELSE /\ tmp_stream' = Append(tmp_stream, op)
                /\ gas' = sum
                /\ UNCHANGED out
    /\ UNCHANGED <<status, code, pc, credit, callers, remained>>

(* fd.code = usegas_code.get(), and the function is invoked.               *)
Inject ==
    /\ status = "inject" /\ pos = Len(code)
    /\ status' = "running"
    /\ UNCHANGED <<passVars, pc, credit, callers, remained>>

-----------------------------------------------------------------------------
(* The run.                                                                *)

Running == status = "running"
Price(i) == gas_table[i.op]

(* Fault: the budget is checked but not drawn from.                        *)
ChargeFree(amount, Then) ==
    IF remained < amount
    THEN status' = "exhausted" /\ UNCHANGED <<passVars, pc, credit, callers, remained>>
    ELSE UNCHANGED remained /\ Then

(* wasm_context::use_gas; a throw ends the run.                            *)
Charge(amount, Then) ==
    IF remained < amount
    THEN status' = "exhausted" /\ UNCHANGED <<passVars, pc, credit, callers, remained>>
    ELSE remained' = remained - amount /\ Then

RunUseGas ==
    /\ Running /\ out[pc].op = "use_gas"
    /\ Charge(out[pc].n, /\ credit' = credit + out[pc].n
                         /\ pc' = pc + 1
                         /\ UNCHANGED <<status, passVars, callers>>)

(* The current frame returns; `left' is its credit.                        *)
Leave(left) ==
    IF callers = <<>>
    THEN status' = "returned" /\ credit' = left /\ UNCHANGED <<pc, callers>>
    ELSE /\ pc' = callers[Len(callers)].pc
         /\ credit' = callers[Len(callers)].credit
         /\ callers' = SubSeq(callers, 1, Len(callers) - 1)
         /\ UNCHANGED status

(* Any operator of the contract but a call.                                *)
RunOp ==
    /\ Running /\ out[pc].op # "use_gas" /\ ~Calls(out[pc])
    /\ \E q \in Successors(out, pc) :
          IF q = Exit THEN Leave(credit - Price(out[pc]))
          ELSE /\ pc' = q
               /\ credit' = credit - Price(out[pc])
               /\ UNCHANGED <<status, callers>>
    /\ UNCHANGED <<passVars, remained>>

(* A call of an intrinsic, which has a price of its own; once it is paid   *)
(* the intrinsic returns or throws.                                        *)
RunImport ==
    /\ Running /\ Calls(out[pc])
    /\ Charge(GasCallBase, \/ /\ pc' = pc + 1
                              /\ credit' = credit - Price(out[pc])
                              /\ UNCHANGED <<status, passVars, callers>>
                           \/ /\ status' = "aborted"
                              /\ UNCHANGED <<passVars, pc, credit, callers>>)

(* A call of the function itself.                                          *)
RunCall ==
    /\ Running /\ Calls(out[pc])
    /\ IF Len(callers) = MaxCalls
       THEN status' = "trapped" /\ UNCHANGED <<pc, credit, callers>>
       ELSE /\ callers' = Append(callers, [pc |-> pc + 1, credit |-> credit - Price(out[pc])])
            /\ pc' = 1
            /\ credit' = 0
            /\ UNCHANGED status
    /\ UNCHANGED <<passVars, remained>>

RunTrap ==
    /\ Running /\ MayTrap(out[pc])
    /\ status' = "trapped"
    /\ UNCHANGED <<passVars, pc, credit, callers, remained>>

Ended ==
    /\ status \in {"returned", "trapped", "aborted", "exhausted"}
    /\ UNCHANGED vars

Work == Decode \/ Inject \/ RunUseGas \/ RunOp \/ RunImport \/ RunCall \/ RunTrap

Next == Work \/ Ended

Spec == Init /\ [][Next]_vars

(* The pass and the JIT code it feeds are never suspended.                 *)
FairSpec == Spec /\ WF_vars(Work)

-----------------------------------------------------------------------------
(* Correctness.                                                            *)

(* gas_table, by operator, is what the contract pays, on any path through  *)
(* blocks, loops and branches.  No operator runs before it is paid for, in *)
(* the current frame or in one that waits for a call; and nothing is paid  *)
(* for that does not run: wherever control can arrive by a branch, and     *)
(* when the function returns, everything paid is used.                     *)
PaidExactly ==
    /\ credit >= 0
    /\ \A k \in 1..Len(callers) : callers[k].credit >= 0
    /\ Running /\ (pc = 1 \/ Flushes(out[pc - 1])) => credit = 0
    /\ status = "returned" => credit = 0

(* The budget bounds the work: the pass leaves no cycle, through a loop or *)
(* through recursion, that runs for free.                                  *)
Terminates == <>(status \in {"returned", "trapped", "aborted", "exhausted"})

(* Position in the original code of the operator that follows position p   *)
(* of the injected code.                                                   *)
Original(p) == 1 + Cardinality({k \in 1..p - 1 : out[k].op # "use_gas"})

Run == INSTANCE WasmRun WITH
    status  <- CASE status = "inject" -> "loading"
                 [] status = "exhausted" -> "aborted"
                 [] OTHER -> status,
    pc      <- Original(pc),
    callers <- [k \in 1..Len(callers) |-> Original(callers[k].pc)]

(* The injected code does what the original does, up to an abort for gas:  *)
(* the pass loses, moves and duplicates no operator, and no branch lands   *)
(* elsewhere.                                                              *)
Transparent == Run!Spec
=============================================================================
