----------------------------- MODULE ContractLife -----------------------------
(***************************************************************************)
(* A contract from its bytes to its calls of the host: validate() when it  *)
(* is deployed, which an embedder may also leave out, get_instantiated_    *)
(* module() and call() when it is executed, then the intrinsics it calls.  *)
(* Composes validate() with HostApi; what decoding and compiling do is the *)
(* subject of WasmBinary and CodeGen, so a module is taken as already      *)
(* decoded, with well nested code.                                         *)
(***************************************************************************)
EXTENDS HostApi, Integers, Sequences, FiniteSetsExt, SequencesExt

-----------------------------------------------------------------------------
(***************************************************************************)
(* wasm_binary_validation: the limits a contract must keep before it is    *)
(* deployed, checked on the decoded module and then operator by operator.  *)
(*                                                                         *)
(* A module is a record of the sequences memories and tables (their        *)
(* minimal sizes), dataSegments ([constant, base, size]), globals          *)
(* ([mutable, type]), types, functions ([type, locals, code]; type is a    *)
(* position in types), exports ([kind, name, index]) and imports.  An      *)
(* operator is [op, o]; o is the offset of a load or store.                *)
(***************************************************************************)
CONSTANTS                           \* wasm_constraints.hpp
    wasm_page_size,
    maximum_linear_memory,          \* bytes
    maximum_linear_memory_init,     \* bytes
    maximum_table_elements,
    maximum_mutable_globals,        \* bytes
    maximum_func_local_bytes,
    maximum_depth                   \* the 1024 of nested_validator

(* Bytes of a value: getTypeBitWidth(t) / 8.                               *)
Bytes(t) == IF t \in {"i64", "f64"} THEN 8 ELSE 4
BytesOf(ts) == FoldSeq(LAMBDA t, n : n + Bytes(t), 0, ts)

-----------------------------------------------------------------------------
(* The module validators.                                                  *)

memories(m) ==
    m.memories = <<>> \/ m.memories[1] <= maximum_linear_memory \div wasm_page_size

data_segments(m) ==
    \A k \in 1..Len(m.dataSegments) :
        LET ds == m.dataSegments[k]
        IN  ds.constant /\ ds.base + ds.size <= maximum_linear_memory_init

tables(m) == m.tables = <<>> \/ m.tables[1] <= maximum_table_elements

globals(m) ==
    BytesOf([k \in 1..Len(SelectSeq(m.globals, LAMBDA g : g.mutable)) |->
                 SelectSeq(m.globals, LAMBDA g : g.mutable)[k].type]) <= maximum_mutable_globals

maximum_function_stack(m) ==
    \A k \in 1..Len(m.functions) :
        LET f == m.functions[k]
        IN  BytesOf(f.locals) + BytesOf(m.types[f.type].params) <= maximum_func_local_bytes

(* The type of the function an index of the index space names: imported    *)
(* functions first, both counted from 0.                                   *)
ImportedFunctions(m) == SelectSeq(m.imports, LAMBDA i : i.kind = "function")
FunctionType(m, index) ==
    IF index < Len(ImportedFunctions(m)) THEN ImportedFunctions(m)[index + 1].type
    ELSE m.types[m.functions[index - Len(ImportedFunctions(m)) + 1].type]

ApplyType == [ret |-> "none", params |-> <<"i64", "i64", "i64">>]

ensure_apply_exported(m) ==
    \E k \in 1..Len(m.exports) :
        LET e == m.exports[k]
        IN  e.kind = "function" /\ e.name = "apply" /\ FunctionType(m, e.index) = ApplyType

(* standard_module_constraints_validators                                  *)
constraints_validators(m) ==
    /\ memories(m) /\ data_segments(m) /\ tables(m) /\ globals(m)
    /\ maximum_function_stack(m) /\ ensure_apply_exported(m)

-----------------------------------------------------------------------------
(* WASM_OP_SEQ: the operators by what follows the code of each.  "error"    *)
(* is what the decoder makes of a code it does not know.                   *)
VoidOps ==             \* nothing
    {"error", "end", "unreachable", "nop", "else_", "return_", "drop", "select", "i32_eqz",
     "i32_eq", "i32_ne", "i32_lt_s", "i32_lt_u", "i32_gt_s", "i32_gt_u", "i32_le_s",
     "i32_le_u", "i32_ge_s", "i32_ge_u", "i64_eqz", "i64_eq", "i64_ne", "i64_lt_s",
     "i64_lt_u", "i64_gt_s", "i64_gt_u", "i64_le_s", "i64_le_u", "i64_ge_s", "i64_ge_u",
     "f32_eq", "f32_ne", "f32_lt", "f32_gt", "f32_le", "f32_ge", "f64_eq", "f64_ne",
     "f64_lt", "f64_gt", "f64_le", "f64_ge", "i32_clz", "i32_ctz", "i32_popcnt",
     "i32_add", "i32_sub", "i32_mul", "i32_div_s", "i32_div_u", "i32_rem_s",
     "i32_rem_u", "i32_and", "i32_or", "i32_xor", "i32_shl", "i32_shr_s", "i32_shr_u",
     "i32_rotl", "i32_rotr", "i64_clz", "i64_ctz", "i64_popcnt", "i64_add", "i64_sub",
     "i64_mul", "i64_div_s", "i64_div_u", "i64_rem_s", "i64_rem_u", "i64_and", "i64_or",
     "i64_xor", "i64_shl", "i64_shr_s", "i64_shr_u", "i64_rotl", "i64_rotr", "f32_abs",
     "f32_neg", "f32_ceil", "f32_floor", "f32_trunc", "f32_nearest", "f32_sqrt",
     "f32_add", "f32_sub", "f32_mul", "f32_div", "f32_min", "f32_max", "f32_copysign",
     "f64_abs", "f64_neg", "f64_ceil", "f64_floor", "f64_trunc", "f64_nearest",
     "f64_sqrt", "f64_add", "f64_sub", "f64_mul", "f64_div", "f64_min", "f64_max",
     "f64_copysign", "i32_wrap_i64", "i32_trunc_s_f32", "i32_trunc_u_f32",
     "i32_trunc_s_f64", "i32_trunc_u_f64", "i64_extend_s_i32", "i64_extend_u_i32",
     "i64_trunc_s_f32", "i64_trunc_u_f32", "i64_trunc_s_f64", "i64_trunc_u_f64",
     "f32_convert_s_i32", "f32_convert_u_i32", "f32_convert_s_i64", "f32_convert_u_i64",
     "f32_demote_f64", "f64_convert_s_i32", "f64_convert_u_i32", "f64_convert_s_i64",
     "f64_convert_u_i64", "f64_promote_f32", "i32_reinterpret_f32",
     "i64_reinterpret_f64", "f32_reinterpret_i32", "f64_reinterpret_i64", "grow_memory",
     "current_memory"}
BlockOps == {"block", "loop", "if_"}
IndexOps ==
    {"br", "br_if", "call", "call_indirect", "get_local", "set_local", "tee_local",
     "get_global", "set_global", "i32_const", "f32_const"}
MemoryOps ==
    {"i32_load", "i64_load", "f32_load", "f64_load", "i32_load8_s", "i32_load8_u",
     "i32_load16_s", "i32_load16_u", "i64_load8_s", "i64_load8_u", "i64_load16_s",
     "i64_load16_u", "i64_load32_s", "i64_load32_u", "i32_store", "i64_store",
     "f32_store", "f64_store", "i32_store8", "i32_store16", "i64_store8", "i64_store16",
     "i64_store32"}
WideConstOps == {"i64_const", "f64_const"}
TableOps == {"br_table"}
WASM_OP_SEQ == VoidOps \cup BlockOps \cup IndexOps \cup MemoryOps \cup WideConstOps \cup TableOps

(* op_constrainers: every operator but "error" is on the whitelist; what   *)
(* is not is left to blacklist_validator.                                  *)
op_constrainers == WASM_OP_SEQ \ {"error"}
blacklist(i) == i.op \in op_constrainers

(* large_offset_validator                                                  *)
large_offset(i) == i.op \in MemoryOps => i.o < maximum_linear_memory

Nests == BlockOps \cup {"else_", "end"}

(* Fault: an else closes what the if has opened.                           *)
nested_validatorElse(i, depth) ==
    CASE i.op \notin Nests -> depth
      [] i.op \in {"end", "else_"} /\ depth > 0 -> depth - 1
      [] OTHER -> depth + 1

(* nested_validator: the depth after an operator.  An else counts as one   *)
(* more level, and so does the end of a function when nothing is open.     *)
nested_validator(i, depth) ==
    CASE i.op \notin Nests -> depth
      [] i.op = "end" /\ depth > 0 -> depth - 1
      [] OTHER -> depth + 1

(* The depths that op->visit may leave, none when it throws.  depth is     *)
(* 16 bits wide, and is refused long before it wraps.                      *)
visit(i, depth) ==
    {d \in {nested_validator(i, depth)} :
        large_offset(i) /\ blacklist(i) /\ (d > depth => d < maximum_depth)}

-----------------------------------------------------------------------------
CONSTANTS
    Modules,            \* the contracts that may be deployed
    GasLimits,          \* what an execution may start with
    Pointers, Lengths,  \* the I32 values a contract passes
    RefPointers,        \* those it passes for references
    Amounts,            \* the I64 values it passes to use_gas
    StoreAddresses,     \* where its own code writes
    MaxCalls            \* calls of intrinsics in an execution

ASSUME LimitsAssumption == GasLimits \subseteq 0..(GasWidth - 1) /\ MaxCalls \in Nat
ASSUME ArgumentsAssumption ==
    /\ Pointers \cup Lengths \cup RefPointers \subseteq -(Width \div 2)..((Width \div 2) - 1)
    /\ Amounts \subseteq Int
ASSUME DepthAssumption == maximum_depth \in Nat \ {0}

VARIABLES phase,        \* received, valid, instantiated, running, or how it ended
          module,       \* the contract
          validated,    \* whether validate() has passed
          machine,      \* what the intrinsics work on
          calls,        \* intrinsics called so far
          last          \* the last call: its name, arguments, what it met and did

vars == <<phase, module, validated, machine, calls, last>>

NoCall == [name |-> "none"]
Idle(gas) == [mem |-> <<>>, gas |-> gas, host |-> <<>>, console |-> <<>>]

Init ==
    /\ phase = "received"
    /\ module \in Modules
    /\ validated = FALSE
    /\ machine \in {Idle(g) : g \in GasLimits}
    /\ calls = 0
    /\ last = NoCall

-----------------------------------------------------------------------------
(* Deployment.                                                             *)

(* EOSIO_OperatorDecoderStream over the code of one function: it yields    *)
(* the operators in order, and validate() visits each with the depth that  *)
(* those before it have left, in the set of the depths that are possible.  *)
FunctionDepths(code, depths) ==
    LET after[k \in 0..Len(code)] ==
            IF k = 0 THEN depths ELSE UNION {visit(code[k], d) : d \in after[k - 1]}
    IN  after[Len(code)]

(* wasm_binary_validation::validate, function after function: the depth is *)
(* set to 0 once, before the first operator of the first one.              *)
DepthsAfter(m) ==
    LET after[k \in 0..Len(m.functions)] ==
            IF k = 0 THEN {0} ELSE FunctionDepths(m.functions[k].code, after[k - 1])
    IN  after[Len(m.functions)]

validate(m) ==
    /\ constraints_validators(m)
    /\ DepthsAfter(m) # {}
    /\ linkModule(Range(m.imports), TRUE)

Deploy ==
    /\ phase = "received"
    /\ validated' = validate(module)
    /\ phase' = IF validated' THEN "valid" ELSE "refused"
    /\ UNCHANGED <<module, machine, calls, last>>

-----------------------------------------------------------------------------
(* Execution.                                                              *)

(* parse_initial_memory: the image of the data, none when it throws.  A    *)
(* later segment overwrites an earlier one.                                *)
MemoryBytes(m) == m.memories[1] * wasm_page_size
(* A module has been decoded: its memory has no more bytes than there are  *)
(* addresses, its functions and their code are finite.                     *)
ASSUME ModulesAssumption ==
    \A m \in Modules :
        /\ m.memories # <<>> => MemoryBytes(m) \in 0..Width
        /\ Len(m.functions) \in Nat
        /\ \A k \in 1..Len(m.functions) : Len(m.functions[k].code) \in Nat

SegmentFits(m, ds) ==
    /\ ds.constant
    /\ m.memories # <<>>
    /\ ds.base < MemoryBytes(m) /\ ds.base + ds.size <= MemoryBytes(m)
SegmentByte == 1        \* what the data of every segment consists of
parse_initial_memory(m) ==
    LET covered == UNION {Span(m.dataSegments[k].base, m.dataSegments[k].size) :
                              k \in 1..Len(m.dataSegments)}
    IN  {[a \in covered |-> SegmentByte] : fits \in
            {TRUE} \cap {\A k \in 1..Len(m.dataSegments) : SegmentFits(m, m.dataSegments[k])}}

(* The operators whose occurrence makes inject() add an import.            *)
OpsOf(m) == {i.op : i \in UNION {Range(m.functions[k].code) : k \in 1..Len(m.functions)}}

ImportsAfterInjection(m) == Range(m.imports) \cup injectedImports(OpsOf(m))

(* get_instantiated_module                                                 *)
Instantiate ==
    /\ phase \in {"received", "valid"}
    /\ phase' = CASE parse_initial_memory(module) = {} -> "badSegment"
                  [] parse_initial_memory(module) # {}
                     /\ ~linkModule(ImportsAfterInjection(module), FALSE) -> "unresolved"
                  [] OTHER -> "instantiated"
    /\ UNCHANGED <<module, validated, machine, calls, last>>

(* resetMemory, then the image of the data over the zeros.                 *)
InitialMemory(m) ==
    IF m.memories = <<>> THEN <<>>
    ELSE LET image == CHOOSE i \in parse_initial_memory(m) : TRUE
         IN  [a \in 0..(MemoryBytes(m) - 1) |-> IF a \in DOMAIN image THEN image[a] ELSE 0]

Applies(m) == {e \in Range(m.exports) : e.kind = "function" /\ e.name = "apply"}
ArgumentTypes == <<"i64">>          \* the one argument of apply()

(* call: without an exported function of that name nothing is done; with   *)
(* another number of parameters, or other types, an exception is thrown.   *)
Apply ==
    /\ phase = "instantiated"
    /\ IF Applies(module) = {} THEN phase' = "nothing" /\ UNCHANGED machine
       ELSE \E e \in Applies(module) :
                LET params == FunctionType(module, e.index).params
                IN  IF Len(params) # Len(ArgumentTypes) THEN phase' = "arity" /\ UNCHANGED machine
                    ELSE /\ machine' = [machine EXCEPT !.mem = InitialMemory(module)]
                         /\ phase' = IF params = ArgumentTypes THEN "running" ELSE "mismatch"
    /\ UNCHANGED <<module, validated, calls, last>>

(* The contract's own code writes its memory.                              *)
Store ==
    /\ phase = "running" /\ calls = 0
    /\ \E a \in StoreAddresses \cap DOMAIN machine.mem, b \in Byte :
           machine' = [machine EXCEPT !.mem = Write(@, a, <<b>>)]
    /\ UNCHANGED <<phase, module, validated, calls, last>>

(* One call of an intrinsic that the contract imports.                     *)
Imported(name) == \E i \in ImportsAfterInjection(module) : i.kind = "function" /\ i.name = name
Calling(name, args, outcomes) ==
    /\ phase = "running" /\ calls < MaxCalls /\ Imported(name)
    /\ \E o \in outcomes :
           /\ machine' = o.m
           /\ phase' = IF o.end = "return" THEN "running" ELSE o.end
           /\ last' = [name |-> name, args |-> args, before |-> machine, after |-> o.m,
                       end |-> o.end, ret |-> o.ret, touched |-> o.touched]
    /\ calls' = calls + 1
    /\ UNCHANGED <<module, validated>>

Arrays == {Array(p, n) : p \in Pointers, n \in Lengths}
Blocks == {Pair(p, q, n) : p \in Pointers, q \in Pointers, n \in Lengths}
Texts == {Text(p) : p \in Pointers}
Hashes == {Ref(p, HashSize) : p \in RefPointers}
Wides == {Ref(p, WideSize) : p \in RefPointers}
Ones == [k \in 1..WideSize |-> 1]

CallDatabase ==
    \E key \in Arrays :
        \/ \E buffer \in Arrays :
               \/ Calling("db_store", <<key, buffer>>, db_store(machine, 1, key, buffer))
               \/ Calling("db_load", <<key, buffer>>, db_load(machine, 1, key, buffer))
        \/ Calling("db_has_key", <<key>>, db_has_key(machine, 1, key))
        \/ Calling("db_remove_key", <<key>>, db_remove_key(machine, 1, key))

CallTables ==
    \/ Calling("db_has_table", <<>>, db_has_table(machine, 1))
    \/ Calling("db_remove_table", <<>>, db_remove_table(machine, 1))

CallCrypto ==
    \E data \in Arrays, hash \in Hashes :
        \/ Calling("sha256", <<data, hash>>, sha256(machine, data, hash))
        \/ Calling("assert_sha256", <<data, hash>>, assert_sha256(machine, data, hash))
        \/ \E pub \in Arrays :
               \/ Calling("recover_key", <<hash, data, pub>>, recover_key(machine, hash, data, pub))
               \/ Calling("assert_recover_key", <<hash, data, pub>>,
                          assert_recover_key(machine, hash, data, pub))

CallSystem ==
    \/ Calling("current_time", <<>>, current_time(machine))
    \/ Calling("current_height", <<>>, current_height(machine))
    \/ \E simple, full \in Hashes :
           Calling("current_hash", <<simple, full>>, current_hash(machine, simple, full))

CallLog ==
    \E data \in Arrays, name \in Hashes :
        \/ Calling("log_0", <<data, name>>, log_0(machine, data, name))
        \/ \E one \in Hashes :
               \/ Calling("log_1", <<data, name, one>>, log_1(machine, data, name, one))
               \/ \E two \in Hashes :
                      Calling("log_2", <<data, name, one, two>>, log_2(machine, data, name, one, two))

CallContextFree ==
    \/ Calling("abort", <<>>, abort(machine))
    \/ Calling("ftl_exit", <<>>, ftl_exit(machine))
    \/ \E condition \in {0, 1} :
           \/ \E msg \in Texts : Calling("ftl_assert", <<msg>>, ftl_assert(machine, condition, msg))
           \/ \E msg \in Arrays :
                  Calling("ftl_assert_message", <<msg>>, ftl_assert_message(machine, condition, msg))
           \/ Calling("ftl_assert_code", <<>>, ftl_assert_code(machine, condition))

CallAction ==
    \/ \E amount \in Amounts : Calling("use_gas", <<>>, injected_use_gas(machine, amount))
    \/ Calling("action_data_size", <<>>, action_data_size(machine))
    \/ Calling("get_amount", <<>>, get_amount(machine))
    \/ \E x \in Arrays :
           \/ Calling("read_action_data", <<x>>, read_action_data(machine, x))
           \/ \E f \in DOMAIN Addresses : Calling(f, <<x>>, get_address(machine, f, x))
           \/ Calling("transfer", <<x>>, transfer(machine, x, 1))
           \/ \E y \in Arrays : Calling("call_action", <<x, y>>, call_action(machine, x, y, 1))
           \/ Calling("call_result", <<x>>, call_result(machine, x))
           \/ Calling("set_result", <<x>>, set_result(machine, x))

CallConsole ==
    \/ \E str \in Texts : Calling("prints", <<str>>, prints(machine, str))
    \/ \E str \in Arrays : Calling("prints_l", <<str>>, prints_l(machine, str))
    \/ \E f \in {"printi", "printui", "printsf", "printdf"} :
           Calling(f, <<>>, printValue(machine, 1))
    \/ \E val \in Wides : Calling("printqf", <<val>>, printqf(machine, val))
    \/ \E v \in NameValues :
           Calling("printn", <<v>>, Return(console_append(machine, to_string(v)), 0, {}))
    \/ \E data \in Arrays : Calling("printhex", <<data>>, printhex(machine, data))

CallMemory ==
    \/ \E x \in Blocks :
           \/ Calling("memcpy", <<x>>, memcpy(machine, x))
           \/ Calling("memmove", <<x>>, memmove(machine, x))
           \/ Calling("memcmp", <<x>>, memcmp(machine, x))
    \/ \E dest \in Arrays, value \in Byte :
           Calling("memset", <<dest, value>>, memset(machine, dest, value))

CallBuiltin ==
    \E ret \in Wides :
        \/ Calling("__multi3", <<ret>>, builtin(machine, ret, Ones))
        \/ \E divisor \in {0, 1} : Calling("__divti3", <<ret>>, division(machine, ret, divisor, Ones))

Next ==
    \/ Deploy \/ Instantiate \/ Apply \/ Store
    \/ CallDatabase \/ CallTables \/ CallCrypto \/ CallSystem \/ CallLog
    \/ CallContextFree \/ CallAction \/ CallConsole \/ CallMemory \/ CallBuiltin

Spec == Init /\ [][Next]_vars

-----------------------------------------------------------------------------
(* Properties.                                                             *)

(* The deepest nesting of blocks, loops and ifs in a function's code.      *)
Open(code, k) ==
    Cardinality({j \in 1..k : code[j].op \in {"block", "loop", "if_"}})
    - Cardinality({j \in 1..k : code[j].op = "end"})
Nesting(code) == Max({0} \cup {Open(code, k) : k \in 1..Len(code)})

(* validate() promises what deployment relies on.  The host bounds the     *)
(* nesting of a deployed contract: no function of one that has passed      *)
(* reaches maximum_depth, although the depth is one static counter for all *)
(* functions and an else counts as an opening.  And what validate()        *)
(* resolved against "env" alone, and what inject() adds from its private   *)
(* module, all has an intrinsic of that name and type: the contract never  *)
(* fails to link when it is executed.                                      *)
ValidatedHolds ==
    validated =>
        /\ \A k \in 1..Len(module.functions) : Nesting(module.functions[k].code) < maximum_depth
        /\ phase # "unresolved"

(* A call that throws has changed nothing but the gas: neither memory nor  *)
(* console, and the embedder has not been told of anything.                *)
FailureLeavesNoTrace ==
    (calls > 0 /\ last.end \notin {"return", "exit"}) =>
        last.after = [last.before EXCEPT !.gas = last.after.gas]

(* Native code touches nothing but bytes of the running memory, whatever   *)
(* pointers and lengths the contract passes.  The memory functions do what *)
(* a contract's own loop would have done with the bytes before the call,   *)
(* and a memcpy whose blocks overlap is refused instead of leaving the     *)
(* result to the C library.                                                *)
MemoryExact ==
    /\ calls > 0 => last.touched \subseteq DOMAIN last.before.mem
    /\ (calls > 0 /\ last.end = "return" /\ last.name \in {"memcpy", "memmove"}) =>
          LET x == last.args[1]
          IN  /\ last.ret = U32(x.p)
              /\ \A a \in DOMAIN last.before.mem :
                     last.after.mem[a] = last.before.mem[IF a \in Span(U32(x.p), x.n)
                                                         THEN a - U32(x.p) + U32(x.q) ELSE a]

(* No call gives gas back, though use_gas takes a signed amount that the   *)
(* contract chooses and remained_gas is unsigned; and whatever reaches the *)
(* embedder has been paid for.                                             *)
NoFreeCallbacks ==
    calls > 0 =>
        /\ last.after.gas <= last.before.gas
        /\ last.after.host # last.before.host => last.after.gas < last.before.gas

(* A printed name reads back as the value that was printed.                *)
PrintedNamesReadBack ==
    (calls > 0 /\ last.name = "printn") => set(Last(last.after.console)) = {last.args[1]}
=============================================================================
