------------------------------- MODULE HostApi -------------------------------
(***************************************************************************)
(* The intrinsics of wasm_interface.cpp as a contract's call meets them:   *)
(* the translation of the parameters (wavm.hpp), the charge, the checks,   *)
(* what is done to memory and the callback that the embedder receives.     *)
(*                                                                         *)
(* A machine is [mem, gas, host, console]: the bytes of the running        *)
(* context's memory (a function of the addresses; no memory at all is      *)
(* answered as an empty one), the gas left, the callbacks received and     *)
(* what the console holds.  A call has a set of outcomes                   *)
(* [end, m, ret, touched]: how it ended, the machine it leaves, its result *)
(* and the addresses that native code has accessed.  Arithmetic on values  *)
(* is the subject of FloatApi; here a builtin only writes its result.      *)
(***************************************************************************)
EXTENDS Integers, Sequences, FiniteSetsExt, SequencesExt

CONSTANTS
    Width,              \* 2^32: addresses and lengths of a contract
    GasWidth,           \* 2^64: what remained_gas counts in
    Byte,               \* the values of a byte, 0 among them
    HashSize,           \* sizeof(sha256)
    AddressSize,        \* 20
    WideSize,           \* sizeof(__int128), sizeof(float128_t)
    max_assert_message,
    ActionData,         \* act.data, a sequence of bytes
    Addresses,          \* the four addresses of the context, by name
    Prices              \* the constants of wasm_gas_table.hpp, by name

ASSUME WidthAssumption == Width \in Nat \ {0, 1} /\ GasWidth \in Nat \ {0}
ASSUME SizesAssumption == {HashSize, AddressSize, WideSize, max_assert_message} \subseteq 0..Width
ASSUME ContextAssumption ==
    /\ ActionData \in Seq(Byte)
    /\ Addresses \in [{"get_from", "get_to", "get_owner", "get_user"} -> Seq(Byte)]

(* Every price is an int32_t above 0; a price for as many bytes as there   *)
(* are addresses still fits the 64 bits of the gas.                        *)
PriceNames ==
    {"CALL_BASE", "RECOVER_KEY", "SHA256_BASE", "SHA256_BYTE", "LOG_0", "LOG_1", "LOG_2",
     "LOG_DATA", "MEMOP_BYTE", "TRANSFER", "DBSTORE_BASE", "DBSTORE_BYTE", "DBLOAD_BASE",
     "DBLOAD_BYTE", "DB_HAS", "DB_RMV"}
ASSUME PricesAssumption ==
    /\ Prices \in [PriceNames -> Nat \ {0}]
    /\ \A base, byte \in PriceNames : Prices[base] + Width * Prices[byte] < GasWidth

(* Conversions of an I32: to U32 and, with its sign, to size_t.            *)
U32(x) == x % Width
Huge == Width * Width   \* what size_t(x) exceeds every memory with
size_t(x) == IF x < 0 THEN Huge + x ELSE x

Size(mem) == Cardinality(DOMAIN mem)
Span(p, n) == p..(p + n - 1)
(* What lies beyond the memory is the host's own, here as zeros.           *)
ByteAt(mem, a) == IF a \in DOMAIN mem THEN mem[a] ELSE 0
BytesAt(mem, p, n) == [k \in 1..n |-> ByteAt(mem, p + k - 1)]
Write(mem, p, bytes) ==
    [a \in DOMAIN mem |-> IF a \in Span(p, Len(bytes)) THEN bytes[a - p + 1] ELSE mem[a]]

-----------------------------------------------------------------------------
(* Translation.  A parameter that is not a plain value is one of           *)
(*   [kind |-> "array", p, n]        array_ptr<char> and its size          *)
(*   [kind |-> "pair", p, q, n]      two arrays that share a size          *)
(*   [kind |-> "text", p]            null_terminated_ptr                   *)
(*   [kind |-> "ref", p, size]       T & of size bytes                     *)
(* and raises at most one exception, named by the set it returns.          *)

Violation == {"accessViolation"}

(* Fault: the length alone is compared with the memory.                    *)
array_ptr_implFault(mem, p, n) == IF n > Size(mem) THEN Violation ELSE {}

array_ptr_impl(mem, p, n) ==
    IF p >= Size(mem) \/ n > Size(mem) - p THEN Violation ELSE {}

null_terminated_ptr_impl(mem, p) ==
    IF \E a \in DOMAIN mem : a >= p /\ mem[a] = 0 THEN {} ELSE Violation

reference(mem, p, size) ==
    CASE p = 0 -> {"wasm_runtime_exception"}
      [] p # 0 /\ p + size >= Size(mem) -> Violation
      [] OTHER -> {}

(* The specializations of intrinsic_invoker_impl.                          *)
fromArray(mem, x) == array_ptr_impl(mem, U32(x.p), size_t(x.n))
fromPair(mem, x) ==
    array_ptr_impl(mem, U32(x.p), size_t(x.n)) \cup array_ptr_impl(mem, U32(x.q), size_t(x.n))
fromText(mem, x) == null_terminated_ptr_impl(mem, U32(x.p))
fromReference(mem, x) == reference(mem, U32(x.p), x.size)

translate_one(mem, x) ==
    CASE x.kind = "array" -> fromArray(mem, x)
      [] x.kind = "pair"  -> fromPair(mem, x)
      [] x.kind = "text"  -> fromText(mem, x)
      [] x.kind = "ref"   -> fromReference(mem, x)

(* The parameters are translated from the last to the first, all of them   *)
(* before the method is entered: the last one that raises decides.         *)
Raising(mem, xs) == {k \in 1..Len(xs) : translate_one(mem, xs[k]) # {}}

Outcome(end, m, ret, touched) == [end |-> end, m |-> m, ret |-> ret, touched |-> touched]
Throw(end, m) == {Outcome(end, m, 0, {})}
Return(m, ret, touched) == {Outcome("return", m, ret, touched)}

(* What the search for the terminator has read.                            *)
Scanned(mem, x) ==
    IF x.kind # "text" THEN {}
    ELSE LET zeros == {a \in DOMAIN mem : a >= U32(x.p) /\ mem[a] = 0}
         IN  IF zeros = {} THEN {a \in DOMAIN mem : a >= U32(x.p)} ELSE U32(x.p)..Min(zeros)

(* intrinsic_invoker_impl: Method is entered with every parameter checked. *)
invoke(m, xs, Method(_)) ==
    IF Raising(m.mem, xs) # {}
    THEN LET k == Max(Raising(m.mem, xs))
         IN  UNION {Throw(e, m) : e \in translate_one(m.mem, xs[k])}
    ELSE {[o EXCEPT !.touched = @ \cup UNION {Scanned(m.mem, xs[k]) : k \in 1..Len(xs)}] :
             o \in Method(m)}

-----------------------------------------------------------------------------
(* wasm_context                                                            *)

(* Fault: the amount is compared with its sign.                            *)
exceedsFault(amount, gas) ==
    gas < (IF amount % GasWidth >= GasWidth \div 2 THEN (amount % GasWidth) - GasWidth
           ELSE amount % GasWidth)

(* The comparison of use_gas, of unsigned numbers.                         *)
exceeds(amount, gas) == gas < amount % GasWidth

(* use_gas                                                                 *)
use_gas(m, amount, Then(_)) ==
    IF exceeds(amount, m.gas) THEN Throw("wasm_runtime_exception", m)
    ELSE Then([m EXCEPT !.gas = (@ - amount) % GasWidth])

(* A callback: the embedder is told what and with which bytes; what it     *)
(* answers is its own.                                                     *)
Answers == {0, 1}
Callback(m, what, values, bytes) ==
    [m EXCEPT !.host = Append(@, [cb |-> what, values |-> values, bytes |-> bytes])]

console_append(m, what) == [m EXCEPT !.console = Append(@, what)]

Array(p, n) == [kind |-> "array", p |-> p, n |-> n]
Pair(p, q, n) == [kind |-> "pair", p |-> p, q |-> q, n |-> n]
Text(p) == [kind |-> "text", p |-> p]
Ref(p, size) == [kind |-> "ref", p |-> p, size |-> size]

(* The bytes of a translated parameter, and the addresses it spans.        *)
At(m, x) == BytesAt(m.mem, U32(x.p), IF x.kind = "ref" THEN x.size ELSE x.n)
Spans(x) == Span(U32(x.p), IF x.kind = "ref" THEN x.size ELSE x.n)

(* What the embedder may leave in a buffer it was given: nothing new, or   *)
(* bytes up to the buffer's end.                                           *)
Filled(m, x) ==
    {m} \cup {[m EXCEPT !.mem = Write(@, U32(x.p), [k \in 1..Cardinality(Spans(x)) |-> b])] :
                 b \in Byte \ {0}}

-----------------------------------------------------------------------------
(* database_api                                                            *)

db_store(m, table, key, buffer) ==
    invoke(m, <<key, buffer>>, LAMBDA m1 :
        use_gas(m1, Prices.DBSTORE_BASE + buffer.n * Prices.DBSTORE_BYTE, LAMBDA c :
            Return(Callback(c, "store", <<table>>, <<At(c, key), At(c, buffer)>>), 0,
                   Spans(key) \cup Spans(buffer))))

db_load(m, table, key, buffer) ==
    invoke(m, <<key, buffer>>, LAMBDA m1 :
        use_gas(m1, Prices.DBLOAD_BASE + buffer.n * Prices.DBLOAD_BYTE, LAMBDA c :
            UNION {Return(Callback(f, "load", <<table>>, <<At(c, key)>>), a,
                          Spans(key) \cup Spans(buffer)) : f \in Filled(c, buffer), a \in Answers}))

db_has_key(m, table, key) ==
    invoke(m, <<key>>, LAMBDA m1 :
        use_gas(m1, Prices.DB_HAS, LAMBDA c :
            UNION {Return(Callback(c, "has_key", <<table>>, <<At(c, key)>>), a, Spans(key)) :
                       a \in Answers}))

db_remove_key(m, table, key) ==
    invoke(m, <<key>>, LAMBDA m1 :
        use_gas(m1, Prices.DB_RMV, LAMBDA c :
            Return(Callback(c, "remove_key", <<table>>, <<At(c, key)>>), 0, Spans(key))))

db_has_table(m, table) ==
    use_gas(m, Prices.DB_HAS, LAMBDA c :
        UNION {Return(Callback(c, "has_table", <<table>>, <<>>), a, {}) : a \in Answers})

db_remove_table(m, table) ==
    use_gas(m, Prices.DB_RMV, LAMBDA c : Return(Callback(c, "remove_table", <<table>>, <<>>), 0, {}))

-----------------------------------------------------------------------------
(* crypto_api, whose bodies are still to be written: they charge.          *)

recover_key(m, digest, sig, pub) ==
    invoke(m, <<digest, sig, pub>>, LAMBDA m1 :
        use_gas(m1, Prices.RECOVER_KEY, LAMBDA c : Return(c, 0, {})))
assert_recover_key(m, digest, sig, pub) == recover_key(m, digest, sig, pub)

sha256(m, data, hash) ==
    invoke(m, <<data, hash>>, LAMBDA m1 :
        use_gas(m1, Prices.SHA256_BASE + Prices.SHA256_BYTE * data.n, LAMBDA c : Return(c, 0, {})))
assert_sha256(m, data, hash) == sha256(m, data, hash)

-----------------------------------------------------------------------------
(* system_api                                                              *)

current_time(m) ==
    use_gas(m, Prices.CALL_BASE, LAMBDA c :
        UNION {Return(Callback(c, "current_time", <<>>, <<>>), a, {}) : a \in Answers})
current_height(m) ==
    use_gas(m, Prices.CALL_BASE, LAMBDA c :
        UNION {Return(Callback(c, "current_height", <<>>, <<>>), a, {}) : a \in Answers})

current_hash(m, simple_hash, full_hash) ==
    invoke(m, <<simple_hash, full_hash>>, LAMBDA m1 :
        use_gas(m1, Prices.CALL_BASE, LAMBDA c :
            UNION {Return(Callback(f, "current_hash", <<>>, <<>>), 0,
                          Spans(simple_hash) \cup Spans(full_hash)) :
                       f \in UNION {Filled(s, full_hash) : s \in Filled(c, simple_hash)}}))

(* log_0, log_1, log_2: one topic for the name and one for each parameter. *)
log(m, data, topics, price) ==
    invoke(m, <<data>> \o topics, LAMBDA m1 :
        use_gas(m1, price + data.n * Prices.LOG_DATA, LAMBDA c :
            Return(Callback(c, "add_log", <<Len(topics)>>,
                            <<FlattenSeq([k \in 1..Len(topics) |-> At(c, topics[k])]), At(c, data)>>),
                   0, Spans(data) \cup UNION {Spans(topics[k]) : k \in 1..Len(topics)})))
log_0(m, data, name) == log(m, data, <<name>>, Prices.LOG_0)
log_1(m, data, name, param1) == log(m, data, <<name, param1>>, Prices.LOG_1)
log_2(m, data, name, param1, param2) == log(m, data, <<name, param1, param2>>, Prices.LOG_2)

-----------------------------------------------------------------------------
(* context_free_system_api                                                 *)

abort(m) == Throw("wasm_runtime_exception", m)

ftl_assert(m, condition, msg) ==
    invoke(m, <<msg>>, LAMBDA m1 :
        use_gas(m1, Prices.CALL_BASE, LAMBDA c :
            IF condition = 0 THEN Throw("wasm_runtime_exception", c) ELSE Return(c, 0, {})))

ftl_assert_message(m, condition, msg) ==
    invoke(m, <<msg>>, LAMBDA m1 :
        use_gas(m1, Prices.CALL_BASE, LAMBDA c :
            IF condition # 0 THEN Return(c, 0, {})
            ELSE {Outcome("wasm_runtime_exception", c, 0,
                          Span(U32(msg.p), IF msg.n > max_assert_message THEN max_assert_message
                                           ELSE msg.n))}))

ftl_assert_code(m, condition) ==
    use_gas(m, Prices.CALL_BASE, LAMBDA c :
        IF condition = 0 THEN Throw("wasm_runtime_exception", c) ELSE Return(c, 0, {}))

ftl_exit(m) == use_gas(m, Prices.CALL_BASE, LAMBDA c : Throw("exit", c))

-----------------------------------------------------------------------------
(* action_api.  use_gas is the injected intrinsic of the same name.        *)

injected_use_gas(m, amount) == use_gas(m, amount, LAMBDA c : Return(c, 0, {}))

(* The whole of the data is charged for, and as much of it copied as fits. *)
read_action_data(m, memory) ==
    invoke(m, <<memory>>, LAMBDA m1 :
        use_gas(m1, Prices.CALL_BASE, LAMBDA c :
            IF memory.n = 0 THEN Return(c, Len(ActionData), {})
            ELSE use_gas(c, Len(ActionData) * Prices.MEMOP_BYTE, LAMBDA d :
                LET copy_size == Min({memory.n, Len(ActionData)})
                IN  Return([d EXCEPT !.mem = Write(@, U32(memory.p), SubSeq(ActionData, 1, copy_size))],
                           copy_size, Span(U32(memory.p), copy_size)))))

action_data_size(m) == use_gas(m, Prices.CALL_BASE, LAMBDA c : Return(c, Len(ActionData), {}))

(* get_from, get_to, get_owner, get_user                                   *)
get_address(m, which, address) ==
    invoke(m, <<address>>, LAMBDA m1 :
        use_gas(m1, Prices.CALL_BASE + AddressSize * Prices.MEMOP_BYTE, LAMBDA c :
            LET len == IF address.n >= AddressSize THEN AddressSize ELSE address.n
            IN  Return([c EXCEPT !.mem = Write(@, U32(address.p), SubSeq(Addresses[which], 1, len))],
                       0, Span(U32(address.p), len))))

(* Fault: the embedder moves the amount before the address is looked at.   *)
transferFault(m, address, amount) ==
    invoke(m, <<address>>, LAMBDA m1 :
        use_gas(m1, Prices.TRANSFER, LAMBDA c :
            LET t == Callback(c, "transfer", <<amount>>, <<At(c, address)>>)
            IN  IF address.n # AddressSize THEN Throw("invalid_address_exception", t)
                ELSE Return(t, 0, Spans(address))))

transfer(m, address, amount) ==
    invoke(m, <<address>>, LAMBDA m1 :
        use_gas(m1, Prices.TRANSFER, LAMBDA c :
            IF address.n # AddressSize THEN Throw("invalid_address_exception", c)
            ELSE Return(Callback(c, "transfer", <<amount>>, <<At(c, address)>>), 0, Spans(address))))

get_amount(m) == use_gas(m, Prices.CALL_BASE, LAMBDA c : Return(c, 1, {}))

(* call_action; what a nested execution does with the running context is   *)
(* the subject of Execution.                                               *)
call_action(m, address, action, amount) ==
    invoke(m, <<address, action>>, LAMBDA m1 :
        use_gas(m1, Prices.CALL_BASE, LAMBDA c :
            IF address.n # AddressSize THEN Throw("invalid_address_exception", c)
            ELSE UNION {Return(Callback(c, "call_action", <<amount>>, <<At(c, address), At(c, action)>>),
                               a, Spans(address) \cup Spans(action)) : a \in Answers}))

call_result(m, result) ==
    invoke(m, <<result>>, LAMBDA m1 :
        use_gas(m1, Prices.CALL_BASE, LAMBDA c :
            UNION {Return(Callback(f, "call_result", <<>>, <<>>), a, Spans(result)) :
                       f \in Filled(c, result), a \in Answers}))

set_result(m, result) ==
    invoke(m, <<result>>, LAMBDA m1 :
        use_gas(m1, Prices.CALL_BASE, LAMBDA c :
            UNION {Return(Callback(c, "set_result", <<>>, <<At(c, result)>>), a, Spans(result)) :
                       a \in Answers}))

-----------------------------------------------------------------------------
(* console_api charges nothing.                                            *)

prints(m, str) ==
    invoke(m, <<str>>, LAMBDA c :
        LET end == Min({a \in DOMAIN c.mem : a >= U32(str.p) /\ c.mem[a] = 0})
        IN  Return(console_append(c, BytesAt(c.mem, U32(str.p), end - U32(str.p))), 0, {}))

prints_l(m, str) ==
    invoke(m, <<str>>, LAMBDA c : Return(console_append(c, At(c, str)), 0, Spans(str)))

(* printi, printui, printsf, printdf: a value, in digits.                  *)
printValue(m, val) == Return(console_append(m, <<val>>), 0, {})

printqf(m, val) ==
    invoke(m, <<val>>, LAMBDA c : Return(console_append(c, At(c, val)), 0, Spans(val)))

printhex(m, data) == invoke(m, <<data>>, LAMBDA c : Return(c, 0, {}))

-----------------------------------------------------------------------------
(* memory_api.  A result of type char * is turned back into an address.    *)

convert_native_to_wasm(m, p, touched) ==
    IF p \in DOMAIN m.mem THEN Return(m, p, touched) ELSE Throw("accessViolation", m)

MemoryPrice(n) == Prices.CALL_BASE + Prices.MEMOP_BYTE * n

(* ::memcpy, from all the bytes before it or byte by byte upwards: the two *)
(* agree unless the blocks overlap, when the language leaves the result    *)
(* open.                                                                   *)
Copied(mem, p, q, n) ==
    LET copied[k \in 0..n] ==
            IF k = 0 THEN mem
            ELSE Write(copied[k - 1], p + k - 1, <<ByteAt(copied[k - 1], q + k - 1)>>)
    IN  {Write(mem, p, BytesAt(mem, q, n)), copied[n]}

(* The assertion on the distance of the pointers, abs(dest - src) >= n.    *)
alias(p, q, n) == (IF p >= q THEN p - q ELSE q - p) < n

memcpy(m, x) ==
    invoke(m, <<x>>, LAMBDA m1 :
        use_gas(m1, MemoryPrice(x.n), LAMBDA c :
            IF alias(U32(x.p), U32(x.q), x.n) THEN Throw("overlapping_memory_error", c)
            ELSE UNION {convert_native_to_wasm([c EXCEPT !.mem = b], U32(x.p),
                                               Span(U32(x.p), x.n) \cup Span(U32(x.q), x.n)) :
                            b \in Copied(c.mem, U32(x.p), U32(x.q), x.n)}))

memmove(m, x) ==
    invoke(m, <<x>>, LAMBDA m1 :
        use_gas(m1, MemoryPrice(x.n), LAMBDA c :
            convert_native_to_wasm([c EXCEPT !.mem = Write(@, U32(x.p), BytesAt(@, U32(x.q), x.n))],
                                   U32(x.p), Span(U32(x.p), x.n) \cup Span(U32(x.q), x.n))))

(* The sign of the first difference.                                       *)
memcmp(m, x) ==
    invoke(m, <<x>>, LAMBDA m1 :
        use_gas(m1, MemoryPrice(x.n), LAMBDA c :
            LET differ == {k \in 0..(x.n - 1) : ByteAt(c.mem, U32(x.p) + k) # ByteAt(c.mem, U32(x.q) + k)}
                ret == IF differ = {} THEN 0
                       ELSE IF ByteAt(c.mem, U32(x.p) + Min(differ)) < ByteAt(c.mem, U32(x.q) + Min(differ))
                            THEN -1 ELSE 1
            IN  Return(c, ret, Span(U32(x.p), x.n) \cup Span(U32(x.q), x.n))))

memset(m, dest, value) ==
    invoke(m, <<dest>>, LAMBDA m1 :
        use_gas(m1, MemoryPrice(dest.n), LAMBDA c :
            convert_native_to_wasm(
                [c EXCEPT !.mem = Write(@, U32(dest.p), [k \in 1..dest.n |-> value])],
                U32(dest.p), Spans(dest))))

-----------------------------------------------------------------------------
(* compiler_builtins with a result by reference.  A misaligned reference   *)
(* is a copy that is written back after the method has returned.           *)

builtin(m, ret, bytes) ==
    invoke(m, <<ret>>, LAMBDA m1 :
        use_gas(m1, Prices.CALL_BASE, LAMBDA c :
            Return([c EXCEPT !.mem = Write(@, U32(ret.p), bytes)], 0, Spans(ret))))

(* __divti3, __udivti3, __modti3, __umodti3                                *)
division(m, ret, divisor, bytes) ==
    invoke(m, <<ret>>, LAMBDA m1 :
        use_gas(m1, Prices.CALL_BASE, LAMBDA c :
            IF divisor = 0 THEN Throw("arithmetic_exception", c)
            ELSE Return([c EXCEPT !.mem = Write(@, U32(ret.p), bytes)], 0, Spans(ret))))

-----------------------------------------------------------------------------
(***************************************************************************)
(* name.hpp and name.cpp: the names of accounts and actions.  A name is a  *)
(* number that is written with NameLength characters, the first in the     *)
(* highest bits.  A slot holds one of Symbols characters, the last one of  *)
(* LastSymbols (13, 32 and 16 in the code, whose masks are 0x1f and 0x0f). *)
(* A character is its position in charmap, "." being 0; -1 stands for the  *)
(* characters that charmap does not have.                                  *)
(***************************************************************************)
CONSTANTS NameLength, Symbols, LastSymbols
ASSUME NamesAssumption == {NameLength, Symbols, LastSymbols} \subseteq Nat \ {0}

Slots == NameLength - 1             \* the characters of the full width
power[n \in 0..Slots] == IF n = 0 THEN 1 ELSE Symbols * power[n - 1]

char_to_symbol(c) == IF c < 0 THEN 0 ELSE c

(* The value of one character's slot, 1 being the first character, and the *)
(* number of values it can have: a shift and a mask.                       *)
Shift(k) == IF k > Slots THEN 1 ELSE LastSymbols * power[Slots - k]
Mask(k) == IF k > Slots THEN LastSymbols ELSE Symbols
NameValues == 0..(Mask(1) * Shift(1) - 1)

(* string_to_name reads NameLength characters, and no further.             *)
string_to_name(str) ==
    LET read[k \in 0..Min({Len(str), NameLength})] ==
            IF k = 0 THEN 0 ELSE read[k - 1] + (char_to_symbol(str[k]) % Mask(k)) * Shift(k)
    IN  read[Min({Len(str), NameLength})]

(* Fault: the last character is shifted out with the width of the others. *)
symbolFault(value, k) == (value \div Symbols^(NameLength - k)) % Mask(k)

(* The character of a slot.                                                *)
symbol(value, k) == (value \div Shift(k)) % Mask(k)

(* operator string: every slot, without the dots at the end.               *)
to_string(value) ==
    LET str == [k \in 1..NameLength |-> symbol(value, k)]
        used == {k \in 1..NameLength : str[k] # 0}
    IN  SubSeq(str, 1, IF used = {} THEN 0 ELSE Max(used))

(* name::set: the value, or nothing when it throws.                        *)
set(str) ==
    {v \in {string_to_name(str)} : Len(str) <= NameLength /\ to_string(v) = str}

-----------------------------------------------------------------------------
(* Registration and linking: the intrinsics a contract can import and how  *)
(* its imports are bound to them, that is the registrations at the end of  *)
(* wasm_interface.cpp, the map of Intrinsics.cpp, which is keyed by name   *)
(* and type together, the resolvers and linkModule.  An intrinsic is the   *)
(* record of its module, its name and its type; no table, memory or global *)
(* is registered in this program.                                          *)

Injected == "eosio_injection"       \* EOSIO_INJECTED_MODULE_NAME

Type(ret, params) == [ret |-> ret, params |-> params]
In(mod, names, ret, params) ==
    {[mod |-> mod, name |-> n, type |-> Type(ret, params)] : n \in names}

i32 == <<"i32">>
i64 == <<"i64">>
f32 == <<"f32">>
f64 == <<"f64">>
wide == i64 \o i64                  \* a 128-bit operand, low half first

(* REGISTER_INTRINSICS, class by class.                                    *)
database_api ==
    In("env", {"db_store"}, "none", i64 \o i32 \o i32 \o i32 \o i32) \cup
    In("env", {"db_load"}, "i32", i64 \o i32 \o i32 \o i32 \o i32) \cup
    In("env", {"db_has_key"}, "i32", i64 \o i32 \o i32) \cup
    In("env", {"db_remove_key"}, "none", i64 \o i32 \o i32) \cup
    In("env", {"db_has_table"}, "i32", i64) \cup
    In("env", {"db_remove_table"}, "none", i64)

crypto_api ==
    In("env", {"assert_recover_key"}, "none", i32 \o i32 \o i32 \o i32 \o i32) \cup
    In("env", {"recover_key"}, "i32", i32 \o i32 \o i32 \o i32 \o i32) \cup
    In("env", {"assert_sha256", "sha256"}, "none", i32 \o i32 \o i32)

system_api ==
    In("env", {"current_time", "current_height"}, "i64", <<>>) \cup
    In("env", {"current_hash"}, "none", i32 \o i32) \cup
    In("env", {"log_0"}, "none", i32 \o i32 \o i32) \cup
    In("env", {"log_1"}, "none", i32 \o i32 \o i32 \o i32) \cup
    In("env", {"log_2"}, "none", i32 \o i32 \o i32 \o i32 \o i32)

context_free_system_api ==
    In("env", {"abort"}, "none", <<>>) \cup
    In("env", {"ftl_assert"}, "none", i32 \o i32) \cup
    In("env", {"ftl_assert_message"}, "none", i32 \o i32 \o i32) \cup
    In("env", {"ftl_assert_code"}, "none", i32 \o i64) \cup
    In("env", {"ftl_exit"}, "none", i32)

action_api ==
    In(Injected, {"use_gas"}, "none", i64) \cup
    In("env", {"read_action_data", "call_result", "set_result"}, "i32", i32 \o i32) \cup
    In("env", {"action_data_size"}, "i32", <<>>) \cup
    In("env", {"get_from", "get_to", "get_owner", "get_user"}, "none", i32 \o i32) \cup
    In("env", {"transfer"}, "none", i32 \o i32 \o i64) \cup
    In("env", {"get_amount"}, "i64", <<>>) \cup
    In("env", {"call_action"}, "i32", i32 \o i32 \o i32 \o i32 \o i64 \o i32 \o i32)

console_api ==
    In("env", {"prints", "printqf"}, "none", i32) \cup
    In("env", {"prints_l", "printhex"}, "none", i32 \o i32) \cup
    In("env", {"printi", "printui", "printn"}, "none", i64) \cup
    In("env", {"printsf"}, "none", f32) \cup
    In("env", {"printdf"}, "none", f64)

memory_api == In("env", {"memcpy", "memmove", "memcmp", "memset"}, "i32", i32 \o i32 \o i32)

compiler_builtins ==
    In("env", {"__ashlti3", "__ashrti3", "__lshlti3", "__lshrti3"}, "none", i32 \o wide \o i32) \cup
    In("env", {"__divti3", "__udivti3", "__modti3", "__umodti3", "__multi3",
               "__addtf3", "__subtf3", "__multf3", "__divtf3"}, "none", i32 \o wide \o wide) \cup
    In("env", {"__eqtf2", "__netf2", "__getf2", "__gttf2", "__lttf2", "__letf2",
               "__cmptf2", "__unordtf2"}, "i32", wide \o wide) \cup
    In("env", {"__negtf2", "__fixtfti", "__fixunstfti"}, "none", i32 \o wide) \cup
    In("env", {"__floatsitf", "__floatunsitf"}, "none", i32 \o i32) \cup
    In("env", {"__floatditf", "__floatunditf"}, "none", i32 \o i64) \cup
    In("env", {"__floattidf", "__floatuntidf", "__trunctfdf2"}, "f64", wide) \cup
    In("env", {"__floatsidf"}, "f64", i32) \cup
    In("env", {"__extendsftf2", "__fixsfti", "__fixunssfti"}, "none", i32 \o f32) \cup
    In("env", {"__extenddftf2", "__fixdfti", "__fixunsdfti"}, "none", i32 \o f64) \cup
    In("env", {"__fixtfdi", "__fixunstfdi"}, "i64", wide) \cup
    In("env", {"__fixtfsi", "__fixunstfsi"}, "i32", wide) \cup
    In("env", {"__trunctfsf2"}, "f32", wide)

softfloat_api ==
    In(Injected, {"_eosio_f32_add", "_eosio_f32_sub", "_eosio_f32_mul", "_eosio_f32_div",
                  "_eosio_f32_min", "_eosio_f32_max", "_eosio_f32_copysign"}, "f32", f32 \o f32) \cup
    In(Injected, {"_eosio_f32_abs", "_eosio_f32_neg", "_eosio_f32_sqrt", "_eosio_f32_ceil",
                  "_eosio_f32_floor", "_eosio_f32_trunc", "_eosio_f32_nearest"}, "f32", f32) \cup
    In(Injected, {"_eosio_f32_eq", "_eosio_f32_ne", "_eosio_f32_lt", "_eosio_f32_le",
                  "_eosio_f32_gt", "_eosio_f32_ge"}, "i32", f32 \o f32) \cup
    In(Injected, {"_eosio_f64_add", "_eosio_f64_sub", "_eosio_f64_mul", "_eosio_f64_div",
                  "_eosio_f64_min", "_eosio_f64_max", "_eosio_f64_copysign"}, "f64", f64 \o f64) \cup
    In(Injected, {"_eosio_f64_abs", "_eosio_f64_neg", "_eosio_f64_sqrt", "_eosio_f64_ceil",
                  "_eosio_f64_floor", "_eosio_f64_trunc", "_eosio_f64_nearest"}, "f64", f64) \cup
    In(Injected, {"_eosio_f64_eq", "_eosio_f64_ne", "_eosio_f64_lt", "_eosio_f64_le",
                  "_eosio_f64_gt", "_eosio_f64_ge"}, "i32", f64 \o f64) \cup
    In(Injected, {"_eosio_f32_promote"}, "f64", f32) \cup
    In(Injected, {"_eosio_f64_demote"}, "f32", f64) \cup
    In(Injected, {"_eosio_f32_trunc_i32s", "_eosio_f32_trunc_i32u"}, "i32", f32) \cup
    In(Injected, {"_eosio_f64_trunc_i32s", "_eosio_f64_trunc_i32u"}, "i32", f64) \cup
    In(Injected, {"_eosio_f32_trunc_i64s", "_eosio_f32_trunc_i64u"}, "i64", f32) \cup
    In(Injected, {"_eosio_f64_trunc_i64s", "_eosio_f64_trunc_i64u"}, "i64", f64) \cup
    In(Injected, {"_eosio_i32_to_f32", "_eosio_ui32_to_f32"}, "f32", i32) \cup
    In(Injected, {"_eosio_i64_to_f32", "_eosio_ui64_to_f32"}, "f32", i64) \cup
    In(Injected, {"_eosio_i32_to_f64", "_eosio_ui32_to_f64"}, "f64", i32) \cup
    In(Injected, {"_eosio_i64_to_f64", "_eosio_ui64_to_f64"}, "f64", i64)

(* functionMap                                                             *)
functionMap ==
    database_api \cup crypto_api \cup system_api \cup context_free_system_api \cup action_api
    \cup console_api \cup memory_api \cup compiler_builtins \cup softfloat_api

-----------------------------------------------------------------------------
(* Binding.  An import is [kind, mod, name, type].                         *)

(* Intrinsics::find: the set of what is found, at most one object.         *)
find(i) ==
    IF i.kind = "function"
    THEN {f \in functionMap : f = [mod |-> i.mod, name |-> i.name, type |-> i.type]}
    ELSE {}

(* IntrinsicResolver::resolve                                              *)
intrinsic(i) == IF i.mod = "wavmIntrinsics" THEN {} ELSE find(i)

(* root_resolver::resolve, which throws for what it does not return.       *)
resolve(i, validating) == IF validating /\ i.mod # "env" THEN {} ELSE intrinsic(i)

(* linkModule: every import is bound, to an object of its type, or an      *)
(* exception escapes.                                                      *)
linkModule(imports, validating) == \A i \in imports : resolve(i, validating) # {}

-----------------------------------------------------------------------------
(* The imports that the injectors of wasm_injection.hpp ask for: operator, *)
(* name and type.                                                          *)

Inj(op, name, ret, params) ==
    [op |-> op, import |-> [kind |-> "function", mod |-> Injected, name |-> name,
                            type |-> Type(ret, params)]]

(* inject_which_op for the operators a class of injectors stands for.      *)
which(ops, ret, params) == {Inj(o[1], o[2], ret, params) : o \in ops}

Arithmetic ==
    which({<<"f32_add", "_eosio_f32_add">>, <<"f32_sub", "_eosio_f32_sub">>,
           <<"f32_mul", "_eosio_f32_mul">>, <<"f32_div", "_eosio_f32_div">>,
           <<"f32_min", "_eosio_f32_min">>, <<"f32_max", "_eosio_f32_max">>,
           <<"f32_copysign", "_eosio_f32_copysign">>}, "f32", f32 \o f32) \cup
    which({<<"f32_abs", "_eosio_f32_abs">>, <<"f32_neg", "_eosio_f32_neg">>,
           <<"f32_sqrt", "_eosio_f32_sqrt">>, <<"f32_floor", "_eosio_f32_floor">>,
           <<"f32_ceil", "_eosio_f32_ceil">>, <<"f32_trunc", "_eosio_f32_trunc">>,
           <<"f32_nearest", "_eosio_f32_nearest">>}, "f32", f32) \cup
    which({<<"f64_add", "_eosio_f64_add">>, <<"f64_sub", "_eosio_f64_sub">>,
           <<"f64_mul", "_eosio_f64_mul">>, <<"f64_div", "_eosio_f64_div">>,
           <<"f64_min", "_eosio_f64_min">>, <<"f64_max", "_eosio_f64_max">>,
           <<"f64_copysign", "_eosio_f64_copysign">>}, "f64", f64 \o f64) \cup
    which({<<"f64_abs", "_eosio_f64_abs">>, <<"f64_neg", "_eosio_f64_neg">>,
           <<"f64_sqrt", "_eosio_f64_sqrt">>, <<"f64_floor", "_eosio_f64_floor">>,
           <<"f64_ceil", "_eosio_f64_ceil">>, <<"f64_trunc", "_eosio_f64_trunc">>,
           <<"f64_nearest", "_eosio_f64_nearest">>}, "f64", f64)

Comparison ==
    which({<<"f32_eq", "_eosio_f32_eq">>, <<"f32_ne", "_eosio_f32_ne">>,
           <<"f32_lt", "_eosio_f32_lt">>, <<"f32_le", "_eosio_f32_le">>,
           <<"f32_gt", "_eosio_f32_gt">>, <<"f32_ge", "_eosio_f32_ge">>}, "i32", f32 \o f32) \cup
    which({<<"f64_eq", "_eosio_f64_eq">>, <<"f64_ne", "_eosio_f64_ne">>,
           <<"f64_lt", "_eosio_f64_lt">>, <<"f64_le", "_eosio_f64_le">>,
           <<"f64_gt", "_eosio_f64_gt">>, <<"f64_ge", "_eosio_f64_ge">>}, "i32", f64 \o f64)

Truncation ==
    which({<<"f64_promote_f32", "_eosio_f32_promote">>}, "f64", f32) \cup
    which({<<"f32_demote_f64", "_eosio_f64_demote">>}, "f32", f64) \cup
    which({<<"i32_trunc_s_f32", "_eosio_f32_trunc_i32s">>,
           <<"i32_trunc_u_f32", "_eosio_f32_trunc_i32u">>}, "i32", f32) \cup
    which({<<"i32_trunc_s_f64", "_eosio_f64_trunc_i32s">>,
           <<"i32_trunc_u_f64", "_eosio_f64_trunc_i32u">>}, "i32", f64) \cup
    which({<<"i64_trunc_s_f32", "_eosio_f32_trunc_i64s">>,
           <<"i64_trunc_u_f32", "_eosio_f32_trunc_i64u">>}, "i64", f32) \cup
    which({<<"i64_trunc_s_f64", "_eosio_f64_trunc_i64s">>,
           <<"i64_trunc_u_f64", "_eosio_f64_trunc_i64u">>}, "i64", f64)

(* Conversions of integers have injectors too, but pre_op_injectors names  *)
(* them without the suffix _t of the type it would have to replace, so the *)
(* decoder never finds them; "_eosio_i64_f32" is not a registered name.    *)
Conversion ==
    which({<<"f32_convert_s_i32", "_eosio_i32_to_f32">>,
           <<"f32_convert_u_i32", "_eosio_ui32_to_f32">>}, "f32", i32) \cup
    which({<<"f32_convert_s_i64", "_eosio_i64_f32">>,
           <<"f32_convert_u_i64", "_eosio_ui64_to_f32">>}, "f32", i64) \cup
    which({<<"f64_convert_s_i32", "_eosio_i32_to_f64">>,
           <<"f64_convert_u_i32", "_eosio_ui32_to_f64">>}, "f64", i32) \cup
    which({<<"f64_convert_s_i64", "_eosio_i64_to_f64">>,
           <<"f64_convert_u_i64", "_eosio_ui64_to_f64">>}, "f64", i64)

(* pre_op_injectors, as the decoder's table of operators sees it.          *)
pre_op_injectors == Arithmetic \cup Comparison \cup Truncation

(* use_gas, which inject() asks for first.                                 *)
UseGas == [kind |-> "function", mod |-> Injected, name |-> "use_gas", type |-> Type("none", i64)]

(* The injectors that the decoder's table of operators dispatches to.      *)
dispatched(ops) == {j \in pre_op_injectors : j.op \in ops}

(* The imports of a module after inject(): the injected ones in front.     *)
(* Operators of its code that are asked for twice are imported once.       *)
injectedImports(ops) == {UseGas} \cup {j.import : j \in dispatched(ops)}
=============================================================================
