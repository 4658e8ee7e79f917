------------------------------- MODULE CodeRun -------------------------------
(* What the emitted IR computes, and what WebAssembly says the body computes.  The first     *)
(* follows the LLVM operations the emitter chooses, including those that are undefined for   *)
(* some operands; the second interprets the operators on an operand stack.  Words are        *)
(* narrow: a byte has ByteBits bits, i32 has four bytes and i64 eight.  Floats are opaque     *)
(* words here: every float operator is the same function of its operands on both sides.       *)
EXTENDS Integers, Sequences, SequencesExt, FiniteSetsExt, Operators

CONSTANTS Types, Functions, Globals, Signature, Locals,
          Table,        \* for each element the type index of its function, -1 where it is null
          ByteBits,     \* 8
          MemorySize,   \* bytes of the memory
          Fuel          \* steps after which a run is given up as endless

W == INSTANCE WasmCode

Width(type)   == ByteBits * (IF type \in {"i32", "f32"} THEN 4 ELSE 8)
Modulus(type) == 2^Width(type)
Signed(w, a)  == IF a >= 2^(w - 1) THEN a - 2^w ELSE a
Truth(b)      == IF b THEN 1 ELSE 0
Bit(a, k)     == (a \div 2^k) % 2
FromBits(w, P(_)) == MapThenSumSet(LAMBDA k : 2^k, {k \in 0..w - 1 : P(k)})
And(w, a, b)  == FromBits(w, LAMBDA k : Bit(a, k) = 1 /\ Bit(b, k) = 1)
Or(w, a, b)   == FromBits(w, LAMBDA k : Bit(a, k) = 1 \/ Bit(b, k) = 1)
Xor(w, a, b)  == FromBits(w, LAMBDA k : Bit(a, k) # Bit(b, k))
Minimum(w)    == 2^(w - 1)
MinusOne(w)   == 2^w - 1
Quotient(a, b) ==          \* truncated
    LET q == (IF a < 0 THEN -a ELSE a) \div (IF b < 0 THEN -b ELSE b) IN IF (a < 0) = (b < 0) THEN q ELSE -q

(* A value LLVM leaves undefined.                                                         *)
Poison == -1

-----------------------------------------------------------------------------
(* The LLVM instructions, and the operators as the emitter composes them                   *)

CreateShl(w, a, n)  == IF n \in 0..w - 1 THEN (a * 2^n) % 2^w ELSE Poison
CreateLShr(w, a, n) == IF n \in 0..w - 1 THEN a \div 2^n ELSE Poison
CreateAShr(w, a, n) == IF n \in 0..w - 1 THEN (Signed(w, a) \div 2^n) % 2^w ELSE Poison
CreateSDiv(w, a, b) == IF b = 0 \/ (a = Minimum(w) /\ b = MinusOne(w)) THEN Poison
                       ELSE Quotient(Signed(w, a), Signed(w, b)) % 2^w
CreateSRem(w, a, b) == IF b = 0 \/ (a = Minimum(w) /\ b = MinusOne(w)) THEN Poison
                       ELSE (Signed(w, a) - Signed(w, b) * Quotient(Signed(w, a), Signed(w, b))) % 2^w

emitShiftCountMask(w, n) == And(w, n, w - 1)
emitRotl(w, a, b) == Or(w, CreateShl(w, a, emitShiftCountMask(w, b)),
                           CreateLShr(w, a, emitShiftCountMask(w, (w - b) % 2^w)))
emitRotr(w, a, b) == Or(w, CreateShl(w, a, emitShiftCountMask(w, (w - b) % 2^w)),
                           CreateLShr(w, a, emitShiftCountMask(w, b)))

Opaque(type, args) == (1 + FoldLeft(LAMBDA x, y : x + y, 0, args)) % Modulus(type)

ICmp(name, w, a, b) ==
    CASE name = "eq" -> a = b   [] name = "ne" -> a # b
      [] name = "lt_u" -> a < b [] name = "le_u" -> a <= b [] name = "gt_u" -> a > b [] name = "ge_u" -> a >= b
      [] name = "lt_s" -> Signed(w, a) < Signed(w, b)   [] name = "le_s" -> Signed(w, a) <= Signed(w, b)
      [] name = "gt_s" -> Signed(w, a) > Signed(w, b)   [] name = "ge_s" -> Signed(w, a) >= Signed(w, b)

emitBinary(i, a, b) ==
    LET w == Width(i.of) IN
    CASE i \in Comparisons -> Truth(ICmp(i.name, w, a, b))
      [] i.name = "add" /\ i.of \in IntTypes -> (a + b) % 2^w
      [] i.name = "sub" /\ i.of \in IntTypes -> (a - b) % 2^w
      [] i.name = "mul" /\ i.of \in IntTypes -> (a * b) % 2^w
      [] i.name = "and" -> And(w, a, b)  [] i.name = "or" -> Or(w, a, b)  [] i.name = "xor" -> Xor(w, a, b)
      [] i.name = "shl"   -> CreateShl(w, a, emitShiftCountMask(w, b))
      [] i.name = "shr_s" -> CreateAShr(w, a, emitShiftCountMask(w, b))
      [] i.name = "shr_u" -> CreateLShr(w, a, emitShiftCountMask(w, b))
      [] i.name = "rotl"  -> emitRotl(w, a, b)   [] i.name = "rotr" -> emitRotr(w, a, b)
      [] i.name = "div_s" -> CreateSDiv(w, a, b) [] i.name = "rem_s" -> CreateSRem(w, a, b)
      [] i.name = "div_u" -> IF b = 0 THEN Poison ELSE a \div b
      [] i.name = "rem_u" -> IF b = 0 THEN Poison ELSE a % b
      [] i.of \in FloatTypes -> Opaque(i.type, <<a, b>>)

Zeros(w, a, K(_)) == CHOOSE n \in 0..w : /\ n = w \/ Bit(a, K(n)) = 1
                                         /\ \A m \in 0..n - 1 : Bit(a, K(m)) = 0
emitUnary(i, a) ==
    LET w == Width(i.of) IN
    CASE i.name = "clz" -> Zeros(w, a, LAMBDA n : w - 1 - n)
      [] i.name = "ctz" -> Zeros(w, a, LAMBDA n : n)
      [] i.name = "popcnt" -> Cardinality({k \in 0..w - 1 : Bit(a, k) = 1})
      [] i.name = "eqz" -> Truth(a = 0)
      [] i.name = "wrap" -> a % Modulus("i32")
      [] i.name = "extend_u" -> a
      [] i.name = "extend_s" -> Signed(w, a) % Modulus("i64")
      [] i \in FloatConversions \cup FloatArithmetic -> Opaque(i.type, <<a>>)

-----------------------------------------------------------------------------
(* The memory: bytes, least significant first                                              *)

Read(memory, at, n)  == FoldLeft(LAMBDA x, k : x + memory[at + k] * 2^(ByteBits * k), 0, [k \in 1..n |-> k - 1])
Write(memory, at, n, value) ==
    [b \in DOMAIN memory |-> IF b \in at..at + n - 1 THEN (value \div 2^(ByteBits * (b - at))) % 2^ByteBits ELSE memory[b]]

(* coerceByteIndexToPointer: the index is extended to 64 bits before the offset is added,    *)
(* so the sum does not wrap and what is out of range meets the guard pages.                 *)
pointer(i, byteIndex) == byteIndex + i.n

Accessible(i, byteIndex) == pointer(i, byteIndex) + Bytes(i) <= MemorySize
conversionOp(i, value) ==
    IF i.name \in {"load8_s", "load16_s", "load32_s"} THEN Signed(ByteBits * Bytes(i), value) % Modulus(i.type) ELSE value

(* What a called function, or the runtime, answers; calls are observable.                   *)
Answer(type, args) == IF type = "none" THEN 0 ELSE Opaque(type, args)

-----------------------------------------------------------------------------
(* Running the IR: block by block                                                          *)

Machine(args) == [at |-> 2, from |-> 0, env |-> <<>>, args |-> args,
                  locals |-> [k \in 1..Len(Signature.params \o Locals) |-> Poison],
                  globals |-> [k \in 1..Len(Globals) |-> 0], memory |-> [b \in 0..MemorySize - 1 |-> b % 2^ByteBits],
                  calls |-> <<>>, outcome |-> "running", value |-> 0]

bind(s, kind, n, value) ==
    LET key == <<kind, n>>
    IN  [s EXCEPT !.env = [k \in DOMAIN @ \cup {key} |-> IF k = key THEN value ELSE @[k]]]
valueOf(s, v) == CASE v.kind = "const" -> v.n % Modulus(v.type)
                   [] v.kind = "arg" -> s.args[v.n]
                   [] v.kind \in {"inst", "phi"} ->
                          IF <<v.kind, v.n>> \in DOMAIN s.env THEN s.env[<<v.kind, v.n>>] ELSE Poison
stop(s, outcome, value) == [s EXCEPT !.outcome = outcome, !.value = value]

runInstr(s, c) ==
    LET a == [k \in 1..Len(c.args) |-> valueOf(s, c.args[k])]
        i == c.op
    IN  CASE s.outcome # "running" -> s
          [] s.outcome = "running" /\ Poison \in Range(a) -> stop(s, "undefined", 0)
          [] s.outcome = "running" /\ Poison \notin Range(a) ->
             CASE i.op = "select" -> bind(s, "inst", c.id, IF a[3] # 0 THEN a[1] ELSE a[2])
               [] i.op = "get_local" -> bind(s, "inst", c.id, s.locals[i.n + 1])
               [] i.op = "set_local" -> [s EXCEPT !.locals[i.n + 1] = a[1]]
               [] i.op = "get_global" -> bind(s, "inst", c.id, s.globals[i.n + 1])
               [] i.op = "set_global" -> [s EXCEPT !.globals[i.n + 1] = a[1]]
               [] i.op \in {"call", "call_indirect", "current_memory", "grow_memory"} ->
                      bind([s EXCEPT !.calls = Append(@, <<i, a>>)], "inst", c.id, Answer(c.type, a))
               [] i.op = "unary" -> bind(s, "inst", c.id, emitUnary(i, a[1]))
               [] i.op = "binary" -> bind(s, "inst", c.id, emitBinary(i, a[1], a[2]))
               [] i.op = "load" ->
                      IF Accessible(i, a[1])
                      THEN bind(s, "inst", c.id, conversionOp(i, Read(s.memory, pointer(i, a[1]), Bytes(i))))
                      ELSE stop(s, "access", 0)
               [] i.op = "store" ->
                      IF Accessible(i, a[1])
                      THEN [s EXCEPT !.memory = Write(@, pointer(i, a[1]), Bytes(i), a[2])]
                      ELSE stop(s, "access", 0)

goto(s, b) == [s EXCEPT !.from = s.at, !.at = b]
Overflows(w, a, b) == a = Minimum(w) /\ b = MinusOne(w)

(* When a conditional trap fires.                                                          *)
fires(s, args) ==
    LET cause == args[1]
        w     == Width(args[2].type)
        a     == valueOf(s, args[2])
    IN  CASE cause = "zero" -> valueOf(s, args[3]) = 0
          [] cause = "zeroOrOverflow" -> valueOf(s, args[3]) = 0 \/ Overflows(w, a, valueOf(s, args[3]))
          [] cause = "index" -> a >= Len(Table)
          [] cause = "signature" -> Table[a + 1] = -1 \/ Types[Table[a + 1] + 1] # Types[args[3] + 1]

runTerm(s, t) ==
    CASE s.outcome # "running" -> s
      [] s.outcome = "running" /\ t.op = "br" -> goto(s, t.to[1])
      [] s.outcome = "running" /\ t.op = "trap" -> stop(s, t.args[1], 0)
      [] s.outcome = "running" /\ t.op = "trapif" -> goto(s, IF fires(s, t.args) THEN t.to[1] ELSE t.to[2])
      [] s.outcome = "running" /\ t.op = "overflowif" ->
             goto(s, IF Overflows(Width(t.args[1].type), valueOf(s, t.args[1]), valueOf(s, t.args[2]))
                     THEN t.to[1] ELSE t.to[2])
      [] s.outcome = "running" /\ t.op \in {"condbr", "switch", "ret"} ->
             IF t.args # <<>> /\ valueOf(s, t.args[1]) = Poison THEN stop(s, "undefined", 0)
             ELSE LET v == IF t.args = <<>> THEN 0 ELSE valueOf(s, t.args[1]) IN
                  CASE t.op = "condbr" -> goto(s, IF v # 0 THEN t.to[1] ELSE t.to[2])
                    [] t.op = "switch" -> goto(s, t.to[IF v < Len(t.to) THEN v + 1 ELSE Len(t.to)])
                    [] t.op = "ret"    -> stop(s, "return", v)

runBlock(s, blocks) ==
    LET b   == blocks[s.at]
        in  == SelectSeq(b.in, LAMBDA x : x.from = s.from)
        phi == IF b.phi = "none" THEN s
               ELSE bind(s, "phi", s.at, IF in = <<>> THEN Poison ELSE valueOf(s, in[1].value))
    IN  IF b.terms = <<>> THEN stop(s, "undefined", 0) ELSE runTerm(FoldLeft(runInstr, phi, b.code), b.terms[1])

RunIR(blocks, args) ==
    LET run[k \in Nat] == IF k = 0 THEN Machine(args)
                          ELSE LET s == run[k - 1] IN IF s.outcome = "running" THEN runBlock(s, blocks) ELSE s
    IN  run[3 * Fuel]

-----------------------------------------------------------------------------
(* The WebAssembly semantics: an operand stack, and a stack of labels, each with where a      *)
(* branch to it continues, the height of the operand stack below it and how many operands a   *)
(* branch keeps.                                                                             *)

Label(cont, height, type) == [cont |-> cont, height |-> height, keep |-> IF type = "none" THEN 0 ELSE 1]

Interpreter(code, args) ==
    [p |-> 1, stack |-> <<>>, labels |-> <<Label(Len(code) + 1, 0, Signature.ret)>>,
     locals |-> args \o [k \in 1..Len(Locals) |-> 0],
     globals |-> [k \in 1..Len(Globals) |-> 0], memory |-> [b \in 0..MemorySize - 1 |-> b % 2^ByteBits],
     calls |-> <<>>, outcome |-> "running", value |-> 0]

RefBinary(i, a, b) ==
    LET w == Width(i.of) IN
    CASE i.name = "shl" -> FromBits(w, LAMBDA k : k >= (b % w) /\ Bit(a, k - (b % w)) = 1)
      [] i.name = "shr_u" -> FromBits(w, LAMBDA k : k + (b % w) < w /\ Bit(a, k + (b % w)) = 1)
      [] i.name = "shr_s" -> FromBits(w, LAMBDA k : Bit(a, IF k + (b % w) < w THEN k + (b % w) ELSE w - 1) = 1)
      [] i.name = "rotl" -> FromBits(w, LAMBDA k : Bit(a, (k - b) % w) = 1)
      [] i.name = "rotr" -> FromBits(w, LAMBDA k : Bit(a, (k + b) % w) = 1)
      [] i.name = "div_u" -> a \div b   [] i.name = "rem_u" -> a % b
      [] i.name = "div_s" -> Quotient(Signed(w, a), Signed(w, b)) % 2^w
      [] i.name = "rem_s" -> (Signed(w, a) - Signed(w, b) * Quotient(Signed(w, a), Signed(w, b))) % 2^w
      [] OTHER -> emitBinary(i, a, b)

Last2(s) == s[Len(s) - 1]
Traps(i, st) == /\ i.op = "binary" /\ i \in Divisions
                /\ \/ Last(st) = 0
                   \/ i.name = "div_s" /\ Signed(Width(i.of), Last2(st)) = -Minimum(Width(i.of))
                                       /\ Signed(Width(i.of), Last(st)) = -1

Pops(i) == CASE i.op \in {"if", "br_if", "br_table", "drop", "set_local", "tee_local", "set_global"} -> 1
             [] i.op = "select" -> 3
             [] i.op = "call" -> Len(Types[Functions[i.n + 1] + 1].params)
             [] i.op = "call_indirect" -> Len(Types[i.n + 1].params) + 1
             [] i.op \in {"const", "nop", "unary", "binary", "load", "store", "current_memory", "grow_memory"} ->
                    Len(OperandTypes(i))
             [] OTHER -> 0

branch(s, depth) ==
    LET l == s.labels[Len(s.labels) - depth] IN
    IF Len(s.stack) - l.height < l.keep THEN stop(s, "stuck", 0)
    ELSE [s EXCEPT !.p = l.cont, !.labels = SubSeq(@, 1, Len(@) - depth - 1),
                   !.stack = SubSeq(@, 1, l.height) \o SubSeq(@, Len(@) - l.keep + 1, Len(@))]
next(s)           == [s EXCEPT !.p = @ + 1]
enter(s, p, label) == [s EXCEPT !.p = p, !.labels = Append(@, label)]
TheEnd(code, p)   == CHOOSE q \in W!Ends(code, p) : TRUE

interpret(s, code) ==
    LET i == code[s.p]
        n == Pops(i)
        a == SubSeq(s.stack, Len(s.stack) - n + 1, Len(s.stack))
        r == [s EXCEPT !.stack = SubSeq(@, 1, Len(@) - n)]
        yield(f, v) == next([f EXCEPT !.stack = Append(@, v)])
        answer(type, xs) == LET f == [r EXCEPT !.calls = Append(@, <<i, xs>>)]
                            IN  IF type = "none" THEN next(f) ELSE yield(f, Answer(type, xs))
    IN
    CASE Len(s.stack) - Last(s.labels).height < n -> stop(s, "stuck", 0)
      [] OTHER ->
    CASE i.op = "nop" -> next(s)
      [] i.op = "block" -> enter(s, s.p + 1, Label(TheEnd(code, s.p) + 1, Len(s.stack), i.type))
      [] i.op = "loop"  -> enter(s, s.p + 1, Label(s.p, Len(s.stack), "none"))
      [] i.op = "if"    ->
             LET label == Label(TheEnd(code, s.p) + 1, Len(r.stack), i.type)
             IN  IF a[1] # 0 THEN enter(r, s.p + 1, label)
                 ELSE IF W!Elses(code, s.p) = {} THEN [r EXCEPT !.p = TheEnd(code, s.p) + 1]
                 ELSE enter(r, (CHOOSE q \in W!Elses(code, s.p) : TRUE) + 1, label)
      [] i.op = "else"  -> branch(s, 0)
      [] i.op = "end"   -> next([s EXCEPT !.labels = Front(@)])
      [] i.op = "br"    -> branch(s, i.n)
      [] i.op = "br_if" -> IF a[1] # 0 THEN branch(r, i.n) ELSE next(r)
      [] i.op = "br_table" -> branch(r, IF a[1] < Len(i.to) THEN i.to[a[1] + 1] ELSE i.n)
      [] i.op = "return" -> branch(s, Len(s.labels) - 1)
      [] i.op = "unreachable" -> stop(s, "unreachable", 0)
      [] i.op = "drop" -> next(r)
      [] i.op = "select" -> yield(r, IF a[3] # 0 THEN a[1] ELSE a[2])
      [] i.op = "get_local"  -> yield(r, s.locals[i.n + 1])
      [] i.op = "set_local"  -> next([r EXCEPT !.locals[i.n + 1] = a[1]])
      [] i.op = "tee_local"  -> next([s EXCEPT !.locals[i.n + 1] = a[1]])
      [] i.op = "get_global" -> yield(r, s.globals[i.n + 1])
      [] i.op = "set_global" -> next([r EXCEPT !.globals[i.n + 1] = a[1]])
      [] i.op = "call" -> answer(Types[Functions[i.n + 1] + 1].ret, a)
      [] i.op = "call_indirect" ->
             LET index == Last(a)
             IN  IF index >= Len(Table) THEN stop(s, "index", 0)
                 ELSE IF Table[index + 1] = -1 \/ Types[Table[index + 1] + 1] # Types[i.n + 1]
                 THEN stop(s, "signature", 0) ELSE answer(Types[i.n + 1].ret, a)
      [] i.op \in {"current_memory", "grow_memory"} -> answer("i32", a)
      [] i.op = "const" -> yield(r, i.n % Modulus(i.type))
      [] i.op = "unary" -> yield(r, emitUnary(i, a[1]))
      [] i.op = "binary" ->
             IF Traps(i, s.stack) THEN stop(s, IF i.name = "div_s" THEN "zeroOrOverflow" ELSE "zero", 0)
             ELSE yield(r, RefBinary(i, a[1], a[2]))
      [] i.op = "load" ->
             IF a[1] + i.n + Bytes(i) > MemorySize THEN stop(s, "access", 0)
             ELSE yield(r, conversionOp(i, Read(s.memory, a[1] + i.n, Bytes(i))))
      [] i.op = "store" ->
             IF a[1] + i.n + Bytes(i) > MemorySize THEN stop(s, "access", 0)
             ELSE next([r EXCEPT !.memory = Write(@, a[1] + i.n, Bytes(i), a[2])])

step(s, code) ==
    IF s.labels = <<>> THEN stop(s, "return", IF s.stack = <<>> THEN 0 ELSE Last(s.stack)) ELSE interpret(s, code)

RunCode(code, args) ==
    LET run[k \in Nat] == IF k = 0 THEN Interpreter(code, args)
                          ELSE LET s == run[k - 1] IN IF s.outcome = "running" THEN step(s, code) ELSE s
    IN  run[Fuel]

Observed(s) == [outcome |-> s.outcome, value |-> s.value, calls |-> s.calls, globals |-> s.globals, memory |-> s.memory]
=============================================================================
