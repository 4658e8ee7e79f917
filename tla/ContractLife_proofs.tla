------------------------- MODULE ContractLife_proofs -------------------------
(***************************************************************************)
(* What a contract and the embedder rely on in ContractLife, for every     *)
(* contract, every width, price and limit and all arguments.  Each         *)
(* intrinsic is shown to be sound on its own, by lemmas that follow        *)
(* intrinsic_invoker: the parameters are translated, the gas is charged,   *)
(* then the body acts.  The linker's part compares the injectors with the  *)
(* registrations; the nesting's part follows the one depth that            *)
(* nested_validator keeps through all functions.                           *)
(***************************************************************************)
EXTENDS ContractLife, FiniteSetTheorems, WellFoundedInduction, TLAPS

(* A set of naturals that is not empty has a least element. What would be  *)
(* an induction over positions is stated as: there is no least             *)
(* counterexample.                                                         *)
LEMMA LeastNatural ==
    ASSUME NEW T \in SUBSET Nat, T # {}
    PROVE  \E x \in T : \A y \in T : x <= y
<1> DEFINE R == {ss \in Nat \X Nat : ss[1] < ss[2]}
<1>1. IsWellFoundedOn(R, Nat)
  BY NatLessThanWellFounded, Zenon DEF OpToRel
<1>2. \E x \in T : \A y \in T : ~(<<y, x>> \in R)
  BY <1>1, WFMin, Zenon
<1>3. \A x, y \in T : ~(<<y, x>> \in R) => x <= y
  OBVIOUS
<1>4. QED BY <1>2, <1>3, Zenon

(* What % leaves.                                                          *)
LEMMA Remainder ==
    ASSUME NEW w \in Nat \ {0}, NEW x \in Int
    PROVE  x % w \in 0..(w - 1)
OBVIOUS

(* remained_gas -= amount, on unsigned integers, does not wrap when the    *)
(* amount as an unsigned integer is at most the gas.                       *)
LEMMA RemainderOfDifference ==
    ASSUME NEW w \in Nat \ {0}, NEW g \in 0..(w - 1), NEW x \in Int, x % w <= g
    PROVE  (g - x) % w = g - (x % w)
<1> DEFINE q == x \div w
<1>1. q \in Int /\ x = w * q + (x % w) /\ x % w \in 0..(w - 1)
  OBVIOUS
<1>2. g - x = w * (-q) + (g - (x % w))
  BY <1>1
<1>3. \A k \in Int, r \in 0..(w - 1) : (w * k + r) % w = r
  OBVIOUS
<1>4. -q \in Int /\ g - (x % w) \in 0..(w - 1)
  BY <1>1
<1>5. (w * (-q) + (g - (x % w))) % w = g - (x % w)
  BY <1>3, <1>4, Zenon
<1>6. QED BY <1>2, <1>5, Zenon

(* A value that fits the width is kept.                                    *)
LEMMA SmallRemainder ==
    ASSUME NEW w \in Nat \ {0}, NEW x \in 0..(w - 1)
    PROVE  x % w = x
OBVIOUS

(* Recursion over positions: a function f with f[0] = s0 and f[k] made by  *)
(* step k from f[k - 1].                                                   *)
Steps(n, S) == [1..n -> [S -> S]]
(* Such a function, of values in S.                                        *)
Iterates(f, n, S, s0, step) ==
    /\ f \in [0..n -> S]
    /\ f[0] = s0
    /\ \A k \in 1..n : f[k] = step[k][f[k - 1]]

(* It exists: were there a least k up to which it does not, the one up to  *)
(* k - 1 could be extended. FunctionDepths and DepthsAfter choose such a   *)
(* function.                                                               *)
LEMMA Iterated ==
    ASSUME NEW n \in Nat, NEW S, NEW s0 \in S, NEW step \in Steps(n, S)
    PROVE  \E f : Iterates(f, n, S, s0, step)
<1> DEFINE Runs(k) == \E f \in [0..k -> S] : f[0] = s0 /\ \A j \in 1..k : f[j] = step[j][f[j - 1]]
           Bad == {k \in 0..n : ~Runs(k)}
<1> USE DEF Steps
<1>1. SUFFICES ASSUME ~Runs(n) PROVE FALSE
  BY DEF Iterates
<1>2. PICK k \in Bad : \A l \in Bad : k <= l
  <2>1. Bad \in SUBSET Nat /\ n \in Bad
    BY <1>1
  <2> HIDE DEF Bad
  <2>2. QED BY <1>1, <2>1, LeastNatural
<1>3. Runs(0)
  <2> DEFINE f == [i \in 0..0 |-> s0]
  <2>1. f \in [0..0 -> S] /\ f[0] = s0 /\ \A j \in 1..0 : f[j] = step[j][f[j - 1]]
    OBVIOUS
  <2>2. QED BY <2>1
<1>4. k \in 1..n /\ k - 1 \in 0..n /\ k - 1 \notin Bad
  <2>1. k \in 0..n /\ ~Runs(k)
    BY <1>2
  <2>2. k # 0
    BY <1>3, <2>1
  <2>3. k \in 1..n /\ k - 1 \in 0..n /\ ~(k <= k - 1)
    BY <2>1, <2>2
  <2> HIDE DEF Bad
  <2>4. QED BY <1>2, <2>3
<1>5. PICK g \in [0..(k - 1) -> S] :
         g[0] = s0 /\ \A j \in 1..(k - 1) : g[j] = step[j][g[j - 1]]
  BY <1>4
<1> DEFINE next == step[k][g[k - 1]]
           f == [i \in 0..k |-> IF i = k THEN next ELSE g[i]]
<1>6. next \in S
  <2>1. g[k - 1] \in S
    BY <1>4, <1>5
  <2>2. step[k] \in [S -> S]
    BY <1>4
  <2>3. QED BY <2>1, <2>2
<1>7. f \in [0..k -> S]
  <2> HIDE DEF next
  <2>1. \A i \in 0..k : i # k => i \in 0..(k - 1)
    BY <1>4
  <2>2. QED BY <1>4, <1>5, <1>6, <2>1
<1>8. f[0] = s0
  BY <1>4, <1>5
<1>9. ASSUME NEW j \in 1..k PROVE f[j] = step[j][f[j - 1]]
  <2>1. j \in 0..k /\ j - 1 \in 0..k /\ j - 1 # k /\ (j # k => j \in 1..(k - 1))
    BY <1>4
  <2>2. f[j - 1] = g[j - 1]
    BY <2>1
  <2>3. CASE j = k
    BY <2>1, <2>2, <2>3
  <2>4. CASE j # k
    BY <1>5, <2>1, <2>2, <2>4
  <2>5. QED BY <2>3, <2>4
<1>10. Runs(k)
  <2> HIDE DEF f
  <2>1. QED BY <1>7, <1>8, <1>9
<1>11. QED BY <1>2, <1>10

-----------------------------------------------------------------------------
(* The values of an I32 that a contract passes.                            *)
I32 == -(Width \div 2)..((Width \div 2) - 1)

(* A linear memory: bytes from address 0, no more than there are           *)
(* addresses.                                                              *)
IsMemory(mem) ==
    /\ mem = [a \in DOMAIN mem |-> mem[a]]
    /\ \E k \in 0..Width : DOMAIN mem = 0..(k - 1)

(* What has been printed, whatever it is.                                  *)
IsConsole(console) == \E S : console \in Seq(S)

(* What the intrinsics work on: remained_gas is unsigned and fits its      *)
(* width.                                                                  *)
IsMachine(m) ==
    /\ m = [mem |-> m.mem, gas |-> m.gas, host |-> m.host, console |-> m.console]
    /\ m.gas \in 0..(GasWidth - 1)
    /\ IsMemory(m.mem)
    /\ IsConsole(m.console)

(* How a call of an intrinsic ends.                                        *)
Ends == {"return", "exit", "wasm_runtime_exception", "accessViolation",
         "invalid_address_exception", "overlapping_memory_error", "arithmetic_exception"}

(* What a call leaves: how it ends, the machine, the result and the bytes  *)
(* native code has touched.                                                *)
IsOutcome(o) ==
    /\ o = [end |-> o.end, m |-> o.m, ret |-> o.ret, touched |-> o.touched]
    /\ o.end \in Ends
    /\ IsMachine(o.m)

(* What every call must keep to, between the machine it meets and what it  *)
(* leaves: gas never grows, an exception leaves nothing changed but the    *)
(* gas, and only bytes of the memory are touched.                          *)
Effect(m, o) ==
    /\ IsOutcome(o)
    /\ o.m.gas <= m.gas
    /\ o.end \notin {"return", "exit"} => o.m = [m EXCEPT !.gas = o.m.gas]
    /\ o.touched \subseteq DOMAIN m.mem

(* And the embedder has been told of nothing that was not paid for.        *)
Sound(m, o) == Effect(m, o) /\ (o.m.host # m.host => o.m.gas < m.gas)

(* The parameters of intrinsics by kind, for every I32 value.              *)
ArrayParams == {Array(p, n) : p \in I32, n \in I32}
PairParams == {Pair(p, q, n) : p \in I32, q \in I32, n \in I32}
TextParams == {Text(p) : p \in I32}
RefParams == {Ref(p, size) : p \in I32, size \in Nat}
Params == ArrayParams \cup PairParams \cup TextParams \cup RefParams

(* intrinsic_invoker around the body of an intrinsic: parameters are       *)
(* translated from the last to the first, the first exception ends the     *)
(* call.                                                                   *)
Invoked(m, xs, outcomes) ==
    IF Raising(m.mem, xs) # {}
    THEN UNION {Throw(e, m) : e \in translate_one(m.mem, xs[Max(Raising(m.mem, xs))])}
    ELSE {[o EXCEPT !.touched = @ \cup UNION {Scanned(m.mem, xs[k]) : k \in 1..Len(xs)}] :
             o \in outcomes}

(* use_gas inside an intrinsic: what is left, and the exception when the   *)
(* amount exceeds it.                                                      *)
Less(m, amount) == [m EXCEPT !.gas = (@ - amount) % GasWidth]
Charged(m, amount, outcomes) ==
    IF exceeds(amount, m.gas) THEN Throw("wasm_runtime_exception", m) ELSE outcomes

(* The number of addresses below k.                                        *)
LEMMA IntervalCardinality ==
    ASSUME NEW k \in Nat
    PROVE  IsFiniteSet(0..(k - 1)) /\ Cardinality(0..(k - 1)) = k
<1>1. IsFiniteSet(0..(k - 1)) /\ Cardinality(0..(k - 1)) = IF 0 > k - 1 THEN 0 ELSE (k - 1) - 0 + 1
  BY FS_Interval
<1>2. QED BY <1>1

(* The size of a memory is the address behind its last byte.               *)
LEMMA MemorySize ==
    ASSUME NEW mem, IsMemory(mem)
    PROVE  Size(mem) \in 0..Width /\ DOMAIN mem = 0..(Size(mem) - 1)
<1>1. PICK k \in 0..Width : DOMAIN mem = 0..(k - 1)
  BY DEF IsMemory
<1>2. k \in Nat
  BY WidthAssumption
<1>3. QED BY <1>1, <1>2, IntervalCardinality DEF Size

(* U32 of a pointer is an address; a negative length, as a size_t, exceeds *)
(* every memory.                                                           *)
LEMMA I32Bounds ==
    ASSUME NEW x \in I32
    PROVE  /\ x \in Int /\ x < Width
           /\ U32(x) \in 0..(Width - 1)
           /\ x >= 0 => size_t(x) = x
           /\ x < 0 => size_t(x) \in Int /\ size_t(x) > Width
<1>1. Width \in Nat /\ Width >= 2 /\ Width \div 2 \in Nat /\ Width \div 2 < Width
  BY WidthAssumption
<1>2. x \in Int /\ x >= -(Width \div 2) /\ x < Width
  BY <1>1 DEF I32
<1>3. U32(x) \in 0..(Width - 1)
  BY <1>1, <1>2, Remainder DEF U32
<1>4. Width * Width \in Int /\ Width * Width >= Width + Width
  BY <1>1
<1>5. x < 0 => size_t(x) \in Int /\ size_t(x) > Width
  BY <1>1, <1>2, <1>4 DEF size_t, Huge
<1>6. QED BY <1>2, <1>3, <1>5 DEF size_t

(* What array_ptr_impl lets pass lies inside the memory: its test          *)
(* subtracts, so no sum of pointer and length can wrap.                    *)
LEMMA BlockInside ==
    ASSUME NEW mem, IsMemory(mem), NEW p \in I32, NEW n \in I32,
           array_ptr_impl(mem, U32(p), size_t(n)) = {}
    PROVE  n \in 0..Width /\ U32(p) \in DOMAIN mem /\ Span(U32(p), n) \subseteq DOMAIN mem
<1>1. U32(p) < Size(mem) /\ size_t(n) <= Size(mem) - U32(p)
  <2>1. U32(p) \in Int /\ size_t(n) \in Int /\ Size(mem) \in Int
    BY MemorySize, I32Bounds, WidthAssumption
  <2>2. QED BY <2>1 DEF array_ptr_impl, Violation
<1>2. Size(mem) \in 0..Width /\ DOMAIN mem = 0..(Size(mem) - 1)
  BY MemorySize
<1>3. Width \in Nat /\ U32(p) \in 0..(Width - 1) /\ n \in Int
  BY I32Bounds, WidthAssumption
<1>4. n >= 0 /\ size_t(n) = n
  BY <1>1, <1>2, <1>3, I32Bounds
<1>5. QED BY <1>1, <1>2, <1>3, <1>4 DEF Span

(* So does an array that is translated without exception,                  *)
LEMMA ArrayInside ==
    ASSUME NEW mem, IsMemory(mem), NEW x \in ArrayParams, translate_one(mem, x) = {}
    PROVE  /\ x.n \in 0..Width /\ U32(x.p) \in DOMAIN mem
           /\ Span(U32(x.p), x.n) \subseteq DOMAIN mem
           /\ Spans(x) = Span(U32(x.p), x.n)
<1>1. PICK p \in I32, n \in I32 : x = Array(p, n)
  BY DEF ArrayParams
<1>2. x.kind = "array" /\ x.p = p /\ x.n = n
  BY <1>1 DEF Array
<1>3. array_ptr_impl(mem, U32(p), size_t(n)) = {}
  BY <1>2 DEF translate_one, fromArray
<1>4. QED BY <1>2, <1>3, BlockInside DEF Spans

(* both blocks of a pair of arrays,                                        *)
LEMMA PairInside ==
    ASSUME NEW mem, IsMemory(mem), NEW x \in PairParams, translate_one(mem, x) = {}
    PROVE  /\ x.n \in 0..Width /\ U32(x.p) \in DOMAIN mem /\ U32(x.q) \in DOMAIN mem
           /\ Span(U32(x.p), x.n) \subseteq DOMAIN mem
           /\ Span(U32(x.q), x.n) \subseteq DOMAIN mem
<1>1. PICK p \in I32, q \in I32, n \in I32 : x = Pair(p, q, n)
  BY DEF PairParams
<1>2. x.kind = "pair" /\ x.p = p /\ x.q = q /\ x.n = n
  BY <1>1 DEF Pair
<1>3. array_ptr_impl(mem, U32(p), size_t(n)) = {} /\ array_ptr_impl(mem, U32(q), size_t(n)) = {}
  BY <1>2 DEF translate_one, fromPair
<1>4. QED BY <1>2, <1>3, BlockInside

(* and the object of a reference.                                          *)
LEMMA RefInside ==
    ASSUME NEW mem, IsMemory(mem), NEW x \in RefParams, translate_one(mem, x) = {}
    PROVE  U32(x.p) \in Nat /\ Spans(x) \subseteq DOMAIN mem
<1>1. PICK p \in I32, size \in Nat : x = Ref(p, size)
  BY DEF RefParams
<1>2. x.kind = "ref" /\ x.p = p /\ x.size = size
  BY <1>1 DEF Ref
<1>3. reference(mem, U32(p), size) = {}
  BY <1>2 DEF translate_one, fromReference
<1>4. Size(mem) \in 0..Width /\ DOMAIN mem = 0..(Size(mem) - 1) /\ Width \in Nat
      /\ U32(p) \in 0..(Width - 1)
  BY MemorySize, I32Bounds, WidthAssumption
<1>5. U32(p) + size < Size(mem)
  BY <1>3, <1>4 DEF reference, Violation
<1>6. QED BY <1>2, <1>4, <1>5 DEF Spans, Span

(* The least element, as FiniteSetsExt chooses it.                         *)
LEMMA SetMin ==
    ASSUME NEW T \in SUBSET Nat, T # {}
    PROVE  Min(T) \in T /\ \A y \in T : Min(T) <= y
<1>1. \E x \in T : \A y \in T : x <= y
  BY LeastNatural
<1>2. QED BY <1>1 DEF Min

(* And the greatest of a set of integers that is bounded.                  *)
LEMMA SetMax ==
    ASSUME NEW n \in Int, NEW T \in SUBSET Int, T # {}, \A x \in T : x <= n
    PROVE  Max(T) \in T /\ \A y \in T : Max(T) >= y
<1> DEFINE D == {n - x : x \in T}
<1>1. D \in SUBSET Nat /\ D # {}
  <2>1. \A x \in T : n - x \in Nat
    OBVIOUS
  <2>2. QED BY <2>1, Zenon
<1>2. PICK d \in D : \A y \in D : d <= y
  BY <1>1, LeastNatural
<1>3. PICK x \in T : d = n - x
  BY <1>2
<1>4. \A y \in T : n - y \in D /\ n - x <= n - y
  BY <1>2, <1>3
<1>5. \A y \in T : x >= y
  BY <1>4
<1>6. QED BY <1>5 DEF Max

(* The exceptions that a translation may raise.                            *)
Raised == {"accessViolation", "wasm_runtime_exception"}

(* Translating a parameter raises nothing else and reads no byte outside   *)
(* the memory, the search for the end of a text included.                  *)
LEMMA ParamFacts ==
    ASSUME NEW mem, IsMemory(mem), NEW x \in Params
    PROVE  translate_one(mem, x) \subseteq Raised /\ Scanned(mem, x) \subseteq DOMAIN mem
<1>1. CASE x \in ArrayParams
  <2>1. x.kind = "array"
    BY <1>1 DEF Array, ArrayParams
  <2>2. QED BY <2>1 DEF translate_one, fromArray, array_ptr_impl, Violation, Scanned, Raised
<1>2. CASE x \in PairParams
  <2>1. x.kind = "pair"
    BY <1>2 DEF Pair, PairParams
  <2>2. QED BY <2>1 DEF translate_one, fromPair, array_ptr_impl, Violation, Scanned, Raised
<1>3. CASE x \in TextParams
  <2>1. PICK p \in I32 : x = Text(p)
    BY <1>3 DEF TextParams
  <2>2. x.kind = "text" /\ x.p = p
    BY <2>1 DEF Text
  <2>3. translate_one(mem, x) \subseteq Raised
    BY <2>2 DEF translate_one, fromText, null_terminated_ptr_impl, Violation, Raised
  <2> DEFINE zeros == {a \in DOMAIN mem : a >= U32(x.p) /\ mem[a] = 0}
  <2>4. Size(mem) \in 0..Width /\ DOMAIN mem = 0..(Size(mem) - 1) /\ Width \in Nat
        /\ U32(x.p) \in 0..(Width - 1)
    BY <2>2, MemorySize, I32Bounds, WidthAssumption
  <2>5. CASE zeros = {}
    BY <2>2, <2>3, <2>5 DEF Scanned
  <2>6. CASE zeros # {}
    <3>1. zeros \in SUBSET Nat
      BY <2>4
    <3>2. Min(zeros) \in zeros
      BY <2>6, <3>1, SetMin
    <3>3. Min(zeros) \in 0..(Size(mem) - 1)
      BY <2>4, <3>2
    <3>4. Scanned(mem, x) = U32(x.p)..Min(zeros)
      BY <2>2, <2>6 DEF Scanned
    <3>5. U32(x.p)..Min(zeros) \subseteq DOMAIN mem
      <4>1. \A s, u \in Nat : \A z \in 0..(s - 1) : u..z \subseteq 0..(s - 1)
        OBVIOUS
      <4> HIDE DEF zeros
      <4>2. Size(mem) \in Nat /\ U32(x.p) \in Nat
        BY <2>4
      <4>3. QED BY <2>4, <3>3, <4>1, <4>2, Zenon
    <3>6. QED BY <2>3, <3>4, <3>5
  <2>7. QED BY <2>5, <2>6
<1>4. CASE x \in RefParams
  <2>1. x.kind = "ref"
    BY <1>4 DEF Ref, RefParams
  <2>2. QED BY <2>1 DEF translate_one, fromReference, reference, Violation, Scanned, Raised
<1>5. QED BY <1>1, <1>2, <1>3, <1>4 DEF Params

(* An exception before the body has any effect is sound.                   *)
LEMMA ThrowEffect ==
    ASSUME NEW m, IsMachine(m), NEW e \in Ends
    PROVE  \A o \in Throw(e, m) : Sound(m, o)
<1> SUFFICES ASSUME NEW o \in Throw(e, m) PROVE Sound(m, o)
  OBVIOUS
<1>1. o = [end |-> e, m |-> m, ret |-> 0, touched |-> {}]
  BY DEF Throw, Outcome
<1>2. IsOutcome(o)
  BY <1>1 DEF IsOutcome
<1>3. m.gas <= m.gas
  BY DEF IsMachine
<1>4. m = [m EXCEPT !.gas = m.gas]
  BY DEF IsMachine
<1>5. QED BY <1>1, <1>2, <1>3, <1>4 DEF Sound, Effect

(* If the body is sound once all parameters are translated, so is the      *)
(* call.                                                                   *)
LEMMA InvokedSound ==
    ASSUME NEW m, IsMachine(m), NEW xs \in Seq(Params), NEW outcomes,
           Raising(m.mem, xs) = {} => \A o \in outcomes : Sound(m, o)
    PROVE  \A o \in Invoked(m, xs, outcomes) : Sound(m, o)
<1>1. IsMemory(m.mem)
  BY DEF IsMachine
<1>2. CASE Raising(m.mem, xs) # {}
  <2> DEFINE k == Max(Raising(m.mem, xs))
  <2>1. Raising(m.mem, xs) \in SUBSET Int /\ \A j \in Raising(m.mem, xs) : j <= Len(xs)
    BY DEF Raising
  <2>2. k \in Raising(m.mem, xs)
    <3>1. Len(xs) \in Int
      OBVIOUS
    <3>2. QED BY <1>2, <2>1, <3>1, SetMax, Zenon
  <2>3. xs[k] \in Params
    BY <2>2 DEF Raising
  <2>4. translate_one(m.mem, xs[k]) \subseteq Ends
    BY <1>1, <2>3, ParamFacts DEF Raised, Ends
  <2>5. Invoked(m, xs, outcomes) = UNION {Throw(e, m) : e \in translate_one(m.mem, xs[k])}
    BY <1>2 DEF Invoked
  <2>6. QED BY <2>4, <2>5, ThrowEffect
<1>3. CASE Raising(m.mem, xs) = {}
  <2> DEFINE scanned == UNION {Scanned(m.mem, xs[k]) : k \in 1..Len(xs)}
  <2>1. scanned \subseteq DOMAIN m.mem
    <3>1. \A k \in 1..Len(xs) : Scanned(m.mem, xs[k]) \subseteq DOMAIN m.mem
      BY <1>1, ParamFacts
    <3>2. QED BY <3>1
  <2>2. SUFFICES ASSUME NEW o \in outcomes PROVE Sound(m, [o EXCEPT !.touched = @ \cup scanned])
    BY <1>3 DEF Invoked
  <2>3. Sound(m, o)
    BY <1>3
  <2>4. o = [end |-> o.end, m |-> o.m, ret |-> o.ret, touched |-> o.touched]
    BY <2>3 DEF Sound, Effect, IsOutcome
  <2> DEFINE u == [o EXCEPT !.touched = @ \cup scanned]
  <2> HIDE DEF scanned
  <2>5. u = [end |-> o.end, m |-> o.m, ret |-> o.ret, touched |-> o.touched \cup scanned]
    <3> DEFINE t == o.touched \cup scanned
    <3>1. u = [o EXCEPT !.touched = t]
      OBVIOUS
    <3> HIDE DEF t, u
    <3>2. u = [end |-> o.end, m |-> o.m, ret |-> o.ret, touched |-> t]
      BY <2>4, <3>1
    <3>3. QED BY <3>2 DEF t
  <2>6. u.end = o.end /\ u.m = o.m /\ u.ret = o.ret /\ u.touched = o.touched \cup scanned
    BY <2>5
  <2>7. IsOutcome(u)
    BY <2>3, <2>5, <2>6 DEF Sound, Effect, IsOutcome
  <2> HIDE DEF u
  <2>8. Sound(m, u)
    BY <2>1, <2>3, <2>6, <2>7 DEF Sound, Effect
  <2>9. QED BY <2>8 DEF u, scanned
<1>4. QED BY <1>2, <1>3

(* Charging takes the amount as an unsigned integer: a negative amount     *)
(* never gives gas back. Nothing else of the machine changes.              *)
LEMMA LessFacts ==
    ASSUME NEW m, IsMachine(m), NEW amount \in Int, ~exceeds(amount, m.gas)
    PROVE  LET c == Less(m, amount)
           IN  /\ IsMachine(c)
               /\ c.gas = m.gas - (amount % GasWidth)
               /\ c.gas <= m.gas
               /\ amount \in 1..(GasWidth - 1) => c.gas < m.gas
               /\ c = [m EXCEPT !.gas = c.gas]
               /\ c.mem = m.mem /\ c.host = m.host /\ c.console = m.console
<1> DEFINE c == Less(m, amount)
<1>1. GasWidth \in Nat \ {0} /\ m.gas \in 0..(GasWidth - 1)
  BY WidthAssumption DEF IsMachine
<1>2. amount % GasWidth \in 0..(GasWidth - 1)
  BY <1>1, Remainder
<1>3. amount % GasWidth <= m.gas
  BY <1>1, <1>2 DEF exceeds
<1>4. (m.gas - amount) % GasWidth = m.gas - (amount % GasWidth)
  BY <1>1, <1>3, RemainderOfDifference
<1>5. c = [mem |-> m.mem, gas |-> m.gas - (amount % GasWidth), host |-> m.host, console |-> m.console]
  BY <1>4 DEF Less, IsMachine
<1>6. c = [m EXCEPT !.gas = c.gas]
  BY <1>4, <1>5 DEF IsMachine
<1>7. c.gas = m.gas - (amount % GasWidth) /\ c.mem = m.mem /\ c.host = m.host /\ c.console = m.console
  BY <1>5
<1> HIDE DEF c
<1>8. c.gas \in 0..(GasWidth - 1) /\ c.gas <= m.gas
  BY <1>1, <1>2, <1>3, <1>7
<1>9. amount \in 1..(GasWidth - 1) => c.gas < m.gas
  <2>1. amount \in 1..(GasWidth - 1) => amount % GasWidth = amount
    BY <1>1, SmallRemainder
  <2>2. QED BY <1>1, <1>7, <2>1
<1>10. IsMachine(c)
  BY <1>5, <1>7, <1>8 DEF IsMachine
<1>11. QED BY <1>6, <1>7, <1>8, <1>9, <1>10 DEF c

(* An effect after charging is an effect of the whole, for any amount;     *)
LEMMA ChargedEffect ==
    ASSUME NEW m, IsMachine(m), NEW amount \in Int, NEW outcomes,
           ~exceeds(amount, m.gas) => \A o \in outcomes : Effect(Less(m, amount), o)
    PROVE  \A o \in Charged(m, amount, outcomes) : Effect(m, o)
<1>1. CASE exceeds(amount, m.gas)
  BY <1>1, ThrowEffect DEF Charged, Ends, Sound
<1>2. CASE ~exceeds(amount, m.gas)
  <2> SUFFICES ASSUME NEW o \in outcomes PROVE Effect(m, o)
    BY <1>2 DEF Charged
  <2> DEFINE c == Less(m, amount)
  <2>1. Effect(c, o)
    BY <1>2
  <2>2. IsMachine(c) /\ c.gas <= m.gas /\ c.mem = m.mem /\ c = [m EXCEPT !.gas = c.gas]
    BY <1>2, LessFacts
  <2> HIDE DEF c
  <2>3. o.m.gas <= m.gas
    <3>1. o.m.gas \in Int /\ c.gas \in Int /\ m.gas \in Int
      BY <2>1, <2>2, WidthAssumption DEF Effect, IsOutcome, IsMachine
    <3>2. QED BY <2>1, <2>2, <3>1 DEF Effect
  <2>4. o.end \notin {"return", "exit"} => o.m = [m EXCEPT !.gas = o.m.gas]
    <3>1. \A g : [c EXCEPT !.gas = g] = [m EXCEPT !.gas = g]
      BY <2>2 DEF IsMachine
    <3>2. QED BY <2>1, <3>1 DEF Effect
  <2>5. QED BY <2>1, <2>2, <2>3, <2>4 DEF Effect
<1>3. QED BY <1>1, <1>2

(* with a positive price less gas is left, so the embedder may be told.    *)
LEMMA ChargedSound ==
    ASSUME NEW m, IsMachine(m), NEW amount \in 1..(GasWidth - 1), NEW outcomes,
           ~exceeds(amount, m.gas) => \A o \in outcomes : Effect(Less(m, amount), o)
    PROVE  \A o \in Charged(m, amount, outcomes) : Sound(m, o)
<1>1. amount \in Int
  BY WidthAssumption
<1>2. \A o \in Charged(m, amount, outcomes) : Effect(m, o)
  BY <1>1, ChargedEffect
<1>3. CASE exceeds(amount, m.gas)
  BY <1>3, ThrowEffect DEF Charged, Ends
<1>4. CASE ~exceeds(amount, m.gas)
  <2> SUFFICES ASSUME NEW o \in outcomes PROVE Sound(m, o)
    BY <1>4 DEF Charged
  <2>1. Effect(m, o)
    BY <1>2, <1>4 DEF Charged
  <2> DEFINE c == Less(m, amount)
  <2>2. Effect(c, o)
    BY <1>4
  <2>3. IsMachine(c) /\ c.gas < m.gas
    BY <1>1, <1>4, LessFacts
  <2> HIDE DEF c
  <2>4. o.m.gas \in Int /\ c.gas \in Int /\ m.gas \in Int
    BY <2>2, <2>3, WidthAssumption DEF Effect, IsOutcome, IsMachine
  <2>5. o.m.gas < m.gas
    BY <2>2, <2>3, <2>4 DEF Effect
  <2>6. QED BY <2>1, <2>5 DEF Sound
<1>5. QED BY <1>3, <1>4

(* A return with the same gas, and only bytes of the memory touched.       *)
LEMMA ReturnEffect ==
    ASSUME NEW c, IsMachine(c), NEW d, IsMachine(d), d.gas = c.gas,
           NEW ret, NEW touched, touched \subseteq DOMAIN c.mem
    PROVE  \A o \in Return(d, ret, touched) :
               Effect(c, o) /\ o.m = d /\ o.ret = ret /\ (d.host = c.host => Sound(c, o))
<1> SUFFICES ASSUME NEW o \in Return(d, ret, touched)
             PROVE  Effect(c, o) /\ o.m = d /\ o.ret = ret /\ (d.host = c.host => Sound(c, o))
  OBVIOUS
<1>1. o = [end |-> "return", m |-> d, ret |-> ret, touched |-> touched]
  BY DEF Return, Outcome
<1>2. IsOutcome(o)
  BY <1>1 DEF IsOutcome, Ends
<1>3. c.gas <= c.gas
  BY DEF IsMachine
<1>4. QED BY <1>1, <1>2, <1>3 DEF Effect, Sound

(* A callback of the embedder leaves memory and gas alone.                 *)
LEMMA CallbackMachine ==
    ASSUME NEW c, IsMachine(c), NEW what, NEW values, NEW bytes
    PROVE  LET d == Callback(c, what, values, bytes)
           IN  IsMachine(d) /\ d.gas = c.gas /\ d.mem = c.mem
<1> DEFINE h == Append(c.host, [cb |-> what, values |-> values, bytes |-> bytes])
<1> HIDE DEF h
<1>1. Callback(c, what, values, bytes) =
         [mem |-> c.mem, gas |-> c.gas, host |-> h, console |-> c.console]
  <2>1. Callback(c, what, values, bytes) = [c EXCEPT !.host = h]
    BY DEF Callback, h
  <2>2. QED BY <2>1 DEF IsMachine
<1>2. QED BY <1>1 DEF IsMachine

(* console_append puts what is printed at the end.                         *)
LEMMA Printed ==
    ASSUME NEW c, IsMachine(c), NEW what
    PROVE  /\ IsConsole(Append(c.console, what))
           /\ Last(console_append(c, what).console) = what
<1>1. PICK S : c.console \in Seq(S)
  BY DEF IsMachine, IsConsole
<1>2. c.console \in Seq(S \cup {what}) /\ what \in S \cup {what}
  BY <1>1
<1> DEFINE T == S \cup {what}
<1> HIDE DEF T
<1>3. Append(c.console, what) \in Seq(T) /\ Last(Append(c.console, what)) = what
  BY <1>2 DEF T, Last
<1>4. console_append(c, what).console = Append(c.console, what)
  BY DEF console_append, IsMachine
<1>5. QED BY <1>3, <1>4 DEF IsConsole

(* And leaves everything but the console alone.                            *)
LEMMA ConsoleMachine ==
    ASSUME NEW c, IsMachine(c), NEW what
    PROVE  LET d == console_append(c, what)
           IN  IsMachine(d) /\ d.gas = c.gas /\ d.mem = c.mem /\ d.host = c.host
<1> DEFINE h == Append(c.console, what)
<1> HIDE DEF h
<1>1. console_append(c, what) =
         [mem |-> c.mem, gas |-> c.gas, host |-> c.host, console |-> h]
  <2>1. console_append(c, what) = [c EXCEPT !.console = h]
    BY DEF console_append, h
  <2>2. QED BY <2>1 DEF IsMachine
<1>2. IsConsole(h)
  BY Printed DEF h
<1>3. QED BY <1>1, <1>2 DEF IsMachine

(* Writing keeps the size of the memory.                                   *)
LEMMA WriteMemory ==
    ASSUME NEW mem, IsMemory(mem), NEW p, NEW bytes
    PROVE  IsMemory(Write(mem, p, bytes)) /\ DOMAIN Write(mem, p, bytes) = DOMAIN mem
BY DEF IsMemory, Write

(* A machine with another memory.                                          *)
LEMMA MemoryMachine ==
    ASSUME NEW c, IsMachine(c), NEW mem, IsMemory(mem)
    PROVE  LET d == [c EXCEPT !.mem = mem]
           IN  IsMachine(d) /\ d.gas = c.gas /\ d.mem = mem /\ d.host = c.host
<1>1. [c EXCEPT !.mem = mem] =
         [mem |-> mem, gas |-> c.gas, host |-> c.host, console |-> c.console]
  BY DEF IsMachine
<1>2. QED BY <1>1 DEF IsMachine

(* The buffers that a callback may have filled are written inside the      *)
(* memory.                                                                 *)
LEMMA FilledMachines ==
    ASSUME NEW c, IsMachine(c), NEW x, NEW f \in Filled(c, x)
    PROVE  IsMachine(f) /\ f.gas = c.gas /\ DOMAIN f.mem = DOMAIN c.mem /\ f.host = c.host
<1>1. CASE f = c
  BY <1>1
<1>2. CASE f # c
  <2>1. PICK b \in Byte \ {0} :
           f = [c EXCEPT !.mem = Write(@, U32(x.p), [k \in 1..Cardinality(Spans(x)) |-> b])]
    BY <1>2 DEF Filled
  <2> DEFINE w == [k \in 1..Cardinality(Spans(x)) |-> b]
  <2> HIDE DEF w
  <2>2. f = [c EXCEPT !.mem = Write(c.mem, U32(x.p), w)]
    BY <2>1 DEF w
  <2>3. IsMemory(Write(c.mem, U32(x.p), w)) /\ DOMAIN Write(c.mem, U32(x.p), w) = DOMAIN c.mem
    BY WriteMemory DEF IsMachine
  <2>4. QED BY <2>2, <2>3, MemoryMachine
<1>3. QED BY <1>1, <1>2

(* The pattern of an intrinsic with parameters: translate, charge, act.    *)
LEMMA ChargedCall ==
    ASSUME NEW m, IsMachine(m), NEW xs \in Seq(Params), NEW amount, NEW outcomes,
           Raising(m.mem, xs) = {} => amount \in 1..(GasWidth - 1),
           Raising(m.mem, xs) = {} /\ ~exceeds(amount, m.gas)
               => \A o \in outcomes : Effect(Less(m, amount), o)
    PROVE  \A o \in Invoked(m, xs, Charged(m, amount, outcomes)) : Sound(m, o)
<1>1. Raising(m.mem, xs) = {} => \A o \in Charged(m, amount, outcomes) : Sound(m, o)
  BY ChargedSound
<1>2. QED BY <1>1, InvokedSound

(* When nothing is raised every parameter has been translated.             *)
LEMMA Translated ==
    ASSUME NEW mem, NEW a, NEW b, NEW c
    PROVE  /\ Raising(mem, <<a>>) = {} => translate_one(mem, a) = {}
           /\ Raising(mem, <<a, b>>) = {} => translate_one(mem, a) = {} /\ translate_one(mem, b) = {}
           /\ Raising(mem, <<a, b, c>>) = {} =>
                  translate_one(mem, a) = {} /\ translate_one(mem, b) = {} /\ translate_one(mem, c) = {}
BY DEF Raising

(* A price, with or without a part for each byte of a block that fits a    *)
(* memory, is positive and does not wrap. This is where PricesAssumption   *)
(* is needed.                                                              *)
LEMMA Price ==
    ASSUME NEW base \in PriceNames
    PROVE  /\ Prices[base] \in 1..(GasWidth - 1)
           /\ \A byte \in PriceNames, n \in 0..Width :
                  /\ Prices[base] + n * Prices[byte] \in 1..(GasWidth - 1)
                  /\ Prices[base] + Prices[byte] * n \in 1..(GasWidth - 1)
<1>1. Prices \in [PriceNames -> Nat \ {0}] /\ GasWidth \in Nat /\ Width \in Nat
  BY PricesAssumption, WidthAssumption
<1>2. SUFFICES ASSUME NEW byte \in PriceNames, NEW n \in 0..Width
               PROVE  /\ Prices[base] + n * Prices[byte] \in 1..(GasWidth - 1)
                      /\ Prices[base] + Prices[byte] * n \in 1..(GasWidth - 1)
  <2>1. 0 \in 0..Width
    BY <1>1
  <2>2. \A k \in Nat : k + 0 * k = k
    OBVIOUS
  <2>3. Prices[base] + 0 * Prices[base] = Prices[base]
    BY <1>1
  <2>4. QED BY <1>2, <2>1, <2>3
<1> DEFINE u == Prices[base]
           v == Prices[byte]
<1>3. u \in Nat /\ u # 0 /\ v \in Nat /\ u + Width * v < GasWidth
  BY <1>1, PricesAssumption
<1> HIDE DEF u, v
<1>4. n * v \in Nat /\ n * v = v * n /\ n * v <= Width * v
  BY <1>1, <1>3
<1>5. u + n * v \in 1..(GasWidth - 1) /\ u + v * n \in 1..(GasWidth - 1)
  BY <1>1, <1>3, <1>4
<1>6. QED BY <1>5 DEF u, v

(* The same pattern when the touched bytes do not depend on what is        *)
(* charged.                                                                *)
LEMMA PaidCall ==
    ASSUME NEW m, IsMachine(m), NEW xs \in Seq(Params), NEW amount, NEW touched, NEW outcomes,
           Raising(m.mem, xs) = {} => amount \in 1..(GasWidth - 1) /\ touched \subseteq DOMAIN m.mem,
           IsMachine(Less(m, amount)) /\ touched \subseteq DOMAIN Less(m, amount).mem
               => \A o \in outcomes : Effect(Less(m, amount), o)
    PROVE  \A o \in Invoked(m, xs, Charged(m, amount, outcomes)) : Sound(m, o)
<1>1. ASSUME Raising(m.mem, xs) = {}, ~exceeds(amount, m.gas)
      PROVE  \A o \in outcomes : Effect(Less(m, amount), o)
  <2>1. amount \in Int
    BY <1>1, WidthAssumption
  <2>2. IsMachine(Less(m, amount)) /\ Less(m, amount).mem = m.mem
    BY <1>1, <2>1, LessFacts
  <2>3. QED BY <1>1, <2>2
<1>2. QED BY <1>1, ChargedCall

(* db_store: every outcome is sound, whatever the contract passes.         *)
LEMMA db_storeSound ==
    ASSUME NEW m, IsMachine(m), NEW table, NEW key \in ArrayParams, NEW buffer \in ArrayParams
    PROVE  \A o \in db_store(m, table, key, buffer) : Sound(m, o)
<1> DEFINE xs == <<key, buffer>>
           amount == Prices.DBSTORE_BASE + buffer.n * Prices.DBSTORE_BYTE
           touched == Spans(key) \cup Spans(buffer)
           c == Less(m, amount)
           d == Callback(c, "store", <<table>>, <<At(c, key), At(c, buffer)>>)
           R == Return(d, 0, touched)
<1>1. db_store(m, table, key, buffer) = Invoked(m, xs, Charged(m, amount, R))
  BY DEF db_store, invoke, use_gas, Invoked, Charged, Less
<1>2. xs \in Seq(Params)
  BY DEF Params
<1>3. Raising(m.mem, xs) = {} => amount \in 1..(GasWidth - 1) /\ touched \subseteq DOMAIN m.mem
  BY Translated, ArrayInside, RefInside, Price DEF IsMachine, PriceNames
<1>4. ASSUME IsMachine(c), touched \subseteq DOMAIN c.mem PROVE \A o \in R : Effect(c, o)
  <2>1. IsMachine(d) /\ d.gas = c.gas
    BY <1>4, CallbackMachine
  <2> HIDE DEF c, d, touched
  <2>2. QED BY <1>4, <2>1, ReturnEffect
<1> HIDE DEF xs, amount, touched, R
<1>5. QED BY <1>1, <1>2, <1>3, <1>4, PaidCall

(* db_load: every outcome is sound, whatever the contract passes.          *)
LEMMA db_loadSound ==
    ASSUME NEW m, IsMachine(m), NEW table, NEW key \in ArrayParams, NEW buffer \in ArrayParams
    PROVE  \A o \in db_load(m, table, key, buffer) : Sound(m, o)
<1> DEFINE xs == <<key, buffer>>
           amount == Prices.DBLOAD_BASE + buffer.n * Prices.DBLOAD_BYTE
           touched == Spans(key) \cup Spans(buffer)
           c == Less(m, amount)
           d(f) == Callback(f, "load", <<table>>, <<At(c, key)>>)
           R == UNION {Return(d(f), a, touched) : f \in Filled(c, buffer), a \in Answers}
<1>1. db_load(m, table, key, buffer) = Invoked(m, xs, Charged(m, amount, R))
  BY DEF db_load, invoke, use_gas, Invoked, Charged, Less
<1>2. xs \in Seq(Params)
  BY DEF Params
<1>3. Raising(m.mem, xs) = {} => amount \in 1..(GasWidth - 1) /\ touched \subseteq DOMAIN m.mem
  BY Translated, ArrayInside, RefInside, Price DEF IsMachine, PriceNames
<1>4. ASSUME IsMachine(c), touched \subseteq DOMAIN c.mem PROVE \A o \in R : Effect(c, o)
  <2>1. \A f \in Filled(c, buffer) : IsMachine(d(f)) /\ d(f).gas = c.gas
    BY <1>4, FilledMachines, CallbackMachine
  <2> HIDE DEF c, d, touched
  <2>2. QED BY <1>4, <2>1, ReturnEffect
<1> HIDE DEF xs, amount, touched, R
<1>5. QED BY <1>1, <1>2, <1>3, <1>4, PaidCall

(* db_has_key: every outcome is sound, whatever the contract passes.       *)
LEMMA db_has_keySound ==
    ASSUME NEW m, IsMachine(m), NEW table, NEW key \in ArrayParams
    PROVE  \A o \in db_has_key(m, table, key) : Sound(m, o)
<1> DEFINE xs == <<key>>
           amount == Prices.DB_HAS
           touched == Spans(key)
           c == Less(m, amount)
           d == Callback(c, "has_key", <<table>>, <<At(c, key)>>)
           R == UNION {Return(d, a, touched) : a \in Answers}
<1>1. db_has_key(m, table, key) = Invoked(m, xs, Charged(m, amount, R))
  BY DEF db_has_key, invoke, use_gas, Invoked, Charged, Less
<1>2. xs \in Seq(Params)
  BY DEF Params
<1>3. Raising(m.mem, xs) = {} => amount \in 1..(GasWidth - 1) /\ touched \subseteq DOMAIN m.mem
  BY Translated, ArrayInside, RefInside, Price DEF IsMachine, PriceNames
<1>4. ASSUME IsMachine(c), touched \subseteq DOMAIN c.mem PROVE \A o \in R : Effect(c, o)
  <2>1. IsMachine(d) /\ d.gas = c.gas
    BY <1>4, CallbackMachine
  <2> HIDE DEF c, d, touched
  <2>2. QED BY <1>4, <2>1, ReturnEffect
<1> HIDE DEF xs, amount, touched, R
<1>5. QED BY <1>1, <1>2, <1>3, <1>4, PaidCall

(* db_remove_key: every outcome is sound, whatever the contract passes.    *)
LEMMA db_remove_keySound ==
    ASSUME NEW m, IsMachine(m), NEW table, NEW key \in ArrayParams
    PROVE  \A o \in db_remove_key(m, table, key) : Sound(m, o)
<1> DEFINE xs == <<key>>
           amount == Prices.DB_RMV
           touched == Spans(key)
           c == Less(m, amount)
           d == Callback(c, "remove_key", <<table>>, <<At(c, key)>>)
           R == Return(d, 0, touched)
<1>1. db_remove_key(m, table, key) = Invoked(m, xs, Charged(m, amount, R))
  BY DEF db_remove_key, invoke, use_gas, Invoked, Charged, Less
<1>2. xs \in Seq(Params)
  BY DEF Params
<1>3. Raising(m.mem, xs) = {} => amount \in 1..(GasWidth - 1) /\ touched \subseteq DOMAIN m.mem
  BY Translated, ArrayInside, RefInside, Price DEF IsMachine, PriceNames
<1>4. ASSUME IsMachine(c), touched \subseteq DOMAIN c.mem PROVE \A o \in R : Effect(c, o)
  <2>1. IsMachine(d) /\ d.gas = c.gas
    BY <1>4, CallbackMachine
  <2> HIDE DEF c, d, touched
  <2>2. QED BY <1>4, <2>1, ReturnEffect
<1> HIDE DEF xs, amount, touched, R
<1>5. QED BY <1>1, <1>2, <1>3, <1>4, PaidCall

(* recover_key: every outcome is sound, whatever the contract passes.      *)
LEMMA recover_keySound ==
    ASSUME NEW m, IsMachine(m), NEW digest \in RefParams, NEW sig \in ArrayParams, NEW pub \in ArrayParams
    PROVE  \A o \in recover_key(m, digest, sig, pub) : Sound(m, o)
<1> DEFINE xs == <<digest, sig, pub>>
           amount == Prices.RECOVER_KEY
           touched == {}
           c == Less(m, amount)
           R == Return(c, 0, touched)
<1>1. recover_key(m, digest, sig, pub) = Invoked(m, xs, Charged(m, amount, R))
  BY DEF recover_key, invoke, use_gas, Invoked, Charged, Less
<1>2. xs \in Seq(Params)
  BY DEF Params
<1>3. Raising(m.mem, xs) = {} => amount \in 1..(GasWidth - 1) /\ touched \subseteq DOMAIN m.mem
  BY Translated, ArrayInside, RefInside, Price DEF IsMachine, PriceNames
<1>4. ASSUME IsMachine(c), touched \subseteq DOMAIN c.mem PROVE \A o \in R : Effect(c, o)
  BY <1>4, ReturnEffect
<1> HIDE DEF xs, amount, touched, R
<1>5. QED BY <1>1, <1>2, <1>3, <1>4, PaidCall

(* sha256: every outcome is sound, whatever the contract passes.           *)
LEMMA sha256Sound ==
    ASSUME NEW m, IsMachine(m), NEW data \in ArrayParams, NEW hash \in RefParams
    PROVE  \A o \in sha256(m, data, hash) : Sound(m, o)
<1> DEFINE xs == <<data, hash>>
           amount == Prices.SHA256_BASE + Prices.SHA256_BYTE * data.n
           touched == {}
           c == Less(m, amount)
           R == Return(c, 0, touched)
<1>1. sha256(m, data, hash) = Invoked(m, xs, Charged(m, amount, R))
  BY DEF sha256, invoke, use_gas, Invoked, Charged, Less
<1>2. xs \in Seq(Params)
  BY DEF Params
<1>3. Raising(m.mem, xs) = {} => amount \in 1..(GasWidth - 1) /\ touched \subseteq DOMAIN m.mem
  BY Translated, ArrayInside, RefInside, Price DEF IsMachine, PriceNames
<1>4. ASSUME IsMachine(c), touched \subseteq DOMAIN c.mem PROVE \A o \in R : Effect(c, o)
  BY <1>4, ReturnEffect
<1> HIDE DEF xs, amount, touched, R
<1>5. QED BY <1>1, <1>2, <1>3, <1>4, PaidCall

(* current_hash, with both hashes written: every outcome is sound,         *)
(* whatever the contract passes.                                           *)
LEMMA current_hashSound ==
    ASSUME NEW m, IsMachine(m), NEW simple_hash \in RefParams, NEW full_hash \in RefParams
    PROVE  \A o \in current_hash(m, simple_hash, full_hash) : Sound(m, o)
<1> DEFINE xs == <<simple_hash, full_hash>>
           amount == Prices.CALL_BASE
           touched == Spans(simple_hash) \cup Spans(full_hash)
           c == Less(m, amount)
           d(f) == Callback(f, "current_hash", <<>>, <<>>)
           R == UNION {Return(d(f), 0, touched) :
                            f \in UNION {Filled(s, full_hash) : s \in Filled(c, simple_hash)}}
<1>1. current_hash(m, simple_hash, full_hash) = Invoked(m, xs, Charged(m, amount, R))
  BY DEF current_hash, invoke, use_gas, Invoked, Charged, Less
<1>2. xs \in Seq(Params)
  BY DEF Params
<1>3. Raising(m.mem, xs) = {} => amount \in 1..(GasWidth - 1) /\ touched \subseteq DOMAIN m.mem
  BY Translated, ArrayInside, RefInside, Price DEF IsMachine, PriceNames
<1>4. ASSUME IsMachine(c), touched \subseteq DOMAIN c.mem PROVE \A o \in R : Effect(c, o)
  <2>1. \A f \in UNION {Filled(s, full_hash) : s \in Filled(c, simple_hash)} :
            IsMachine(f) /\ f.gas = c.gas
    BY <1>4, FilledMachines
  <2>2. \A f \in UNION {Filled(s, full_hash) : s \in Filled(c, simple_hash)} :
            IsMachine(d(f)) /\ d(f).gas = c.gas
    BY <2>1, CallbackMachine
  <2> HIDE DEF c, d, touched
  <2>3. QED BY <1>4, <2>2, ReturnEffect
<1> HIDE DEF xs, amount, touched, R
<1>5. QED BY <1>1, <1>2, <1>3, <1>4, PaidCall

(* ftl_assert, whose message is read up to its end: every outcome is       *)
(* sound, whatever the contract passes.                                    *)
LEMMA ftl_assertSound ==
    ASSUME NEW m, IsMachine(m), NEW condition, NEW msg \in TextParams
    PROVE  \A o \in ftl_assert(m, condition, msg) : Sound(m, o)
<1> DEFINE xs == <<msg>>
           amount == Prices.CALL_BASE
           touched == {}
           c == Less(m, amount)
           R == IF condition = 0 THEN Throw("wasm_runtime_exception", c) ELSE Return(c, 0, touched)
<1>1. ftl_assert(m, condition, msg) = Invoked(m, xs, Charged(m, amount, R))
  BY DEF ftl_assert, invoke, use_gas, Invoked, Charged, Less
<1>2. xs \in Seq(Params)
  BY DEF Params
<1>3. Raising(m.mem, xs) = {} => amount \in 1..(GasWidth - 1) /\ touched \subseteq DOMAIN m.mem
  BY Translated, ArrayInside, RefInside, Price DEF IsMachine, PriceNames
<1>4. ASSUME IsMachine(c), touched \subseteq DOMAIN c.mem PROVE \A o \in R : Effect(c, o)
  BY <1>4, ReturnEffect, ThrowEffect DEF Sound, Ends
<1> HIDE DEF xs, amount, touched, R
<1>5. QED BY <1>1, <1>2, <1>3, <1>4, PaidCall

(* transfer: every outcome is sound, whatever the contract passes.         *)
LEMMA transferSound ==
    ASSUME NEW m, IsMachine(m), NEW amt, NEW address \in ArrayParams
    PROVE  \A o \in transfer(m, address, amt) : Sound(m, o)
<1> DEFINE xs == <<address>>
           amount == Prices.TRANSFER
           touched == Spans(address)
           c == Less(m, amount)
           d == Callback(c, "transfer", <<amt>>, <<At(c, address)>>)
           R == IF address.n # AddressSize THEN Throw("invalid_address_exception", c)
                ELSE Return(d, 0, touched)
<1>1. transfer(m, address, amt) = Invoked(m, xs, Charged(m, amount, R))
  BY DEF transfer, invoke, use_gas, Invoked, Charged, Less
<1>2. xs \in Seq(Params)
  BY DEF Params
<1>3. Raising(m.mem, xs) = {} => amount \in 1..(GasWidth - 1) /\ touched \subseteq DOMAIN m.mem
  BY Translated, ArrayInside, RefInside, Price DEF IsMachine, PriceNames
<1>4. ASSUME IsMachine(c), touched \subseteq DOMAIN c.mem PROVE \A o \in R : Effect(c, o)
  <2>1. IsMachine(d) /\ d.gas = c.gas
    BY <1>4, CallbackMachine
  <2> HIDE DEF c, d, touched
  <2>2. QED BY <1>4, <2>1, ReturnEffect, ThrowEffect DEF Sound, Ends
<1> HIDE DEF xs, amount, touched, R
<1>5. QED BY <1>1, <1>2, <1>3, <1>4, PaidCall

(* call_action: every outcome is sound, whatever the contract passes.      *)
LEMMA call_actionSound ==
    ASSUME NEW m, IsMachine(m), NEW amt, NEW address \in ArrayParams, NEW action \in ArrayParams
    PROVE  \A o \in call_action(m, address, action, amt) : Sound(m, o)
<1> DEFINE xs == <<address, action>>
           amount == Prices.CALL_BASE
           touched == Spans(address) \cup Spans(action)
           c == Less(m, amount)
           d == Callback(c, "call_action", <<amt>>, <<At(c, address), At(c, action)>>)
           R == IF address.n # AddressSize THEN Throw("invalid_address_exception", c)
                ELSE UNION {Return(d, a, touched) : a \in Answers}
<1>1. call_action(m, address, action, amt) = Invoked(m, xs, Charged(m, amount, R))
  BY DEF call_action, invoke, use_gas, Invoked, Charged, Less
<1>2. xs \in Seq(Params)
  BY DEF Params
<1>3. Raising(m.mem, xs) = {} => amount \in 1..(GasWidth - 1) /\ touched \subseteq DOMAIN m.mem
  BY Translated, ArrayInside, RefInside, Price DEF IsMachine, PriceNames
<1>4. ASSUME IsMachine(c), touched \subseteq DOMAIN c.mem PROVE \A o \in R : Effect(c, o)
  <2>1. IsMachine(d) /\ d.gas = c.gas
    BY <1>4, CallbackMachine
  <2> HIDE DEF c, d, touched
  <2>2. QED BY <1>4, <2>1, ReturnEffect, ThrowEffect DEF Sound, Ends
<1> HIDE DEF xs, amount, touched, R
<1>5. QED BY <1>1, <1>2, <1>3, <1>4, PaidCall

(* call_result: every outcome is sound, whatever the contract passes.      *)
LEMMA call_resultSound ==
    ASSUME NEW m, IsMachine(m), NEW result \in ArrayParams
    PROVE  \A o \in call_result(m, result) : Sound(m, o)
<1> DEFINE xs == <<result>>
           amount == Prices.CALL_BASE
           touched == Spans(result)
           c == Less(m, amount)
           d(f) == Callback(f, "call_result", <<>>, <<>>)
           R == UNION {Return(d(f), a, touched) : f \in Filled(c, result), a \in Answers}
<1>1. call_result(m, result) = Invoked(m, xs, Charged(m, amount, R))
  BY DEF call_result, invoke, use_gas, Invoked, Charged, Less
<1>2. xs \in Seq(Params)
  BY DEF Params
<1>3. Raising(m.mem, xs) = {} => amount \in 1..(GasWidth - 1) /\ touched \subseteq DOMAIN m.mem
  BY Translated, ArrayInside, RefInside, Price DEF IsMachine, PriceNames
<1>4. ASSUME IsMachine(c), touched \subseteq DOMAIN c.mem PROVE \A o \in R : Effect(c, o)
  <2>1. \A f \in Filled(c, result) : IsMachine(d(f)) /\ d(f).gas = c.gas
    BY <1>4, FilledMachines, CallbackMachine
  <2> HIDE DEF c, d, touched
  <2>2. QED BY <1>4, <2>1, ReturnEffect
<1> HIDE DEF xs, amount, touched, R
<1>5. QED BY <1>1, <1>2, <1>3, <1>4, PaidCall

(* set_result: every outcome is sound, whatever the contract passes.       *)
LEMMA set_resultSound ==
    ASSUME NEW m, IsMachine(m), NEW result \in ArrayParams
    PROVE  \A o \in set_result(m, result) : Sound(m, o)
<1> DEFINE xs == <<result>>
           amount == Prices.CALL_BASE
           touched == Spans(result)
           c == Less(m, amount)
           d == Callback(c, "set_result", <<>>, <<At(c, result)>>)
           R == UNION {Return(d, a, touched) : a \in Answers}
<1>1. set_result(m, result) = Invoked(m, xs, Charged(m, amount, R))
  BY DEF set_result, invoke, use_gas, Invoked, Charged, Less
<1>2. xs \in Seq(Params)
  BY DEF Params
<1>3. Raising(m.mem, xs) = {} => amount \in 1..(GasWidth - 1) /\ touched \subseteq DOMAIN m.mem
  BY Translated, ArrayInside, RefInside, Price DEF IsMachine, PriceNames
<1>4. ASSUME IsMachine(c), touched \subseteq DOMAIN c.mem PROVE \A o \in R : Effect(c, o)
  <2>1. IsMachine(d) /\ d.gas = c.gas
    BY <1>4, CallbackMachine
  <2> HIDE DEF c, d, touched
  <2>2. QED BY <1>4, <2>1, ReturnEffect
<1> HIDE DEF xs, amount, touched, R
<1>5. QED BY <1>1, <1>2, <1>3, <1>4, PaidCall

(* A compiler builtin, which writes its result through a reference: every  *)
(* outcome is sound, whatever the contract passes.                         *)
LEMMA builtinSound ==
    ASSUME NEW m, IsMachine(m), NEW bytes, NEW ret \in RefParams
    PROVE  \A o \in builtin(m, ret, bytes) : Sound(m, o)
<1> DEFINE xs == <<ret>>
           amount == Prices.CALL_BASE
           touched == Spans(ret)
           c == Less(m, amount)
           d == [c EXCEPT !.mem = Write(@, U32(ret.p), bytes)]
           R == Return(d, 0, touched)
<1>1. builtin(m, ret, bytes) = Invoked(m, xs, Charged(m, amount, R))
  BY DEF builtin, invoke, use_gas, Invoked, Charged, Less
<1>2. xs \in Seq(Params)
  BY DEF Params
<1>3. Raising(m.mem, xs) = {} => amount \in 1..(GasWidth - 1) /\ touched \subseteq DOMAIN m.mem
  BY Translated, ArrayInside, RefInside, Price DEF IsMachine, PriceNames
<1>4. ASSUME IsMachine(c), touched \subseteq DOMAIN c.mem PROVE \A o \in R : Effect(c, o)
  <2>1. IsMachine(d) /\ d.gas = c.gas
    BY <1>4, WriteMemory, MemoryMachine DEF IsMachine
  <2> HIDE DEF c, d, touched
  <2>2. QED BY <1>4, <2>1, ReturnEffect
<1> HIDE DEF xs, amount, touched, R
<1>5. QED BY <1>1, <1>2, <1>3, <1>4, PaidCall

(* A 128-bit division, which throws for a zero divisor before it writes:   *)
(* every outcome is sound, whatever the contract passes.                   *)
LEMMA divisionSound ==
    ASSUME NEW m, IsMachine(m), NEW divisor, NEW bytes, NEW ret \in RefParams
    PROVE  \A o \in division(m, ret, divisor, bytes) : Sound(m, o)
<1> DEFINE xs == <<ret>>
           amount == Prices.CALL_BASE
           touched == Spans(ret)
           c == Less(m, amount)
           d == [c EXCEPT !.mem = Write(@, U32(ret.p), bytes)]
           R == IF divisor = 0 THEN Throw("arithmetic_exception", c) ELSE Return(d, 0, touched)
<1>1. division(m, ret, divisor, bytes) = Invoked(m, xs, Charged(m, amount, R))
  BY DEF division, invoke, use_gas, Invoked, Charged, Less
<1>2. xs \in Seq(Params)
  BY DEF Params
<1>3. Raising(m.mem, xs) = {} => amount \in 1..(GasWidth - 1) /\ touched \subseteq DOMAIN m.mem
  BY Translated, ArrayInside, RefInside, Price DEF IsMachine, PriceNames
<1>4. ASSUME IsMachine(c), touched \subseteq DOMAIN c.mem PROVE \A o \in R : Effect(c, o)
  <2>1. IsMachine(d) /\ d.gas = c.gas
    BY <1>4, WriteMemory, MemoryMachine DEF IsMachine
  <2> HIDE DEF c, d, touched
  <2>2. QED BY <1>4, <2>1, ReturnEffect, ThrowEffect DEF Sound, Ends
<1> HIDE DEF xs, amount, touched, R
<1>5. QED BY <1>1, <1>2, <1>3, <1>4, PaidCall

(* An intrinsic without parameters that charges and asks the embedder.     *)
Told(m, name, what, values, answers) ==
    Charged(m, Prices[name],
            UNION {Return(Callback(Less(m, Prices[name]), what, values, <<>>), a, {}) : a \in answers})

(* Such an intrinsic is sound.                                             *)
LEMMA ToldSound ==
    ASSUME NEW m, IsMachine(m), NEW name \in PriceNames, NEW what, NEW values, NEW answers
    PROVE  \A o \in Told(m, name, what, values, answers) : Sound(m, o)
<1> DEFINE c == Less(m, Prices[name])
           d == Callback(c, what, values, <<>>)
           R == UNION {Return(d, a, {}) : a \in answers}
<1>1. Prices[name] \in 1..(GasWidth - 1) /\ Prices[name] \in Int
  BY Price, WidthAssumption
<1>2. ~exceeds(Prices[name], m.gas) => \A o \in R : Effect(c, o)
  <2>1. SUFFICES ASSUME ~exceeds(Prices[name], m.gas) PROVE \A o \in R : Effect(c, o)
    OBVIOUS
  <2>2. IsMachine(c)
    BY <1>1, <2>1, LessFacts
  <2>3. IsMachine(d) /\ d.gas = c.gas
    BY <2>2, CallbackMachine
  <2> HIDE DEF c, d
  <2>4. QED BY <2>2, <2>3, ReturnEffect
<1> HIDE DEF R
<1>3. \A o \in Charged(m, Prices[name], R) : Sound(m, o)
  BY <1>1, <1>2, ChargedSound
<1>4. QED BY <1>3 DEF R, Told

(* db_has_table, db_remove_table, current_time and current_height are of   *)
(* that form.                                                              *)
LEMMA TablesAndTimeSound ==
    ASSUME NEW m, IsMachine(m), NEW table
    PROVE  /\ \A o \in db_has_table(m, table) : Sound(m, o)
           /\ \A o \in db_remove_table(m, table) : Sound(m, o)
           /\ \A o \in current_time(m) : Sound(m, o)
           /\ \A o \in current_height(m) : Sound(m, o)
<1>1. "DB_HAS" \in PriceNames /\ "DB_RMV" \in PriceNames /\ "CALL_BASE" \in PriceNames
  BY DEF PriceNames
<1>2. db_has_table(m, table) = Told(m, "DB_HAS", "has_table", <<table>>, Answers)
  BY DEF db_has_table, use_gas, Told, Charged, Less
<1>3. db_remove_table(m, table) = Told(m, "DB_RMV", "remove_table", <<table>>, {0})
  <2> DEFINE d == Callback(Less(m, Prices["DB_RMV"]), "remove_table", <<table>>, <<>>)
  <2>1. db_remove_table(m, table) = Charged(m, Prices["DB_RMV"], Return(d, 0, {}))
    BY DEF db_remove_table, use_gas, Charged, Less
  <2>2. Return(d, 0, {}) = UNION {Return(d, a, {}) : a \in {0}}
    OBVIOUS
  <2>3. QED BY <2>1, <2>2, Zenon DEF Told
<1>4. current_time(m) = Told(m, "CALL_BASE", "current_time", <<>>, Answers)
  BY DEF current_time, use_gas, Told, Charged, Less
<1>5. current_height(m) = Told(m, "CALL_BASE", "current_height", <<>>, Answers)
  BY DEF current_height, use_gas, Told, Charged, Less
<1>6. QED BY <1>1, <1>2, <1>3, <1>4, <1>5, ToldSound

(* An intrinsic that charges any amount, zero or negative too, and tells   *)
(* the embedder of nothing.                                                *)
LEMMA FreeSound ==
    ASSUME NEW m, IsMachine(m), NEW amount \in Int, NEW ret
    PROVE  \A o \in Charged(m, amount, Return(Less(m, amount), ret, {})) : Sound(m, o)
<1> DEFINE c == Less(m, amount)
<1>1. CASE exceeds(amount, m.gas)
  BY <1>1, ThrowEffect DEF Charged, Ends
<1>2. CASE ~exceeds(amount, m.gas)
  <2>1. IsMachine(c) /\ c.host = m.host
    BY <1>2, LessFacts
  <2>2. \A o \in Return(c, ret, {}) : Effect(c, o) /\ o.m = c
    BY <2>1, ReturnEffect
  <2>3. \A o \in Charged(m, amount, Return(c, ret, {})) : Effect(m, o)
    BY <2>2, ChargedEffect
  <2>4. Charged(m, amount, Return(c, ret, {})) = Return(c, ret, {})
    BY <1>2 DEF Charged
  <2> HIDE DEF c
  <2>5. QED BY <2>1, <2>2, <2>3, <2>4 DEF Sound, c
<1>3. QED BY <1>1, <1>2

(* The intrinsics without pointers, use_gas with the contract's own amount *)
(* among them: every outcome is sound, whatever the contract passes.       *)
LEMMA PlainSound ==
    ASSUME NEW m, IsMachine(m), NEW condition, NEW amount \in Int
    PROVE  /\ \A o \in abort(m) : Sound(m, o)
           /\ \A o \in ftl_assert_code(m, condition) : Sound(m, o)
           /\ \A o \in ftl_exit(m) : Sound(m, o)
           /\ \A o \in injected_use_gas(m, amount) : Sound(m, o)
           /\ \A o \in action_data_size(m) : Sound(m, o)
           /\ \A o \in get_amount(m) : Sound(m, o)
<1> DEFINE base == Prices.CALL_BASE
           c == Less(m, base)
<1>1. base \in 1..(GasWidth - 1) /\ base \in Int
  BY Price, WidthAssumption DEF PriceNames
<1>2. \A o \in abort(m) : Sound(m, o)
  BY ThrowEffect DEF abort, Ends
<1>3. \A o \in ftl_assert_code(m, condition) : Sound(m, o)
  <2> DEFINE R == IF condition = 0 THEN Throw("wasm_runtime_exception", c) ELSE Return(c, 0, {})
  <2>1. ftl_assert_code(m, condition) = Charged(m, base, R)
    BY DEF ftl_assert_code, use_gas, Charged, Less
  <2>2. ~exceeds(base, m.gas) => IsMachine(c)
    BY <1>1, LessFacts
  <2>3. IsMachine(c) => \A o \in R : Effect(c, o)
    <3> HIDE DEF c
    <3>1. QED BY ThrowEffect, ReturnEffect DEF Sound, Ends
  <2> HIDE DEF R
  <2>4. QED BY <1>1, <2>1, <2>2, <2>3, ChargedSound
<1>4. \A o \in ftl_exit(m) : Sound(m, o)
  <2> DEFINE R == Throw("exit", c)
  <2>1. ftl_exit(m) = Charged(m, base, R)
    BY DEF ftl_exit, use_gas, Charged, Less
  <2>2. ~exceeds(base, m.gas) => IsMachine(c)
    BY <1>1, LessFacts
  <2>3. IsMachine(c) => \A o \in R : Effect(c, o)
    <3> HIDE DEF c
    <3>1. QED BY ThrowEffect DEF Sound, Ends
  <2> HIDE DEF R
  <2>4. QED BY <1>1, <2>1, <2>2, <2>3, ChargedSound
<1>5. injected_use_gas(m, amount) = Charged(m, amount, Return(Less(m, amount), 0, {}))
  BY DEF injected_use_gas, use_gas, Charged, Less
<1>6. action_data_size(m) = Charged(m, base, Return(c, Len(ActionData), {}))
  BY DEF action_data_size, use_gas, Charged, Less
<1>7. get_amount(m) = Charged(m, base, Return(c, 1, {}))
  BY DEF get_amount, use_gas, Charged, Less
<1> HIDE DEF base
<1>8. QED BY <1>1, <1>2, <1>3, <1>4, <1>5, <1>6, <1>7, FreeSound, Zenon

(* ftl_assert_message, which reads at most max_assert_message bytes: every *)
(* outcome is sound, whatever the contract passes.                         *)
LEMMA ftl_assert_messageSound ==
    ASSUME NEW m, IsMachine(m), NEW condition, NEW msg \in ArrayParams
    PROVE  \A o \in ftl_assert_message(m, condition, msg) : Sound(m, o)
<1> DEFINE xs == <<msg>>
           amount == Prices.CALL_BASE
           touched == Span(U32(msg.p), IF msg.n > max_assert_message THEN max_assert_message ELSE msg.n)
           c == Less(m, amount)
           R == IF condition # 0 THEN Return(c, 0, {})
                ELSE {Outcome("wasm_runtime_exception", c, 0, touched)}
<1>1. ftl_assert_message(m, condition, msg) = Invoked(m, xs, Charged(m, amount, R))
  BY DEF ftl_assert_message, invoke, use_gas, Invoked, Charged, Less
<1>2. xs \in Seq(Params)
  BY DEF Params
<1>3. Raising(m.mem, xs) = {} => amount \in 1..(GasWidth - 1) /\ touched \subseteq DOMAIN m.mem
  <2>1. amount \in 1..(GasWidth - 1)
    BY Price DEF PriceNames
  <2>2. ASSUME Raising(m.mem, xs) = {} PROVE touched \subseteq DOMAIN m.mem
    <3>1. Span(U32(msg.p), msg.n) \subseteq DOMAIN m.mem /\ msg.n \in 0..Width
          /\ U32(msg.p) \in DOMAIN m.mem
      BY <2>2, Translated, ArrayInside DEF IsMachine
    <3>2. DOMAIN m.mem \subseteq Int
      BY DEF IsMachine, IsMemory
    <3>3. max_assert_message \in Nat /\ Width \in Nat
      BY SizesAssumption, WidthAssumption
    <3>4. touched \subseteq Span(U32(msg.p), msg.n)
      BY <3>1, <3>2, <3>3 DEF Span
    <3>5. QED BY <3>1, <3>4
  <2>3. QED BY <2>1, <2>2
<1>4. ASSUME IsMachine(c), touched \subseteq DOMAIN c.mem PROVE \A o \in R : Effect(c, o)
  <2> HIDE DEF c, touched
  <2>1. \A o \in Return(c, 0, {}) : Effect(c, o)
    BY <1>4, ReturnEffect
  <2> DEFINE o == Outcome("wasm_runtime_exception", c, 0, touched)
  <2>2. Effect(c, o)
    <3>1. o = [end |-> "wasm_runtime_exception", m |-> c, ret |-> 0, touched |-> touched]
      BY DEF Outcome
    <3>2. IsOutcome(o)
      BY <1>4, <3>1 DEF IsOutcome, Ends
    <3>3. c.gas <= c.gas /\ c = [c EXCEPT !.gas = c.gas]
      BY <1>4 DEF IsMachine
    <3>4. QED BY <1>4, <3>1, <3>2, <3>3 DEF Effect
  <2>3. QED BY <2>1, <2>2
<1> HIDE DEF xs, amount, touched, R
<1>5. QED BY <1>1, <1>2, <1>3, <1>4, PaidCall

(* A part of a block of the memory.                                        *)
LEMMA Shorter ==
    ASSUME NEW mem, IsMemory(mem), NEW p \in DOMAIN mem, NEW n \in Nat, NEW k \in Nat, k <= n,
           Span(p, n) \subseteq DOMAIN mem
    PROVE  Span(p, k) \subseteq DOMAIN mem
<1>1. p \in Int
  BY DEF IsMemory
<1>2. Span(p, k) \subseteq Span(p, n)
  BY <1>1 DEF Span
<1>3. QED BY <1>2

(* read_action_data, which copies no more than the buffer holds: every     *)
(* outcome is sound, whatever the contract passes.                         *)
LEMMA read_action_dataSound ==
    ASSUME NEW m, IsMachine(m), NEW memory \in ArrayParams
    PROVE  \A o \in read_action_data(m, memory) : Sound(m, o)
<1> DEFINE xs == <<memory>>
           amount == Prices.CALL_BASE
           copy_size == Min({memory.n, Len(ActionData)})
           touched == Span(U32(memory.p), copy_size)
           c == Less(m, amount)
           rest == Len(ActionData) * Prices.MEMOP_BYTE
           d == Less(c, rest)
           w == [d EXCEPT !.mem = Write(@, U32(memory.p), SubSeq(ActionData, 1, copy_size))]
           R2 == Return(w, copy_size, touched)
           R == IF memory.n = 0 THEN Return(c, Len(ActionData), {}) ELSE Charged(c, rest, R2)
<1>1. read_action_data(m, memory) = Invoked(m, xs, Charged(m, amount, R))
  BY DEF read_action_data, invoke, use_gas, Invoked, Charged, Less
<1>2. xs \in Seq(Params)
  BY DEF Params
<1>3. Raising(m.mem, xs) = {} => amount \in 1..(GasWidth - 1) /\ touched \subseteq DOMAIN m.mem
  <2>1. amount \in 1..(GasWidth - 1)
    BY Price DEF PriceNames
  <2>2. ASSUME Raising(m.mem, xs) = {} PROVE touched \subseteq DOMAIN m.mem
    <3>1. memory.n \in 0..Width /\ U32(memory.p) \in DOMAIN m.mem
          /\ Span(U32(memory.p), memory.n) \subseteq DOMAIN m.mem
      BY <2>2, Translated, ArrayInside DEF IsMachine
    <3>2. memory.n \in Nat /\ Len(ActionData) \in Nat
      BY <3>1, WidthAssumption, ContextAssumption
    <3>3. {memory.n, Len(ActionData)} \in SUBSET Nat /\ {memory.n, Len(ActionData)} # {}
      BY <3>2
    <3>4. copy_size \in {memory.n, Len(ActionData)}
          /\ \A y \in {memory.n, Len(ActionData)} : copy_size <= y
      BY <3>3, SetMin, Zenon
    <3>5. copy_size \in Nat /\ copy_size <= memory.n
      BY <3>2, <3>4
    <3> HIDE DEF copy_size
    <3>6. QED BY <3>1, <3>2, <3>5, Shorter DEF IsMachine
  <2>3. QED BY <2>1, <2>2
<1>4. ASSUME IsMachine(c), touched \subseteq DOMAIN c.mem PROVE \A o \in R : Effect(c, o)
  <2> HIDE DEF c, touched, copy_size
  <2>1. rest \in Int
    <3>1. Len(ActionData) \in Nat /\ Prices.MEMOP_BYTE \in Nat
      BY ContextAssumption, PricesAssumption DEF PriceNames
    <3>2. \A a, b \in Nat : a * b \in Int
      OBVIOUS
    <3>3. QED BY <3>1, <3>2
  <2>2. \A o \in Return(c, Len(ActionData), {}) : Effect(c, o)
    BY <1>4, ReturnEffect
  <2>3. ~exceeds(rest, c.gas) => \A o \in R2 : Effect(d, o)
    <3>1. SUFFICES ASSUME ~exceeds(rest, c.gas) PROVE \A o \in R2 : Effect(d, o)
      OBVIOUS
    <3>2. IsMachine(d) /\ d.mem = c.mem
      BY <1>4, <2>1, <3>1, LessFacts
    <3> HIDE DEF d
    <3>3. IsMachine(w) /\ w.gas = d.gas
      BY <3>2, WriteMemory, MemoryMachine DEF IsMachine
    <3> HIDE DEF w
    <3>4. QED BY <1>4, <3>2, <3>3, ReturnEffect
  <2> HIDE DEF R2, rest
  <2>4. \A o \in Charged(c, rest, R2) : Effect(c, o)
    BY <1>4, <2>1, <2>3, ChargedEffect
  <2>5. QED BY <2>2, <2>4
<1> HIDE DEF xs, amount, touched, R
<1>5. QED BY <1>1, <1>2, <1>3, <1>4, PaidCall

(* get_from, get_to, get_owner and get_user, which copy no more than the   *)
(* buffer holds: every outcome is sound, whatever the contract passes.     *)
LEMMA get_addressSound ==
    ASSUME NEW m, IsMachine(m), NEW who, NEW address \in ArrayParams
    PROVE  \A o \in get_address(m, who, address) : Sound(m, o)
<1> DEFINE xs == <<address>>
           amount == Prices.CALL_BASE + AddressSize * Prices.MEMOP_BYTE
           len == IF address.n >= AddressSize THEN AddressSize ELSE address.n
           touched == Span(U32(address.p), len)
           c == Less(m, amount)
           d == [c EXCEPT !.mem = Write(@, U32(address.p), SubSeq(Addresses[who], 1, len))]
           R == Return(d, 0, touched)
<1>1. get_address(m, who, address) = Invoked(m, xs, Charged(m, amount, R))
  BY DEF get_address, invoke, use_gas, Invoked, Charged, Less
<1>2. xs \in Seq(Params)
  BY DEF Params
<1>3. Raising(m.mem, xs) = {} => amount \in 1..(GasWidth - 1) /\ touched \subseteq DOMAIN m.mem
  <2>1. amount \in 1..(GasWidth - 1)
    BY Price, SizesAssumption DEF PriceNames
  <2>2. ASSUME Raising(m.mem, xs) = {} PROVE touched \subseteq DOMAIN m.mem
    <3>1. address.n \in 0..Width /\ U32(address.p) \in DOMAIN m.mem
          /\ Span(U32(address.p), address.n) \subseteq DOMAIN m.mem
      BY <2>2, Translated, ArrayInside DEF IsMachine
    <3>2. address.n \in Nat /\ len \in Nat /\ len <= address.n
      BY <3>1, WidthAssumption, SizesAssumption
    <3> HIDE DEF len
    <3>3. QED BY <3>1, <3>2, Shorter DEF IsMachine
  <2>3. QED BY <2>1, <2>2
<1>4. ASSUME IsMachine(c), touched \subseteq DOMAIN c.mem PROVE \A o \in R : Effect(c, o)
  <2>1. IsMachine(d) /\ d.gas = c.gas
    BY <1>4, WriteMemory, MemoryMachine DEF IsMachine
  <2> HIDE DEF c, d, touched
  <2>2. QED BY <1>4, <2>1, ReturnEffect
<1> HIDE DEF xs, amount, touched, R
<1>5. QED BY <1>1, <1>2, <1>3, <1>4, PaidCall

(* log_0, log_1 and log_2: every outcome is sound, whatever the contract   *)
(* passes.                                                                 *)
LEMMA logSound ==
    ASSUME NEW m, IsMachine(m), NEW data \in ArrayParams, NEW topics \in Seq(RefParams),
           NEW base \in PriceNames
    PROVE  \A o \in log(m, data, topics, Prices[base]) : Sound(m, o)
<1> DEFINE xs == <<data>> \o topics
           amount == Prices[base] + data.n * Prices.LOG_DATA
           touched == Spans(data) \cup UNION {Spans(topics[k]) : k \in 1..Len(topics)}
           c == Less(m, amount)
           d == Callback(c, "add_log", <<Len(topics)>>,
                         <<FlattenSeq([k \in 1..Len(topics) |-> At(c, topics[k])]), At(c, data)>>)
           R == Return(d, 0, touched)
<1>1. log(m, data, topics, Prices[base]) = Invoked(m, xs, Charged(m, amount, R))
  BY DEF log, invoke, use_gas, Invoked, Charged, Less
<1>2. topics \in Seq(Params) /\ data \in Params
  BY DEF Params
<1>3. xs \in Seq(Params)
  BY <1>2
<1>4. Raising(m.mem, xs) = {} => amount \in 1..(GasWidth - 1) /\ touched \subseteq DOMAIN m.mem
  <2>1. SUFFICES ASSUME Raising(m.mem, xs) = {}
                 PROVE  amount \in 1..(GasWidth - 1) /\ touched \subseteq DOMAIN m.mem
    OBVIOUS
  <2>2. \A k \in 1..Len(xs) : translate_one(m.mem, xs[k]) = {}
    BY <2>1 DEF Raising
  <2>3. Len(xs) = Len(topics) + 1 /\ xs[1] = data /\ \A k \in 1..Len(topics) : xs[k + 1] = topics[k]
    BY <1>2
  <2>4. Len(topics) \in Nat
    OBVIOUS
  <2> HIDE DEF xs
  <2>5. 1 \in 1..Len(xs) /\ \A k \in 1..Len(topics) : k + 1 \in 1..Len(xs)
    BY <2>3, <2>4
  <2>6. translate_one(m.mem, data) = {}
    BY <2>2, <2>3, <2>5
  <2>7. \A k \in 1..Len(topics) : translate_one(m.mem, topics[k]) = {}
    BY <2>2, <2>3, <2>5
  <2>8. \A k \in 1..Len(topics) : Spans(topics[k]) \subseteq DOMAIN m.mem
    <3> TAKE k \in 1..Len(topics)
    <3>1. topics[k] \in RefParams /\ IsMemory(m.mem)
      BY DEF IsMachine
    <3>2. QED BY <2>7, <3>1, RefInside
  <2>9. data.n \in 0..Width /\ Spans(data) \subseteq DOMAIN m.mem
    BY <2>6, ArrayInside DEF IsMachine
  <2>10. amount \in 1..(GasWidth - 1)
    BY <2>9, Price DEF PriceNames
  <2>11. QED BY <2>8, <2>9, <2>10
<1>5. ASSUME IsMachine(c), touched \subseteq DOMAIN c.mem PROVE \A o \in R : Effect(c, o)
  <2>1. IsMachine(d) /\ d.gas = c.gas
    BY <1>5, CallbackMachine
  <2> HIDE DEF c, d, touched
  <2>2. QED BY <1>5, <2>1, ReturnEffect
<1> HIDE DEF xs, amount, touched, R
<1>6. QED BY <1>1, <1>3, <1>4, <1>5, PaidCall

(* The console, which is free: every outcome is sound, whatever the        *)
(* contract passes.                                                        *)
LEMMA ConsoleSound ==
    ASSUME NEW m, IsMachine(m), NEW what, NEW text \in TextParams, NEW array \in ArrayParams,
           NEW ref \in RefParams
    PROVE  /\ \A o \in Return(console_append(m, what), 0, {}) : Sound(m, o)
           /\ \A o \in printValue(m, what) : Sound(m, o)
           /\ \A o \in prints(m, text) : Sound(m, o)
           /\ \A o \in prints_l(m, array) : Sound(m, o)
           /\ \A o \in printqf(m, ref) : Sound(m, o)
           /\ \A o \in printhex(m, array) : Sound(m, o)
<1>1. ASSUME NEW w, NEW touched, touched \subseteq DOMAIN m.mem
      PROVE  \A o \in Return(console_append(m, w), 0, touched) : Sound(m, o)
  BY <1>1, ConsoleMachine, ReturnEffect
<1>2. <<text>> \in Seq(Params) /\ <<array>> \in Seq(Params) /\ <<ref>> \in Seq(Params)
  BY DEF Params
<1>3. \A o \in printValue(m, what) : Sound(m, o)
  BY <1>1 DEF printValue
<1>4. \A o \in prints(m, text) : Sound(m, o)
  <2> DEFINE end == Min({a \in DOMAIN m.mem : a >= U32(text.p) /\ m.mem[a] = 0})
             w == BytesAt(m.mem, U32(text.p), end - U32(text.p))
  <2>1. prints(m, text) = Invoked(m, <<text>>, Return(console_append(m, w), 0, {}))
    BY DEF prints, invoke, Invoked
  <2> HIDE DEF w
  <2>2. QED BY <1>1, <1>2, <2>1, InvokedSound
<1>5. \A o \in prints_l(m, array) : Sound(m, o)
  <2>1. prints_l(m, array) = Invoked(m, <<array>>, Return(console_append(m, At(m, array)), 0, Spans(array)))
    BY DEF prints_l, invoke, Invoked
  <2>2. Raising(m.mem, <<array>>) = {} => Spans(array) \subseteq DOMAIN m.mem
    BY Translated, ArrayInside DEF IsMachine
  <2>3. QED BY <1>1, <1>2, <2>1, <2>2, InvokedSound
<1>6. \A o \in printqf(m, ref) : Sound(m, o)
  <2>1. printqf(m, ref) = Invoked(m, <<ref>>, Return(console_append(m, At(m, ref)), 0, Spans(ref)))
    BY DEF printqf, invoke, Invoked
  <2>2. Raising(m.mem, <<ref>>) = {} => Spans(ref) \subseteq DOMAIN m.mem
    BY Translated, RefInside DEF IsMachine
  <2>3. QED BY <1>1, <1>2, <2>1, <2>2, InvokedSound
<1>7. \A o \in printhex(m, array) : Sound(m, o)
  <2>1. printhex(m, array) = Invoked(m, <<array>>, Return(m, 0, {}))
    BY DEF printhex, invoke, Invoked
  <2>2. \A o \in Return(m, 0, {}) : Sound(m, o)
    BY ReturnEffect
  <2>3. QED BY <1>2, <2>1, <2>2, InvokedSound
<1>8. QED BY <1>1, <1>3, <1>4, <1>5, <1>6, <1>7

(* The price of a memory function is positive and does not wrap.           *)
LEMMA MemoryPrices ==
    ASSUME NEW n \in 0..Width
    PROVE  MemoryPrice(n) \in 1..(GasWidth - 1)
BY Price DEF MemoryPrice, PriceNames

(* What a memory function returns: convert_native_to_wasm gives back the   *)
(* address of its destination.                                             *)
LEMMA Converted ==
    ASSUME NEW c, IsMachine(c), NEW mem, IsMemory(mem), DOMAIN mem = DOMAIN c.mem,
           NEW p \in DOMAIN mem, NEW touched, touched \subseteq DOMAIN c.mem
    PROVE  \A o \in convert_native_to_wasm([c EXCEPT !.mem = mem], p, touched) :
               Effect(c, o) /\ o.m.mem = mem /\ o.ret = p
<1> DEFINE d == [c EXCEPT !.mem = mem]
<1>1. IsMachine(d) /\ d.gas = c.gas /\ d.mem = mem
  BY MemoryMachine
<1> HIDE DEF d
<1>2. convert_native_to_wasm(d, p, touched) = Return(d, p, touched)
  BY <1>1 DEF convert_native_to_wasm
<1>3. \A o \in Return(d, p, touched) : Effect(c, o) /\ o.m = d /\ o.ret = p
  BY <1>1, ReturnEffect
<1>4. QED BY <1>1, <1>2, <1>3 DEF d

(* memset: every outcome is sound, whatever the contract passes.           *)
LEMMA memsetSound ==
    ASSUME NEW m, IsMachine(m), NEW dest \in ArrayParams, NEW value
    PROVE  \A o \in memset(m, dest, value) : Sound(m, o)
<1> DEFINE xs == <<dest>>
           amount == MemoryPrice(dest.n)
           touched == Spans(dest)
           c == Less(m, amount)
           mem == Write(c.mem, U32(dest.p), [k \in 1..dest.n |-> value])
           R == convert_native_to_wasm([c EXCEPT !.mem = mem], U32(dest.p), touched)
<1>1. memset(m, dest, value) = Invoked(m, xs, Charged(m, amount, R))
  BY DEF memset, invoke, use_gas, Invoked, Charged, Less
<1>2. xs \in Seq(Params)
  BY DEF Params
<1>3. Raising(m.mem, xs) = {} =>
          /\ amount \in 1..(GasWidth - 1) /\ touched \subseteq DOMAIN m.mem
          /\ U32(dest.p) \in DOMAIN m.mem
  BY Translated, ArrayInside, MemoryPrices DEF IsMachine
<1>4. Raising(m.mem, xs) = {} /\ ~exceeds(amount, m.gas) => \A o \in R : Effect(c, o)
  <2>1. SUFFICES ASSUME Raising(m.mem, xs) = {}, ~exceeds(amount, m.gas)
                 PROVE  \A o \in R : Effect(c, o)
    OBVIOUS
  <2>2. amount \in Int
    BY <1>3, <2>1, WidthAssumption
  <2>3. IsMachine(c) /\ c.mem = m.mem
    BY <2>1, <2>2, LessFacts
  <2>4. IsMemory(mem) /\ DOMAIN mem = DOMAIN c.mem
    BY <2>3, WriteMemory DEF IsMachine
  <2> HIDE DEF c, mem, touched
  <2>5. QED BY <1>3, <2>1, <2>3, <2>4, Converted
<1> HIDE DEF xs, amount, touched, R
<1>5. QED BY <1>1, <1>2, <1>3, <1>4, ChargedCall

(* memcmp: every outcome is sound, whatever the contract passes.           *)
LEMMA memcmpSound ==
    ASSUME NEW m, IsMachine(m), NEW x \in PairParams
    PROVE  \A o \in memcmp(m, x) : Sound(m, o)
<1> DEFINE xs == <<x>>
           amount == MemoryPrice(x.n)
           touched == Span(U32(x.p), x.n) \cup Span(U32(x.q), x.n)
           c == Less(m, amount)
           differ == {k \in 0..(x.n - 1) : ByteAt(c.mem, U32(x.p) + k) # ByteAt(c.mem, U32(x.q) + k)}
           ret == IF differ = {} THEN 0
                  ELSE IF ByteAt(c.mem, U32(x.p) + Min(differ)) < ByteAt(c.mem, U32(x.q) + Min(differ))
                       THEN -1 ELSE 1
           R == Return(c, ret, touched)
<1>1. memcmp(m, x) = Invoked(m, xs, Charged(m, amount, R))
  BY DEF memcmp, invoke, use_gas, Invoked, Charged, Less
<1>2. xs \in Seq(Params)
  BY DEF Params
<1>3. Raising(m.mem, xs) = {} => amount \in 1..(GasWidth - 1) /\ touched \subseteq DOMAIN m.mem
  BY Translated, PairInside, MemoryPrices DEF IsMachine
<1>4. ASSUME IsMachine(c), touched \subseteq DOMAIN c.mem PROVE \A o \in R : Effect(c, o)
  <2> HIDE DEF c, touched, ret
  <2>1. QED BY <1>4, ReturnEffect
<1> HIDE DEF xs, amount, touched, R
<1>5. QED BY <1>1, <1>2, <1>3, <1>4, PaidCall

(* The memory with the first k bytes at q, as they were, now at p.         *)
Moved(mem, p, q, k) ==
    [a \in DOMAIN mem |-> mem[IF a \in Span(p, k) THEN a - p + q ELSE a]]

(* memmove: reading the block before any of it is written leaves just      *)
(* that.                                                                   *)
LEMMA BlockMoved ==
    ASSUME NEW mem, IsMemory(mem), NEW p \in DOMAIN mem, NEW q \in DOMAIN mem, NEW k \in Nat,
           Span(p, k) \subseteq DOMAIN mem, Span(q, k) \subseteq DOMAIN mem
    PROVE  Write(mem, p, BytesAt(mem, q, k)) = Moved(mem, p, q, k)
<1> DEFINE bytes == BytesAt(mem, q, k)
<1>1. DOMAIN mem \subseteq Int /\ p \in Int /\ q \in Int
  BY DEF IsMemory
<1>2. bytes = [j \in 1..k |-> ByteAt(mem, q + j - 1)] /\ Len(bytes) = k
  <2>1. \A f : f = [j \in 1..k |-> f[j]] => Len(f) = k
    OBVIOUS
  <2>2. bytes = [j \in 1..k |-> ByteAt(mem, q + j - 1)]
    BY DEF BytesAt
  <2>3. QED BY <2>1, <2>2
<1> HIDE DEF bytes
<1>3. ASSUME NEW a \in DOMAIN mem, a \in Span(p, k)
      PROVE  bytes[a - p + 1] = mem[a - p + q]
  <2>1. a \in Int /\ p <= a /\ a <= p + k - 1
    BY <1>1, <1>3 DEF Span
  <2>2. a - p + 1 \in 1..k /\ q + (a - p + 1) - 1 = a - p + q
    BY <1>1, <2>1
  <2>3. a - p + q \in Span(q, k)
    BY <1>1, <2>1 DEF Span
  <2>4. bytes[a - p + 1] = ByteAt(mem, q + (a - p + 1) - 1)
    BY <1>2, <2>2
  <2>5. QED BY <2>2, <2>3, <2>4 DEF ByteAt
<1>4. Write(mem, p, bytes) = Moved(mem, p, q, k)
  <2>1. Len(bytes) = k
    BY <1>2
  <2>2. \A a \in DOMAIN mem : (IF a \in Span(p, k) THEN bytes[a - p + 1] ELSE mem[a]) =
                             mem[IF a \in Span(p, k) THEN a - p + q ELSE a]
    BY <1>3
  <2>3. QED BY <2>1, <2>2, Zenon DEF Write, Moved
<1>5. QED BY <1>4 DEF bytes

(* One byte more, copied after those before it: right because blocks that  *)
(* memcpy accepts do not overlap.                                          *)
LEMMA MovedStep ==
    ASSUME NEW mem, IsMemory(mem), NEW p \in DOMAIN mem, NEW q \in DOMAIN mem, NEW n \in Nat,
           Span(p, n) \subseteq DOMAIN mem, Span(q, n) \subseteq DOMAIN mem,
           ~alias(p, q, n), NEW k \in 1..n
    PROVE  Moved(mem, p, q, k) =
               Write(Moved(mem, p, q, k - 1), p + k - 1, <<ByteAt(Moved(mem, p, q, k - 1), q + k - 1)>>)
<1> DEFINE old == Moved(mem, p, q, k - 1)
           b == ByteAt(old, q + k - 1)
<1>1. DOMAIN mem \subseteq Int /\ p \in Int /\ q \in Int
  BY DEF IsMemory
<1>2. q + k - 1 \in DOMAIN mem /\ q + k - 1 \notin Span(p, k - 1)
  <2>1. q + k - 1 \in Span(q, n)
    BY <1>1 DEF Span
  <2>2. q + k - 1 \notin Span(p, k - 1)
    BY <1>1 DEF Span, alias
  <2>3. QED BY <2>1, <2>2
<1>3. DOMAIN old = DOMAIN mem
  BY DEF Moved
<1>4. b = mem[q + k - 1]
  BY <1>2, <1>3 DEF ByteAt, Moved
<1>5. Write(old, p + k - 1, <<b>>) =
          [a \in DOMAIN mem |-> IF a = p + k - 1 THEN b ELSE old[a]]
  <2> HIDE DEF b, old
  <2>1. Len(<<b>>) = 1 /\ <<b>>[1] = b
    OBVIOUS
  <2>2. \A a \in DOMAIN mem : a \in Span(p + k - 1, 1) <=> a = p + k - 1
    BY <1>1 DEF Span
  <2>3. \A a \in DOMAIN mem : a = p + k - 1 => a - (p + k - 1) + 1 = 1
    BY <1>1
  <2>4. QED BY <1>3, <2>1, <2>2, <2>3 DEF Write
<1>6. ASSUME NEW a \in DOMAIN mem
      PROVE  mem[IF a \in Span(p, k) THEN a - p + q ELSE a] = IF a = p + k - 1 THEN b ELSE old[a]
  <2>1. a \in Int
    BY <1>1
  <2>2. CASE a = p + k - 1
    <3>1. a \in Span(p, k) /\ a - p + q = q + k - 1
      BY <1>1, <2>2 DEF Span
    <3>2. QED BY <1>4, <2>2, <3>1
  <2>3. CASE a # p + k - 1
    <3>1. a \in Span(p, k) <=> a \in Span(p, k - 1)
      BY <1>1, <2>1, <2>3 DEF Span
    <3>2. old[a] = mem[IF a \in Span(p, k - 1) THEN a - p + q ELSE a]
      BY DEF Moved
    <3>3. QED BY <2>3, <3>1, <3>2
  <2>4. QED BY <2>2, <2>3
<1>7. Moved(mem, p, q, k) = [a \in DOMAIN mem |-> IF a = p + k - 1 THEN b ELSE old[a]]
  <2> HIDE DEF b, old
  <2>1. QED BY <1>6 DEF Moved
<1>8. QED BY <1>5, <1>7

(* The C library may copy the block as a whole or byte by byte from the    *)
(* front; when alias() is false both leave the same memory.                *)
LEMMA CopiedExact ==
    ASSUME NEW mem, IsMemory(mem), NEW p \in DOMAIN mem, NEW q \in DOMAIN mem, NEW n \in Nat,
           Span(p, n) \subseteq DOMAIN mem, Span(q, n) \subseteq DOMAIN mem, ~alias(p, q, n)
    PROVE  Copied(mem, p, q, n) = {Moved(mem, p, q, n)}
<1> DEFINE G(k) == Moved(mem, p, q, k)
           g == [k \in 0..n |-> G(k)]
           Body(f, k) == IF k = 0 THEN mem
                         ELSE Write(f[k - 1], p + k - 1, <<ByteAt(f[k - 1], q + k - 1)>>)
           Runs(f) == f = [k \in 0..n |-> Body(f, k)]
           copied == CHOOSE f : Runs(f)
<1>1. G(0) = mem
  <2>1. DOMAIN mem \subseteq Int /\ p \in Int /\ q \in Int
    BY DEF IsMemory
  <2>2. Span(p, 0) = {}
    BY <2>1 DEF Span
  <2>3. QED BY <2>2 DEF Moved, IsMemory
<1>2. \A k \in 1..n : G(k) = Write(G(k - 1), p + k - 1, <<ByteAt(G(k - 1), q + k - 1)>>)
  BY MovedStep
<1>3. Runs(g)
  <2> HIDE DEF G
  <2>1. ASSUME NEW k \in 0..n PROVE G(k) = Body(g, k)
    <3>1. CASE k = 0
      BY <1>1, <3>1
    <3>2. CASE k # 0
      <4>1. k \in 1..n /\ k - 1 \in 0..n
        BY <3>2
      <4>2. g[k - 1] = G(k - 1)
        BY <4>1
      <4>3. QED BY <1>2, <3>2, <4>1, <4>2
    <3>3. QED BY <3>1, <3>2
  <2>2. QED BY <2>1, Zenon
<1>4. Runs(copied)
  BY <1>3, Zenon
<1>5. copied[n] = G(n)
  <2> HIDE DEF G, copied
  <2> DEFINE Bad == {k \in 0..n : copied[k] # G(k)}
  <2>1. SUFFICES ASSUME Bad # {} PROVE FALSE
    OBVIOUS
  <2>2. PICK k \in Bad : \A l \in Bad : k <= l
    <3>1. Bad \in SUBSET Nat
      OBVIOUS
    <3> HIDE DEF Bad
    <3>2. QED BY <2>1, <3>1, LeastNatural
  <2>3. k \in 0..n /\ copied[k] # G(k) /\ copied[k] = Body(copied, k)
    BY <1>4, <2>2
  <2>4. k # 0
    BY <1>1, <2>3
  <2>5. k \in 1..n /\ k - 1 \in 0..n /\ copied[k - 1] = G(k - 1)
    BY <2>2, <2>3, <2>4
  <2>6. QED BY <1>2, <2>3, <2>4, <2>5
<1>6. Copied(mem, p, q, n) = {Write(mem, p, BytesAt(mem, q, n)), copied[n]}
  BY DEF Copied
<1>7. QED BY <1>5, <1>6, BlockMoved

(* MemoryExact of one outcome of memcpy or memmove.                        *)
Moves(m, x, o) ==
    o.end = "return" => o.ret = U32(x.p) /\ o.m.mem = Moved(m.mem, U32(x.p), U32(x.q), x.n)

(* Translation and charging keep it.                                       *)
LEMMA InvokedMoves ==
    ASSUME NEW m, IsMachine(m), NEW x \in PairParams, NEW amount, NEW outcomes,
           Raising(m.mem, <<x>>) = {} /\ ~exceeds(amount, m.gas)
               => \A o \in outcomes : IsOutcome(o) /\ Moves(m, x, o)
    PROVE  \A o \in Invoked(m, <<x>>, Charged(m, amount, outcomes)) : Moves(m, x, o)
<1> SUFFICES ASSUME NEW o \in Invoked(m, <<x>>, Charged(m, amount, outcomes)), o.end = "return"
             PROVE  o.ret = U32(x.p) /\ o.m.mem = Moved(m.mem, U32(x.p), U32(x.q), x.n)
  BY DEF Moves
<1> DEFINE xs == <<x>>
<1>1. xs \in Seq(Params) /\ Len(xs) = 1 /\ xs[1] = x
  BY DEF Params
<1>2. Raising(m.mem, xs) = {}
  <2>1. SUFFICES ASSUME Raising(m.mem, xs) # {} PROVE FALSE
    OBVIOUS
  <2>2. Raising(m.mem, xs) = {1}
    BY <1>1, <2>1 DEF Raising
  <2>3. Max({1}) = 1
    <3>1. 1 \in Int /\ {1} \in SUBSET Int /\ {1} # {} /\ \A k \in {1} : k <= 1
      OBVIOUS
    <3>2. Max({1}) \in {1}
      BY <3>1, SetMax, Zenon
    <3>3. QED BY <3>2, Zenon
  <2>4. translate_one(m.mem, x) \subseteq Raised
    BY ParamFacts DEF IsMachine, Params
  <2>5. o \in UNION {Throw(e, m) : e \in translate_one(m.mem, x)}
    BY <1>1, <2>1, <2>2, <2>3 DEF Invoked
  <2>6. PICK e \in Raised : o \in Throw(e, m)
    BY <2>4, <2>5
  <2>7. o.end = e
    BY <2>6 DEF Throw, Outcome
  <2>8. QED BY <2>6, <2>7 DEF Raised
<1> DEFINE scanned == UNION {Scanned(m.mem, xs[k]) : k \in 1..Len(xs)}
<1>3. PICK r \in Charged(m, amount, outcomes) : o = [r EXCEPT !.touched = @ \cup scanned]
  BY <1>2 DEF Invoked
<1>4. ASSUME IsOutcome(r) PROVE o.end = r.end /\ o.m = r.m /\ o.ret = r.ret
  <2>1. r = [end |-> r.end, m |-> r.m, ret |-> r.ret, touched |-> r.touched]
    BY <1>4 DEF IsOutcome
  <2> DEFINE t == r.touched \cup scanned
  <2>2. o = [r EXCEPT !.touched = t]
    BY <1>3
  <2> HIDE DEF t
  <2>3. o = [end |-> r.end, m |-> r.m, ret |-> r.ret, touched |-> t]
    BY <2>1, <2>2
  <2>4. QED BY <2>3
<1> HIDE DEF scanned
<1>5. ~exceeds(amount, m.gas)
  <2>1. SUFFICES ASSUME exceeds(amount, m.gas) PROVE FALSE
    OBVIOUS
  <2>2. r \in Throw("wasm_runtime_exception", m)
    BY <1>3, <2>1 DEF Charged
  <2>3. IsOutcome(r)
    BY <2>2, ThrowEffect DEF Ends, Sound, Effect
  <2>4. r.end = "wasm_runtime_exception"
    BY <2>2 DEF Throw, Outcome
  <2>5. QED BY <1>4, <2>3, <2>4
<1>6. r \in outcomes
  BY <1>3, <1>5 DEF Charged
<1>7. IsOutcome(r) /\ Moves(m, x, r)
  BY <1>2, <1>5, <1>6
<1>8. QED BY <1>4, <1>7 DEF Moves

(* The moved memory as the result of the call.                             *)
LEMMA MovedConverted ==
    ASSUME NEW c, IsMachine(c), NEW x \in PairParams, translate_one(c.mem, x) = {}
    PROVE  \A o \in convert_native_to_wasm([c EXCEPT !.mem = Moved(c.mem, U32(x.p), U32(x.q), x.n)],
                        U32(x.p), Span(U32(x.p), x.n) \cup Span(U32(x.q), x.n)) :
               Effect(c, o) /\ Moves(c, x, o)
<1> DEFINE mem == Moved(c.mem, U32(x.p), U32(x.q), x.n)
           touched == Span(U32(x.p), x.n) \cup Span(U32(x.q), x.n)
<1>1. IsMemory(mem) /\ DOMAIN mem = DOMAIN c.mem
  BY DEF Moved, IsMachine, IsMemory
<1>2. U32(x.p) \in DOMAIN c.mem /\ touched \subseteq DOMAIN c.mem
  BY PairInside DEF IsMachine
<1> HIDE DEF touched, mem
<1>3. \A o \in convert_native_to_wasm([c EXCEPT !.mem = mem], U32(x.p), touched) :
          Effect(c, o) /\ o.m.mem = mem /\ o.ret = U32(x.p)
  BY <1>1, <1>2, Converted
<1>4. QED BY <1>3 DEF touched, mem, Moves

(* memmove is sound and moves the bytes as they were before the call.      *)
LEMMA memmoveSound ==
    ASSUME NEW m, IsMachine(m), NEW x \in PairParams
    PROVE  \A o \in memmove(m, x) : Sound(m, o) /\ Moves(m, x, o)
<1> DEFINE xs == <<x>>
           amount == MemoryPrice(x.n)
           touched == Span(U32(x.p), x.n) \cup Span(U32(x.q), x.n)
           c == Less(m, amount)
           mem == Write(c.mem, U32(x.p), BytesAt(c.mem, U32(x.q), x.n))
           R == convert_native_to_wasm([c EXCEPT !.mem = mem], U32(x.p), touched)
<1>1. memmove(m, x) = Invoked(m, xs, Charged(m, amount, R))
  BY DEF memmove, invoke, use_gas, Invoked, Charged, Less
<1>2. xs \in Seq(Params)
  BY DEF Params
<1>3. Raising(m.mem, xs) = {} => amount \in 1..(GasWidth - 1) /\ amount \in Int
  <2>1. Raising(m.mem, xs) = {} => amount \in 1..(GasWidth - 1)
    BY Translated, PairInside, MemoryPrices DEF IsMachine
  <2>2. 1..(GasWidth - 1) \subseteq Int
    BY WidthAssumption
  <2>3. QED BY <2>1, <2>2
<1>4. Raising(m.mem, xs) = {} /\ ~exceeds(amount, m.gas)
          => \A o \in R : Effect(c, o) /\ Moves(m, x, o)
  <2>1. SUFFICES ASSUME Raising(m.mem, xs) = {}, ~exceeds(amount, m.gas)
                 PROVE  \A o \in R : Effect(c, o) /\ Moves(m, x, o)
    OBVIOUS
  <2>2. IsMachine(c) /\ c.mem = m.mem
    BY <1>3, <2>1, LessFacts
  <2>3. translate_one(c.mem, x) = {}
    BY <2>1, <2>2, Translated
  <2> HIDE DEF c
  <2>4. /\ x.n \in 0..Width /\ U32(x.p) \in DOMAIN c.mem /\ U32(x.q) \in DOMAIN c.mem
        /\ Span(U32(x.p), x.n) \subseteq DOMAIN c.mem
        /\ Span(U32(x.q), x.n) \subseteq DOMAIN c.mem
        /\ IsMemory(c.mem)
    BY <2>2, <2>3, PairInside DEF IsMachine
  <2>5. x.n \in Nat
    BY <2>4, WidthAssumption
  <2>6. mem = Moved(c.mem, U32(x.p), U32(x.q), x.n)
    BY <2>4, <2>5, BlockMoved
  <2> HIDE DEF mem
  <2>7. \A o \in R : Effect(c, o) /\ Moves(c, x, o)
    BY <2>2, <2>3, <2>6, MovedConverted
  <2>8. QED BY <2>2, <2>7 DEF Moves
<1> HIDE DEF amount, R
<1>5. \A o \in Invoked(m, xs, Charged(m, amount, R)) : Sound(m, o)
  <2> HIDE DEF xs
  <2>1. QED BY <1>2, <1>3, <1>4, ChargedCall
<1>6. \A o \in Invoked(m, xs, Charged(m, amount, R)) : Moves(m, x, o)
  BY <1>4, InvokedMoves DEF Effect
<1>7. QED BY <1>1, <1>5, <1>6

(* So does memcpy, which throws when the blocks overlap.                   *)
LEMMA memcpySound ==
    ASSUME NEW m, IsMachine(m), NEW x \in PairParams
    PROVE  \A o \in memcpy(m, x) : Sound(m, o) /\ Moves(m, x, o)
<1> DEFINE xs == <<x>>
           amount == MemoryPrice(x.n)
           touched == Span(U32(x.p), x.n) \cup Span(U32(x.q), x.n)
           c == Less(m, amount)
           R == IF alias(U32(x.p), U32(x.q), x.n) THEN Throw("overlapping_memory_error", c)
                ELSE UNION {convert_native_to_wasm([c EXCEPT !.mem = b], U32(x.p), touched) :
                                b \in Copied(c.mem, U32(x.p), U32(x.q), x.n)}
<1>1. memcpy(m, x) = Invoked(m, xs, Charged(m, amount, R))
  BY DEF memcpy, invoke, use_gas, Invoked, Charged, Less
<1>2. xs \in Seq(Params)
  BY DEF Params
<1>3. Raising(m.mem, xs) = {} => amount \in 1..(GasWidth - 1) /\ amount \in Int
  <2>1. Raising(m.mem, xs) = {} => amount \in 1..(GasWidth - 1)
    BY Translated, PairInside, MemoryPrices DEF IsMachine
  <2>2. 1..(GasWidth - 1) \subseteq Int
    BY WidthAssumption
  <2>3. QED BY <2>1, <2>2
<1>4. Raising(m.mem, xs) = {} /\ ~exceeds(amount, m.gas)
          => \A o \in R : Effect(c, o) /\ Moves(m, x, o)
  <2>1. SUFFICES ASSUME Raising(m.mem, xs) = {}, ~exceeds(amount, m.gas)
                 PROVE  \A o \in R : Effect(c, o) /\ Moves(m, x, o)
    OBVIOUS
  <2>2. IsMachine(c) /\ c.mem = m.mem
    BY <1>3, <2>1, LessFacts
  <2>3. translate_one(c.mem, x) = {}
    BY <2>1, <2>2, Translated
  <2> HIDE DEF c
  <2>4. /\ x.n \in 0..Width /\ U32(x.p) \in DOMAIN c.mem /\ U32(x.q) \in DOMAIN c.mem
        /\ Span(U32(x.p), x.n) \subseteq DOMAIN c.mem
        /\ Span(U32(x.q), x.n) \subseteq DOMAIN c.mem
        /\ IsMemory(c.mem)
    BY <2>2, <2>3, PairInside DEF IsMachine
  <2>5. x.n \in Nat
    BY <2>4, WidthAssumption
  <2>6. CASE alias(U32(x.p), U32(x.q), x.n)
    <3>1. R = Throw("overlapping_memory_error", c)
      BY <2>6
    <3>2. \A o \in Throw("overlapping_memory_error", c) : Effect(c, o)
      BY <2>2, ThrowEffect DEF Ends, Sound
    <3>3. \A o \in Throw("overlapping_memory_error", c) : o.end = "overlapping_memory_error"
      BY DEF Throw, Outcome
    <3>4. QED BY <3>1, <3>2, <3>3 DEF Moves
  <2>7. CASE ~alias(U32(x.p), U32(x.q), x.n)
    <3> DEFINE mem == Moved(c.mem, U32(x.p), U32(x.q), x.n)
    <3>1. Copied(c.mem, U32(x.p), U32(x.q), x.n) = {mem}
      BY <2>4, <2>5, <2>7, CopiedExact
    <3>2. R = convert_native_to_wasm([c EXCEPT !.mem = mem], U32(x.p), touched)
      <4> HIDE DEF mem, touched
      <4>1. QED BY <2>7, <3>1
    <3>3. \A o \in R : Effect(c, o) /\ Moves(c, x, o)
      BY <2>2, <2>3, <3>2, MovedConverted
    <3>4. QED BY <2>2, <3>3 DEF Moves
  <2>8. QED BY <2>6, <2>7
<1> HIDE DEF amount, R
<1>5. \A o \in Invoked(m, xs, Charged(m, amount, R)) : Sound(m, o)
  <2> HIDE DEF xs
  <2>1. QED BY <1>2, <1>3, <1>4, ChargedCall
<1>6. \A o \in Invoked(m, xs, Charged(m, amount, R)) : Moves(m, x, o)
  BY <1>4, InvokedMoves DEF Effect
<1>7. QED BY <1>1, <1>5, <1>6
-----------------------------------------------------------------------------
(* What \div leaves.                                                       *)
LEMMA Quotient ==
    ASSUME NEW b \in Nat \ {0}, NEW q \in Int, NEW r \in 0..(b - 1)
    PROVE  (b * q + r) \div b = q
OBVIOUS

(* A number shifted right by one slot is the number shifted right by the   *)
(* slot before it, and one more character.                                 *)
LEMMA Digit ==
    ASSUME NEW v \in Nat, NEW s \in Nat \ {0}, NEW m \in Nat \ {0}
    PROVE  v \div s = m * (v \div (m * s)) + ((v \div s) % m)
<1> DEFINE q == v \div s
           r == v % s
           q1 == q \div m
           t == q % m
<1>1. q \in Nat /\ r \in 0..(s - 1) /\ v = s * q + r
  OBVIOUS
<1> HIDE DEF q, r
<1>2. q1 \in Nat /\ t \in 0..(m - 1) /\ q = m * q1 + t
  BY <1>1
<1> HIDE DEF q1, t
<1> DEFINE b == m * s
           rest == s * t + r
<1>3. b \in Nat \ {0}
  OBVIOUS
<1>4. rest \in 0..(b - 1)
  <2>1. t \in Nat /\ t <= m - 1
    BY <1>2
  <2>2. s * t <= s * (m - 1) /\ s * t \in Nat
    BY <2>1
  <2>3. s * (m - 1) = m * s - s
    OBVIOUS
  <2>4. QED BY <1>1, <2>2, <2>3
<1>5. v = b * q1 + rest
  <2>1. v = s * (m * q1 + t) + r
    BY <1>1, <1>2
  <2>2. t \in Int /\ q1 \in Int /\ r \in Int
    BY <1>1, <1>2
  <2>3. s * (m * q1 + t) + r = (m * s) * q1 + (s * t + r)
    BY <2>2
  <2>4. QED BY <2>1, <2>3
<1> HIDE DEF b, rest
<1>6. v \div b = q1
  BY <1>2, <1>3, <1>4, <1>5, Quotient
<1>7. QED BY <1>2, <1>6 DEF b, q, t

(* The recursive function power, which exists by Iterated.                 *)
LEMMA PowerFacts ==
    /\ power[0] = 1
    /\ \A n \in 1..Slots : power[n] = Symbols * power[n - 1]
    /\ \A n \in 0..Slots : power[n] \in Nat \ {0}
<1> DEFINE Runs(f) == f = [n \in 0..Slots |-> IF n = 0 THEN 1 ELSE Symbols * f[n - 1]]
<1>1. Slots \in Nat /\ Symbols \in Nat \ {0}
  BY NamesAssumption DEF Slots
<1>2. \E f : Runs(f)
  <2> DEFINE step == [k \in 1..Slots |-> [s \in Nat |-> Symbols * s]]
  <2>1. step \in Steps(Slots, Nat) /\ 1 \in Nat
    BY <1>1 DEF Steps
  <2>2. \A k \in 1..Slots, s \in Nat : step[k][s] = Symbols * s
    OBVIOUS
  <2> HIDE DEF step
  <2>3. PICK f : Iterates(f, Slots, Nat, 1, step)
    BY <1>1, <2>1, Iterated
  <2>4. f \in [0..Slots -> Nat] /\ f[0] = 1 /\ \A k \in 1..Slots : f[k] = step[k][f[k - 1]]
    BY <2>3 DEF Iterates
  <2>5. ASSUME NEW n \in 0..Slots PROVE f[n] = IF n = 0 THEN 1 ELSE Symbols * f[n - 1]
    <3>1. CASE n = 0
      BY <2>4, <3>1
    <3>2. CASE n # 0
      <4>1. n \in 1..Slots /\ n - 1 \in 0..Slots
        BY <1>1, <3>2
      <4>2. f[n - 1] \in Nat
        BY <2>4, <4>1
      <4>3. QED BY <2>2, <2>4, <3>2, <4>1, <4>2
    <3>3. QED BY <3>1, <3>2
  <2>6. f = [n \in 0..Slots |-> f[n]]
    BY <2>4
  <2>7. f = [n \in 0..Slots |-> IF n = 0 THEN 1 ELSE Symbols * f[n - 1]]
    BY <2>5, <2>6, Zenon
  <2>8. QED BY <2>7, Zenon
<1>3. Runs(power)
  <2>1. power = CHOOSE f : Runs(f)
    BY DEF power
  <2>2. QED BY <1>2, <2>1, Zenon
<1>4. power[0] = 1 /\ \A n \in 1..Slots : power[n] = Symbols * power[n - 1] /\ n - 1 \in 0..Slots
  BY <1>1, <1>3
<1>5. \A n \in 0..Slots : power[n] \in Nat \ {0}
  <2> DEFINE Bad == {n \in 0..Slots : power[n] \notin Nat \ {0}}
  <2>1. SUFFICES ASSUME Bad # {} PROVE FALSE
    OBVIOUS
  <2>2. PICK n \in Bad : \A l \in Bad : n <= l
    <3>1. Bad \in SUBSET Nat
      OBVIOUS
    <3> HIDE DEF Bad
    <3>2. QED BY <2>1, <3>1, LeastNatural
  <2>3. n \in 1..Slots /\ n - 1 \in 0..Slots /\ ~(n <= n - 1)
    <3>1. n \in 0..Slots /\ n # 0
      BY <1>4, <2>2
    <3>2. QED BY <1>1, <3>1
  <2>4. n - 1 \notin Bad
    <3> HIDE DEF Bad
    <3>1. QED BY <2>2, <2>3
  <2>5. power[n - 1] \in Nat \ {0} /\ power[n] = Symbols * power[n - 1]
    BY <1>4, <2>3, <2>4
  <2>6. power[n] \in Nat \ {0}
    BY <1>1, <2>5
  <2>7. QED BY <2>2, <2>6
<1>6. QED BY <1>4, <1>5

(* The slots of a name adjoin: a slot begins where the one after it ends.  *)
LEMMA ShiftFacts ==
    /\ \A k \in 1..NameLength : Shift(k) \in Nat \ {0} /\ Mask(k) \in Nat \ {0}
    /\ Shift(NameLength) = 1
    /\ \A k \in 2..NameLength : Shift(k - 1) = Mask(k) * Shift(k)
<1>1. /\ NameLength \in Nat \ {0} /\ Symbols \in Nat \ {0} /\ LastSymbols \in Nat \ {0}
      /\ Slots \in Nat /\ NameLength = Slots + 1
  BY NamesAssumption DEF Slots
<1>2. ASSUME NEW k \in 1..NameLength PROVE Shift(k) \in Nat \ {0} /\ Mask(k) \in Nat \ {0}
  <2>1. CASE k > Slots
    BY <1>1, <2>1 DEF Shift, Mask
  <2>2. CASE ~(k > Slots)
    <3>1. Slots - k \in 0..Slots
      BY <1>1, <2>2
    <3>2. power[Slots - k] \in Nat \ {0}
      BY <3>1, PowerFacts
    <3>3. QED BY <1>1, <2>2, <3>2 DEF Shift, Mask
  <2>3. QED BY <2>1, <2>2
<1>3. Shift(NameLength) = 1
  BY <1>1 DEF Shift
<1>4. ASSUME NEW k \in 2..NameLength PROVE Shift(k - 1) = Mask(k) * Shift(k)
  <2>1. CASE k = NameLength
    <3>1. Shift(k - 1) = LastSymbols * power[Slots - (k - 1)] /\ Slots - (k - 1) = 0
      BY <1>1, <2>1 DEF Shift
    <3>2. Mask(k) = LastSymbols /\ Shift(k) = 1
      BY <1>1, <2>1 DEF Shift, Mask
    <3>3. QED BY <1>1, <3>1, <3>2, PowerFacts
  <2>2. CASE k # NameLength
    <3>1. Slots - k + 1 \in 1..Slots /\ Slots - k \in 0..Slots /\ (Slots - k + 1) - 1 = Slots - k
          /\ Slots - (k - 1) = Slots - k + 1 /\ ~(k > Slots) /\ ~(k - 1 > Slots)
      BY <1>1, <2>2
    <3>2. Shift(k - 1) = LastSymbols * power[Slots - k + 1]
      BY <3>1 DEF Shift
    <3>3. power[Slots - k + 1] = Symbols * power[Slots - k] /\ power[Slots - k] \in Nat
      BY <3>1, PowerFacts
    <3>4. Mask(k) = Symbols /\ Shift(k) = LastSymbols * power[Slots - k]
      BY <3>1 DEF Shift, Mask
    <3>5. \A a, b, c \in Nat : a * (b * c) = b * (a * c)
      OBVIOUS
    <3>6. LastSymbols \in Nat /\ Symbols \in Nat
      BY <1>1
    <3>7. LastSymbols * (Symbols * power[Slots - k]) = Symbols * (LastSymbols * power[Slots - k])
      BY <3>3, <3>5, <3>6
    <3>8. QED BY <3>2, <3>3, <3>4, <3>7
  <2>3. QED BY <2>1, <2>2
<1>5. QED BY <1>2, <1>3, <1>4

(* What the first k characters of a name stand for.                        *)
Upto(v, k) == IF k = 0 THEN 0 ELSE (v \div Shift(k)) * Shift(k)

(* One character more adds the value of its slot, which fits the slot's    *)
(* mask.                                                                   *)
LEMMA UptoStep ==
    ASSUME NEW v \in NameValues, NEW k \in 1..NameLength
    PROVE  /\ symbol(v, k) \in 0..(Mask(k) - 1)
           /\ Upto(v, k) = Upto(v, k - 1) + symbol(v, k) * Shift(k)
           /\ Upto(v, k) \in Nat
<1>1. NameLength \in Nat \ {0} /\ 1 \in 1..NameLength
  BY NamesAssumption
<1>2. Shift(k) \in Nat \ {0} /\ Mask(k) \in Nat \ {0} /\ Shift(1) \in Nat \ {0} /\ Mask(1) \in Nat \ {0}
  BY <1>1, ShiftFacts
<1>3. v \in Nat /\ v < Mask(1) * Shift(1)
  BY <1>2 DEF NameValues
<1> DEFINE s == Shift(k)
           m == Mask(k)
           q == v \div s
           c == q % m
<1>4. s \in Nat \ {0} /\ m \in Nat \ {0}
  BY <1>2
<1> HIDE DEF s, m
<1>5. q \in Nat /\ c \in 0..(m - 1)
  BY <1>3, <1>4
<1>6. q = m * (v \div (m * s)) + c
  BY <1>3, <1>4, Digit
<1>7. symbol(v, k) = c /\ Upto(v, k) = q * s
  BY DEF symbol, Upto, s, m
<1> HIDE DEF q, c
<1>8. Upto(v, k - 1) = m * (v \div (m * s)) * s
  <2>1. CASE k = 1
    <3>1. m * s = Mask(1) * Shift(1) /\ m * s \in Nat \ {0}
      BY <1>4, <2>1 DEF m, s
    <3>2. v \div (m * s) = 0
      BY <1>3, <3>1
    <3>3. Upto(v, k - 1) = 0
      BY <2>1 DEF Upto
    <3>4. QED BY <1>4, <3>2, <3>3
  <2>2. CASE k # 1
    <3>1. k \in 2..NameLength
      BY <1>1, <2>2
    <3>2. Shift(k - 1) = m * s
      BY <3>1, ShiftFacts DEF m, s
    <3>3. Upto(v, k - 1) = (v \div (m * s)) * (m * s)
      BY <3>1, <3>2 DEF Upto
    <3>4. m * s \in Nat \ {0}
      BY <1>4
    <3>5. v \div (m * s) \in Nat
      BY <1>3, <3>4
    <3>6. \A a, b, d \in Nat : a * (b * d) = b * a * d
      OBVIOUS
    <3>7. QED BY <1>4, <3>3, <3>5, <3>6
  <2>3. QED BY <2>1, <2>2
<1>9. v \div (m * s) \in Nat
  <2>1. m * s \in Nat \ {0}
    BY <1>4
  <2> HIDE DEF m, s
  <2>2. QED BY <1>3, <2>1
<1>10. \A a, b, d, f \in Nat : (b * a + d) * f = b * a * f + d * f
  OBVIOUS
<1>11. q * s = m * (v \div (m * s)) * s + c * s
  BY <1>4, <1>5, <1>6, <1>9, <1>10
<1>12. q * s \in Nat
  BY <1>4, <1>5
<1>13. QED BY <1>5, <1>7, <1>8, <1>11, <1>12 DEF s, m

(* operator string and name::set: reading a printed name adds up its       *)
(* slots; those trimmed at the end hold nothing.                           *)
LEMMA NameReadBack ==
    ASSUME NEW v \in NameValues
    PROVE  set(to_string(v)) = {v}
<1> DEFINE full == [k \in 1..NameLength |-> symbol(v, k)]
           used == {k \in 1..NameLength : full[k] # 0}
           L == IF used = {} THEN 0 ELSE Max(used)
           str == SubSeq(full, 1, L)
           G(k) == Upto(v, k)
<1>1. NameLength \in Nat \ {0}
  BY NamesAssumption
<1>2. to_string(v) = str
  BY DEF to_string
<1>3. L \in 0..NameLength /\ \A k \in 1..NameLength : k > L => symbol(v, k) = 0
  <2>1. CASE used = {}
    <3>1. L = 0
      BY <2>1
    <3>2. \A k \in 1..NameLength : full[k] = 0 /\ full[k] = symbol(v, k)
      BY <2>1
    <3> HIDE DEF L, full, used
    <3>3. QED BY <1>1, <3>1, <3>2
  <2>2. CASE used # {}
    <3>1. used \in SUBSET Int /\ NameLength \in Int /\ \A x \in used : x <= NameLength
      BY <1>1
    <3> HIDE DEF used
    <3>2. Max(used) \in used /\ \A y \in used : Max(used) >= y
      BY <2>2, <3>1, SetMax
    <3>3. Max(used) \in 1..NameLength
      BY <3>2 DEF used
    <3>4. \A k \in 1..NameLength : k > Max(used) => k \notin used
      BY <1>1, <3>2, <3>3
    <3>5. \A k \in 1..NameLength : k > Max(used) => symbol(v, k) = 0
      BY <3>4 DEF used
    <3>6. QED BY <1>1, <2>2, <3>3, <3>5
  <2>3. QED BY <2>1, <2>2
<1> HIDE DEF L
<1>4. Len(str) = L /\ \A k \in 1..L : str[k] = symbol(v, k)
  <2>1. Len(full) = NameLength /\ full \in Seq(Nat)
    <3>1. \A k \in 1..NameLength : symbol(v, k) \in Nat
      <4>1. \A k \in 1..NameLength : symbol(v, k) \in 0..(Mask(k) - 1)
        BY UptoStep
      <4>2. QED BY <4>1, ShiftFacts
    <3>2. full \in [1..NameLength -> Nat]
      BY <3>1
    <3>3. QED BY <1>1, <3>2
  <2>2. \A k \in 1..L : full[k] = symbol(v, k)
    BY <1>1, <1>3
  <2> HIDE DEF full
  <2>3. QED BY <1>1, <1>3, <2>1, <2>2
<1> HIDE DEF str
<1>5. Min({Len(str), NameLength}) = L
  <2>1. {Len(str), NameLength} \in SUBSET Nat /\ {Len(str), NameLength} # {}
    BY <1>1, <1>3, <1>4
  <2>2. Min({Len(str), NameLength}) \in {Len(str), NameLength}
        /\ \A y \in {Len(str), NameLength} : Min({Len(str), NameLength}) <= y
    BY <2>1, SetMin
  <2>3. QED BY <1>1, <1>3, <1>4, <2>2
<1>6. ASSUME NEW k \in 1..L
      PROVE  G(k) = G(k - 1) + (char_to_symbol(str[k]) % Mask(k)) * Shift(k)
  <2>1. k \in 1..NameLength
    BY <1>1, <1>3
  <2>2. symbol(v, k) \in 0..(Mask(k) - 1) /\ Mask(k) \in Nat \ {0}
    BY <2>1, UptoStep, ShiftFacts
  <2>3. char_to_symbol(str[k]) = symbol(v, k)
    BY <1>4, <2>2 DEF char_to_symbol
  <2>4. symbol(v, k) % Mask(k) = symbol(v, k)
    BY <2>2, SmallRemainder
  <2>5. G(k) = G(k - 1) + symbol(v, k) * Shift(k)
    BY <2>1, UptoStep
  <2>6. QED BY <2>3, <2>4, <2>5
<1> DEFINE Body(f, k) == IF k = 0 THEN 0 ELSE f[k - 1] + (char_to_symbol(str[k]) % Mask(k)) * Shift(k)
           Runs(f) == f = [k \in 0..L |-> Body(f, k)]
           read == CHOOSE f : Runs(f)
           g == [k \in 0..L |-> G(k)]
<1>7. G(0) = 0
  BY DEF Upto
<1>8. Runs(g)
  <2> HIDE DEF G
  <2>1. ASSUME NEW k \in 0..L PROVE G(k) = Body(g, k)
    <3>1. CASE k = 0
      BY <1>7, <3>1
    <3>2. CASE k # 0
      <4>1. k \in 1..L /\ k - 1 \in 0..L
        BY <1>1, <1>3, <3>2
      <4>2. g[k - 1] = G(k - 1)
        BY <4>1
      <4>3. QED BY <1>6, <3>2, <4>1, <4>2
    <3>3. QED BY <3>1, <3>2
  <2>2. QED BY <2>1, Zenon
<1>9. Runs(read)
  BY <1>8, Zenon
<1>10. read[L] = G(L)
  <2> HIDE DEF G, read
  <2> DEFINE Bad == {k \in 0..L : read[k] # G(k)}
  <2>1. SUFFICES ASSUME Bad # {} PROVE FALSE
    BY <1>3, <1>1
  <2>2. PICK k \in Bad : \A l \in Bad : k <= l
    <3>1. Bad \in SUBSET Nat
      OBVIOUS
    <3> HIDE DEF Bad
    <3>2. QED BY <2>1, <3>1, LeastNatural
  <2>3. k \in 0..L /\ read[k] # G(k) /\ read[k] = Body(read, k)
    BY <1>9, <2>2
  <2>4. k # 0
    BY <1>7, <2>3
  <2>5. k \in 1..L /\ k - 1 \in 0..L /\ read[k - 1] = G(k - 1)
    BY <1>1, <1>3, <2>2, <2>3, <2>4
  <2>6. QED BY <1>6, <2>3, <2>4, <2>5
<1>11. string_to_name(str) = read[L]
  BY <1>5 DEF string_to_name
<1> HIDE DEF read
<1>12. G(L) = G(NameLength)
  <2> DEFINE Bad == {k \in L..NameLength : G(k) # G(L)}
  <2>1. SUFFICES ASSUME Bad # {} PROVE FALSE
    BY <1>1, <1>3
  <2>2. PICK k \in Bad : \A l \in Bad : k <= l
    <3>1. Bad \in SUBSET Nat
      BY <1>1, <1>3
    <3> HIDE DEF Bad
    <3>2. QED BY <2>1, <3>1, LeastNatural
  <2>3. k \in L..NameLength /\ G(k) # G(L)
    BY <2>2
  <2> HIDE DEF G
  <2>4. k \in 1..NameLength /\ k > L /\ k - 1 \in L..NameLength
    <3>1. k # L
      BY <2>3
    <3>2. QED BY <1>1, <1>3, <2>3, <3>1
  <2>5. G(k - 1) = G(L)
    BY <1>1, <1>3, <2>2, <2>3, <2>4
  <2>6. symbol(v, k) = 0
    BY <1>3, <2>4
  <2>7. G(k) = G(k - 1) + symbol(v, k) * Shift(k) /\ G(k) \in Nat
    BY <2>4, UptoStep DEF G
  <2>8. Shift(k) \in Nat /\ G(k - 1) \in Int
    <3>1. Shift(k) \in Nat
      BY <2>4, ShiftFacts
    <3>2. CASE k = 1
      BY <1>7, <3>1, <3>2
    <3>3. CASE k # 1
      <4>1. k - 1 \in 1..NameLength
        BY <1>1, <2>4, <3>3
      <4>2. QED BY <3>1, <4>1, UptoStep DEF G
    <3>4. QED BY <3>2, <3>3
  <2>9. G(k) = G(k - 1)
    BY <2>6, <2>7, <2>8
  <2>10. QED BY <2>3, <2>5, <2>9
<1>13. G(NameLength) = v
  <2>1. v \in Nat
    <3>1. Mask(1) \in Nat \ {0} /\ Shift(1) \in Nat \ {0}
      BY <1>1, ShiftFacts
    <3>2. QED BY <3>1 DEF NameValues
  <2>2. Shift(NameLength) = 1
    BY ShiftFacts
  <2>3. v \div 1 = v
    BY <2>1
  <2>4. QED BY <1>1, <2>1, <2>2, <2>3 DEF Upto
<1>14. string_to_name(str) = v
  <2> HIDE DEF G
  <2>1. QED BY <1>10, <1>11, <1>12, <1>13
<1>15. QED BY <1>1, <1>2, <1>3, <1>4, <1>14 DEF set

-----------------------------------------------------------------------------
(* The inductive invariant: the machine has its type, so that the next     *)
(* call meets a memory and gas within their widths; a contract that passed *)
(* validate() still is what passed; and the last call kept its promises.   *)
IInv ==
    /\ module \in Modules
    /\ IsMachine(machine)
    /\ calls \in Nat
    /\ validated \in BOOLEAN
    /\ validated => validate(module)
    /\ validated => phase # "unresolved"
    /\ FailureLeavesNoTrace
    /\ MemoryExact
    /\ NoFreeCallbacks
    /\ PrintedNamesReadBack

(* A call with outcome o.                                                  *)
Called(name, args, o) ==
    /\ machine' = o.m
    /\ phase' = IF o.end = "return" THEN "running" ELSE o.end
    /\ last' = [name |-> name, args |-> args, before |-> machine, after |-> o.m,
                end |-> o.end, ret |-> o.ret, touched |-> o.touched]
    /\ calls' = calls + 1
    /\ UNCHANGED <<module, validated>>

(* A step that is a call with a sound outcome, and moves bytes if it is    *)
(* one of the two that should.                                             *)
SoundCall ==
    \E name, args, o :
        /\ Called(name, args, o)
        /\ Sound(machine, o)
        /\ name \in {"memcpy", "memmove"} => Moves(machine, args[1], o)
        /\ name = "printn" => set(Last(o.m.console)) = {args[1]}

(* Every such step keeps the invariant.                                    *)
LEMMA SoundCallInv ==
    ASSUME IInv, SoundCall
    PROVE  IInv'
<1>1. PICK name, args, o :
         /\ Called(name, args, o)
         /\ Sound(machine, o)
         /\ name \in {"memcpy", "memmove"} => Moves(machine, args[1], o)
         /\ name = "printn" => set(Last(o.m.console)) = {args[1]}
  BY DEF SoundCall
<1>2. /\ last'.name = name /\ last'.args = args /\ last'.before = machine /\ last'.after = o.m
      /\ last'.end = o.end /\ last'.ret = o.ret /\ last'.touched = o.touched
  BY <1>1 DEF Called
<1>3. IsMachine(machine')
  BY <1>1 DEF Called, Sound, Effect, IsOutcome
<1>4. /\ module' \in Modules /\ calls' \in Nat /\ validated' \in BOOLEAN
      /\ validated' => validate(module')
  <2>1. module' = module /\ validated' = validated /\ calls' = calls + 1
    BY <1>1 DEF Called
  <2>2. module \in Modules /\ calls \in Nat /\ validated \in BOOLEAN /\ (validated => validate(module))
    BY DEF IInv
  <2>3. calls' \in Nat
    BY <2>1, <2>2
  <2>4. QED BY <2>1, <2>2, <2>3, Zenon
<1>5. phase' # "unresolved"
  BY <1>1 DEF Called, Sound, Effect, IsOutcome, Ends
<1>6. FailureLeavesNoTrace'
  BY <1>1, <1>2 DEF FailureLeavesNoTrace, Sound, Effect
<1>7. NoFreeCallbacks'
  BY <1>1, <1>2 DEF NoFreeCallbacks, Sound, Effect
<1>8. MemoryExact'
  <2>1. o.touched \subseteq DOMAIN machine.mem
    BY <1>1 DEF Sound, Effect
  <2>2. ASSUME o.end = "return", name \in {"memcpy", "memmove"}
        PROVE  LET x == args[1]
               IN  /\ o.ret = U32(x.p)
                   /\ \A a \in DOMAIN machine.mem :
                          o.m.mem[a] = machine.mem[IF a \in Span(U32(x.p), x.n)
                                                   THEN a - U32(x.p) + U32(x.q) ELSE a]
    <3>1. Moves(machine, args[1], o)
      BY <1>1, <2>2
    <3>2. QED BY <2>2, <3>1 DEF Moves, Moved
  <2>3. QED BY <1>2, <2>1, <2>2 DEF MemoryExact
<1>9. PrintedNamesReadBack'
  BY <1>1, <1>2 DEF PrintedNamesReadBack
<1>10. QED BY <1>3, <1>4, <1>5, <1>6, <1>7, <1>8, <1>9 DEF IInv

(* What contracts pass are parameters.                                     *)
LEMMA Arguments ==
    /\ Arrays \subseteq ArrayParams /\ Blocks \subseteq PairParams /\ Texts \subseteq TextParams
    /\ Hashes \subseteq RefParams /\ Wides \subseteq RefParams
    /\ Amounts \subseteq Int
<1>1. Pointers \subseteq I32 /\ Lengths \subseteq I32 /\ RefPointers \subseteq I32 /\ Amounts \subseteq Int
  BY ArgumentsAssumption DEF I32
<1>2. HashSize \in Nat /\ WideSize \in Nat
  BY SizesAssumption, WidthAssumption
<1>3. QED BY <1>1, <1>2 DEF Arrays, Blocks, Texts, Hashes, Wides, ArrayParams, PairParams, TextParams, RefParams

(* Calling with sound outcomes is such a step.                             *)
LEMMA SoundCalling ==
    ASSUME NEW CONSTANT name, NEW CONSTANT args, NEW STATE outcomes,
           Calling(name, args, outcomes),
           \A o \in outcomes : Sound(machine, o),
           name \in {"memcpy", "memmove"} => \A o \in outcomes : Moves(machine, args[1], o),
           name = "printn" => \A o \in outcomes : set(Last(o.m.console)) = {args[1]}
    PROVE  SoundCall
<1>1. PICK o \in outcomes : Called(name, args, o)
  BY DEF Calling, Called
<1>2. QED BY <1>1 DEF SoundCall

(* The actions that call intrinsics, class by class: database_api.         *)
LEMMA CallDatabaseStep ==
    ASSUME IInv, CallDatabase
    PROVE  SoundCall
<1>1. IsMachine(machine)
  BY DEF IInv
<1>2. PICK key \in Arrays :
        \/ \E buffer \in Arrays :
               \/ Calling("db_store", <<key, buffer>>, db_store(machine, 1, key, buffer))
               \/ Calling("db_load", <<key, buffer>>, db_load(machine, 1, key, buffer))
        \/ Calling("db_has_key", <<key>>, db_has_key(machine, 1, key))
        \/ Calling("db_remove_key", <<key>>, db_remove_key(machine, 1, key))
  BY DEF CallDatabase
<1>3. key \in ArrayParams
  BY Arguments
<1>4. ASSUME NEW buffer \in Arrays,
             Calling("db_store", <<key, buffer>>, db_store(machine, 1, key, buffer))
      PROVE  SoundCall
  BY <1>1, <1>3, <1>4, Arguments, db_storeSound, SoundCalling
<1>5. ASSUME NEW buffer \in Arrays,
             Calling("db_load", <<key, buffer>>, db_load(machine, 1, key, buffer))
      PROVE  SoundCall
  BY <1>1, <1>3, <1>5, Arguments, db_loadSound, SoundCalling
<1>6. CASE Calling("db_has_key", <<key>>, db_has_key(machine, 1, key))
  BY <1>1, <1>3, <1>6, db_has_keySound, SoundCalling
<1>7. CASE Calling("db_remove_key", <<key>>, db_remove_key(machine, 1, key))
  BY <1>1, <1>3, <1>7, db_remove_keySound, SoundCalling
<1>8. QED BY <1>2, <1>4, <1>5, <1>6, <1>7

(* db_has_table and db_remove_table.                                       *)
LEMMA CallTablesStep ==
    ASSUME IInv, CallTables
    PROVE  SoundCall
<1>1. IsMachine(machine)
  BY DEF IInv
<1>2. CASE Calling("db_has_table", <<>>, db_has_table(machine, 1))
  BY <1>1, <1>2, TablesAndTimeSound, SoundCalling
<1>3. CASE Calling("db_remove_table", <<>>, db_remove_table(machine, 1))
  BY <1>1, <1>3, TablesAndTimeSound, SoundCalling
<1>4. QED BY <1>2, <1>3 DEF CallTables

(* crypto_api: the hash and the recovered key are written inside the       *)
(* memory.                                                                 *)
LEMMA CallCryptoStep ==
    ASSUME IInv, CallCrypto
    PROVE  SoundCall
<1>1. IsMachine(machine)
  BY DEF IInv
<1>2. PICK data \in Arrays, hash \in Hashes :
        \/ Calling("sha256", <<data, hash>>, sha256(machine, data, hash))
        \/ Calling("assert_sha256", <<data, hash>>, assert_sha256(machine, data, hash))
        \/ \E pub \in Arrays :
               \/ Calling("recover_key", <<hash, data, pub>>, recover_key(machine, hash, data, pub))
               \/ Calling("assert_recover_key", <<hash, data, pub>>,
                          assert_recover_key(machine, hash, data, pub))
  BY DEF CallCrypto
<1>3. data \in ArrayParams /\ hash \in RefParams
  BY Arguments
<1>4. \A o \in sha256(machine, data, hash) : Sound(machine, o)
  BY <1>1, <1>3, sha256Sound
<1>5. CASE Calling("sha256", <<data, hash>>, sha256(machine, data, hash))
  BY <1>4, <1>5, SoundCalling
<1>6. CASE Calling("assert_sha256", <<data, hash>>, assert_sha256(machine, data, hash))
  <2>1. \A o \in assert_sha256(machine, data, hash) : Sound(machine, o)
    BY <1>4 DEF assert_sha256
  <2>2. QED BY <1>6, <2>1, SoundCalling
<1>7. ASSUME NEW pub \in Arrays,
             \/ Calling("recover_key", <<hash, data, pub>>, recover_key(machine, hash, data, pub))
             \/ Calling("assert_recover_key", <<hash, data, pub>>,
                        assert_recover_key(machine, hash, data, pub))
      PROVE  SoundCall
  <2>1. \A o \in recover_key(machine, hash, data, pub) : Sound(machine, o)
    BY <1>1, <1>3, Arguments, recover_keySound
  <2>2. \A o \in assert_recover_key(machine, hash, data, pub) : Sound(machine, o)
    BY <2>1 DEF assert_recover_key
  <2>3. QED BY <1>7, <2>1, <2>2, SoundCalling
<1>8. QED BY <1>2, <1>5, <1>6, <1>7

(* system_api without its logs.                                            *)
LEMMA CallSystemStep ==
    ASSUME IInv, CallSystem
    PROVE  SoundCall
<1>1. IsMachine(machine)
  BY DEF IInv
<1>2. CASE Calling("current_time", <<>>, current_time(machine))
  BY <1>1, <1>2, TablesAndTimeSound, SoundCalling
<1>3. CASE Calling("current_height", <<>>, current_height(machine))
  BY <1>1, <1>3, TablesAndTimeSound, SoundCalling
<1>4. ASSUME NEW simple \in Hashes, NEW full \in Hashes,
             Calling("current_hash", <<simple, full>>, current_hash(machine, simple, full))
      PROVE  SoundCall
  BY <1>1, <1>4, Arguments, current_hashSound, SoundCalling
<1>5. QED BY <1>2, <1>3, <1>4 DEF CallSystem

(* log_0, log_1 and log_2.                                                 *)
LEMMA CallLogStep ==
    ASSUME IInv, CallLog
    PROVE  SoundCall
<1>1. IsMachine(machine)
  BY DEF IInv
<1>2. PICK data \in Arrays, name \in Hashes :
        \/ Calling("log_0", <<data, name>>, log_0(machine, data, name))
        \/ \E one \in Hashes :
               \/ Calling("log_1", <<data, name, one>>, log_1(machine, data, name, one))
               \/ \E two \in Hashes :
                      Calling("log_2", <<data, name, one, two>>, log_2(machine, data, name, one, two))
  BY DEF CallLog
<1>3. data \in ArrayParams /\ name \in RefParams
  BY Arguments
<1>4. "LOG_0" \in PriceNames /\ "LOG_1" \in PriceNames /\ "LOG_2" \in PriceNames
  BY DEF PriceNames
<1>5. CASE Calling("log_0", <<data, name>>, log_0(machine, data, name))
  <2>1. <<name>> \in Seq(RefParams)
    BY <1>3
  <2>2. \A o \in log_0(machine, data, name) : Sound(machine, o)
    BY <1>1, <1>3, <1>4, <2>1, logSound DEF log_0
  <2>3. QED BY <1>5, <2>2, SoundCalling
<1>6. ASSUME NEW one \in Hashes, Calling("log_1", <<data, name, one>>, log_1(machine, data, name, one))
      PROVE  SoundCall
  <2>1. <<name, one>> \in Seq(RefParams)
    BY <1>3, Arguments
  <2>2. \A o \in log_1(machine, data, name, one) : Sound(machine, o)
    BY <1>1, <1>3, <1>4, <2>1, logSound DEF log_1
  <2>3. QED BY <1>6, <2>2, SoundCalling
<1>7. ASSUME NEW one \in Hashes, NEW two \in Hashes,
             Calling("log_2", <<data, name, one, two>>, log_2(machine, data, name, one, two))
      PROVE  SoundCall
  <2>1. <<name, one, two>> \in Seq(RefParams)
    BY <1>3, Arguments
  <2>2. \A o \in log_2(machine, data, name, one, two) : Sound(machine, o)
    BY <1>1, <1>3, <1>4, <2>1, logSound DEF log_2
  <2>3. QED BY <1>7, <2>2, SoundCalling
<1>8. QED BY <1>2, <1>5, <1>6, <1>7

(* context_free_system_api: a failed assertion leaves no trace.            *)
LEMMA CallContextFreeStep ==
    ASSUME IInv, CallContextFree
    PROVE  SoundCall
<1>1. IsMachine(machine) /\ 0 \in Int
  BY DEF IInv
<1>2. CASE Calling("abort", <<>>, abort(machine))
  BY <1>1, <1>2, PlainSound, SoundCalling
<1>3. CASE Calling("ftl_exit", <<>>, ftl_exit(machine))
  BY <1>1, <1>3, PlainSound, SoundCalling
<1>4. ASSUME NEW condition \in {0, 1}, NEW msg \in Texts,
             Calling("ftl_assert", <<msg>>, ftl_assert(machine, condition, msg))
      PROVE  SoundCall
  BY <1>1, <1>4, Arguments, ftl_assertSound, SoundCalling
<1>5. ASSUME NEW condition \in {0, 1}, NEW msg \in Arrays,
             Calling("ftl_assert_message", <<msg>>, ftl_assert_message(machine, condition, msg))
      PROVE  SoundCall
  BY <1>1, <1>5, Arguments, ftl_assert_messageSound, SoundCalling
<1>6. ASSUME NEW condition \in {0, 1},
             Calling("ftl_assert_code", <<>>, ftl_assert_code(machine, condition))
      PROVE  SoundCall
  BY <1>1, <1>6, PlainSound, SoundCalling
<1>7. QED BY <1>2, <1>3, <1>4, <1>5, <1>6 DEF CallContextFree

(* action_api, use_gas included.                                           *)
LEMMA CallActionStep ==
    ASSUME IInv, CallAction
    PROVE  SoundCall
<1>1. IsMachine(machine) /\ 0 \in Int
  BY DEF IInv
<1>2. ASSUME NEW amount \in Amounts, Calling("use_gas", <<>>, injected_use_gas(machine, amount))
      PROVE  SoundCall
  BY <1>1, <1>2, Arguments, PlainSound, SoundCalling
<1>3. CASE Calling("action_data_size", <<>>, action_data_size(machine))
  BY <1>1, <1>3, PlainSound, SoundCalling
<1>4. CASE Calling("get_amount", <<>>, get_amount(machine))
  BY <1>1, <1>4, PlainSound, SoundCalling
<1>5. ASSUME NEW x \in Arrays, Calling("read_action_data", <<x>>, read_action_data(machine, x))
      PROVE  SoundCall
  BY <1>1, <1>5, Arguments, read_action_dataSound, SoundCalling
<1>6. ASSUME NEW x \in Arrays, NEW f \in DOMAIN Addresses,
             Calling(f, <<x>>, get_address(machine, f, x))
      PROVE  SoundCall
  <2>1. f \notin {"memcpy", "memmove", "printn"}
    BY ContextAssumption
  <2>2. QED BY <1>1, <1>6, <2>1, Arguments, get_addressSound, SoundCalling
<1>7. ASSUME NEW x \in Arrays, Calling("transfer", <<x>>, transfer(machine, x, 1))
      PROVE  SoundCall
  BY <1>1, <1>7, Arguments, transferSound, SoundCalling
<1>8. ASSUME NEW x \in Arrays, NEW y \in Arrays,
             Calling("call_action", <<x, y>>, call_action(machine, x, y, 1))
      PROVE  SoundCall
  BY <1>1, <1>8, Arguments, call_actionSound, SoundCalling
<1>9. ASSUME NEW x \in Arrays, Calling("call_result", <<x>>, call_result(machine, x))
      PROVE  SoundCall
  BY <1>1, <1>9, Arguments, call_resultSound, SoundCalling
<1>10. ASSUME NEW x \in Arrays, Calling("set_result", <<x>>, set_result(machine, x))
       PROVE  SoundCall
  BY <1>1, <1>10, Arguments, set_resultSound, SoundCalling
<1>11. QED BY <1>2, <1>3, <1>4, <1>5, <1>6, <1>7, <1>8, <1>9, <1>10 DEF CallAction

(* console_api: nothing reaches the embedder before the run ends.          *)
LEMMA CallConsoleStep ==
    ASSUME IInv, CallConsole
    PROVE  SoundCall
<1> DEFINE anyText == Text(0)
           anyArray == Array(0, 0)
           anyRef == Ref(0, 0)
<1>1. IsMachine(machine)
  BY DEF IInv
<1>2. anyText \in TextParams /\ anyArray \in ArrayParams /\ anyRef \in RefParams
  <2>1. 0 \in I32
    BY WidthAssumption DEF I32
  <2>2. QED BY <2>1 DEF TextParams, ArrayParams, RefParams
<1> HIDE DEF anyText, anyArray, anyRef
<1>3. ASSUME NEW str \in Texts, Calling("prints", <<str>>, prints(machine, str))
      PROVE  SoundCall
  BY <1>1, <1>2, <1>3, Arguments, ConsoleSound, SoundCalling
<1>4. ASSUME NEW str \in Arrays, Calling("prints_l", <<str>>, prints_l(machine, str))
      PROVE  SoundCall
  BY <1>1, <1>2, <1>4, Arguments, ConsoleSound, SoundCalling
<1>5. ASSUME NEW f \in {"printi", "printui", "printsf", "printdf"},
             Calling(f, <<>>, printValue(machine, 1))
      PROVE  SoundCall
  <2>1. f \notin {"memcpy", "memmove", "printn"}
    OBVIOUS
  <2>2. QED BY <1>1, <1>2, <1>5, <2>1, ConsoleSound, SoundCalling
<1>6. ASSUME NEW val \in Wides, Calling("printqf", <<val>>, printqf(machine, val))
      PROVE  SoundCall
  BY <1>1, <1>2, <1>6, Arguments, ConsoleSound, SoundCalling
<1>7. ASSUME NEW v \in NameValues,
             Calling("printn", <<v>>, Return(console_append(machine, to_string(v)), 0, {}))
      PROVE  SoundCall
  <2>1. \A o \in Return(console_append(machine, to_string(v)), 0, {}) : Sound(machine, o)
    BY <1>1, <1>2, ConsoleSound
  <2>2. \A o \in Return(console_append(machine, to_string(v)), 0, {}) :
           set(Last(o.m.console)) = {<<v>>[1]}
    <3> DEFINE d == console_append(machine, to_string(v))
    <3>1. Last(d.console) = to_string(v)
      BY <1>1, Printed
    <3>2. set(to_string(v)) = {v}
      BY NameReadBack
    <3> HIDE DEF d
    <3>3. \A o \in Return(d, 0, {}) : o.m = d
      BY DEF Return, Outcome
    <3>4. \A o \in Return(d, 0, {}) : set(Last(o.m.console)) = {<<v>>[1]}
      BY <3>1, <3>2, <3>3
    <3>5. QED BY <3>4 DEF d
  <2>3. QED BY <1>7, <2>1, <2>2, SoundCalling
<1>8. ASSUME NEW data \in Arrays, Calling("printhex", <<data>>, printhex(machine, data))
      PROVE  SoundCall
  BY <1>1, <1>2, <1>8, Arguments, ConsoleSound, SoundCalling
<1>9. QED BY <1>3, <1>4, <1>5, <1>6, <1>7, <1>8 DEF CallConsole

(* memory_api: the two that move bytes move them as they were.             *)
LEMMA CallMemoryStep ==
    ASSUME IInv, CallMemory
    PROVE  SoundCall
<1>1. IsMachine(machine)
  BY DEF IInv
<1>2. ASSUME NEW x \in Blocks, Calling("memcpy", <<x>>, memcpy(machine, x))
      PROVE  SoundCall
  <2>1. \A o \in memcpy(machine, x) : Sound(machine, o) /\ Moves(machine, <<x>>[1], o)
    BY <1>1, Arguments, memcpySound
  <2>2. QED BY <1>2, <2>1, SoundCalling
<1>3. ASSUME NEW x \in Blocks, Calling("memmove", <<x>>, memmove(machine, x))
      PROVE  SoundCall
  <2>1. \A o \in memmove(machine, x) : Sound(machine, o) /\ Moves(machine, <<x>>[1], o)
    BY <1>1, Arguments, memmoveSound
  <2>2. QED BY <1>3, <2>1, SoundCalling
<1>4. ASSUME NEW x \in Blocks, Calling("memcmp", <<x>>, memcmp(machine, x))
      PROVE  SoundCall
  BY <1>1, <1>4, Arguments, memcmpSound, SoundCalling
<1>5. ASSUME NEW dest \in Arrays, NEW value \in Byte,
             Calling("memset", <<dest, value>>, memset(machine, dest, value))
      PROVE  SoundCall
  BY <1>1, <1>5, Arguments, memsetSound, SoundCalling
<1>6. QED BY <1>2, <1>3, <1>4, <1>5 DEF CallMemory

(* compiler_builtins, by one that cannot fail and one that divides.        *)
LEMMA CallBuiltinStep ==
    ASSUME IInv, CallBuiltin
    PROVE  SoundCall
<1>1. IsMachine(machine)
  BY DEF IInv
<1>2. ASSUME NEW ret \in Wides, Calling("__multi3", <<ret>>, builtin(machine, ret, Ones))
      PROVE  SoundCall
  BY <1>1, <1>2, Arguments, builtinSound, SoundCalling
<1>3. ASSUME NEW ret \in Wides, NEW divisor \in {0, 1},
             Calling("__divti3", <<ret>>, division(machine, ret, divisor, Ones))
      PROVE  SoundCall
  BY <1>1, <1>3, Arguments, divisionSound, SoundCalling
<1>4. QED BY <1>2, <1>3 DEF CallBuiltin

-----------------------------------------------------------------------------

(* An import that root_resolver finds when a contract is executed.         *)
Bound(import) == resolve(import, FALSE) # {}

(* A class of injectors asks for names and types of a class of             *)
(* registrations.                                                          *)
LEMMA Registered ==
    ASSUME NEW names, NEW ops, NEW ret, NEW params,
           In(Injected, names, ret, params) \subseteq functionMap,
           \A o \in ops : o[2] \in names
    PROVE  \A j \in which(ops, ret, params) : Bound(j.import)
<1> SUFFICES ASSUME NEW o \in ops
             PROVE  Bound(Inj(o[1], o[2], ret, params).import)
  BY DEF which
<1> DEFINE import == Inj(o[1], o[2], ret, params).import
           f == [mod |-> Injected, name |-> o[2], type |-> Type(ret, params)]
<1>1. f \in functionMap
  BY DEF In
<1>2. import.kind = "function" /\ import.mod = Injected /\ import.name = o[2] /\ import.type = Type(ret, params)
  BY DEF Inj
<1>3. f \in find(import)
  BY <1>1, <1>2 DEF find
<1>4. import.mod # "wavmIntrinsics"
  BY <1>2 DEF Injected
<1>5. QED BY <1>3, <1>4 DEF Bound, resolve, intrinsic

(* inject() finds use_gas in its private module,                           *)
LEMMA UseGasBound == Bound(UseGas)
<1> DEFINE f == [mod |-> Injected, name |-> "use_gas", type |-> Type("none", i64)]
<1>1. f \in functionMap
  <2>1. f \in In(Injected, {"use_gas"}, "none", i64)
    BY DEF In
  <2>2. f \in action_api
    BY <2>1 DEF action_api
  <2>3. QED BY <2>2 DEF functionMap
<1>2. UseGas.kind = "function" /\ UseGas.mod = Injected /\ UseGas.name = "use_gas"
      /\ UseGas.type = Type("none", i64)
  BY DEF UseGas
<1>3. f \in find(UseGas)
  BY <1>1, <1>2 DEF find
<1>4. UseGas.mod # "wavmIntrinsics"
  BY <1>2 DEF Injected
<1>5. QED BY <1>3, <1>4 DEF Bound, resolve, intrinsic

(* and every injector that the decoder dispatches to asks for a name that  *)
(* is registered with the type it gives: the two lists, in                 *)
(* wasm_injection.hpp and at the end of wasm_interface.cpp, agree.         *)
LEMMA InjectorsBound == \A j \in pre_op_injectors : Bound(j.import)
<1>1. softfloat_api \subseteq functionMap
  BY DEF functionMap
<1>2. \A j \in Arithmetic : Bound(j.import)
  <2> DEFINE binary32 == {"_eosio_f32_add", "_eosio_f32_sub", "_eosio_f32_mul", "_eosio_f32_div",
                          "_eosio_f32_min", "_eosio_f32_max", "_eosio_f32_copysign"}
             unary32 == {"_eosio_f32_abs", "_eosio_f32_neg", "_eosio_f32_sqrt", "_eosio_f32_ceil",
                         "_eosio_f32_floor", "_eosio_f32_trunc", "_eosio_f32_nearest"}
             binary64 == {"_eosio_f64_add", "_eosio_f64_sub", "_eosio_f64_mul", "_eosio_f64_div",
                          "_eosio_f64_min", "_eosio_f64_max", "_eosio_f64_copysign"}
             unary64 == {"_eosio_f64_abs", "_eosio_f64_neg", "_eosio_f64_sqrt", "_eosio_f64_ceil",
                         "_eosio_f64_floor", "_eosio_f64_trunc", "_eosio_f64_nearest"}
  <2>1. /\ In(Injected, binary32, "f32", f32 \o f32) \subseteq functionMap
        /\ In(Injected, unary32, "f32", f32) \subseteq functionMap
        /\ In(Injected, binary64, "f64", f64 \o f64) \subseteq functionMap
        /\ In(Injected, unary64, "f64", f64) \subseteq functionMap
    BY <1>1, Zenon DEF softfloat_api
  <2>2. \A o \in {<<"f32_add", "_eosio_f32_add">>, <<"f32_sub", "_eosio_f32_sub">>,
                  <<"f32_mul", "_eosio_f32_mul">>, <<"f32_div", "_eosio_f32_div">>,
                  <<"f32_min", "_eosio_f32_min">>, <<"f32_max", "_eosio_f32_max">>,
                  <<"f32_copysign", "_eosio_f32_copysign">>} : o[2] \in binary32
    OBVIOUS
  <2>3. \A o \in {<<"f32_abs", "_eosio_f32_abs">>, <<"f32_neg", "_eosio_f32_neg">>,
                  <<"f32_sqrt", "_eosio_f32_sqrt">>, <<"f32_floor", "_eosio_f32_floor">>,
                  <<"f32_ceil", "_eosio_f32_ceil">>, <<"f32_trunc", "_eosio_f32_trunc">>,
                  <<"f32_nearest", "_eosio_f32_nearest">>} : o[2] \in unary32
    OBVIOUS
  <2>4. \A o \in {<<"f64_add", "_eosio_f64_add">>, <<"f64_sub", "_eosio_f64_sub">>,
                  <<"f64_mul", "_eosio_f64_mul">>, <<"f64_div", "_eosio_f64_div">>,
                  <<"f64_min", "_eosio_f64_min">>, <<"f64_max", "_eosio_f64_max">>,
                  <<"f64_copysign", "_eosio_f64_copysign">>} : o[2] \in binary64
    OBVIOUS
  <2>5. \A o \in {<<"f64_abs", "_eosio_f64_abs">>, <<"f64_neg", "_eosio_f64_neg">>,
                  <<"f64_sqrt", "_eosio_f64_sqrt">>, <<"f64_floor", "_eosio_f64_floor">>,
                  <<"f64_ceil", "_eosio_f64_ceil">>, <<"f64_trunc", "_eosio_f64_trunc">>,
                  <<"f64_nearest", "_eosio_f64_nearest">>} : o[2] \in unary64
    OBVIOUS
  <2> HIDE DEF binary32, unary32, binary64, unary64
  <2>6. QED BY <2>1, <2>2, <2>3, <2>4, <2>5, Registered, Zenon DEF Arithmetic
<1>3. \A j \in Comparison : Bound(j.import)
  <2> DEFINE ordered32 == {"_eosio_f32_eq", "_eosio_f32_ne", "_eosio_f32_lt", "_eosio_f32_le",
                           "_eosio_f32_gt", "_eosio_f32_ge"}
             ordered64 == {"_eosio_f64_eq", "_eosio_f64_ne", "_eosio_f64_lt", "_eosio_f64_le",
                           "_eosio_f64_gt", "_eosio_f64_ge"}
  <2>1. /\ In(Injected, ordered32, "i32", f32 \o f32) \subseteq functionMap
        /\ In(Injected, ordered64, "i32", f64 \o f64) \subseteq functionMap
    BY <1>1, Zenon DEF softfloat_api
  <2>2. \A o \in {<<"f32_eq", "_eosio_f32_eq">>, <<"f32_ne", "_eosio_f32_ne">>,
                  <<"f32_lt", "_eosio_f32_lt">>, <<"f32_le", "_eosio_f32_le">>,
                  <<"f32_gt", "_eosio_f32_gt">>, <<"f32_ge", "_eosio_f32_ge">>} : o[2] \in ordered32
    OBVIOUS
  <2>3. \A o \in {<<"f64_eq", "_eosio_f64_eq">>, <<"f64_ne", "_eosio_f64_ne">>,
                  <<"f64_lt", "_eosio_f64_lt">>, <<"f64_le", "_eosio_f64_le">>,
                  <<"f64_gt", "_eosio_f64_gt">>, <<"f64_ge", "_eosio_f64_ge">>} : o[2] \in ordered64
    OBVIOUS
  <2> HIDE DEF ordered32, ordered64
  <2>4. QED BY <2>1, <2>2, <2>3, Registered, Zenon DEF Comparison
<1>4. \A j \in Truncation : Bound(j.import)
  <2> DEFINE promote == {"_eosio_f32_promote"}
             demote == {"_eosio_f64_demote"}
             i32f32 == {"_eosio_f32_trunc_i32s", "_eosio_f32_trunc_i32u"}
             i32f64 == {"_eosio_f64_trunc_i32s", "_eosio_f64_trunc_i32u"}
             i64f32 == {"_eosio_f32_trunc_i64s", "_eosio_f32_trunc_i64u"}
             i64f64 == {"_eosio_f64_trunc_i64s", "_eosio_f64_trunc_i64u"}
  <2>1. /\ In(Injected, promote, "f64", f32) \subseteq functionMap
        /\ In(Injected, demote, "f32", f64) \subseteq functionMap
        /\ In(Injected, i32f32, "i32", f32) \subseteq functionMap
        /\ In(Injected, i32f64, "i32", f64) \subseteq functionMap
        /\ In(Injected, i64f32, "i64", f32) \subseteq functionMap
        /\ In(Injected, i64f64, "i64", f64) \subseteq functionMap
    BY <1>1, Zenon DEF softfloat_api
  <2>2. /\ \A o \in {<<"f64_promote_f32", "_eosio_f32_promote">>} : o[2] \in promote
        /\ \A o \in {<<"f32_demote_f64", "_eosio_f64_demote">>} : o[2] \in demote
        /\ \A o \in {<<"i32_trunc_s_f32", "_eosio_f32_trunc_i32s">>,
                     <<"i32_trunc_u_f32", "_eosio_f32_trunc_i32u">>} : o[2] \in i32f32
        /\ \A o \in {<<"i32_trunc_s_f64", "_eosio_f64_trunc_i32s">>,
                     <<"i32_trunc_u_f64", "_eosio_f64_trunc_i32u">>} : o[2] \in i32f64
        /\ \A o \in {<<"i64_trunc_s_f32", "_eosio_f32_trunc_i64s">>,
                     <<"i64_trunc_u_f32", "_eosio_f32_trunc_i64u">>} : o[2] \in i64f32
        /\ \A o \in {<<"i64_trunc_s_f64", "_eosio_f64_trunc_i64s">>,
                     <<"i64_trunc_u_f64", "_eosio_f64_trunc_i64u">>} : o[2] \in i64f64
    OBVIOUS
  <2> HIDE DEF promote, demote, i32f32, i32f64, i64f32, i64f64
  <2>3. QED BY <2>1, <2>2, Registered, Zenon DEF Truncation
<1>5. QED BY <1>2, <1>3, <1>4, Zenon DEF pre_op_injectors

(* What validate() resolved against "env" alone resolves when it is        *)
(* executed, and so does what inject() adds.                               *)
LEMMA ValidatedLinks ==
    ASSUME NEW m, validate(m)
    PROVE  linkModule(ImportsAfterInjection(m), FALSE)
<1>1. \A i \in Range(m.imports) : Bound(i)
  BY DEF validate, linkModule, resolve, Bound
<1>2. \A i \in injectedImports(OpsOf(m)) : Bound(i)
  BY UseGasBound, InjectorsBound DEF injectedImports, dispatched
<1>3. QED BY <1>1, <1>2 DEF linkModule, ImportsAfterInjection, Bound

(* An execution starts without memory and with the gas it was given.       *)
LEMMA InitIInv == Init => IInv
<1> SUFFICES ASSUME Init PROVE IInv
  OBVIOUS
<1>1. PICK g \in GasLimits : machine = Idle(g)
  BY DEF Init
<1>2. IsMachine(machine)
  <2>1. g \in 0..(GasWidth - 1)
    BY LimitsAssumption
  <2>2. 0 \in 0..Width /\ DOMAIN <<>> = 0..(0 - 1)
    BY WidthAssumption
  <2>3. IsMemory(<<>>)
    BY <2>2 DEF IsMemory
  <2>4. IsConsole(<<>>)
    <3>1. <<>> \in Seq({})
      OBVIOUS
    <3>2. QED BY <3>1 DEF IsConsole
  <2>5. QED BY <1>1, <2>1, <2>3, <2>4 DEF IsMachine, Idle
<1>3. calls = 0 /\ validated = FALSE /\ module \in Modules
  BY DEF Init
<1>4. FailureLeavesNoTrace /\ MemoryExact /\ NoFreeCallbacks /\ PrintedNamesReadBack
  BY <1>3 DEF FailureLeavesNoTrace, MemoryExact, NoFreeCallbacks, PrintedNamesReadBack
<1>5. QED BY <1>2, <1>3, <1>4 DEF IInv

(* A step that is no call leaves the last call as it was.                  *)
LEMMA LastKept ==
    ASSUME FailureLeavesNoTrace, MemoryExact, NoFreeCallbacks, PrintedNamesReadBack,
           UNCHANGED <<calls, last>>
    PROVE  FailureLeavesNoTrace' /\ MemoryExact' /\ NoFreeCallbacks' /\ PrintedNamesReadBack'
BY DEF FailureLeavesNoTrace, MemoryExact, NoFreeCallbacks, PrintedNamesReadBack

(* Deployment records what validate() says.                                *)
LEMMA DeployInv ==
    ASSUME IInv, Deploy
    PROVE  IInv'
<1>1. /\ validated' = validate(module) /\ module' = module /\ machine' = machine /\ calls' = calls
      /\ last' = last /\ phase' = IF validated' THEN "valid" ELSE "refused"
  BY DEF Deploy
<1>2. module \in Modules /\ IsMachine(machine) /\ calls \in Nat
      /\ FailureLeavesNoTrace /\ MemoryExact /\ NoFreeCallbacks /\ PrintedNamesReadBack
  BY DEF IInv
<1>3. validated' \in BOOLEAN
  BY <1>1, Zenon DEF validate
<1>4. validated' => validate(module')
  BY <1>1, Zenon
<1>5. phase' # "unresolved"
  BY <1>1
<1>6. IsMachine(machine') /\ module' \in Modules /\ calls' \in Nat
  BY <1>1, <1>2, Zenon
<1>7. FailureLeavesNoTrace' /\ MemoryExact' /\ NoFreeCallbacks' /\ PrintedNamesReadBack'
  BY <1>1, <1>2, LastKept
<1>8. QED BY <1>3, <1>4, <1>5, <1>6, <1>7, Zenon DEF IInv

(* A validated contract does not fail to link.                             *)
LEMMA InstantiateInv ==
    ASSUME IInv, Instantiate
    PROVE  IInv'
<1>1. /\ module' = module /\ validated' = validated /\ machine' = machine /\ calls' = calls
      /\ last' = last
  BY DEF Instantiate
<1>2. /\ module \in Modules /\ IsMachine(machine) /\ calls \in Nat /\ validated \in BOOLEAN
      /\ validated => validate(module)
      /\ FailureLeavesNoTrace /\ MemoryExact /\ NoFreeCallbacks /\ PrintedNamesReadBack
  BY DEF IInv
<1>3. validated => phase' # "unresolved"
  BY <1>2, ValidatedLinks DEF Instantiate
<1>4. IsMachine(machine') /\ module' \in Modules /\ calls' \in Nat /\ validated' \in BOOLEAN
      /\ (validated' => validate(module'))
  BY <1>1, <1>2, Zenon
<1>5. FailureLeavesNoTrace' /\ MemoryExact' /\ NoFreeCallbacks' /\ PrintedNamesReadBack'
  BY <1>1, <1>2, LastKept
<1>6. QED BY <1>1, <1>3, <1>4, <1>5, Zenon DEF IInv

(* resetMemory gives a memory, with or without data segments.              *)
LEMMA InitialMemoryFacts ==
    ASSUME NEW m \in Modules
    PROVE  IsMemory(InitialMemory(m))
<1>1. CASE m.memories = <<>>
  <2>1. 0 \in 0..Width /\ DOMAIN <<>> = 0..(0 - 1)
    BY WidthAssumption
  <2>2. QED BY <1>1, <2>1 DEF IsMemory, InitialMemory
<1>2. CASE m.memories # <<>>
  <2> DEFINE image == CHOOSE i \in parse_initial_memory(m) : TRUE
             mem == [a \in 0..(MemoryBytes(m) - 1) |-> IF a \in DOMAIN image THEN image[a] ELSE 0]
  <2>1. InitialMemory(m) = mem
    BY <1>2 DEF InitialMemory
  <2>2. MemoryBytes(m) \in 0..Width
    BY <1>2, ModulesAssumption
  <2>3. DOMAIN mem = 0..(MemoryBytes(m) - 1) /\ mem = [a \in DOMAIN mem |-> mem[a]]
    OBVIOUS
  <2> HIDE DEF mem
  <2>4. QED BY <2>1, <2>2, <2>3 DEF IsMemory
<1>3. QED BY <1>1, <1>2

(* A step of the contract or of call() that leaves a machine.              *)
LEMMA MachineInv ==
    ASSUME IInv, IsMachine(machine'), phase' # "unresolved",
           UNCHANGED <<module, validated, calls, last>>
    PROVE  IInv'
<1>1. /\ module \in Modules /\ calls \in Nat /\ validated \in BOOLEAN
      /\ validated => validate(module)
      /\ FailureLeavesNoTrace /\ MemoryExact /\ NoFreeCallbacks /\ PrintedNamesReadBack
  BY DEF IInv
<1>2. /\ module' \in Modules /\ calls' \in Nat /\ validated' \in BOOLEAN
      /\ validated' => validate(module')
  <2>1. module' = module /\ calls' = calls /\ validated' = validated
    OBVIOUS
  <2>2. validated' => validate(module')
    <3>1. CASE validated
      BY <1>1, <2>1, <3>1, Zenon
    <3>2. CASE ~validated
      BY <2>1, <3>2
    <3>3. QED BY <3>1, <3>2
  <2>3. module' \in Modules /\ calls' \in Nat /\ validated' \in BOOLEAN
    BY <1>1, <2>1
  <2>4. QED BY <2>2, <2>3
<1>3. FailureLeavesNoTrace' /\ MemoryExact' /\ NoFreeCallbacks' /\ PrintedNamesReadBack'
  BY <1>1, LastKept
<1>4. QED BY <1>2, <1>3, Zenon DEF IInv

(* call() starts the contract with its initial memory, or fails.           *)
LEMMA ApplyInv ==
    ASSUME IInv, Apply
    PROVE  IInv'
<1>1. IsMachine(machine) /\ module \in Modules
  BY DEF IInv
<1>2. \/ machine' = machine
      \/ machine' = [machine EXCEPT !.mem = InitialMemory(module)]
  BY DEF Apply
<1>3. phase' # "unresolved"
  BY DEF Apply
<1>4. IsMachine(machine')
  <2>1. CASE machine' = machine
    BY <1>1, <2>1, Zenon
  <2>2. CASE machine' = [machine EXCEPT !.mem = InitialMemory(module)]
    <3>1. IsMemory(InitialMemory(module))
      BY <1>1, InitialMemoryFacts
    <3>2. IsMachine([machine EXCEPT !.mem = InitialMemory(module)])
      BY <1>1, <3>1, MemoryMachine
    <3>3. QED BY <2>2, <3>2, Zenon
  <2>3. QED BY <1>2, <2>1, <2>2
<1>5. UNCHANGED <<module, validated, calls, last>>
  BY DEF Apply
<1>6. QED BY <1>3, <1>4, <1>5, MachineInv

(* The contract's own code writes inside its memory.                       *)
LEMMA StoreInv ==
    ASSUME IInv, Store
    PROVE  IInv'
<1>1. IsMachine(machine) /\ (validated => phase # "unresolved")
  BY DEF IInv
<1>2. PICK a \in StoreAddresses \cap DOMAIN machine.mem, b \in Byte :
         machine' = [machine EXCEPT !.mem = Write(@, a, <<b>>)]
  BY DEF Store
<1> DEFINE mem == Write(machine.mem, a, <<b>>)
<1>3. IsMemory(mem)
  <2>1. IsMemory(machine.mem)
    BY <1>1 DEF IsMachine
  <2>2. QED BY <2>1, WriteMemory
<1>4. machine' = [machine EXCEPT !.mem = mem]
  BY <1>1, <1>2 DEF IsMachine
<1> HIDE DEF mem
<1>5. IsMachine([machine EXCEPT !.mem = mem])
  BY <1>1, <1>3, MemoryMachine
<1>6. IsMachine(machine')
  BY <1>4, <1>5, Zenon
<1>7. phase' # "unresolved"
  BY DEF Store
<1>8. UNCHANGED <<module, validated, calls, last>>
  BY DEF Store
<1>9. QED BY <1>6, <1>7, <1>8, MachineInv

(* Nothing changes.                                                        *)
LEMMA StutterInv ==
    ASSUME IInv, UNCHANGED vars
    PROVE  IInv'
BY DEF IInv, vars, FailureLeavesNoTrace, MemoryExact, NoFreeCallbacks, PrintedNamesReadBack

(* Every action keeps the invariant.                                       *)
LEMMA NextInv ==
    ASSUME IInv, [Next]_vars
    PROVE  IInv'
<1>1. CASE Deploy
  BY <1>1, DeployInv
<1>2. CASE Instantiate
  BY <1>2, InstantiateInv
<1>3. CASE Apply
  BY <1>3, ApplyInv
<1>4. CASE Store
  BY <1>4, StoreInv
<1>5. CASE CallDatabase
  BY <1>5, CallDatabaseStep, SoundCallInv
<1>6. CASE CallTables
  BY <1>6, CallTablesStep, SoundCallInv
<1>7. CASE CallCrypto
  BY <1>7, CallCryptoStep, SoundCallInv
<1>8. CASE CallSystem
  BY <1>8, CallSystemStep, SoundCallInv
<1>9. CASE CallLog
  BY <1>9, CallLogStep, SoundCallInv
<1>10. CASE CallContextFree
  BY <1>10, CallContextFreeStep, SoundCallInv
<1>11. CASE CallAction
  BY <1>11, CallActionStep, SoundCallInv
<1>12. CASE CallConsole
  BY <1>12, CallConsoleStep, SoundCallInv
<1>13. CASE CallMemory
  BY <1>13, CallMemoryStep, SoundCallInv
<1>14. CASE CallBuiltin
  BY <1>14, CallBuiltinStep, SoundCallInv
<1>15. CASE UNCHANGED vars
  BY <1>15, StutterInv
<1>16. QED BY <1>1, <1>2, <1>3, <1>4, <1>5, <1>6, <1>7, <1>8, <1>9, <1>10, <1>11, <1>12, <1>13,
             <1>14, <1>15 DEF Next

(* In every reachable state, for any contracts, limits, prices, gas and    *)
(* I32 arguments that keep to the assumptions: the machine is well formed, *)
(* a validated contract links, and the last intrinsic kept to what it      *)
(* promises.                                                               *)
THEOREM Invariance == Spec => []IInv
BY InitIInv, NextInv, PTL DEF Spec

(* An intrinsic of wasm_interface.cpp that throws has changed neither      *)
(* memory nor console, and has not called the embedder: translation and    *)
(* use_gas come before every effect.                                       *)
THEOREM FailureLeavesNoTraceTheorem == Spec => []FailureLeavesNoTrace
<1>1. IInv => FailureLeavesNoTrace
  BY DEF IInv
<1>2. QED BY <1>1, Invariance, PTL

(* Intrinsics touch nothing but bytes of the running memory, whatever the  *)
(* contract passes; memmove, and memcpy when it does not refuse, move the  *)
(* bytes as they were.                                                     *)
THEOREM MemoryExactTheorem == Spec => []MemoryExact
<1>1. IInv => MemoryExact
  BY DEF IInv
<1>2. QED BY <1>1, Invariance, PTL

(* No intrinsic gives gas back, use_gas with a negative amount included,   *)
(* and every callback of the embedder has cost gas.                        *)
THEOREM NoFreeCallbacksTheorem == Spec => []NoFreeCallbacks
<1>1. IInv => NoFreeCallbacks
  BY DEF IInv
<1>2. QED BY <1>1, Invariance, PTL

(* A name that printn prints reads back, by name::set, as the value that   *)
(* was printed, for every number of characters and every width of their    *)
(* slots.                                                                  *)
THEOREM PrintedNamesReadBackTheorem == Spec => []PrintedNamesReadBack
<1>1. IInv => PrintedNamesReadBack
  BY DEF IInv
<1>2. QED BY <1>1, Invariance, PTL

-----------------------------------------------------------------------------
(* The depths that nested_validator lets pass.                             *)
Depth == 0..(maximum_depth - 1)

(* One operator: a depth that is not refused stays below the limit, and    *)
(* rises at least as much as the blocks that are open.                     *)
LEMMA VisitFacts ==
    ASSUME NEW i, NEW d \in Depth, NEW e \in visit(i, d)
    PROVE  /\ e \in Depth
           /\ i.op \in {"block", "loop", "if_"} => e = d + 1 /\ i.op # "end"
           /\ i.op = "end" => e >= d - 1
           /\ i.op \notin {"block", "loop", "if_", "end"} => e >= d
<1>1. d \in Nat /\ d < maximum_depth /\ maximum_depth \in Nat
  BY DepthAssumption DEF Depth
<1>2. e = nested_validator(i, d) /\ (e > d => e < maximum_depth)
  BY DEF visit
<1>3. i.op \in {"block", "loop", "if_"} => e = d + 1 /\ i.op # "end"
  BY <1>2 DEF nested_validator, Nests, BlockOps
<1>4. i.op = "end" => e = IF d > 0 THEN d - 1 ELSE d + 1
  BY <1>1, <1>2 DEF nested_validator, Nests, BlockOps
<1>5. i.op \notin {"block", "loop", "if_", "end"} => e = d \/ e = d + 1
  BY <1>1, <1>2 DEF nested_validator, Nests, BlockOps
<1>6. QED BY <1>1, <1>2, <1>3, <1>4, <1>5 DEF Depth

(* The number of members of a set up to p + 1.                             *)
LEMMA CountStep ==
    ASSUME NEW S \in SUBSET Nat, NEW p \in Nat
    PROVE  /\ IsFiniteSet(S \cap (1..p)) /\ Cardinality(S \cap (1..p)) \in Nat
           /\ Cardinality(S \cap (1..(p + 1))) = Cardinality(S \cap (1..p)) + IF p + 1 \in S THEN 1 ELSE 0
<1>1. \A n \in Nat : IsFiniteSet(S \cap (1..n)) /\ Cardinality(S \cap (1..n)) \in Nat
  <2> SUFFICES ASSUME NEW n \in Nat PROVE IsFiniteSet(S \cap (1..n)) /\ Cardinality(S \cap (1..n)) \in Nat
    OBVIOUS
  <2>1. IsFiniteSet(1..n)
    BY FS_Interval
  <2>2. IsFiniteSet(S \cap (1..n))
    BY <2>1, FS_Subset
  <2>3. QED BY <2>2, FS_CardinalityType
<1>2. CASE p + 1 \in S
  <2>1. S \cap (1..(p + 1)) = (S \cap (1..p)) \cup {p + 1} /\ p + 1 \notin S \cap (1..p)
    BY <1>2
  <2>2. QED BY <1>1, <1>2, <2>1, FS_AddElement
<1>3. CASE p + 1 \notin S
  <2>1. S \cap (1..(p + 1)) = S \cap (1..p)
    BY <1>3
  <2>2. QED BY <1>1, <1>3, <2>1
<1>4. QED BY <1>1, <1>2, <1>3

(* The blocks open behind an operator, counted one operator after the      *)
(* other.                                                                  *)
LEMMA OpenFacts ==
    ASSUME NEW code
    PROVE  /\ Open(code, 0) = 0
           /\ \A k \in Nat : Open(code, k) \in Int
           /\ \A k \in Nat :
                 Open(code, k + 1) = Open(code, k)
                                     + (IF code[k + 1].op \in {"block", "loop", "if_"} THEN 1 ELSE 0)
                                     - (IF code[k + 1].op = "end" THEN 1 ELSE 0)
<1> DEFINE Opening == {j \in Nat : code[j].op \in {"block", "loop", "if_"}}
           Ending == {j \in Nat : code[j].op = "end"}
<1>1. ASSUME NEW k \in Nat
      PROVE  Open(code, k) = Cardinality(Opening \cap (1..k)) - Cardinality(Ending \cap (1..k))
  <2>1. /\ {j \in 1..k : code[j].op \in {"block", "loop", "if_"}} = Opening \cap (1..k)
        /\ {j \in 1..k : code[j].op = "end"} = Ending \cap (1..k)
    OBVIOUS
  <2> HIDE DEF Opening, Ending
  <2>2. QED BY <2>1 DEF Open
<1>2. \A j \in Nat : /\ j \in Opening <=> code[j].op \in {"block", "loop", "if_"}
                     /\ j \in Ending <=> code[j].op = "end"
  OBVIOUS
<1>3. Opening \in SUBSET Nat /\ Ending \in SUBSET Nat
  OBVIOUS
<1> HIDE DEF Opening, Ending
<1>4. Opening \cap (1..0) = {} /\ Ending \cap (1..0) = {} /\ Cardinality({}) = 0
  BY FS_EmptySet
<1>5. Open(code, 0) = 0
  BY <1>1, <1>4
<1>6. ASSUME NEW k \in Nat
      PROVE  /\ Open(code, k) \in Int
             /\ Open(code, k + 1) = Open(code, k)
                                     + (IF code[k + 1].op \in {"block", "loop", "if_"} THEN 1 ELSE 0)
                                     - (IF code[k + 1].op = "end" THEN 1 ELSE 0)
  <2>1. /\ Cardinality(Opening \cap (1..k)) \in Nat
        /\ Cardinality(Opening \cap (1..(k + 1))) =
               Cardinality(Opening \cap (1..k)) + IF k + 1 \in Opening THEN 1 ELSE 0
    BY <1>3, CountStep
  <2>2. /\ Cardinality(Ending \cap (1..k)) \in Nat
        /\ Cardinality(Ending \cap (1..(k + 1))) =
               Cardinality(Ending \cap (1..k)) + IF k + 1 \in Ending THEN 1 ELSE 0
    BY <1>3, CountStep
  <2>3. k + 1 \in Nat
    OBVIOUS
  <2>4. /\ Open(code, k) = Cardinality(Opening \cap (1..k)) - Cardinality(Ending \cap (1..k))
        /\ Open(code, k + 1) =
              Cardinality(Opening \cap (1..(k + 1))) - Cardinality(Ending \cap (1..(k + 1)))
    BY <1>1, <2>3
  <2>5. /\ k + 1 \in Opening <=> code[k + 1].op \in {"block", "loop", "if_"}
        /\ k + 1 \in Ending <=> code[k + 1].op = "end"
    BY <1>2, <2>3
  <2>6. QED BY <2>1, <2>2, <2>4, <2>5
<1>7. QED BY <1>5, <1>6

(* One function: the depth starts wherever the functions before it have    *)
(* left it, and is never below the number of open blocks. An end at depth  *)
(* 0 counts upwards, which only adds to it.                                *)
LEMMA FunctionDepthsFacts ==
    ASSUME NEW code, Len(code) \in Nat, NEW depths \in SUBSET Depth
    PROVE  /\ FunctionDepths(code, depths) \in SUBSET Depth
           /\ FunctionDepths(code, depths) # {} =>
                 depths # {} /\ \A k \in 1..Len(code) : Open(code, k) < maximum_depth
<1> DEFINE n == Len(code)
           Step(k, s) == UNION {visit(code[k], d) : d \in s}
           Runs(f) == f = [k \in 0..n |-> IF k = 0 THEN depths ELSE Step(k, f[k - 1])]
           after == CHOOSE f : Runs(f)
<1>1. \A k, s : s \in SUBSET Depth => Step(k, s) \in SUBSET Depth
  BY VisitFacts
<1>2. FunctionDepths(code, depths) = after[n]
  BY DEF FunctionDepths
<1> HIDE DEF n, Step
<1>3. \E f : Runs(f)
  <2> DEFINE S == SUBSET Depth
             step == [k \in 1..n |-> [s \in S |-> Step(k, s)]]
  <2>1. step \in Steps(n, S)
    BY <1>1 DEF Steps
  <2>2. n \in Nat /\ depths \in S
    BY DEF n
  <2>3. \A k \in 1..n, s \in S : step[k][s] = Step(k, s)
    OBVIOUS
  <2> HIDE DEF S, step
  <2>4. PICK f : Iterates(f, n, S, depths, step)
    BY <2>1, <2>2, Iterated
  <2>5. f \in [0..n -> S] /\ f[0] = depths /\ \A k \in 1..n : f[k] = step[k][f[k - 1]]
    BY <2>4 DEF Iterates
  <2>6. ASSUME NEW k \in 0..n
        PROVE  f[k] = IF k = 0 THEN depths ELSE Step(k, f[k - 1])
    <3>1. CASE k = 0
      BY <2>5, <3>1
    <3>2. CASE k # 0
      <4>1. k \in 1..n /\ k - 1 \in 0..n
        BY <2>2, <3>2
      <4>2. f[k - 1] \in S
        BY <2>5, <4>1
      <4>3. QED BY <2>3, <2>5, <3>2, <4>1, <4>2
    <3>3. QED BY <3>1, <3>2
  <2>7. f = [k \in 0..n |-> f[k]]
    BY <2>5
  <2>8. f = [k \in 0..n |-> IF k = 0 THEN depths ELSE Step(k, f[k - 1])]
    BY <2>6, <2>7, Zenon
  <2>9. QED BY <2>8, Zenon
<1>4. Runs(after)
  BY <1>3, Zenon
<1> HIDE DEF after
<1>5. n \in Nat /\ after[0] = depths /\ \A k \in 1..n : k - 1 \in 0..n /\ after[k] = Step(k, after[k - 1])
  BY <1>4 DEF n
<1> HIDE DEF Runs
<1> DEFINE Good(k) == after[k] \in SUBSET Depth /\ \A d \in after[k] : Open(code, k) <= d
<1>6. \A k \in 0..n : Good(k)
  <2> DEFINE Bad == {k \in 0..n : ~Good(k)}
  <2>1. SUFFICES ASSUME Bad # {} PROVE FALSE
    OBVIOUS
  <2>2. PICK k \in Bad : \A l \in Bad : k <= l
    <3>1. Bad \in SUBSET Nat
      BY <1>5
    <3> HIDE DEF Bad
    <3>2. QED BY <2>1, <3>1, LeastNatural
  <2>3. k \in 0..n /\ ~Good(k)
    BY <2>2
  <2>4. Good(0)
    <3>1. \A d \in depths : 0 <= d
      BY DEF Depth
    <3>2. Open(code, 0) = 0
      BY OpenFacts
    <3>3. QED BY <1>5, <3>1, <3>2
  <2>5. k \in 1..n /\ k - 1 \in Nat
    <3>1. k # 0
      BY <2>3, <2>4
    <3>2. QED BY <1>5, <2>3, <3>1
  <2>6. Good(k - 1)
    <3>1. k - 1 \in 0..n /\ ~(k <= k - 1)
      BY <1>5, <2>5
    <3>2. k - 1 \notin Bad
      <4> HIDE DEF Bad
      <4>1. QED BY <2>2, <3>1
    <3>3. QED BY <3>1, <3>2
  <2>7. after[k] = Step(k, after[k - 1])
    BY <1>5, <2>5
  <2>8. after[k] \in SUBSET Depth
    BY <1>1, <2>6, <2>7
  <2>9. ASSUME NEW e \in after[k] PROVE Open(code, k) <= e
    <3>1. PICK d \in after[k - 1] : e \in visit(code[k], d)
      BY <2>7 DEF Step
    <3>2. d \in Depth /\ Open(code, k - 1) <= d
      BY <2>6, <3>1
    <3>3. /\ e \in Depth
          /\ code[k].op \in {"block", "loop", "if_"} => e = d + 1 /\ code[k].op # "end"
          /\ code[k].op = "end" => e >= d - 1
          /\ code[k].op \notin {"block", "loop", "if_", "end"} => e >= d
      BY <3>1, <3>2, VisitFacts
    <3>4. (k - 1) + 1 = k
      BY <2>5
    <3>5. /\ Open(code, k - 1) \in Int
          /\ Open(code, k) = Open(code, k - 1)
                             + (IF code[k].op \in {"block", "loop", "if_"} THEN 1 ELSE 0)
                             - (IF code[k].op = "end" THEN 1 ELSE 0)
      BY <2>5, <3>4, OpenFacts
    <3>6. d \in Int /\ e \in Int
      BY <3>2, <3>3, DepthAssumption DEF Depth
    <3>7. QED BY <3>2, <3>3, <3>5, <3>6
  <2>10. QED BY <2>3, <2>8, <2>9
<1>7. ASSUME after[n] # {}
      PROVE  \A k \in 0..n : after[k] # {}
  <2> SUFFICES ASSUME NEW k \in 0..n, after[k] = {} PROVE FALSE
    OBVIOUS
  <2> DEFINE Left == {j \in k..n : after[j] # {}}
  <2>1. PICK j \in Left : \A l \in Left : j <= l
    <3>1. Left \in SUBSET Nat /\ n \in Left
      BY <1>5, <1>7
    <3> HIDE DEF Left
    <3>2. QED BY <3>1, LeastNatural
  <2>2. j \in 1..n /\ j - 1 \in k..n /\ ~(j <= j - 1)
    BY <1>5, <2>1
  <2>3. j - 1 \notin Left
    <3> HIDE DEF Left
    <3>1. QED BY <2>1, <2>2
  <2>4. after[j - 1] = {}
    BY <2>2, <2>3
  <2>5. after[j] = Step(j, {})
    BY <1>5, <2>2, <2>4
  <2>6. Step(j, {}) = {}
    BY DEF Step
  <2>7. QED BY <2>1, <2>5, <2>6
<1>8. ASSUME after[n] # {}
      PROVE  depths # {} /\ \A k \in 1..n : Open(code, k) < maximum_depth
  <2>1. depths # {}
    BY <1>5, <1>7, <1>8
  <2>2. ASSUME NEW k \in 1..n PROVE Open(code, k) < maximum_depth
    <3>1. k \in 0..n /\ k \in Nat
      BY <1>5
    <3>2. PICK d \in after[k] : TRUE
      BY <1>7, <1>8, <3>1
    <3>3. d \in Depth /\ Open(code, k) <= d
      BY <1>6, <3>1, <3>2
    <3>4. Open(code, k) \in Int
      BY <3>1, OpenFacts
    <3>5. QED BY <3>3, <3>4, DepthAssumption DEF Depth
  <2>3. QED BY <2>1, <2>2
<1>9. after[n] \in SUBSET Depth
  BY <1>5, <1>6
<1>10. QED BY <1>2, <1>8, <1>9 DEF n

(* All functions of a contract that is not refused.                        *)
LEMMA DepthsAfterFacts ==
    ASSUME NEW m \in Modules, DepthsAfter(m) # {}
    PROVE  \A k \in 1..Len(m.functions) : \A j \in 1..Len(m.functions[k].code) :
               Open(m.functions[k].code, j) < maximum_depth
<1> DEFINE n == Len(m.functions)
           Code(k) == m.functions[k].code
           Runs(f) == f = [k \in 0..n |-> IF k = 0 THEN {0} ELSE FunctionDepths(Code(k), f[k - 1])]
           after == CHOOSE f : Runs(f)
<1>1. n \in Nat /\ \A k \in 1..n : Len(Code(k)) \in Nat
  BY ModulesAssumption
<1>2. DepthsAfter(m) = after[n]
  BY DEF DepthsAfter
<1> HIDE DEF n, Code
<1>3. \A k \in 1..n, s \in SUBSET Depth : FunctionDepths(Code(k), s) \in SUBSET Depth
  BY <1>1, FunctionDepthsFacts
<1>4. {0} \in SUBSET Depth
  BY DepthAssumption DEF Depth
<1>5. \E f : Runs(f)
  <2> DEFINE S == SUBSET Depth
             step == [k \in 1..n |-> [s \in S |-> FunctionDepths(Code(k), s)]]
  <2>1. step \in Steps(n, S)
    BY <1>3 DEF Steps
  <2>2. {0} \in S
    BY <1>4
  <2>3. \A k \in 1..n, s \in S : step[k][s] = FunctionDepths(Code(k), s)
    OBVIOUS
  <2> HIDE DEF S, step
  <2>4. PICK f : Iterates(f, n, S, {0}, step)
    BY <1>1, <2>1, <2>2, Iterated
  <2>5. f \in [0..n -> S] /\ f[0] = {0} /\ \A k \in 1..n : f[k] = step[k][f[k - 1]]
    BY <2>4 DEF Iterates
  <2>6. ASSUME NEW k \in 0..n
        PROVE  f[k] = IF k = 0 THEN {0} ELSE FunctionDepths(Code(k), f[k - 1])
    <3>1. CASE k = 0
      BY <2>5, <3>1
    <3>2. CASE k # 0
      <4>1. k \in 1..n /\ k - 1 \in 0..n
        BY <1>1, <3>2
      <4>2. f[k - 1] \in S
        BY <2>5, <4>1
      <4>3. QED BY <2>3, <2>5, <3>2, <4>1, <4>2
    <3>3. QED BY <3>1, <3>2
  <2>7. f = [k \in 0..n |-> f[k]]
    BY <2>5
  <2>8. f = [k \in 0..n |-> IF k = 0 THEN {0} ELSE FunctionDepths(Code(k), f[k - 1])]
    BY <2>6, <2>7, Zenon
  <2>9. QED BY <2>8, Zenon
<1>6. Runs(after)
  BY <1>5, Zenon
<1> HIDE DEF after
<1>7. after[0] = {0} /\ \A k \in 1..n : k - 1 \in 0..n /\ after[k] = FunctionDepths(Code(k), after[k - 1])
  <2>1. 0 \in 0..n /\ \A k \in 1..n : k \in 0..n /\ k # 0 /\ k - 1 \in 0..n
    BY <1>1
  <2>2. \A k \in 0..n : after[k] = IF k = 0 THEN {0} ELSE FunctionDepths(Code(k), after[k - 1])
    BY <1>6, Zenon
  <2>3. QED BY <2>1, <2>2, Zenon
<1> HIDE DEF Runs
<1>8. \A k \in 0..n : after[k] \in SUBSET Depth
  <2> DEFINE Bad == {k \in 0..n : after[k] \notin SUBSET Depth}
  <2>1. SUFFICES ASSUME Bad # {} PROVE FALSE
    OBVIOUS
  <2>2. PICK k \in Bad : \A l \in Bad : k <= l
    <3>1. Bad \in SUBSET Nat
      BY <1>1
    <3> HIDE DEF Bad
    <3>2. QED BY <2>1, <3>1, LeastNatural
  <2>3. k \in 1..n /\ k - 1 \in 0..n /\ ~(k <= k - 1)
    <3>1. k \in 0..n /\ k # 0
      BY <1>4, <1>7, <2>2
    <3>2. QED BY <1>1, <3>1
  <2>4. k - 1 \notin Bad
    <3> HIDE DEF Bad
    <3>1. QED BY <2>2, <2>3
  <2>5. after[k - 1] \in SUBSET Depth
    BY <2>3, <2>4
  <2>6. after[k] \in SUBSET Depth
    BY <1>3, <1>7, <2>3, <2>5
  <2>7. QED BY <2>2, <2>6
<1>9. \A k \in 0..n : after[k] # {}
  <2> SUFFICES ASSUME NEW k \in 0..n, after[k] = {} PROVE FALSE
    OBVIOUS
  <2> DEFINE Left == {j \in k..n : after[j] # {}}
  <2>1. PICK j \in Left : \A l \in Left : j <= l
    <3>1. Left \in SUBSET Nat /\ n \in Left
      BY <1>1, <1>2
    <3> HIDE DEF Left
    <3>2. QED BY <3>1, LeastNatural
  <2>2. j \in 1..n /\ j - 1 \in k..n /\ j - 1 \in 0..n /\ ~(j <= j - 1) /\ after[j] # {}
    BY <1>1, <2>1
  <2>3. j - 1 \notin Left
    <3> HIDE DEF Left
    <3>1. QED BY <2>1, <2>2
  <2>4. after[j - 1] = {}
    BY <2>2, <2>3
  <2>5. after[j] = FunctionDepths(Code(j), after[j - 1])
    BY <1>7, <2>2
  <2>6. FunctionDepths(Code(j), after[j - 1]) # {} => after[j - 1] # {}
    BY <1>1, <1>8, <2>2, FunctionDepthsFacts
  <2>7. QED BY <2>2, <2>4, <2>5, <2>6
<1>10. ASSUME NEW k \in 1..n, NEW j \in 1..Len(Code(k))
       PROVE  Open(Code(k), j) < maximum_depth
  <2>1. k \in 0..n /\ k - 1 \in 0..n
    BY <1>1
  <2>2. after[k - 1] \in SUBSET Depth /\ FunctionDepths(Code(k), after[k - 1]) # {}
    BY <1>7, <1>8, <1>9, <2>1
  <2>3. QED BY <1>1, <2>2, FunctionDepthsFacts
<1>11. QED BY <1>10 DEF n, Code

(* Below the limit behind every operator, so below it at the deepest.      *)
LEMMA NestingBounded ==
    ASSUME NEW code, Len(code) \in Nat, \A j \in 1..Len(code) : Open(code, j) < maximum_depth
    PROVE  Nesting(code) < maximum_depth
<1> DEFINE T == {0} \cup {Open(code, k) : k \in 1..Len(code)}
<1>1. T \in SUBSET Int /\ T # {}
  <2>1. \A k \in 1..Len(code) : Open(code, k) \in Int
    BY OpenFacts
  <2>2. QED BY <2>1
<1>2. maximum_depth \in Int /\ \A x \in T : x < maximum_depth
  BY DepthAssumption
<1>3. Nesting(code) = Max(T)
  BY DEF Nesting
<1> HIDE DEF T
<1>4. \A x \in T : x <= maximum_depth
  BY <1>1, <1>2
<1>5. Max(T) \in T
  BY <1>1, <1>2, <1>4, SetMax
<1>6. QED BY <1>2, <1>3, <1>5

(* A contract that has passed validate() nests less deep than              *)
(* maximum_depth in every function, although nested_validator keeps one    *)
(* static depth for all of them and counts an else as an opening; and it   *)
(* never fails to link when it is executed.                                *)
THEOREM ValidatedHoldsTheorem == Spec => []ValidatedHolds
<1>1. IInv => ValidatedHolds
  <2> SUFFICES ASSUME IInv, validated
               PROVE  /\ \A k \in 1..Len(module.functions) :
                             Nesting(module.functions[k].code) < maximum_depth
                      /\ phase # "unresolved"
    BY DEF ValidatedHolds
  <2>1. module \in Modules /\ validate(module) /\ phase # "unresolved"
    BY DEF IInv
  <2>2. DepthsAfter(module) # {}
    BY <2>1 DEF validate
  <2>3. ASSUME NEW k \in 1..Len(module.functions)
        PROVE  Nesting(module.functions[k].code) < maximum_depth
    <3>1. \A j \in 1..Len(module.functions[k].code) : Open(module.functions[k].code, j) < maximum_depth
      BY <2>1, <2>2, DepthsAfterFacts
    <3>2. Len(module.functions[k].code) \in Nat
      BY <2>1, ModulesAssumption
    <3>3. QED BY <3>1, <3>2, NestingBounded
  <2>4. QED BY <2>1, <2>3
<1>2. QED BY <1>1, Invariance, PTL
=============================================================================
