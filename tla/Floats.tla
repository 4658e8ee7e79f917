-------------------------------- MODULE Floats --------------------------------
(* One call after another into softfloat, the float intrinsics and the compiler builtins:  *)
(* the state is the operands of a call, the two globals that decide its result,            *)
(* softfloat_roundingMode and extF80_roundingPrecision, and how far off the estimate is    *)
(* that a square root starts from.  The invariants compare what every operation returns    *)
(* for these operands with what IEEE 754, C or WebAssembly ask for (below).                *)
EXTENDS FloatApi, ExtF80

-----------------------------------------------------------------------------
(* What a binary floating-point operation has to return, stated from the exact result of  *)
(* the operation on real numbers: its two neighbours in the format, and which of them the *)
(* rounding direction asks for.  No guard bits, no sticky bits, no normalisation: this is *)
(* the reference SoftFloat's arithmetic is compared with.                                 *)

LOCAL Max2(i, j) == IF i >= j THEN i ELSE j
LOCAL Min2(i, j) == IF i <= j THEN i ELSE j

BitLength(m) == CHOOSE n \in 0..30 : m < 2^n /\ (n = 0 \/ m >= 2^(n - 1))

Nearest == {"near_even", "near_maxMag"}

(* The finite number with pattern a is -1^sign * m * 2^q.                                 *)
Sign(F, a) == a \div 2^(F.e + F.f)
Mant(F, a) == fracUI(F, a) + (IF expUI(F, a) # 0 THEN 2^F.f ELSE 0)
Quan(F, a) == Max2(expUI(F, a), 1) - Bias(F) - F.f
Signed(F, a) == (IF Sign(F, a) = 1 THEN -1 ELSE 1) * Mant(F, a)

IsNaN(F, a)    == expUI(F, a) = ExpMax(F) /\ fracUI(F, a) # 0
IsInf(F, a)    == expUI(F, a) = ExpMax(F) /\ fracUI(F, a) = 0
IsFinite(F, a) == expUI(F, a) # ExpMax(F)
Zero(F, s)     == s * 2^(F.e + F.f)
Inf(F, s)      == Zero(F, s) + ExpMax(F) * 2^F.f

(* A real number is m + t times a power of two, where t is 0, below, at or above 1/2.     *)
(* To a multiple of 2^d: the multiple below it, and what is left over.                    *)
LeftOver(rest, half, t) ==
    CASE rest = 0 /\ t = "zero" -> "zero"
      [] rest = half /\ t = "zero" -> "tie"
      [] rest < half /\ (rest # 0 \/ t # "zero") -> "below"
      [] rest > half \/ (rest = half /\ t # "zero") -> "above"

Split(m, t, d) ==
    IF d <= 0 THEN [n |-> m * 2^(-d), t |-> t]
    ELSE IF d > BitLength(m) + 1 THEN [n |-> 0, t |-> IF m = 0 /\ t = "zero" THEN "zero" ELSE "below"]
    ELSE [n |-> m \div 2^d, t |-> LeftOver(m % 2^d, 2^(d - 1), t)]

(* The upper neighbour is the one to take.                                                *)
RoundsUp(mode, s, n, t) ==
    CASE mode = "near_even"   -> t = "above" \/ (t = "tie" /\ n % 2 = 1)
      [] mode = "near_maxMag" -> t \in {"above", "tie"}
      [] mode \in {"min", "max"} -> mode = away(s) /\ t # "zero"
      [] mode = "minMag"      -> FALSE

Taken(mode, s, p) == [n |-> p.n + (IF RoundsUp(mode, s, p.n, p.t) THEN 1 ELSE 0), t |-> p.t]
Neighbour(mode, s, m, t, d) == Taken(mode, s, Split(m, t, d))

(* A pattern without its sign, or what an overflow makes of it.                            *)
InRange(F, mode, s, pattern, flags) ==
    IF pattern < ExpMax(F) * 2^F.f THEN Result(Zero(F, s) + pattern, flags)
    ELSE Result(Inf(F, s) - (IF mode \in Nearest \cup {away(s)} THEN 0 ELSE 1), {"overflow", "inexact"})

(* The number of the format that -1^s * (m + t) * 2^q rounds to, and the exceptions: a    *)
(* result is tiny if it were below the normal range even with an unbounded exponent.      *)
(* e is the exponent; z and free are the neighbours in the format and without its bounds.  *)
Chosen(F, mode, s, e, z, free) ==
    LET qmin == 1 - Bias(F) - F.f
        tiny == e + (IF free.n = 2^(F.f + 1) THEN 1 ELSE 0) < 1 - Bias(F)
    IN  InRange(F, mode, s, (Max2(e - F.f, qmin) - qmin) * 2^F.f + z.n,
                IF z.t = "zero" THEN {} ELSE {"inexact"} \cup (IF tiny THEN {"underflow"} ELSE {}))
RoundBinade(F, mode, s, m, t, q, e) ==
    Chosen(F, mode, s, e, Neighbour(mode, s, m, t, Max2(e - F.f, 1 - Bias(F) - F.f) - q),
           Neighbour(mode, s, m, t, e - F.f - q))
RoundTo(F, mode, s, m, t, q) ==
    IF m = 0 /\ t = "zero" THEN Result(Zero(F, s), {})
    ELSE RoundBinade(F, mode, s, m, t, q, BitLength(m) - 1 + q)

(* The same with p bits of fraction instead of F.f, as a pattern of F.                     *)
Padded(r, bits) == [r EXCEPT !.ui = @ * 2^bits]
RoundAt(F, p, mode, s, m, t, q) == Padded(RoundTo([F EXCEPT !.f = p], mode, s, m, t, q), F.f - p)

(* -1^s * i * 2^q, for an integer i; s is the sign of a zero.                             *)
RoundSignedAt(F, p, mode, zeroSign, i, q) ==
    IF i = 0 THEN Result(Zero(F, zeroSign), {})
    ELSE RoundAt(F, p, mode, IF i < 0 THEN 1 ELSE 0, IF i < 0 THEN -i ELSE i, "zero", q)
RoundSigned(F, mode, zeroSign, i, q) == RoundSignedAt(F, F.f, mode, zeroSign, i, q)

(* A quotient n/d of natural numbers, with t: at least bits of it.                        *)
Ratio(n, d, bits) ==
    LET left(r) == IF r = 0 THEN "zero" ELSE IF 2 * r < d THEN "below" ELSE IF 2 * r = d THEN "tie" ELSE "above"
        by(k) == [m |-> (n * 2^k) \div d, q |-> -k, t |-> left((n * 2^k) % d)]
    IN  by(bits + BitLength(d) - BitLength(n))

-----------------------------------------------------------------------------
(* The operations on real numbers; p bits of fraction are asked for                       *)

(* Any operand that is not a number makes the result one, quiet, with the payload of one  *)
(* of them; a signalling one is an invalid operation.                                     *)
NaNResult(F, args, r) ==
    LET nans == {a \in args : IsNaN(F, a)}
        half == 2^(F.f - 1)
        sig(a) == fracUI(F, a) < half
    IN  /\ \E a \in nans : r.ui = a + (IF sig(a) THEN half ELSE 0)
        /\ r.flags = IF \E a \in nans : sig(a) THEN {"invalid"} ELSE {}

InvalidResult(F, r) == r = Result(Inf(F, 1) + 2^(F.f - 1), {"invalid"})

(* i * 2^qi needs this much more precision before j * 2^qj, of less than a unit of its     *)
(* last place, can only tell the side of a number of the format or of a tie it is on.     *)
Abs(i) == IF i < 0 THEN -i ELSE i
Finer(F, i) == Max2(0, F.f + 3 - BitLength(Abs(i)))
Dwarfs(F, i, qi, j, qj) == i # 0 /\ j # 0 /\ BitLength(Abs(j)) + qj <= qi - Finer(F, i)

(* Two terms i * 2^qi and j * 2^qj with the signs of their zeros.                         *)
SumOf(F, p, mode, si, i, qi, sj, j, qj) ==
    LET q == IF i = 0 THEN qj ELSE IF j = 0 THEN qi ELSE Min2(qi, qj)
        at(k, qk) == IF k = 0 THEN 0 ELSE k * 2^(qk - q)
        beside(k, qk, l) ==
            RoundSignedAt(F, p, mode, 0, k * 2^(Finer(F, k) + 1) + (IF l < 0 THEN -1 ELSE 1), qk - Finer(F, k) - 1)
    IN  IF Dwarfs(F, i, qi, j, qj) THEN beside(i, qi, j)
        ELSE IF Dwarfs(F, j, qj, i, qi) THEN beside(j, qj, i)
        ELSE RoundSignedAt(F, p, mode, IF si = sj THEN si ELSE IF mode = "min" THEN 1 ELSE 0, at(i, qi) + at(j, qj), q)

IsSum(F, p, mode, a, b, negB, r) ==
    LET sb == IF negB THEN 1 - Sign(F, b) ELSE Sign(F, b)
    IN  CASE IsNaN(F, a) \/ IsNaN(F, b) -> NaNResult(F, {a, b}, r)
          [] IsInf(F, a) /\ IsInf(F, b) ->
                 IF Sign(F, a) # sb THEN InvalidResult(F, r) ELSE r = Result(a, {})
          [] IsInf(F, a) /\ IsFinite(F, b) -> r = Result(a, {})
          [] IsFinite(F, a) /\ IsInf(F, b) -> r = Result(Inf(F, sb), {})
          [] IsFinite(F, a) /\ IsFinite(F, b) ->
                 r = SumOf(F, p, mode, Sign(F, a), Signed(F, a), Quan(F, a),
                           sb, (IF negB THEN -1 ELSE 1) * Signed(F, b), Quan(F, b))

ProductSign(F, a, b) == IF Sign(F, a) = Sign(F, b) THEN 0 ELSE 1

IsProduct(F, p, mode, a, b, r) ==
    LET s == ProductSign(F, a, b)
    IN  CASE IsNaN(F, a) \/ IsNaN(F, b) -> NaNResult(F, {a, b}, r)
          [] (IsInf(F, a) /\ ~IsNaN(F, b)) \/ (IsInf(F, b) /\ ~IsNaN(F, a)) ->
                 IF isZero(F, a) \/ isZero(F, b) THEN InvalidResult(F, r) ELSE r = Result(Inf(F, s), {})
          [] IsFinite(F, a) /\ IsFinite(F, b) ->
                 r = RoundAt(F, p, mode, s, Mant(F, a) * Mant(F, b), "zero", Quan(F, a) + Quan(F, b))

IsQuotient(F, p, mode, a, b, r) ==
    LET s == ProductSign(F, a, b)
        round(x) == RoundAt(F, p, mode, s, x.m, x.t, x.q + Quan(F, a) - Quan(F, b))
    IN  CASE IsNaN(F, a) \/ IsNaN(F, b) -> NaNResult(F, {a, b}, r)
          [] (IsInf(F, a) /\ IsInf(F, b)) \/ (isZero(F, a) /\ isZero(F, b)) -> InvalidResult(F, r)
          [] IsInf(F, a) /\ IsFinite(F, b) -> r = Result(Inf(F, s), {})
          [] IsFinite(F, a) /\ ~isZero(F, a) /\ isZero(F, b) -> r = Result(Inf(F, s), {"infinite"})
          [] (IsFinite(F, a) /\ IsInf(F, b)) \/ (isZero(F, a) /\ IsFinite(F, b) /\ ~isZero(F, b)) ->
                 r = Result(Zero(F, s), {})
          [] IsFinite(F, a) /\ IsFinite(F, b) /\ ~isZero(F, a) /\ ~isZero(F, b) ->
                 r = round(Ratio(Mant(F, a), Mant(F, b), F.f + 1))

IsRoot(F, p, mode, a, r) ==
    LET scale(bits) == 2 * F.f + 1 + ((Quan(F, a) + 1 + bits) % 2) - bits     \* 2^2f <= x < 2^(2f+2)
        integerRoot(x) == CHOOSE i \in {floorRoot(x, F.f + 1)} : i * i <= x /\ x < (i + 1) * (i + 1)
        left(x, n) == IF x = n * n THEN "zero" ELSE IF x <= n * n + n THEN "below" ELSE "above"
        root(x) == [m |-> integerRoot(x), t |-> left(x, integerRoot(x))]
        round(k, x) == RoundAt(F, p, mode, 0, x.m, x.t, (Quan(F, a) - k) \div 2)
        k0 == scale(BitLength(Mant(F, a)))
    IN  CASE IsNaN(F, a) -> NaNResult(F, {a}, r)
          [] isZero(F, a) \/ a = Inf(F, 0) -> r = Result(a, {})
          [] ~IsNaN(F, a) /\ ~isZero(F, a) /\ Sign(F, a) = 1 -> InvalidResult(F, r)
          [] IsFinite(F, a) /\ ~isZero(F, a) /\ Sign(F, a) = 0 ->
                 r = round(k0, root(Mant(F, a) * 2^k0))

IsRemainder(F, a, b, r) ==
    LET q == Min2(Quan(F, a), Quan(F, b))
        dist == Quan(F, a) - Quan(F, b)
        \* |a| modulo 2b, which says what is left and whether the quotient is even
        modulo(B) ==
            LET A[i \in 0..Max2(0, dist)] ==
                    IF i = 0 THEN Mant(F, a) % (2 * B) ELSE (2 * A[i - 1]) % (2 * B)
            IN  A[Max2(0, dist)]
        nearer(left, B) == IF 2 * left <= B THEN left ELSE IF 2 * left < 3 * B THEN left - B ELSE left - 2 * B
        signed(B) == nearer(modulo(B), B)
    IN  CASE IsNaN(F, a) \/ IsNaN(F, b) -> NaNResult(F, {a, b}, r)
          [] (IsInf(F, a) /\ ~IsNaN(F, b)) \/ (isZero(F, b) /\ ~IsNaN(F, a)) -> InvalidResult(F, r)
          [] IsFinite(F, a) /\ IsInf(F, b) -> r = Result(a, {})
          [] IsFinite(F, a) /\ IsFinite(F, b) /\ ~isZero(F, b) ->
                 IF dist < -(F.f + 1) THEN r = Result(a, {})
                 ELSE r = RoundSigned(F, "near_even", Sign(F, a),
                                      (IF Sign(F, a) = 1 THEN -1 ELSE 1) * signed(Mant(F, b) * 2^(Quan(F, b) - q)), q)

IsMulAdd(F, mode, a, b, c, r) ==
    LET s == ProductSign(F, a, b)
        infProd == IsInf(F, a) \/ IsInf(F, b)
        noNaN == ~IsNaN(F, a) /\ ~IsNaN(F, b)
        zeroInf == infProd /\ (isZero(F, a) \/ isZero(F, b))
    IN  CASE noNaN /\ zeroInf -> r.ui = Inf(F, 1) + 2^(F.f - 1) /\ "invalid" \in r.flags
          [] ~zeroInf /\ (~noNaN \/ IsNaN(F, c)) -> NaNResult(F, {a, b, c}, r)
          [] noNaN /\ ~zeroInf /\ infProd /\ ~IsNaN(F, c) ->
                 IF IsInf(F, c) /\ Sign(F, c) # s THEN InvalidResult(F, r) ELSE r = Result(Inf(F, s), {})
          [] noNaN /\ ~infProd /\ IsInf(F, c) -> r = Result(c, {})
          [] noNaN /\ ~infProd /\ IsFinite(F, c) ->
                 r = SumOf(F, F.f, mode, s, (IF s = 1 THEN -1 ELSE 1) * Mant(F, a) * Mant(F, b),
                           Quan(F, a) + Quan(F, b), Sign(F, c), Signed(F, c), Quan(F, c))

-----------------------------------------------------------------------------
(* Integers and order                                                                     *)

(* The integer a finite number rounds to.                                                 *)
ToInteger(F, mode, a) ==
    LET integer(z) == [n |-> IF Sign(F, a) = 1 THEN -z.n ELSE z.n, inexact |-> z.t # "zero"]
    IN  integer(Neighbour(mode, Sign(F, a), Mant(F, a), "zero", -Quan(F, a)))

(* |a| < |b| for two numbers: the binade decides, else the significands.                  *)
MagnitudeLess(F, a, b) ==
    LET binade(x) == BitLength(Mant(F, x)) + Quan(F, x)
        q == Min2(Quan(F, a), Quan(F, b))
    IN  CASE IsInf(F, a) \/ isZero(F, b) -> FALSE
          [] IsInf(F, b) /\ ~IsInf(F, a) -> TRUE
          [] IsFinite(F, a) /\ IsFinite(F, b) /\ ~isZero(F, b) ->
                 \/ isZero(F, a)
                 \/ binade(a) < binade(b)
                 \/ /\ binade(a) = binade(b)
                    /\ Mant(F, a) * 2^(Quan(F, a) - q) < Mant(F, b) * 2^(Quan(F, b) - q)

Less(F, a, b) ==
    IF Sign(F, a) # Sign(F, b) THEN Sign(F, a) = 1 /\ ~(isZero(F, a) /\ isZero(F, b))
    ELSE IF Sign(F, a) = 0 THEN MagnitudeLess(F, a, b) ELSE MagnitudeLess(F, b, a)

-----------------------------------------------------------------------------
(* The calls *)

(* The operands to try: triples of patterns of each format, patterns to take the root of,    *)
(* 128-bit integers as words and integers of all widths as numbers, significands about to be *)
(* rounded, and pairs of numbers of two machine words.                                      *)
CONSTANTS Triples16, Triples32, Triples64, Triples128, TriplesX, Roots, Words, Ints, Raw, Pairs

VARIABLE args
vars == <<softfloat_roundingMode, recipSqrtError, extF80_roundingPrecision, args>>

None == [kind |-> "none"]

Init ==
    /\ softfloat_roundingMode = "near_even" /\ extF80_roundingPrecision = 80
    /\ recipSqrtError = 0 /\ args = None

(* The variables are part of softfloat's interface; the runtime itself never assigns them. *)
SetRoundingMode(mode) ==
    /\ args = None
    /\ softfloat_roundingMode' = mode
    /\ UNCHANGED <<recipSqrtError, extF80_roundingPrecision, args>>

SetRoundingPrecision(precisionOf) ==
    /\ args = None
    /\ extF80_roundingPrecision' = precisionOf
    /\ UNCHANGED <<softfloat_roundingMode, recipSqrtError, args>>

(* Only operations of extended precision depend on the precision.                          *)
Call(operands) ==
    /\ operands.kind \notin {"ext", "extRoot"} => extF80_roundingPrecision = 80
    /\ args' = operands
    /\ UNCHANGED <<softfloat_roundingMode, extF80_roundingPrecision>>

CallFloat(kind, triples) ==
    /\ args = None /\ \E t \in triples : Call([kind |-> kind, a |-> t[1], b |-> t[2], c |-> t[3]])
    /\ UNCHANGED recipSqrtError
CallInt == args = None /\ UNCHANGED recipSqrtError /\ \E i \in Ints : Call([kind |-> "int", i |-> i])
CallWords ==
    /\ args = None /\ UNCHANGED recipSqrtError
    /\ \E p \in Words : Call([kind |-> "words", la |-> p[1], ha |-> p[2], lb |-> p[3], hb |-> p[4]])
CallRaw ==
    /\ args = None /\ UNCHANGED recipSqrtError
    /\ \E p \in Raw : Call([kind |-> "raw", sign |-> p[1], exp |-> p[2], sig |-> p[3]])
CallPair ==
    /\ args = None /\ UNCHANGED recipSqrtError
    /\ \E p \in Pairs : Call([kind |-> "pair", a |-> uint128(p[1], p[2]), b |-> uint128(p[3], p[4])])

(* A square root starts from any estimate that keeps the bound; that of half precision is   *)
(* computed by the operation itself.                                                        *)
CallRoot ==
    /\ args = None
    /\ \E p \in Roots :
           /\ recipSqrtError' \in (IF p[1] = "f16Root" THEN {0} ELSE 0..2)
           /\ Call([kind |-> p[1], a |-> p[2]])

Return ==
    /\ args # None
    /\ args' = None /\ recipSqrtError' = 0
    /\ UNCHANGED <<softfloat_roundingMode, extF80_roundingPrecision>>

Next ==
    \/ \E mode \in Modes : SetRoundingMode(mode)
    \/ \E bits \in Precisions : SetRoundingPrecision(bits)
    \/ CallFloat("f16", Triples16)
    \/ CallFloat("f32", Triples32)
    \/ CallFloat("f64", Triples64)
    \/ CallFloat("f128", Triples128)
    \/ CallFloat("ext", TriplesX)
    \/ CallRoot
    \/ CallInt
    \/ CallWords
    \/ CallRaw
    \/ CallPair
    \/ Return

Spec == Init /\ [][Next]_vars

-----------------------------------------------------------------------------
mode == softfloat_roundingMode

(* TLC's integers have 31 bits: an exact sum that does not fit is not computed.            *)
Fits(F, i, qi, j, qj) ==
    LET far == IF qi > qj THEN qi - qj ELSE qj - qi
        big == IF qi > qj THEN i ELSE j
    IN  \/ i = 0 \/ j = 0
        \/ Dwarfs(F, i, qi, j, qj) \/ Dwarfs(F, j, qj, i, qi)
        \/ BitLength(Abs(big)) + far < 29
SumFits(F, a, b) == Fits(F, Mant(F, a), Quan(F, a), Mant(F, b), Quan(F, b))
MulAddFits(F, a, b, c) ==
    Fits(F, Mant(F, a) * Mant(F, b), Quan(F, a) + Quan(F, b), Mant(F, c), Quan(F, c))

Arithmetic(F, p, add(_, _), sub(_, _), times(_, _), over(_, _), remainder(_, _)) ==
    LET a == args.a
        b == args.b
    IN  /\ SumFits(F, a, b) => /\ IsSum(F, p, mode, a, b, FALSE, add(a, b))
                               /\ IsSum(F, p, mode, a, b, TRUE, sub(a, b))
        /\ IsProduct(F, p, mode, a, b, times(a, b))
        /\ IsQuotient(F, p, mode, a, b, over(a, b))
        /\ IsRemainder(F, a, b, remainder(a, b))

Fused(F, mulAddOf(_, _, _)) ==
    MulAddFits(F, args.a, args.b, args.c)
        => IsMulAdd(F, mode, args.a, args.b, args.c, mulAddOf(args.a, args.b, args.c))

(* TLC's integers hold no product of two numbers of quadruple precision: its code in a      *)
(* narrow format.                                                                          *)
FusedQuad(F) ==
    MulAddFits(F, args.a, args.b, args.c)
        => IsMulAdd(F, mode, args.a, args.b, args.c, mulAddQuad(F, args.a, args.b, args.c, "add"))

(* A significand with its leading bit in place, and one without, at an exponent that may   *)
(* be below or above the range of the format.                                              *)
Packed(F, pack(_, _, _), norm(_, _, _)) ==
    LET sig    == args.sig % 2^(Word(F) - 2)
        value(s) == RoundTo(F, mode, args.sign, s, "zero", args.exp + 1 - Bias(F) - (Word(F) - 2))
    IN  /\ pack(args.sign, args.exp, sig + 2^(Word(F) - 2)) = value(sig + 2^(Word(F) - 2))
        /\ sig # 0 => norm(args.sign, args.exp, sig) = value(sig)

(* Operands of extended precision are tried as patterns with a hidden leading bit; in a     *)
(* result the leading bit that shows has to agree with the exponent.                        *)
Shown(a) == (a \div Top) * 2^S + (IF expUI(FX, a) # 0 THEN Top ELSE 0) + (a % Top)
Hide(r) == [r EXCEPT !.ui = IF Shown(hideLeading(@)) = @ THEN hideLeading(@) ELSE -1]
Kept == CASE extF80_roundingPrecision = 80 -> FX.f
          [] extF80_roundingPrecision = 64 -> F64.f
          [] extF80_roundingPrecision = 32 -> F32.f

(* A call by address whose result replaces one of its operands.                            *)
Left(r)  == Result(r.mem[1], r.flags)
Right(r) == Result(r.mem[2], r.flags)

ExtArithmetic ==
    LET both(a, b) == <<Shown(a), Shown(b)>>
        add(a, b) == Hide(Left(extF80M_add(both(a, b), 1, 2, 1)))
        sub(a, b) == Hide(Right(extF80M_sub(both(a, b), 1, 2, 2)))
        times(a, b) == Hide(Left(extF80M_mul(both(a, b), 1, 2, 1)))
        over(a, b) == Hide(Right(extF80M_div(both(a, b), 1, 2, 2)))
        remainder(a, b) == Hide(Right(extF80M_rem(both(a, b), 1, 2, 2)))
    IN  Arithmetic(FX, Kept, add, sub, times, over, remainder)

QuadArithmetic ==
    LET add(a, b) == Left(f128M_add(<<a, b>>, 1, 2, 1))
        sub(a, b) == Right(f128M_sub(<<a, b>>, 1, 2, 2))
        times(a, b) == Left(f128M_mul(<<a, b>>, 1, 2, 1))
        over(a, b) == Right(f128M_div(<<a, b>>, 1, 2, 2))
        remainder(a, b) == Right(f128M_rem(<<a, b>>, 1, 2, 2))
        fused(a, b, c) == Left(f128M_mulAdd(<<a, b, c>>, 1, 2, 3, 1))
        special == \E x \in {args.a, args.b} : isZero(F128, x) \/ ~IsFinite(F128, x)
    IN  /\ Arithmetic(F128, F128.f, add, sub, times, over, remainder)
        /\ special => Fused(F128, fused)

(* The operations of half precision, for the root also in the widths of the code.           *)
RealF16 == [e |-> 5, f |-> 10, g |-> 4]

SquareRoots ==
    /\ args.kind = "f16" => IsRoot(F16, F16.f, mode, args.a, f16_sqrt(args.a))
    /\ args.kind = "f16Root" => IsRoot(RealF16, RealF16.f, mode, args.a, sqrt("half", RealF16, args.a))
    /\ args.kind = "f32Root" => IsRoot(F32, F32.f, mode, args.a, f32_sqrt(args.a))
    /\ args.kind = "f64Root" => IsRoot(F64, F64.f, mode, args.a, f64_sqrt(args.a))
    /\ args.kind = "f128Root" => IsRoot(F128, F128.f, mode, args.a, Left(f128M_sqrt(<<args.a>>, 1, 1)))
    /\ args.kind = "extRoot" => IsRoot(FX, Kept, mode, args.a, Hide(Left(extF80M_sqrt(<<Shown(args.a)>>, 1, 1))))

(* Every arithmetic operation returns the number of its format that its exact result        *)
(* rounds to in the current mode, with exactly the exceptions of IEEE 754 (tininess after   *)
(* rounding); a NaN operand comes out quiet, its payload kept; and so does every            *)
(* significand that reaches roundPackTo or normRoundPackTo, at any exponent.  A result      *)
(* stored over one of the operands is no different.  Quotients, remainders and roots are    *)
(* developed from estimates of a reciprocal (of any quality the code promises for that of   *)
(* a root), and the last bits are corrected only where they are close to deciding the       *)
(* rounding: the estimate never decides it.                                                 *)
CorrectlyRounded ==
    /\ args.kind = "f16" =>
           /\ Arithmetic(F16, F16.f, f16_add, f16_sub, f16_mul, f16_div, f16_rem)
           /\ Fused(F16, f16_mulAdd) /\ FusedQuad(F16)
    /\ args.kind = "f32" =>
           /\ Arithmetic(F32, F32.f, f32_add, f32_sub, f32_mul, f32_div, f32_rem)
           /\ Fused(F32, f32_mulAdd) /\ FusedQuad(F32)
    /\ args.kind = "f64" =>
           /\ Arithmetic(F64, F64.f, f64_add, f64_sub, f64_mul, f64_div, f64_rem)
           /\ Fused(F64, f64_mulAdd)
    /\ args.kind = "f128" => QuadArithmetic
    /\ SquareRoots
    /\ args.kind = "ext" => ExtArithmetic
    /\ args.kind = "raw" =>
           /\ Packed(F16, softfloat_roundPackToF16, softfloat_normRoundPackToF16)
           /\ Packed(F32, softfloat_roundPackToF32, softfloat_normRoundPackToF32)
           /\ Packed(F64, softfloat_roundPackToF64, softfloat_normRoundPackToF64)
           /\ Packed(F128, softfloat_roundPackToF128, softfloat_normRoundPackToF128)

-----------------------------------------------------------------------------
(* Comparisons                                                                           *)

Unordered(F, a, b) == IsNaN(F, a) \/ IsNaN(F, b)
Answer(F, a, b, holds, signaling) ==
    LET sig(x) == IsNaN(F, x) /\ fracUI(F, x) < 2^(F.f - 1)
    IN  IF Unordered(F, a, b)
        THEN Result(FALSE, IF signaling \/ sig(a) \/ sig(b) THEN {"invalid"} ELSE {})
        ELSE Result(holds, {})

Ordered(F, eqOf(_, _), eqS(_, _), leOf(_, _), leQ(_, _), ltOf(_, _), ltQ(_, _)) ==
    LET a == args.a
        b == args.b
        agree(less, more) ==
            /\ eqOf(a, b) = Answer(F, a, b, ~less /\ ~more, FALSE)
            /\ eqS(a, b)  = Answer(F, a, b, ~less /\ ~more, TRUE)
            /\ leOf(a, b) = Answer(F, a, b, ~more, TRUE)
            /\ leQ(a, b)  = Answer(F, a, b, ~more, FALSE)
            /\ ltOf(a, b) = Answer(F, a, b, less, TRUE)
            /\ ltQ(a, b)  = Answer(F, a, b, less, FALSE)
    IN  agree(Less(F, a, b), Less(F, b, a))

ExtOrdered ==
    LET eqOf(a, b) == extF80M_eq(<<Shown(a), Shown(b)>>, 1, 2)
        eqS(a, b)  == extF80M_eq_signaling(<<Shown(a), Shown(b)>>, 1, 2)
        leOf(a, b) == extF80M_le(<<Shown(a), Shown(b)>>, 1, 2)
        leQ(a, b)  == extF80M_le_quiet(<<Shown(a), Shown(b)>>, 1, 2)
        ltOf(a, b) == extF80M_lt(<<Shown(a), Shown(b)>>, 1, 2)
        ltQ(a, b)  == extF80M_lt_quiet(<<Shown(a), Shown(b)>>, 1, 2)
    IN  /\ Ordered(FX, eqOf, eqS, leOf, leQ, ltOf, ltQ)
        /\ extF80M_isSignalingNaN(<<Shown(args.a)>>, 1) = (IsNaN(FX, args.a) /\ fracUI(FX, args.a) < 2^(FX.f - 1))

(* The relational operators of WebAssembly, and the smaller and the larger of two floats,   *)
(* -0 below +0, as the runtime's own intrinsics choose them (which make a NaN quiet).       *)
Related(F, eqOf(_, _), neOf(_, _), ltOf(_, _), leOf(_, _), gtOf(_, _), geOf(_, _), least(_, _), most(_, _)) ==
    LET a == args.a
        b == args.b
        agree(nan, less, more) ==
            /\ eqOf(a, b) = (~nan /\ ~less /\ ~more)
            /\ neOf(a, b) = (nan \/ less \/ more)
            /\ ltOf(a, b) = (~nan /\ less)
            /\ gtOf(a, b) = (~nan /\ more)
            /\ leOf(a, b) = (~nan /\ ~more)
            /\ geOf(a, b) = (~nan /\ ~less)
            /\ {least(a, b), most(a, b)} = IF nan THEN {IF IsNaN(F, a) THEN a ELSE b} ELSE {a, b}
            /\ quiet(F, least(a, b)) = floatMin(F, a, b)
            /\ quiet(F, most(a, b)) = floatMax(F, a, b)
            /\ ~nan /\ less => least(a, b) = a
    IN  agree(Unordered(F, a, b), Less(F, a, b), Less(F, b, a))

(* The comparisons of softfloat, of the float intrinsics and of quadruple precision order   *)
(* all numbers as the reals are ordered, infinities at the ends and both zeros equal; a NaN *)
(* is in no relation, whichever way the code reaches its answer.                            *)
OrderedLikeReals ==
    /\ args.kind = "f16" =>
           Ordered(F16, f16_eq, f16_eq_signaling, f16_le, f16_le_quiet, f16_lt, f16_lt_quiet)
    /\ args.kind = "f32" =>
           /\ Ordered(F32, f32_eq, f32_eq_signaling, f32_le, f32_le_quiet, f32_lt, f32_lt_quiet)
           /\ Related(F32, _eosio_f32_eq, _eosio_f32_ne, _eosio_f32_lt, _eosio_f32_le, _eosio_f32_gt,
                      _eosio_f32_ge, _eosio_f32_min, _eosio_f32_max)
    /\ args.kind = "f64" =>
           /\ Ordered(F64, f64_eq, f64_eq_signaling, f64_le, f64_le_quiet, f64_lt, f64_lt_quiet)
           /\ Related(F64, _eosio_f64_eq, _eosio_f64_ne, _eosio_f64_lt, _eosio_f64_le, _eosio_f64_gt,
                      _eosio_f64_ge, _eosio_f64_min, _eosio_f64_max)
    /\ args.kind = "ext" => ExtOrdered
    /\ args.kind = "f128" =>
           LET a == args.a
               b == args.b
               three(nan, less, more) ==
                   /\ (eqtf2(a, b) = 0)  = (~nan /\ ~less /\ ~more)
                   /\ (netf2(a, b) # 0)  = (nan \/ less \/ more)
                   /\ (lttf2(a, b) < 0)  = (~nan /\ less)
                   /\ (letf2(a, b) <= 0) = (~nan /\ ~more)
                   /\ (gttf2(a, b) > 0)  = (~nan /\ more)
                   /\ (getf2(a, b) >= 0) = (~nan /\ ~less)
               eqOf(x, y) == f128M_eq(<<x, y>>, 1, 2)
               eqS(x, y)  == f128M_eq_signaling(<<x, y>>, 1, 2)
               leOf(x, y) == f128M_le(<<x, y>>, 1, 2)
               leQ(x, y)  == f128M_le_quiet(<<x, y>>, 1, 2)
               ltOf(x, y) == f128M_lt(<<x, y>>, 1, 2)
               ltQ(x, y)  == f128M_lt_quiet(<<x, y>>, 1, 2)
           IN  /\ Ordered(F128, eqOf, eqS, leOf, leQ, ltOf, ltQ)
               /\ f128M_isSignalingNaN(<<a>>, 1) = (IsNaN(F128, a) /\ fracUI(F128, a) < 2^(F128.f - 1))
               /\ three(Unordered(F128, a, b), Less(F128, a, b), Less(F128, b, a))

-----------------------------------------------------------------------------
(* Rounding to integers                                                                  *)

(* a rounded to an integer of its own format.                                             *)
Integral(F, m, a) ==
    IF IsFinite(F, a) /\ Quan(F, a) < 0 THEN RoundSigned(F, m, Sign(F, a), ToInteger(F, m, a).n, 0).ui
    ELSE a

ToIntegral(F, toIntegral(_, _, _)) ==
    LET a == args.a
        inexact == IsFinite(F, a) /\ Integral(F, mode, a) # a
    IN  IF IsNaN(F, a) THEN NaNResult(F, {a}, toIntegral(a, mode, TRUE))
        ELSE /\ toIntegral(a, mode, TRUE) = Result(Integral(F, mode, a), IF inexact THEN {"inexact"} ELSE {})
             /\ toIntegral(a, mode, FALSE) = Result(Integral(F, mode, a), {})

ExtToIntegral ==
    LET toIntegral(a, m, exact) == Hide(Left(extF80M_roundToInt(<<Shown(a)>>, 1, m, exact, 1)))
    IN  ToIntegral(FX, toIntegral)

QuadToIntegral ==
    LET toIntegral(a, m, exact) == Left(f128M_roundToInt(<<a>>, 1, m, exact, 1)) IN ToIntegral(F128, toIntegral)

FourWays(F, ceil(_), floor(_), truncOf(_), near(_)) ==
    LET a == args.a
    IN  /\ ceil(a)    = Integral(F, "max", a)
        /\ floor(a)   = Integral(F, "min", a)
        /\ truncOf(a) = Integral(F, "minMag", a)
        /\ near(a)    = Integral(F, "near_even", a)
        /\ quiet(F, ceil(a)) = floatCeil(F, a) /\ quiet(F, floor(a)) = floatFloor(F, a)
        /\ quiet(F, truncOf(a)) = floatTrunc(F, a) /\ quiet(F, near(a)) = floatNearest(F, a)

(* roundToInt, and the ceil, floor, trunc and nearest of the intrinsics in the rounding     *)
(* mode the runtime leaves in place: the integer asked for, of the operand's sign even if   *)
(* it is zero.                                                                              *)
RoundedToIntegral ==
    /\ args.kind = "f16" => ToIntegral(F16, f16_roundToInt)
    /\ args.kind = "f32" => ToIntegral(F32, f32_roundToInt)
    /\ args.kind = "f64" => ToIntegral(F64, f64_roundToInt)
    /\ args.kind = "f128" => QuadToIntegral
    /\ args.kind = "ext" => ExtToIntegral
    /\ args.kind = "f32" /\ mode = "near_even" =>
           FourWays(F32, _eosio_f32_ceil, _eosio_f32_floor, _eosio_f32_trunc, _eosio_f32_nearest)
    /\ args.kind = "f64" /\ mode = "near_even" =>
           FourWays(F64, _eosio_f64_ceil, _eosio_f64_floor, _eosio_f64_trunc, _eosio_f64_nearest)

-----------------------------------------------------------------------------
(* Integers and other formats                                                            *)

IntRange(w, signed) == IF signed THEN -(2^(w - 1))..(2^(w - 1) - 1) ELSE 0..(2^w - 1)

(* The integer that a rounds to, if it is one of w bits.                                  *)
AsInteger(F, m, a, exact, w, signed) ==
    LET within(z) ==
            IF IsFinite(F, a) /\ (isZero(F, a) \/ BitLength(Mant(F, a)) + Quan(F, a) <= w + 1)
               /\ z.n \in IntRange(w, signed)
            THEN Result(z.n, IF exact /\ z.inexact THEN {"inexact"} ELSE {})
            ELSE Result(IF signed THEN -(2^(w - 1)) ELSE 2^w - 1, {"invalid"})
    IN  within(ToInteger(F, m, a))

ToIntegers(F, i32(_, _, _), ui32(_, _, _), i64(_, _, _), ui64(_, _, _), i32m(_, _), ui32m(_, _), i64m(_, _), ui64m(_, _)) ==
    LET a == args.a
    IN  \A exact \in BOOLEAN :
            /\ i32(a, mode, exact)  = AsInteger(F, mode, a, exact, W32, TRUE)
            /\ ui32(a, mode, exact) = AsInteger(F, mode, a, exact, W32, FALSE)
            /\ i64(a, mode, exact)  = AsInteger(F, mode, a, exact, W64, TRUE)
            /\ ui64(a, mode, exact) = AsInteger(F, mode, a, exact, W64, FALSE)
            /\ i32m(a, exact)  = AsInteger(F, "minMag", a, exact, W32, TRUE)
            /\ ui32m(a, exact) = AsInteger(F, "minMag", a, exact, W32, FALSE)
            /\ i64m(a, exact)  = AsInteger(F, "minMag", a, exact, W64, TRUE)
            /\ ui64m(a, exact) = AsInteger(F, "minMag", a, exact, W64, FALSE)

(* a in another format G: rounded, or a NaN with the leading bits of the payload.          *)
Converted(F, G, r) ==
    LET a == args.a
    IN  CASE IsNaN(F, a) -> /\ IsNaN(G, r.ui) /\ ~isSigNaNUI(G, r.ui) /\ Sign(G, r.ui) = Sign(F, a)
                            /\ r.flags = IF isSigNaNUI(F, a) THEN {"invalid"} ELSE {}
          [] IsInf(F, a) -> r = Result(Inf(G, Sign(F, a)), {})
          [] IsFinite(F, a) -> r = RoundTo(G, mode, Sign(F, a), Mant(F, a), "zero", Quan(F, a))

(* A NaN taken apart and put together again is made quiet and keeps all of its payload.    *)
NaNKept(F, r) == IsNaN(F, args.a) => NaNResult(F, {args.a}, r)

ExtConverted ==
    LET x == <<Shown(args.a)>>
        i32(a, m, exact)  == extF80M_to_i32(<<Shown(a)>>, 1, m, exact)
        ui32(a, m, exact) == extF80M_to_ui32(<<Shown(a)>>, 1, m, exact)
        i64(a, m, exact)  == extF80M_to_i64(<<Shown(a)>>, 1, m, exact)
        ui64(a, m, exact) == extF80M_to_ui64(<<Shown(a)>>, 1, m, exact)
        i32m(a, exact)  == extF80M_to_i32_r_minMag(<<Shown(a)>>, 1, exact)
        ui32m(a, exact) == extF80M_to_ui32_r_minMag(<<Shown(a)>>, 1, exact)
        i64m(a, exact)  == extF80M_to_i64_r_minMag(<<Shown(a)>>, 1, exact)
        ui64m(a, exact) == extF80M_to_ui64_r_minMag(<<Shown(a)>>, 1, exact)
    IN  /\ ToIntegers(FX, i32, ui32, i64, ui64, i32m, ui32m, i64m, ui64m)
        /\ Converted(FX, F16, extF80M_to_f16(x, 1)) /\ Converted(FX, F32, extF80M_to_f32(x, 1))
        /\ Converted(FX, F64, extF80M_to_f64(x, 1)) /\ Converted(FX, F128, Left(extF80M_to_f128M(x, 1, 1)))
        /\ NaNKept(FX, Hide(softfloat_commonNaNToExtF80UI(softfloat_extF80UIToCommonNaN(x[1]))))

QuadConverted ==
    LET x == <<args.a>>
        i32(a, m, exact)  == f128M_to_i32(<<a>>, 1, m, exact)
        ui32(a, m, exact) == f128M_to_ui32(<<a>>, 1, m, exact)
        i64(a, m, exact)  == f128M_to_i64(<<a>>, 1, m, exact)
        ui64(a, m, exact) == f128M_to_ui64(<<a>>, 1, m, exact)
        i32m(a, exact)  == f128M_to_i32_r_minMag(<<a>>, 1, exact)
        ui32m(a, exact) == f128M_to_ui32_r_minMag(<<a>>, 1, exact)
        i64m(a, exact)  == f128M_to_i64_r_minMag(<<a>>, 1, exact)
        ui64m(a, exact) == f128M_to_ui64_r_minMag(<<a>>, 1, exact)
    IN  /\ ToIntegers(F128, i32, ui32, i64, ui64, i32m, ui32m, i64m, ui64m)
        /\ Converted(F128, F16, f128M_to_f16(x, 1)) /\ Converted(F128, F32, f128M_to_f32(x, 1))
        /\ Converted(F128, F64, f128M_to_f64(x, 1))
        /\ Converted(F128, FX, Hide(Left(f128M_to_extF80M(x, 1, 1))))
        /\ NaNKept(F128, softfloat_commonNaNToF128UI(softfloat_f128UIToCommonNaN(args.a)))

FromInteger(F, i, r) == r = RoundSigned(F, mode, 0, i, 0)

(* To every integer type and every other format, and from them.                            *)
ConvertedBetweenTypes ==
    /\ args.kind = "f16" =>
           /\ ToIntegers(F16, f16_to_i32, f16_to_ui32, f16_to_i64, f16_to_ui64, f16_to_i32_r_minMag,
                         f16_to_ui32_r_minMag, f16_to_i64_r_minMag, f16_to_ui64_r_minMag)
           /\ Converted(F16, F32, f16_to_f32(args.a)) /\ Converted(F16, F64, f16_to_f64(args.a))
           /\ Converted(F16, F128, Left(f16_to_f128M(<<0>>, args.a, 1)))
           /\ Converted(F16, FX, Hide(Left(f16_to_extF80M(<<0>>, args.a, 1))))
           /\ NaNKept(F16, softfloat_commonNaNToF16UI(softfloat_f16UIToCommonNaN(args.a)))
    /\ args.kind = "f32" =>
           /\ ToIntegers(F32, f32_to_i32, f32_to_ui32, f32_to_i64, f32_to_ui64, f32_to_i32_r_minMag,
                         f32_to_ui32_r_minMag, f32_to_i64_r_minMag, f32_to_ui64_r_minMag)
           /\ Converted(F32, F16, f32_to_f16(args.a)) /\ Converted(F32, F64, f32_to_f64(args.a))
           /\ Converted(F32, F128, Left(f32_to_f128M(<<0>>, args.a, 1)))
           /\ Converted(F32, FX, Hide(Left(f32_to_extF80M(<<0>>, args.a, 1))))
           /\ NaNKept(F32, softfloat_commonNaNToF32UI(softfloat_f32UIToCommonNaN(args.a)))
    /\ args.kind = "f64" =>
           /\ ToIntegers(F64, f64_to_i32, f64_to_ui32, f64_to_i64, f64_to_ui64, f64_to_i32_r_minMag,
                         f64_to_ui32_r_minMag, f64_to_i64_r_minMag, f64_to_ui64_r_minMag)
           /\ Converted(F64, F16, f64_to_f16(args.a)) /\ Converted(F64, F32, f64_to_f32(args.a))
           /\ Converted(F64, F128, Left(f64_to_f128M(<<0>>, args.a, 1)))
           /\ Converted(F64, FX, Hide(Left(f64_to_extF80M(<<0>>, args.a, 1))))
           /\ NaNKept(F64, softfloat_commonNaNToF64UI(softfloat_f64UIToCommonNaN(args.a)))
    /\ args.kind = "f128" => QuadConverted
    /\ args.kind = "ext" => ExtConverted
    /\ args.kind = "int" =>
           LET i == args.i
           IN  /\ i \in IntRange(W32, TRUE) =>
                      /\ FromInteger(F16, i, i32_to_f16(i)) /\ FromInteger(F32, i, i32_to_f32(i))
                      /\ FromInteger(F64, i, i32_to_f64(i)) /\ FromInteger(F128, i, Left(i32_to_f128M(<<0>>, i, 1)))
                      /\ FromInteger(FX, i, Hide(Left(i32_to_extF80M(<<0>>, i, 1))))
               /\ i \in IntRange(W32, FALSE) =>
                      /\ FromInteger(F16, i, ui32_to_f16(i)) /\ FromInteger(F32, i, ui32_to_f32(i))
                      /\ FromInteger(F64, i, ui32_to_f64(i)) /\ FromInteger(F128, i, Left(ui32_to_f128M(<<0>>, i, 1)))
                      /\ FromInteger(FX, i, Hide(Left(ui32_to_extF80M(<<0>>, i, 1))))
               /\ i \in IntRange(W64, TRUE) =>
                      /\ FromInteger(F16, i, i64_to_f16(i)) /\ FromInteger(F32, i, i64_to_f32(i))
                      /\ FromInteger(F64, i, i64_to_f64(i)) /\ FromInteger(F128, i, Left(i64_to_f128M(<<0>>, i, 1)))
                      /\ FromInteger(FX, i, Hide(Left(i64_to_extF80M(<<0>>, i, 1))))
               /\ i \in IntRange(W64, FALSE) =>
                      /\ FromInteger(F16, i, ui64_to_f16(i)) /\ FromInteger(F32, i, ui64_to_f32(i))
                      /\ FromInteger(F64, i, ui64_to_f64(i)) /\ FromInteger(F128, i, Left(ui64_to_f128M(<<0>>, i, 1)))
                      /\ FromInteger(FX, i, Hide(Left(ui64_to_extF80M(<<0>>, i, 1))))

(* A truncation of WebAssembly: the integer toward zero, or a trap for a NaN and for what   *)
(* has no integer of w bits.  The code also traps between the smallest integer and the one  *)
(* below it, like the runtime's own floatToInt.                                             *)
Truncated(F, w, signed, value) ==
    LET a == args.a
        least == Result(-(2^(w - 1)), {"inexact"})
        orTrap(z) == IF z.flags = {"invalid"} \/ (signed /\ z = least) THEN trap ELSE z.ui
    IN  /\ value = orTrap(AsInteger(F, "minMag", a, TRUE, w, signed))
        /\ value = IF signed THEN floatToSignedInt(F, a, w) ELSE floatToUnsignedInt(F, a, w)

TruncatedOrTrapped ==
    /\ args.kind = "f32" =>
           /\ Truncated(F32, W32, TRUE, _eosio_f32_trunc_i32s(args.a))
           /\ Truncated(F32, W32, FALSE, _eosio_f32_trunc_i32u(args.a))
           /\ Truncated(F32, W64, TRUE, _eosio_f32_trunc_i64s(args.a))
           /\ Truncated(F32, W64, FALSE, _eosio_f32_trunc_i64u(args.a))
    /\ args.kind = "f64" =>
           /\ Truncated(F64, W32, TRUE, _eosio_f64_trunc_i32s(args.a))
           /\ Truncated(F64, W32, FALSE, _eosio_f64_trunc_i32u(args.a))
           /\ Truncated(F64, W64, TRUE, _eosio_f64_trunc_i64s(args.a))
           /\ Truncated(F64, W64, FALSE, _eosio_f64_trunc_i64u(args.a))

(* A conversion to an integer returns the integer the number rounds to, or the invalid one; *)
(* the variants that round toward zero do whatever the mode; a conversion from an integer   *)
(* or from another format rounds once, with the exceptions of a single rounding.            *)
(* Rounding to an integer of the same format keeps the sign even of a zero, whether the     *)
(* code masks bits or adds 2^52 and corrects.  The trunc intrinsics test the operand        *)
(* against floats at the bounds of the integer type and then convert without a test:        *)
(* nothing out of range reaches the conversion, nothing in range is refused, and the answer *)
(* is that of the intrinsic the injection replaced.                                         *)
ConversionsExact == RoundedToIntegral /\ ConvertedBetweenTypes /\ TruncatedOrTrapped

-----------------------------------------------------------------------------
(* 128-bit integers                                                                      *)

Value128(low, high) == (IF high >= 2^(H128 - 1) THEN high - 2^H128 ELSE high) * 2^H128 + low

(* Toward zero, with the remainder of the dividend's sign, as in C.                       *)
Divides(a, b, q, r) == a = q * b + r /\ Abs(r) < Abs(b) /\ (r # 0 => (r < 0) = (a < 0))

Fixed(F, fix(_), fixuns(_)) ==
    LET a == args.a
        large == ~IsFinite(F, a) \/ expUI(F, a) - Bias(F) > W128 - 1
        n == ToInteger(F, "minMag", a).n
    IN  /\ large => /\ fix(a) = IF Sign(F, a) = 1 THEN -(2^(W128 - 1)) ELSE 2^(W128 - 1) - 1
                    /\ fixuns(a) = IF Sign(F, a) = 1 THEN 0 ELSE 2^W128 - 1
        /\ ~large => /\ n \in IntRange(W128, TRUE) => fix(a) = n
                     /\ fixuns(a) = IF n < 0 THEN 0 ELSE n

WideBuiltins ==
    /\ args.kind = "words" =>
           LET a == Value128(args.la, args.ha)
               b == Value128(args.lb, args.hb)
               ua == args.ha * 2^H128 + args.la
               ub == args.hb * 2^H128 + args.lb
               q == divti3(args.la, args.ha, args.lb, args.hb)
               r == modti3(args.la, args.ha, args.lb, args.hb)
               uq == udivti3(args.la, args.ha, args.lb, args.hb)
               ur == umodti3(args.la, args.ha, args.lb, args.hb)
           IN  /\ IF b = 0 THEN {q, r, uq, ur} = {trap}
                  ELSE /\ ~(a = -(2^(W128 - 1)) /\ b = -1) => Divides(a, b, q, r)
                       /\ ua = uq * ub + ur /\ ur < ub
               /\ (multi3(args.la, args.ha, args.lb, args.hb) - a * b) % 2^W128 = 0
               /\ \A shift \in 0..(W128 - 1) :
                      LET z == ashrti3(args.la, args.ha, shift) IN z * 2^shift <= a /\ a - z * 2^shift < 2^shift
               /\ args.ha = 0 => /\ floattidf(args.la, 0) = RoundSigned(F64, "near_even", 0, a, 0).ui
                                 /\ floatuntidf(args.la, 0) = RoundSigned(F64, "near_even", 0, ua, 0).ui
               /\ args.ha = 0 => \A shift \in 0..H128 :
                      /\ (ashlti3(args.la, 0, shift) - ua * 2^shift) % 2^W128 = 0
                      /\ (lshlti3(args.la, 0, shift) - ua * 2^shift) % 2^W128 = 0
                      /\ lshrti3(args.la, 0, shift) = ua \div 2^shift
    /\ args.kind = "int" =>
           /\ args.i \in IntRange(W128, TRUE) =>
                  ___floattidf(args.i) = RoundSigned(F64, "near_even", 0, args.i, 0).ui
           /\ args.i \in IntRange(W128, FALSE) =>
                  ___floatuntidf(args.i) = RoundSigned(F64, "near_even", 0, args.i, 0).ui
    /\ args.kind = "f32"  => Fixed(F32, ___fixsfti, ___fixunssfti)
    /\ args.kind = "f64"  => Fixed(F64, ___fixdfti, ___fixunsdfti)
    /\ args.kind = "f128" => Fixed(F128, ___fixtfti, ___fixunstfti)

-----------------------------------------------------------------------------
(* Numbers of several machine words                                                      *)

Number(words) == LET value[i \in 0..Len(words)] == IF i = 0 THEN 0 ELSE value[i - 1] + words[i] * WORD^(i - 1)
                 IN  value[Len(words)]
Number2(x) == x.v64 * WORD + x.v0
Jammed(n, dist) == orBit(n \div 2^dist, n % 2^dist # 0)

(* v is n without its last dist bits; the first of these leads extra, and the rest of extra *)
(* tells whether any of the others, or of what was in extra before, is one.                 *)
Shifted(n, before, dist, v, extra) ==
    LET lost == n % 2^dist
        lead == 2^(dist - 1)
    IN  /\ v = n \div 2^dist
        /\ extra \div (WORD \div 2) = lost \div lead
        /\ (extra % (WORD \div 2) # 0) = (lost % lead # 0 \/ before # 0)

WordArithmetic ==
    args.kind = "pair" =>
        LET a == args.a
            b == args.b
            m == Number2(a)
            n == Number2(b)
            x == <<a.v0, a.v64, b.v0, b.v64>>
            y == <<b.v64, b.v0, a.v64, a.v0>>
        IN  /\ softfloat_eq128(a, b) = (m = n)
            /\ softfloat_le128(a, b) = (m <= n)
            /\ softfloat_lt128(a, b) = (m < n)
            /\ Number2(softfloat_add128(a, b)) = (m + n) % WORD^2
            /\ Number2(softfloat_sub128(a, b)) = (m - n) % WORD^2
            /\ Number(softfloat_add256M(x, y)) = (Number(x) + Number(y)) % WORD^4
            /\ Number(softfloat_sub256M(x, y)) = (Number(x) - Number(y)) % WORD^4
            /\ Number2(softfloat_mul64ByShifted32To128(a.v64, b.v0 % Half)) = a.v64 * (b.v0 % Half) * Half
            /\ Number2(softfloat_mul64To128(a.v64, b.v0)) = a.v64 * b.v0
            /\ Number2(softfloat_mul128By32(a, b.v0 % Half)) = (m * (b.v0 % Half)) % WORD^2
            /\ Number(softfloat_mul128To256M(a, b)) = m * n
            /\ softfloat_countLeadingZeros64(a.v64) = WordBits - BitLength(a.v64)
            /\ \A dist \in 1..(WordBits - 1) :
                   LET one == softfloat_shortShiftRightJam64Extra(a.v64, b.v0, dist)
                       two == softfloat_shortShiftRightJam128Extra(a, b.v0, dist)
                   IN  /\ Number2(softfloat_shortShiftLeft128(a, dist)) = (m * 2^dist) % WORD^2
                       /\ Number2(softfloat_shortShiftRight128(a, dist)) = m \div 2^dist
                       /\ softfloat_shortShiftRightJam64(a.v64, dist) = Jammed(a.v64, dist)
                       /\ Number2(softfloat_shortShiftRightJam128(a, dist)) = Jammed(m, dist)
                       /\ Shifted(a.v64, b.v0, dist, one.v, one.extra)
                       /\ Shifted(m, b.v0, dist, Number2(two.v), two.extra)
            /\ \A dist \in 1..(4 * WordBits + 1) :
                   LET one == softfloat_shiftRightJam64Extra(a.v64, b.v0, dist)
                       two == softfloat_shiftRightJam128Extra(a, b.v0, dist)
                   IN  /\ softfloat_shiftRightJam32(a.v0 % Half, dist) = Jammed(a.v0 % Half, dist)
                       /\ softfloat_shiftRightJam64(a.v64, dist) = Jammed(a.v64, dist)
                       /\ Number2(softfloat_shiftRightJam128(a, dist)) = Jammed(m, dist)
                       /\ Number(softfloat_shiftRightJam256M(x, dist)) = Jammed(Number(x), dist)
                       /\ Shifted(a.v64, b.v0, dist, one.v, one.extra)
                       /\ Shifted(m, b.v0, dist, Number2(two.v), two.extra)

(* The arithmetic on two and four machine words, with its carries, borrows and bits that    *)
(* cross a word, is that of the numbers the words stand for: the quadruple significands may *)
(* be computed with as numbers.  And the compiler builtins on 128-bit integers: division    *)
(* and remainder agree and trap exactly for a zero divisor, an arithmetic right shift keeps *)
(* the sign, the other shifts and the conversions to a double are right for values of one   *)
(* word (the code drops the high word), a float becomes the integer toward zero or saturates *)
(* from 2^128 on, and the functions below the conversions make of every 128-bit integer the *)
(* nearest double, ties to even, through carries into the exponent.                         *)
WideArithmetic == WordArithmetic /\ WideBuiltins
=============================================================================
