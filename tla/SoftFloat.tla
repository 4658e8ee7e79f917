----------------------------- MODULE SoftFloat -----------------------------
(* Berkeley SoftFloat as this library builds it (SOFTFLOAT_FAST_INT64, the 8086-SSE       *)
(* specialisation): binary floating point done with integers, so that every node of the   *)
(* chain computes the same bits.  A float is its bit pattern, a natural number; every     *)
(* operation returns that pattern with the exceptions it raises.                          *)
(*                                                                                        *)
(* The code of one operation is the same in every format up to constants, all of which    *)
(* follow from the widths of the fields.  So an operation is defined once for a format,   *)
(* and the operators with the names of the source instantiate it.  The code has 32-bit    *)
(* floats of 1+8+23 bits; a format is a constant here, so that TLC can try all of a       *)
(* narrow one.                                                                            *)
EXTENDS Integers

CONSTANTS F16, F32, F64, F128
VARIABLES softfloat_roundingMode,
          recipSqrtError                \* of the estimate of a root in this call, in units of its last place

(* A format: F.e bits of exponent, F.f bits of fraction, and F.g guard bits below the      *)
(* significand in the word where it is rounded.  In the code that word has the width of    *)
(* the float; in the widest format the guard bits are a word of their own (sigExtra).      *)
(* Quotients, roots and remainders are found from estimates of F.h bits, 32 in the code;   *)
(* the two smaller formats take a remainder in a word of F.w bits.                         *)
Width(F)   == 1 + F.e + F.f          \* 32
Word(F)    == 2 + F.f + F.g          \* 32: a significand to be rounded has its leading bit at 30
Guard(F)   == F.g                    \* 7
Bias(F)    == 2^(F.e - 1) - 1        \* 0x7F
ExpMax(F)  == 2^F.e - 1              \* 0xFF
Hidden(F)  == 2^F.f                  \* 0x00800000

(* What the constants of the code rely on: room for a signalling NaN, three guard bits,    *)
(* products at least as wide as a significand with its guard bits; each format inside the  *)
(* next, with exponents to spare for its subnormal numbers and room in the fraction for    *)
(* the guard bits of the smaller one; and integers as wide as those words.                 *)
Inside(F, G) == F.e < G.e /\ F.f + F.g <= G.f

ASSUME FormatsAssumption ==
    /\ \A F \in {F16, F32, F64, F128} :
           /\ F.e \in Nat /\ F.f \in Nat /\ F.g \in Nat
           /\ F.e >= 3 /\ F.f >= 2 /\ F.g >= 3 /\ F.f + 1 >= F.g
    /\ F16.w \in Nat /\ F16.h \in Nat /\ F16.w >= F16.f + 5 /\ F16.h >= F16.w /\ F16.f <= 10
    /\ F32.w = F32.h /\ F32.h \in Nat /\ F32.h >= F32.f + 7 /\ F32.h >= Word(F32)
    /\ F64.h \in Nat /\ 2 * F64.h >= F64.f + 11 /\ 2 * F64.h >= Word(F64)
    /\ F128.h \in Nat /\ 4 * (F128.h - 3) - F128.f \in F128.g..(F128.h - 2)
    /\ Inside(F16, F32) /\ Inside(F32, F64) /\ Inside(F64, F128)
    /\ Word(F32) <= F64.f + 1 /\ Word(F64) <= F128.f + 1

Modes == {"near_even", "minMag", "min", "max", "near_maxMag"}
Exceptions == {"inexact", "underflow", "overflow", "infinite", "invalid"}

-----------------------------------------------------------------------------
(* Fields of a pattern, and words                                                         *)

signUI(F, ui) == ui \div 2^(Width(F) - 1)
expUI(F, ui)  == (ui \div Hidden(F)) % 2^F.e
fracUI(F, ui) == ui % Hidden(F)

(* Fields are added, not or-ed: a significand that carries, or has its leading bit,       *)
(* increments the exponent.                                                               *)
packToUI(F, sign, exp, sig) == sign * 2^(Width(F) - 1) + exp * Hidden(F) + sig

isNaNUI(F, ui)    == expUI(F, ui) = ExpMax(F) /\ fracUI(F, ui) # 0
isSigNaNUI(F, ui) == isNaNUI(F, ui) /\ fracUI(F, ui) < Hidden(F) \div 2
defaultNaNUI(F)   == packToUI(F, 1, ExpMax(F), Hidden(F) \div 2)
quiet(F, ui)      == IF isSigNaNUI(F, ui) THEN ui + Hidden(F) \div 2 ELSE ui

Result(ui, flags) == [ui |-> ui, flags |-> flags]
Exact(ui)         == Result(ui, {})
Raise(flag, r)    == [r EXCEPT !.flags = @ \cup flag]

jam(v, sticky) == IF sticky /\ v % 2 = 0 THEN v + 1 ELSE v

(* Shift right, with the lowest bit of the result set if any bit shifted out was.         *)
shiftRightJam(w, a, dist) ==
    IF dist < w - 1 THEN jam(a \div 2^dist, a % 2^dist # 0) ELSE IF a # 0 THEN 1 ELSE 0

countLeadingZeros(w, a) == CHOOSE n \in 0..w : a < 2^(w - n) /\ (n = w \/ a >= 2^(w - n - 1))

normSubnormalSig(F, sig) ==
    LET shifted(shiftDist) == [exp |-> 1 - shiftDist, sig |-> sig * 2^shiftDist]
    IN  shifted(countLeadingZeros(Word(F), sig) - (Guard(F) + 1))

(* Exponent and significand, the latter with its leading bit, of a number that is not 0.  *)
unpack(F, ui) ==
    IF expUI(F, ui) = 0 THEN normSubnormalSig(F, fracUI(F, ui))
    ELSE [exp |-> expUI(F, ui), sig |-> fracUI(F, ui) + Hidden(F)]

(* NaN operands: the first signalling one, else the first NaN, always made quiet.         *)
propagateNaNUI(F, a, b) ==
    LET pick == IF isSigNaNUI(F, a) \/ isNaNUI(F, a) THEN a ELSE b
    IN  Result(quiet(F, pick), IF isSigNaNUI(F, a) \/ isSigNaNUI(F, b) THEN {"invalid"} ELSE {})

Invalid(F)  == Result(defaultNaNUI(F), {"invalid"})
isZero(F, ui) == ui % 2^(Width(F) - 1) = 0

-----------------------------------------------------------------------------
(* Rounding                                                                               *)

away(sign) == IF sign = 1 THEN "min" ELSE "max"

roundIncrement(F, sign) ==
    CASE softfloat_roundingMode \in {"near_even", "near_maxMag"} -> 2^(Guard(F) - 1)
      [] softfloat_roundingMode = away(sign) -> 2^Guard(F) - 1
      [] OTHER -> 0

(* A significand in place for its exponent, rounded by the increment.                      *)
roundedBy(F, sign, exp, sig, inc, isTiny) ==
    LET bits == sig % 2^Guard(F)
        up   == (sig + inc) \div 2^Guard(F)
        tie  == bits = 2^(Guard(F) - 1) /\ softfloat_roundingMode = "near_even"
        sig2 == IF tie THEN (up \div 2) * 2 ELSE up
    IN  Result(packToUI(F, sign, IF sig2 = 0 THEN 0 ELSE exp, sig2),
               (IF bits # 0 THEN {"inexact"} ELSE {}) \cup (IF isTiny /\ bits # 0 THEN {"underflow"} ELSE {}))

(* Overflow, or a shift of what is below the normal numbers; tininess is detected after    *)
(* rounding.                                                                              *)
roundPackWith(F, sign, exp, sig, inc) ==
    LET top == 2^(Word(F) - 1)
    IN  IF exp > ExpMax(F) - 2 \/ (exp = ExpMax(F) - 2 /\ sig + inc >= top)
        THEN Result(packToUI(F, sign, ExpMax(F), 0) - (IF inc = 0 THEN 1 ELSE 0), {"overflow", "inexact"})
        ELSE roundedBy(F, sign, IF exp < 0 THEN 0 ELSE exp,
                       IF exp < 0 THEN shiftRightJam(Word(F), sig, -exp) ELSE sig,
                       inc, exp < 0 /\ (exp < -1 \/ sig + inc < top))

(* The end of every operation: sig has its leading bit at the second highest position of  *)
(* the word (unless the number is subnormal), and exp is one less than its exponent.      *)
roundPack(F, sign, exp, sig) == roundPackWith(F, sign, exp, sig, roundIncrement(F, sign))

(* A significand that may be one position short of the leading one.                       *)
normalised(F, sign, exp, sig) ==
    LET short == sig < 2^(Word(F) - 2)                         \* 0x40000000
    IN  roundPack(F, sign, IF short THEN exp - 1 ELSE exp, IF short THEN 2 * sig ELSE sig)

normalisedBy(F, sign, exp1, sig, shiftDist) ==
    IF shiftDist >= Guard(F) /\ exp1 \in 0..(ExpMax(F) - 3)
    THEN Exact(packToUI(F, sign, IF sig = 0 THEN 0 ELSE exp1, sig * 2^(shiftDist - Guard(F))))
    ELSE roundPack(F, sign, exp1, sig * 2^shiftDist)
normRoundPack(F, sign, exp, sig) ==
    LET shiftDist == countLeadingZeros(Word(F), sig) - 1
    IN  normalisedBy(F, sign, exp - shiftDist, sig, shiftDist)

-----------------------------------------------------------------------------
(* Addition and subtraction                                                               *)

(* |a| + |b| with the sign of a.                                                          *)
addMags(F, a, b) ==
    LET expA == expUI(F, a)    expB == expUI(F, b)
        fracA == fracUI(F, a)  fracB == fracUI(F, b)
        sign == signUI(F, a)
        one  == 2^(Word(F) - 3)                               \* 0x20000000
        scaled(exp, frac) == LET s == frac * 2^(Guard(F) - 1) IN IF exp # 0 THEN s + one ELSE s + s
        align(sigX, expX, sigY, dist) ==
            normalised(F, sign, expX, one + sigX + shiftRightJam(Word(F), sigY, dist))
        sum == 2 * Hidden(F) + fracA + fracB
    IN  CASE expA = expB /\ expA = 0 -> Exact(a + fracB)
          [] expA = expB /\ expA = ExpMax(F) ->
                 IF fracA # 0 \/ fracB # 0 THEN propagateNaNUI(F, a, b) ELSE Exact(a)
          [] expA = expB /\ expA \notin {0, ExpMax(F)} ->
                 roundPack(F, sign, expA, sum * 2^(Guard(F) - 1))
          [] expA < expB ->
                 IF expB = ExpMax(F)
                 THEN IF fracB # 0 THEN propagateNaNUI(F, a, b) ELSE Exact(packToUI(F, sign, ExpMax(F), 0))
                 ELSE align(fracB * 2^(Guard(F) - 1), expB, scaled(expA, fracA), expB - expA)
          [] expA > expB ->
                 IF expA = ExpMax(F)
                 THEN IF fracA # 0 THEN propagateNaNUI(F, a, b) ELSE Exact(a)
                 ELSE align(fracA * 2^(Guard(F) - 1), expA, scaled(expB, fracB), expA - expB)

(* |a| - |b| with the sign of a, or the other one if |b| is larger.                       *)
subMags(F, a, b) ==
    LET expA == expUI(F, a)    expB == expUI(F, b)
        fracA == fracUI(F, a)  fracB == fracUI(F, b)
        sign == signUI(F, a)
        one  == 2^(Word(F) - 2)                               \* 0x40000000
        scaled(exp, frac) == LET s == frac * 2^Guard(F) IN IF exp # 0 THEN s + one ELSE s + s
        align(s, sigX, expX, sigY, dist) ==
            normRoundPack(F, s, expX - 1, one + sigX - shiftRightJam(Word(F), sigY, dist))
        diff == IF fracA > fracB THEN fracA - fracB ELSE fracB - fracA
        cancel(exp1, shiftDist) ==
            LET short == exp1 < shiftDist
            IN  Exact(packToUI(F, IF fracA < fracB THEN 1 - sign ELSE sign,
                               IF short THEN 0 ELSE exp1 - shiftDist,
                               diff * 2^(IF short THEN exp1 ELSE shiftDist)))
    IN  CASE expA = expB ->
                 IF expA = ExpMax(F)
                 THEN IF fracA # 0 \/ fracB # 0 THEN propagateNaNUI(F, a, b) ELSE Invalid(F)
                 ELSE IF diff = 0
                 THEN Exact(packToUI(F, IF softfloat_roundingMode = "min" THEN 1 ELSE 0, 0, 0))
                 ELSE cancel(IF expA # 0 THEN expA - 1 ELSE 0,
                             countLeadingZeros(Word(F), diff) - (Guard(F) + 1))
          [] expA < expB ->
                 IF expB = ExpMax(F)
                 THEN IF fracB # 0 THEN propagateNaNUI(F, a, b)
                      ELSE Exact(packToUI(F, 1 - sign, ExpMax(F), 0))
                 ELSE align(1 - sign, fracB * 2^Guard(F), expB, scaled(expA, fracA), expB - expA)
          [] expA > expB ->
                 IF expA = ExpMax(F)
                 THEN IF fracA # 0 THEN propagateNaNUI(F, a, b) ELSE Exact(a)
                 ELSE align(sign, fracA * 2^Guard(F), expA, scaled(expB, fracB), expA - expB)

(* Half precision adds exactly in a word of twice the width, unless the exponents are so  *)
(* far apart that the smaller operand can only move the larger one by its rounding.       *)
Apart(F) == F.f + 3                                            \* 13

addEpsilon(F, z) ==
    LET moved(up, z1) == Result(z1, {"inexact"} \cup IF up /\ expUI(F, z1) = ExpMax(F) THEN {"overflow"} ELSE {})
        move(up) == moved(up, IF up THEN z + 1 ELSE z)
    IN  move(softfloat_roundingMode = away(signUI(F, z)))

subEpsilon(F, z) ==
    Result(IF softfloat_roundingMode \in {"minMag", away(1 - signUI(F, z))} THEN z - 1 ELSE z, {"inexact"})

(* A sum in a word of twice the width, with its leading bit anywhere.                      *)
normWide(F, sign, exp, sig) ==
    LET shiftDist == countLeadingZeros(2 * Word(F), sig) - 1
    IN  roundPack(F, sign, exp - shiftDist, shiftRightJam(2 * Word(F), sig * 2^shiftDist, Word(F)))

(* x has the larger exponent; nan is the result if it is no number.                        *)
addSubOrdered(F, subtract, sign, x, y, nan) ==
    LET dist == expUI(F, x) - expUI(F, y)
        z    == packToUI(F, sign, expUI(F, x), fracUI(F, x))
        sigX == fracUI(F, x) + Hidden(F)
        sigY == fracUI(F, y) + (IF expUI(F, y) # 0 THEN Hidden(F) ELSE fracUI(F, y))
        low  == 2 * Word(F) - 3 - F.f                          \* 19
    IN  CASE expUI(F, x) = ExpMax(F) -> IF fracUI(F, x) # 0 THEN nan ELSE Exact(z)
          [] expUI(F, x) # ExpMax(F) /\ dist >= Apart(F) ->
                 IF isZero(F, y) THEN Exact(z) ELSE IF subtract THEN subEpsilon(F, z) ELSE addEpsilon(F, z)
          [] expUI(F, x) # ExpMax(F) /\ dist < Apart(F) ->
                 normWide(F, sign, IF subtract THEN expUI(F, y) + low ELSE expUI(F, x),
                          IF subtract THEN sigX * 2^dist - sigY ELSE sigX * 2^low + sigY * 2^(low - dist))

(* The operand with the larger exponent first.                                            *)
addSubMagsF16(F, a, b, subtract) ==
    LET bigB == expUI(F, a) < expUI(F, b)
    IN  addSubOrdered(F, subtract, IF bigB /\ subtract THEN 1 - signUI(F, a) ELSE signUI(F, a),
                      IF bigB THEN b ELSE a, IF bigB THEN a ELSE b, propagateNaNUI(F, a, b))

addMagsF16(F, a, b) ==
    IF expUI(F, a) = expUI(F, b) THEN addMags(F, a, b) ELSE addSubMagsF16(F, a, b, FALSE)

subMagsF16(F, a, b) ==
    IF expUI(F, a) = expUI(F, b) THEN subMags(F, a, b) ELSE addSubMagsF16(F, a, b, TRUE)

-----------------------------------------------------------------------------
(* Multiplication, division, square root, remainder                                       *)

mul(F, a, b) ==
    LET signZ == (signUI(F, a) + signUI(F, b)) % 2
        inf(x) == expUI(F, x) = ExpMax(F)
        product(A, B) ==
            normalised(F, signZ, A.exp + B.exp - Bias(F),
                       shiftRightJam(2 * Word(F), A.sig * B.sig, F.f + 1 - Guard(F)))
    IN  CASE isNaNUI(F, a) \/ isNaNUI(F, b) -> propagateNaNUI(F, a, b)
          [] ~(isNaNUI(F, a) \/ isNaNUI(F, b)) /\ (inf(a) \/ inf(b)) ->
                 IF isZero(F, a) \/ isZero(F, b) THEN Invalid(F) ELSE Exact(packToUI(F, signZ, ExpMax(F), 0))
          [] ~(inf(a) \/ inf(b)) /\ (isZero(F, a) \/ isZero(F, b)) -> Exact(packToUI(F, signZ, 0, 0))
          [] OTHER -> product(unpack(F, a), unpack(F, b))

(* softfloat_approxRecip32_1, which this build computes with a division: 1/a with h bits,  *)
(* for an a of h bits with its leading one (32 in the code).                               *)
approxRecip32_1(h, a) == (2^(2 * h - 1) - 1) \div a            \* 0x7FFFFFFFFFFFFFFF

(* A shift of a narrow format may go the other way than in the code.                       *)
shiftDown(x, dist) == IF dist >= 0 THEN x \div 2^dist ELSE x * 2^(-dist)

(* The two's complement number in the low w bits.                                          *)
signedWord(w, x) == IF x % 2^w >= 2^(w - 1) THEN (x % 2^w) - 2^w ELSE x % 2^w

(* The significand of a quotient in [1, 2).  Half and single precision divide integers.    *)
shortQuotient(F, sigA, sigB) ==
    LET n == sigA * 2^(Word(F) - 2)
        q == n \div sigB
    IN  IF q % 2^(Guard(F) - 1) = 0 THEN jam(q, sigB * q # n) ELSE q

(* Double precision estimates the upper half of it, from an estimate of the reciprocal,     *)
(* and from what that leaves the bits below; only where these are close to a bit that      *)
(* decides the rounding does it compute what is really left.                               *)
remAfter(F, rem, z, sigB) ==
    LET w == 2 * F.h
    IN  (((rem - 2 * z * (sigB \div 2^F.h)) % 2^w) * 2^(F.h - 4) - 2 * z * ((sigB % 2^F.h) \div 2^4)) % 2^w

(* Fault: the estimate is taken for the quotient.                                          *)
settledNever(F, sigZ, q, rem, sigB) == sigZ

settledQuotient(F, sigZ, q, rem, sigB) ==
    LET w    == 2 * F.h
        cut  == sigZ - (sigZ % 2^7)
        left == remAfter(F, rem, q - (q % 8), sigB)
    IN  CASE sigZ % 2^(w - 3 - F.f) >= 4 * 2^4 -> sigZ          \* 0x1FF
          [] sigZ % 2^(w - 3 - F.f) < 4 * 2^4 ->
                 IF left >= 2^(w - 1) THEN cut - 2^7 ELSE jam(cut, left # 0)

doubleQuotient(F, sigA, sigB) ==
    LET w     == 2 * F.h
        high(x) == (x \div 2^F.h) % 2^F.h
        A     == sigA * 2^(w - 2 - F.f)                        \* << 10
        B     == sigB * 2^(w - 1 - F.f)                        \* << 11
        recip == approxRecip32_1(F.h, high(B)) - 2
        sig32Z == (high(A) * recip) \div 2^F.h
        rem   == remAfter(F, A, sig32Z, B)
        q     == (high(rem) * recip) \div 2^F.h + 4
        sigZ  == (sig32Z * 2^F.h + q * 2^4) % 2^w
    IN  shiftRightJam(w, settledQuotient(F, sigZ, q, rem, B), w - Word(F))

(* Quadruple and extended precision develop the quotient in digits of h - 3 bits.  A digit  *)
(* is an estimate rounded to the nearest; one too many leaves less than nothing and is      *)
(* taken back.  Of the last one the error is only looked at if it could decide the rounding.*)
(* sigB has h + s bits, and e of the bits of the result are below the last one.             *)
longQuotient(h, s, n, e, sigA, sigB) ==
    LET recip == approxRecip32_1(h, sigB \div 2^s)
        estimate(rem) == (((rem \div 2^(s + 2)) % 2^h) * recip + 2^(h - 1)) \div 2^h
        left(rem, q)  == rem * 2^(h - 3) - sigB * q
        taken(p, q, r) ==
            IF r < 0 THEN [q |-> p.q * 2^(h - 3) + q - 1, rem |-> r + sigB]
            ELSE [q |-> p.q * 2^(h - 3) + q, rem |-> r]
        digits[i \in 0..(n - 1)] ==
            IF i = 0 THEN [q |-> 0, rem |-> sigA]
            ELSE LET p == digits[i - 1]
                     q == estimate(p.rem)
                 IN  taken(p, q, left(p.rem, q))
        p == digits[n - 1]
        q == estimate(p.rem)
        r == left(p.rem, q)
        by == IF r < 0 THEN -1 ELSE IF sigB <= r THEN 1 ELSE 0
    IN  p.q * 2^(h - 3) + (IF (q + 1) % 2^(e - 1) < 2 THEN jam(q + by, r # by * sigB) ELSE q)

quadQuotient(F, sigA, sigB) ==
    LET e == 4 * (F.h - 3) - F.f
    IN  shiftRightJam(4 * F.h, longQuotient(F.h, F.f + 1 - F.h, 4, e, sigA, sigB), e - Guard(F))

(* The quotient as the source file of a size of float finds it, in the word where it is     *)
(* rounded.                                                                                 *)
quotientOf(size, F, sigA, sigB) ==
    CASE size \in {"half", "single"} -> shortQuotient(F, sigA, sigB)
      [] size = "double" -> doubleQuotient(F, sigA, sigB)
      [] size = "quad" -> quadQuotient(F, sigA, sigB)

div(size, F, a, b) ==
    LET signZ == (signUI(F, a) + signUI(F, b)) % 2
        inf(x) == expUI(F, x) = ExpMax(F)
        infinity == packToUI(F, signZ, ExpMax(F), 0)
        zero == packToUI(F, signZ, 0, 0)
        divided(A, B, less) ==
            roundPack(F, signZ, A.exp - B.exp + Bias(F) - 1 - (IF less THEN 1 ELSE 0),
                      quotientOf(size, F, IF less THEN 2 * A.sig ELSE A.sig, B.sig))
        divide(A, B) == divided(A, B, A.sig < B.sig)
    IN  CASE isNaNUI(F, a) \/ isNaNUI(F, b) -> propagateNaNUI(F, a, b)
          [] inf(a) /\ ~isNaNUI(F, a) /\ ~isNaNUI(F, b) ->
                 IF inf(b) THEN Invalid(F) ELSE Exact(infinity)
          [] ~inf(a) /\ inf(b) /\ ~isNaNUI(F, b) -> Exact(zero)
          [] ~inf(a) /\ isZero(F, b) ->
                 IF isZero(F, a) THEN Invalid(F) ELSE Result(infinity, {"infinite"})
          [] ~inf(a) /\ ~inf(b) /\ ~isZero(F, b) ->
                 IF isZero(F, a) THEN Exact(zero)
                 ELSE divide(unpack(F, a), unpack(F, b))

(* softfloat_approxRecipSqrt32_1: 1/sqrt(a) for an a of h bits, which is in [1, 2) if the   *)
(* exponent is odd and in [2, 4) if not.  The code says of its tables and its two steps of  *)
(* Newton's that the result is never too large, at most 2.06 units of the last place too    *)
(* small, and at least a half: any such result may be returned.                             *)
floorRoot(n, bits) ==
    LET root[i \in 0..bits] ==
            IF i = 0 THEN 0
            ELSE LET low == root[i - 1]
                     next == low + 2^(bits - i)
                 IN  IF next * next <= n THEN next ELSE low
    IN  root[bits]

approxRecipSqrt32_1(h, odd, a) ==
    LET k      == h - 2 + odd
        square == (2^(2 * h) \div a) * 2^k + ((2^(2 * h) % a) * 2^k) \div a
        root   == floorRoot(square, h + 1)
        far    == square - root * root > (6 * root) \div 50    \* more than 0.06 above its floor
        short  == IF recipSqrtError = 2 /\ far THEN 1 ELSE recipSqrtError
    IN  CASE root - short < 2^(h - 1) -> 2^(h - 1)
          [] root - short >= 2^h -> 2^h - 1
          [] root - short \in 2^(h - 1)..(2^h - 1) -> root - short

(* Half precision has the tables and one step in its own words, with the widths of the      *)
(* code: a narrower significand is one of 11 bits.  TLC's integers have 31 bits, so a       *)
(* product of which the upper part is used is taken in two.                                 *)
approxRecipSqrt_1k0s ==
    <<46281, 65451, 43645, 61724, 41413, 58567, 39491, 55849, 37813, 53477, 36333, 51383, 35014, 49517, 33828, 47841>>
approxRecipSqrt_1k1s ==
    <<42405, 59970, 35873, 50733, 30863, 43647, 26920, 38070, 23751, 33589, 21158, 29922, 19006, 26878, 17195, 24317>>

upper(x, y, bits) == ((x \div 2^15) * y + ((x % 2^15) * y) \div 2^15) \div 2^(bits - 15)

halfRoot(F, odd, sig) ==
    LET sigA   == sig * 2^(10 - F.f)
        index  == 2 * ((sigA \div 2^7) % 2^3) + odd + 1
        r0     == approxRecipSqrt_1k0s[index] - ((approxRecipSqrt_1k1s[index] * (sigA % 2^7)) \div 2^11)
        ESqrR0 == (2 * (r0 \div 2) * ((r0 \div 2) + (r0 % 2))) \div 2^odd \* r0 * r0 >> 1
        sigma0 == 2^16 - 1 - (upper(ESqrR0, sigA, 16) % 2^16)
        r1     == r0 + upper(r0, sigma0, 25)
        recip  == IF (r1 \div 2^15) % 2 = 0 THEN 2^15 ELSE r1
        sigZ   == upper(recip, sigA * 2^5, 16) \div 2^odd + 1
        negRem == ((sigZ \div 2) * (sigZ \div 2)) % 2^16
        cut    == sigZ - (sigZ % 2)
    IN  shiftRightJam(16, IF sigZ % 8 # 0 THEN sigZ
                          ELSE IF negRem >= 2^15 THEN cut + 1 ELSE IF negRem # 0 THEN cut - 1 ELSE cut,
                      16 - Word(F))

(* Single precision: the root from the estimate, and the sign of what it leaves where that  *)
(* decides the rounding.                                                                    *)
singleRoot(F, odd, sig) ==
    LET w      == F.h
        sigA   == sig * 2^(w - F.f - 1)                        \* << 8
        sigZ   == ((sigA * approxRecipSqrt32_1(w, odd, sigA)) \div 2^w) \div 2^odd + 2
        negRem == ((sigZ \div 4) * (sigZ \div 4)) % 2^w
        cut    == sigZ - (sigZ % 4)
    IN  shiftRightJam(w, IF sigZ % 2^(w - 3 - F.f) >= 2 THEN sigZ          \* 0x3F
                         ELSE IF negRem >= 2^(w - 1) THEN cut + 1 ELSE IF negRem # 0 THEN cut - 1 ELSE cut,
                      w - Word(F))

(* Double precision: the upper half of the root, and the lower one from what that leaves.   *)
settledRoot(F, sigA, sigZ) ==
    LET w       == 2 * F.h
        cut     == sigZ - (sigZ % 2^6)
        shifted == cut \div 2^6
        \* shifted * shifted, of which the word holds the low bits
        square  == shifted * (shifted % 2^8) + ((shifted * (shifted \div 2^8)) % 2^(w - 8)) * 2^8
        rem     == (((sigA * 2^(w - 12)) % 2^w) - square) % 2^w
    IN  CASE sigZ % 2^(w - 3 - F.f) >= 34 -> sigZ               \* 0x1FF, 0x22
          [] sigZ % 2^(w - 3 - F.f) < 34 ->
                 IF rem >= 2^(w - 1) THEN cut - 1 ELSE jam(cut, rem # 0)

doubleRoot(F, odd, sig) ==
    LET w      == 2 * F.h
        sig32A == shiftDown(sig, F.f + 1 - F.h)                \* >> 21
        recip  == approxRecipSqrt32_1(F.h, odd, sig32A)
        sig32Z == ((sig32A * recip) \div 2^F.h) \div 2^odd
        sigA   == sig * 2^(w - 3 - F.f - odd)                  \* << 8 or 9
        rem    == (sigA - sig32Z * sig32Z) % 2^w
        q      == (((rem \div 4) % 2^F.h) * recip) \div 2^F.h
    IN  shiftRightJam(w, settledRoot(F, sigA, sig32Z * 2^F.h + 2^5 + q * 2^3), w - Word(F))

(* Quadruple and extended precision find the root in digits: the upper h bits, then n       *)
(* digits of h - 3 bits, each an estimate that is taken back while it is too large, and a    *)
(* last one, of which the error is only looked at if it could decide the rounding.  What is   *)
(* left is kept without the bits that are 0 in the code: R * 2^-u is what rem.v64 counts.    *)
(* The result has one bit more than the digits, for what is left at the end.                  *)
rootDigits(h, u, n, z0, R0, recip) ==
    LET d == h - 3
        estimate(i, p) ==
            IF i = 1 THEN (((p.R \div 2^(u + 2)) % 2^h) * recip) \div 2^h       \* (uint32_t) (rem.v64>>2)
            ELSE ((p.R \div 2^(u + (i - 1) * d + 2)) * recip) \div 2^h
        left(p, q) == p.R * 4^d - (2 * p.z * 2^d * q + q * q) * 2^u
        fits(p, q) == IF left(p, q) >= 0 THEN q ELSE CHOOSE k \in 0..q : left(p, k) >= 0 /\ left(p, k + 1) < 0
        digit(p, q) == [z |-> p.z * 2^d + q, R |-> left(p, q)]
        digits[i \in 0..n] ==
            IF i = 0 THEN [z |-> z0, R |-> R0]
            ELSE LET p == digits[i - 1] IN digit(p, fits(p, estimate(i, p)))
        end(p) == [z |-> p.z, R |-> p.R, q |-> estimate(n + 1, p) + 2]
    IN  end(digits[n])

lastDigit(h, u, p, close, clear) ==
    LET d == h - 3
        m == p.q \div 2^clear
        left == p.R * 2^(2 * d - u - 2 * clear) - m * (2^(d + 1 - clear) * p.z + m)
    IN  IF p.q % 2^close > 2 THEN 2 * (p.z * 2^d + p.q)
        ELSE 2 * (p.z * 2^d + m * 2^clear) + (IF left < 0 THEN -1 ELSE IF left # 0 THEN 1 ELSE 0)

longRoot(h, f, n, odd, sig, close, clear) ==
    LET pad    == IF f + 4 < 2 * h THEN 2 * h - 4 - f ELSE 0
        u      == f + pad + 4 - 2 * h
        sigA   == sig * 2^pad
        sig32A == sigA \div 2^(f + pad + 1 - h)
        recip  == approxRecipSqrt32_1(h, odd, sig32A)
        sig32Z == ((sig32A * recip) \div 2^h) \div 2^odd
        from(z0) == rootDigits(h, u, n, z0, sigA * 2^(1 - odd) - z0 * z0 * 2^u, recip)
    IN  lastDigit(h, u, from(sig32Z), close, clear)

quadRoot(F, odd, sig) ==
    shiftRightJam(4 * F.h, longRoot(F.h, F.f, 2, odd, sig, 4, 2), 4 * F.h - 10 - F.f - Guard(F))

(* The root of each size, in the word where it is rounded.                                   *)
rootOf(size, F, odd, sig) ==
    CASE size = "half" -> halfRoot(F, odd, sig)
      [] size = "single" -> singleRoot(F, odd, sig)
      [] size = "double" -> doubleRoot(F, odd, sig)
      [] size = "quad" -> quadRoot(F, odd, sig)

sqrt(size, F, a) ==
    LET root(A) == roundPack(F, 0, ((A.exp - Bias(F)) \div 2) + Bias(F) - 1, rootOf(size, F, A.exp % 2, A.sig))
    IN  CASE isNaNUI(F, a) -> propagateNaNUI(F, a, 0)
          [] isZero(F, a) -> Exact(a)
          [] ~isNaNUI(F, a) /\ ~isZero(F, a) /\ signUI(F, a) = 1 -> Invalid(F)
          [] ~isNaNUI(F, a) /\ ~isZero(F, a) /\ signUI(F, a) = 0 ->
                 IF expUI(F, a) = ExpMax(F) THEN Exact(a) ELSE root(unpack(F, a))

(* The remainder of a division whose quotient has q as its lowest bits: rem, or rem plus    *)
(* the divisor, whichever is nearer to 0; the one with an even quotient of two.             *)
nearerRem(q, rem, altRem) ==
    IF rem + altRem < 0 \/ (rem + altRem = 0 /\ q % 2 = 1) THEN altRem ELSE rem

(* The divisor is subtracted, at least once, until less than nothing is left.                *)
subtracted(q, rem, sigB) ==
    LET times == IF rem < 0 THEN 1 ELSE rem \div sigB + 1
    IN  nearerRem(q + times, rem - times * sigB, rem - (times - 1) * sigB)

(* Of a quotient with expDiff more bits than its last one the digits of h - 3 bits only     *)
(* serve to find what they leave.  Half and single precision keep this in one word: what    *)
(* is shifted out of it would cancel.  The divisor is 2^s * sigB there.                      *)
shortRem(F, sigA, sigB, expDiff) ==
    LET w     == F.w
        s     == w - F.f - 3                                   \* 6
        recip == approxRecip32_1(F.h, sigB * 2^(F.h - F.f - 1))
        q(rem) == ((rem * recip) \div 2^w) % 2^F.h
        first == expDiff - (F.h - 1)
        n     == IF first < 0 THEN 0 ELSE first \div (F.h - 3) + 1
        last  == first - n * (F.h - 3)
        rem[i \in 0..n] ==
            IF i = 0 THEN sigA * 2^(s + 1) ELSE (-(q(rem[i - 1]) * sigB * 2^s)) % 2^w
        ended(qz, r) == subtracted(qz, signedWord(w, r * 2^(last + F.h - 2) - qz * sigB * 2^s), sigB * 2^s)
        end(r) == ended(q(r) \div 2^(-last - 1), r)
    IN  end(rem[n]) \div 2^s

(* The larger formats round every digit to the nearest and take back one too many; w is     *)
(* the width of the word, less the bits below sigB in it.                                    *)
longRem(w, h, s, sigA, sigB, expDiff) ==
    LET recip == approxRecip32_1(h, shiftDown(sigB, s))
        q64(rem) == (shiftDown(rem, s + 2) % 2^h) * recip
        first == expDiff - (h - 2)
        n     == IF first < 0 THEN 0 ELSE first \div (h - 3) + 1
        last  == first - n * (h - 3)
        left(r, bits, q) == signedWord(w, r * 2^bits - q * sigB)
        back(r) == IF r < 0 THEN r + sigB ELSE r
        next(r) == back(left(r, h - 3, (q64(r) + 2^(h - 1)) \div 2^h))
        rem[i \in 0..n] == IF i = 0 THEN sigA ELSE next(rem[i - 1])
        select(q, r) == IF r < 0 THEN nearerRem(q, r, r + sigB) ELSE subtracted(q, r, sigB)
        ended(q, r) == select(q, left(r, last + h - 2, q))
        end(r) == ended((q64(r) \div 2^h) \div 2^(-last - 1), r)
    IN  end(rem[n])

(* Where the exponents do not differ, or by one, there is no digit.                          *)
closeRem(sigA, sigB, expDiff) ==
    IF expDiff < 0 THEN subtracted(0, sigA, 2 * sigB)
    ELSE IF sigB <= sigA THEN subtracted(1, sigA - sigB, sigB) ELSE subtracted(0, sigA, sigB)

doubleRem(F, sigA, sigB, expDiff) == longRem(F.f + 3, F.h, F.f + 1 - F.h, sigA, sigB, expDiff)
quadRem(F, sigA, sigB, expDiff) == longRem(F.f + 16, F.h, F.f + 1 - F.h, sigA, sigB, expDiff)

remOf(size, F, sigA, sigB, expDiff) ==
    CASE size \in {"half", "single"} -> shortRem(F, sigA, sigB, expDiff)
      [] size = "double" -> doubleRem(F, sigA, sigB, expDiff)
      [] size = "quad" -> quadRem(F, sigA, sigB, expDiff)

(* a minus the multiple of b nearest to it, the even one of two: exact.                    *)
rem(size, F, a, b) ==
    LET one == 2^(Guard(F) - 1)                                \* sigB <<= 6
        signed(exp, left, unit) ==
            normRoundPack(F, IF left < 0 THEN 1 - signUI(F, a) ELSE signUI(F, a), exp,
                          (IF left < 0 THEN -left ELSE left) * unit)
        reduce(A, B, expDiff) ==
            CASE expDiff < -1 -> Exact(a)
              [] expDiff \in {-1, 0} ->
                     signed(B.exp, closeRem(A.sig, B.sig, expDiff), IF expDiff < 0 THEN one \div 2 ELSE one)
              [] expDiff > 0 -> signed(B.exp, remOf(size, F, A.sig, B.sig, expDiff), one)
        divide(A, B) == reduce(A, B, A.exp - B.exp)
    IN  CASE isNaNUI(F, a) \/ isNaNUI(F, b) -> propagateNaNUI(F, a, b)
          [] ~isNaNUI(F, a) /\ ~isNaNUI(F, b) /\ (expUI(F, a) = ExpMax(F) \/ isZero(F, b)) -> Invalid(F)
          [] ~isNaNUI(F, b) /\ expUI(F, a) # ExpMax(F) /\ ~isZero(F, b) ->
                 IF expUI(F, b) = ExpMax(F) \/ isZero(F, a) THEN Exact(a)
                 ELSE divide(unpack(F, a), unpack(F, b))

-----------------------------------------------------------------------------
(* Fused multiply and add: op says which of c and the product is subtracted               *)

isInf(F, x) == expUI(F, x) = ExpMax(F) /\ fracUI(F, x) = 0
negatedC(F, c, op) == (signUI(F, c) + (IF op = "subC" THEN 1 ELSE 0)) % 2
productSign(F, a, b, op) == (signUI(F, a) + signUI(F, b) + (IF op = "subProd" THEN 1 ELSE 0)) % 2

completeCancellation(F) == Exact(packToUI(F, IF softfloat_roundingMode = "min" THEN 1 ELSE 0, 0, 0))

(* NaNs, infinities and a product of zero: what the labels at the end of mulAdd are for.   *)
mulAddSpecial(F, a, b, c, signProd, signC, finite) ==
    LET withC(r) == Raise(r.flags, propagateNaNUI(F, r.ui, c))
        nanAB    == isNaNUI(F, a) \/ isNaNUI(F, b)
        infAB    == isInf(F, a) \/ isInf(F, b)
        zeroAB   == isZero(F, a) \/ isZero(F, b)
        infinity == packToUI(F, signProd, ExpMax(F), 0)
    IN  CASE nanAB -> withC(propagateNaNUI(F, a, b))
          [] ~nanAB /\ infAB ->
                 IF zeroAB THEN withC(Invalid(F))
                 ELSE IF isNaNUI(F, c) THEN propagateNaNUI(F, infinity, c)
                 ELSE IF isInf(F, c) /\ signProd # signC THEN withC(Invalid(F)) ELSE Exact(infinity)
          [] ~nanAB /\ ~infAB /\ expUI(F, c) = ExpMax(F) ->
                 IF isNaNUI(F, c) THEN propagateNaNUI(F, 0, c) ELSE Exact(c)
          [] ~nanAB /\ ~infAB /\ expUI(F, c) # ExpMax(F) /\ zeroAB ->
                 IF isZero(F, c) /\ signProd # signC THEN completeCancellation(F) ELSE Exact(c)
          [] ~nanAB /\ ~infAB /\ expUI(F, c) # ExpMax(F) /\ ~zeroAB -> finite

(* The product has exponent P.exp and bits P.sig in a word of twice the width; c is C.      *)
mulAddSum(F, sign, P, C) ==
    LET w       == Word(F)
        expDiff == P.exp - C.exp
    IN  normalised(F, sign, IF expDiff <= 0 THEN C.exp ELSE P.exp,
            IF expDiff <= 0 THEN C.sig + shiftRightJam(2 * w, P.sig, w - expDiff)
            ELSE shiftRightJam(2 * w, P.sig + shiftRightJam(2 * w, C.sig * 2^w, expDiff), w))

mulAddShifted(F, sign, exp, size, shiftDist) ==
    LET w == Word(F)
    IN  roundPack(F, sign, exp - shiftDist,
                  IF shiftDist < w THEN shiftRightJam(2 * w, size, w - shiftDist) ELSE size * 2^(shiftDist - w))

mulAddSigned(F, sign, exp, diff) ==
    LET size == IF diff < 0 THEN -diff ELSE diff
    IN  IF diff = 0 THEN completeCancellation(F)
        ELSE mulAddShifted(F, IF diff < 0 THEN 1 - sign ELSE sign, exp, size,
                           countLeadingZeros(2 * Word(F), size) - 1)

mulAddDifference(F, sign, P, C) ==
    LET w       == Word(F)
        expDiff == P.exp - C.exp
    IN  mulAddSigned(F, sign, IF expDiff < 0 THEN C.exp ELSE P.exp,
                     IF expDiff < 0 THEN shiftRightJam(2 * w, P.sig, -expDiff) - C.sig * 2^w
                     ELSE P.sig - shiftRightJam(2 * w, C.sig * 2^w, expDiff))

(* The product of two unpacked numbers, its leading bit in place.                          *)
mulAddProduct(F, exp, sig) ==
    LET low == sig < 2^(2 * Word(F) - 3)
    IN  [exp |-> IF low THEN exp - 1 ELSE exp, sig |-> IF low THEN 2 * sig ELSE sig]

mulAddFinite(F, signProd, signC, zeroC, P, C) ==
    CASE zeroC -> roundPack(F, signProd, P.exp - 1, shiftRightJam(2 * Word(F), P.sig, Word(F) - 1))
      [] ~zeroC /\ signProd = signC -> mulAddSum(F, signProd, P, C)
      [] ~zeroC /\ signProd # signC -> mulAddDifference(F, signProd, P, C)

mulAdd(F, a, b, c, op) ==
    LET signC    == negatedC(F, c, op)
        signProd == productSign(F, a, b, op)
        product(A, B) == mulAddProduct(F, A.exp + B.exp - (Bias(F) - 1), A.sig * B.sig * 4^Guard(F))
        scaled(C) == [C EXCEPT !.sig = @ * 2^(Guard(F) - 1)]
    IN  mulAddSpecial(F, a, b, c, signProd, signC,
            mulAddFinite(F, signProd, signC, isZero(F, c), product(unpack(F, a), unpack(F, b)), scaled(unpack(F, c))))

(* Quadruple precision has no word twice as wide as the product, so it keeps the product   *)
(* in two halves of w bits, shifts and adds only the upper one where that is enough, and   *)
(* remembers of the lower one whether it is zero.                                         *)
quadWord(F) == F.f + 2 * Guard(F)                              \* 128
quadLead(F) == 2^(quadWord(F) - Guard(F))                      \* 0x0100000000000000

(* z has a word of bits before the point; its leading bit is dist above the hidden one.    *)
shiftRightRoundPack(F, sign, exp, z, dist) ==
    roundPack(F, sign, exp - 1, shiftRightJam(2 * quadWord(F), z, quadWord(F) + dist - Guard(F)))

quadNormalise(F, sign, exp, z) ==
    LET w      == quadWord(F)
        zeros2 == countLeadingZeros(2 * w, z)
        shifted(dist) == IF dist > 0 THEN shiftRightJam(2 * w, z, dist) ELSE z * 2^(-dist)
    IN  roundPack(F, sign, exp + Guard(F) - 2 - zeros2, shifted(2 * w - 1 - zeros2 - (Word(F) - 2)))

(* P is the product: its exponent, all of its bits and, if c is larger, the upper half     *)
(* aligned with c and whether there is a lower one; c has exponent C.exp and bits sigC.     *)
quadWideC(F, sigC, expDiff) == shiftRightJam(2 * quadWord(F), sigC * 2^quadWord(F), expDiff)

quadSum(F, signZ, C, sigC, P) ==
    LET w       == quadWord(F)
        expDiff == P.exp - C.exp
        sum     == CASE expDiff < 0 -> (sigC + P.upper) * 2^w + P.rest
                     [] expDiff = 0 -> sigC * 2^w + P.full
                     [] expDiff > 0 -> P.full + quadWideC(F, sigC, expDiff)
        carry   == IF sum \div 2^w >= 2 * quadLead(F) THEN 1 ELSE 0
    IN  shiftRightRoundPack(F, signZ, (IF expDiff < 0 THEN C.exp ELSE P.exp) + carry, sum, Guard(F) + carry)

(* Far apart, the difference is at most one position short; else it may be anything.       *)
quadSettle(F, sign, exp, z) ==
    LET short == IF z \div 2^quadWord(F) >= quadLead(F) THEN 0 ELSE 1
    IN  shiftRightRoundPack(F, sign, exp - short, z, Guard(F) - short)

quadCancel(F, sign, exp, diff) ==
    IF diff = 0 THEN completeCancellation(F)
    ELSE quadNormalise(F, IF diff > 0 THEN sign ELSE 1 - sign, exp, IF diff > 0 THEN diff ELSE -diff)

quadDifference(F, signZ, signC, C, sigC, P) ==
    LET w       == quadWord(F)
        expDiff == P.exp - C.exp
        diff == P.full - (IF expDiff <= 0 THEN sigC * 2^w ELSE quadWideC(F, sigC, expDiff))
    IN  CASE expDiff < -1 -> quadSettle(F, signC, C.exp, (sigC - P.upper - P.rest) * 2^w + P.rest)
          [] expDiff = -1 -> quadNormalise(F, signC, C.exp, sigC * 2^w - (P.full \div 2))
          [] expDiff \in {0, 1} -> quadCancel(F, signZ, P.exp, diff)
          [] expDiff > 1 -> quadSettle(F, signZ, P.exp, diff)

quadProduct(F, exp, prod, expC) ==
    LET w    == quadWord(F)
        low  == IF prod \div 2^w < quadLead(F) THEN 1 ELSE 0
        dist == expC - exp                                     \* shiftDist -= expDiff: both count low
    IN  [exp   |-> exp - low,
         full  |-> IF low = 1 THEN 2 * prod ELSE prod,
         upper |-> IF dist > 0 THEN shiftRightJam(w, prod \div 2^w, dist) ELSE prod \div 2^w,
         rest  |-> IF prod % 2^w # 0 THEN 1 ELSE 0]

mulAddQuad(F, a, b, c, op) ==
    LET expC  == unpack(F, c).exp
        signC == negatedC(F, c, op)
        signZ == productSign(F, a, b, op)
        add(C, P) ==
            IF isZero(F, c) THEN shiftRightRoundPack(F, signZ, P.exp, P.full, Guard(F))
            ELSE IF signZ = signC THEN quadSum(F, signZ, C, C.sig * 2^Guard(F), P)
            ELSE quadDifference(F, signZ, signC, C, C.sig * 2^Guard(F), P)
        multiply(A, B) == quadProduct(F, A.exp + B.exp - (Bias(F) - 1), A.sig * B.sig * 2^(3 * Guard(F) - 1), expC)
    IN  mulAddSpecial(F, a, b, c, signZ, signC, add(unpack(F, c), multiply(unpack(F, a), unpack(F, b))))

-----------------------------------------------------------------------------
(* Rounding to an integer of the same format; exact asks for the inexact flag             *)

roundToInt(F, a, roundingMode, exact) ==
    LET exp   == expUI(F, a)
        sign  == signUI(F, a)
        zero  == packToUI(F, sign, 0, 0)
        one   == packToUI(F, sign, Bias(F), 0)
        small == CASE roundingMode = "near_even" -> exp = Bias(F) - 1 /\ fracUI(F, a) # 0
                   [] roundingMode = "near_maxMag" -> exp = Bias(F) - 1
                   [] roundingMode \in {"min", "max"} -> roundingMode = away(sign)
                   [] roundingMode = "minMag" -> FALSE
        lastBit == 2^(Bias(F) + F.f - exp)
        half  == a + lastBit \div 2
        up    == CASE roundingMode = "near_maxMag" -> half
                   [] roundingMode = "near_even" ->
                          IF half % lastBit = 0 /\ (half \div lastBit) % 2 = 1 THEN half - lastBit ELSE half
                   [] roundingMode \in {"min", "max"} ->
                          IF roundingMode = away(sign) THEN a + lastBit - 1 ELSE a
                   [] roundingMode = "minMag" -> a
        z     == (up \div lastBit) * lastBit
        flag(inexact) == IF exact /\ inexact THEN {"inexact"} ELSE {}
    IN  CASE exp < Bias(F) ->
                 IF isZero(F, a) THEN Exact(a) ELSE Result(IF small THEN one ELSE zero, flag(TRUE))
          [] exp >= Bias(F) + F.f -> IF isNaNUI(F, a) THEN propagateNaNUI(F, a, 0) ELSE Exact(a)
          [] exp \in Bias(F)..(Bias(F) + F.f - 1) -> Result(z, flag(z # a))

-----------------------------------------------------------------------------
(* Comparisons: the patterns are ordered like integers within a sign                      *)

compare(F, a, b, answer, signaling) ==
    IF isNaNUI(F, a) \/ isNaNUI(F, b)
    THEN Result(FALSE, IF signaling \/ isSigNaNUI(F, a) \/ isSigNaNUI(F, b) THEN {"invalid"} ELSE {})
    ELSE Exact(answer)

zeros(F, a, b) == isZero(F, a) /\ isZero(F, b)
mixed(F, a, b) == signUI(F, a) # signUI(F, b)

eqUI(F, a, b) == a = b \/ zeros(F, a, b)
leUI(F, a, b) == IF mixed(F, a, b) THEN signUI(F, a) = 1 \/ zeros(F, a, b)
                 ELSE a = b \/ ((signUI(F, a) = 1) # (a < b))
ltUI(F, a, b) == IF mixed(F, a, b) THEN signUI(F, a) = 1 /\ ~zeros(F, a, b)
                 ELSE a # b /\ ((signUI(F, a) = 1) # (a < b))

eq(F, a, b)           == compare(F, a, b, eqUI(F, a, b), FALSE)
eq_signaling(F, a, b) == compare(F, a, b, eqUI(F, a, b), TRUE)
le(F, a, b)           == compare(F, a, b, leUI(F, a, b), TRUE)
le_quiet(F, a, b)     == compare(F, a, b, leUI(F, a, b), FALSE)
lt(F, a, b)           == compare(F, a, b, ltUI(F, a, b), TRUE)
lt_quiet(F, a, b)     == compare(F, a, b, ltUI(F, a, b), FALSE)

-----------------------------------------------------------------------------
(* Conversions to integers of w bits.  A signed result is an integer, not its two's       *)
(* complement.                                                                            *)

Part == 2                        \* fraction bits kept for the rounding: 12, or a word of 64

invalidInt(w, signed) == Result(IF signed THEN -(2^(w - 1)) ELSE 2^w - 1, {"invalid"})

(* The end of a conversion: sig has Part bits after the point.                            *)
roundToInteger(sign, sig, roundingMode, exact, w, signed) ==
    LET inc  == CASE roundingMode \in {"near_even", "near_maxMag"} -> 2^(Part - 1)
                  [] roundingMode \in {"min", "max"} -> IF roundingMode = away(sign) THEN 2^Part - 1 ELSE 0
                  [] roundingMode = "minMag" -> 0
        bits == sig % 2^Part
        up   == (sig + inc) \div 2^Part
        z    == IF bits = 2^(Part - 1) /\ roundingMode = "near_even" THEN (up \div 2) * 2 ELSE up
        tooLarge == IF ~signed THEN z > 0 /\ sign = 1
                    ELSE IF sign = 1 THEN z > 2^(w - 1) ELSE z >= 2^(w - 1)
    IN  IF sig + inc >= 2^(w + Part) \/ tooLarge THEN invalidInt(w, signed)
        ELSE Result(IF sign = 1 THEN -z ELSE z, IF exact /\ bits # 0 THEN {"inexact"} ELSE {})

toInt(F, a, roundingMode, exact, w, signed) ==
    LET exp == expUI(F, a)
        sig == fracUI(F, a) + (IF exp # 0 THEN Hidden(F) ELSE 0)
        up  == exp - Bias(F) - F.f + Part
    IN  IF exp = ExpMax(F) \/ exp - Bias(F) > w THEN invalidInt(w, signed)
        ELSE roundToInteger(signUI(F, a),
                            IF up >= 0 THEN sig * 2^up ELSE shiftRightJam(Word(F) + Part, sig, -up),
                            roundingMode, exact, w, signed)

(* Rounding toward zero, whatever the mode.                                               *)
toInt_r_minMag(F, a, exact, w, signed) ==
    LET exp  == expUI(F, a)
        sign == signUI(F, a)
        sig  == fracUI(F, a) + Hidden(F)
        dist == Bias(F) + F.f - exp
        absZ == IF dist <= 0 THEN sig * 2^(-dist) ELSE sig \div 2^dist
        lost == dist > 0 /\ sig % 2^dist # 0
        flag(inexact) == IF exact /\ inexact THEN {"inexact"} ELSE {}
        tooLarge == IF ~signed THEN sign = 1 \/ absZ >= 2^w
                    ELSE IF sign = 1 THEN absZ > 2^(w - 1) ELSE absZ >= 2^(w - 1)
    IN  CASE exp < Bias(F) -> Result(0, flag(~isZero(F, a)))
          [] exp = ExpMax(F) \/ exp - Bias(F) >= w -> invalidInt(w, signed)
          [] exp \in Bias(F)..(ExpMax(F) - 1) /\ exp - Bias(F) < w ->
                 IF tooLarge THEN invalidInt(w, signed)
                 ELSE Result(IF sign = 1 THEN -absZ ELSE absZ, flag(lost))

-----------------------------------------------------------------------------
(* Conversions from integers of w bits                                                    *)

magnitude(i) == IF i < 0 THEN -i ELSE i
signOf(i)    == IF i < 0 THEN 1 ELSE 0

(* Fault: the last bit of an integer that is shifted before it is rounded is lost.          *)
intToSameWidthFault(F, i) ==
    LET a   == magnitude(i)
        top == 2^(Word(F) - 1)
        exp == Bias(F) + Word(F) - 3
    IN  CASE a = 0 -> Exact(0)
          [] i < 0 /\ a = top -> Exact(packToUI(F, 1, exp + 2, 0))
          [] i >= top -> roundPack(F, 0, exp + 1, a \div 2)
          [] OTHER -> normRoundPack(F, signOf(i), exp, a)

(* To the format as wide as the integer: a leading bit where the sign of a signed integer *)
(* would be is shifted out first.                                                         *)
intToSameWidth(F, i) ==
    LET a   == magnitude(i)
        top == 2^(Word(F) - 1)
        exp == Bias(F) + Word(F) - 3                          \* 0x9C
    IN  CASE a = 0 -> Exact(0)
          [] i < 0 /\ a = top -> Exact(packToUI(F, 1, exp + 2, 0))
          [] i >= top -> roundPack(F, 0, exp + 1, jam(a \div 2, a % 2 = 1))
          [] OTHER -> normRoundPack(F, signOf(i), exp, a)

(* To a narrower format.                                                                  *)
intToNarrower(F, i, w) ==
    LET a         == magnitude(i)
        shiftDist == countLeadingZeros(w, a) - (w - F.f - 1)
        dist      == shiftDist + Guard(F)
        exp       == Bias(F) + F.f - 1                         \* 0x95
    IN  IF shiftDist >= 0
        THEN Exact(IF a = 0 THEN 0 ELSE packToUI(F, signOf(i), exp - shiftDist, a * 2^shiftDist))
        ELSE roundPack(F, signOf(i), exp - shiftDist,
                       IF dist < 0 THEN shiftRightJam(w, a, -dist) ELSE a * 2^dist)

(* To a wider format, in which every such integer is a number.                            *)
intToWider(F, i, w) ==
    LET a         == magnitude(i)
        shiftDist == countLeadingZeros(w, a) + F.f + 1 - w     \* + 21
    IN  Exact(IF a = 0 THEN 0
              ELSE packToUI(F, signOf(i), Bias(F) + F.f - 1 - shiftDist, a * 2^shiftDist))

-----------------------------------------------------------------------------
(* Conversions between formats.  A NaN keeps its sign and the leading bits of its payload *)

(* in a commonNaN, whose payload starts at the left of a word wide enough for all formats. *)
toCommonNaN(F, a) ==
    [sign |-> signUI(F, a), v |-> fracUI(F, a) * 2^(F128.f - F.f),
     flags |-> IF isSigNaNUI(F, a) THEN {"invalid"} ELSE {}]
fromCommonNaN(G, nan) ==
    LET frac     == nan.v \div 2^(F128.f - G.f)
        quietBit == Hidden(G) \div 2
    IN  Result(packToUI(G, nan.sign, ExpMax(G), IF frac < quietBit THEN frac + quietBit ELSE frac), nan.flags)
commonNaN(F, G, a) == fromCommonNaN(G, toCommonNaN(F, a))

convert(F, G, a, finite) ==
    IF expUI(F, a) = ExpMax(F)
    THEN IF isNaNUI(F, a) THEN commonNaN(F, G, a) ELSE Exact(packToUI(G, signUI(F, a), ExpMax(G), 0))
    ELSE finite

widen(F, G, a) ==
    convert(F, G, a,
            IF isZero(F, a) THEN Exact(packToUI(G, signUI(F, a), 0, 0))
            ELSE LET A == unpack(F, a)
                 IN  Exact(packToUI(G, signUI(F, a), A.exp + Bias(G) - Bias(F),
                                    (A.sig - Hidden(F)) * 2^(G.f - F.f))))

narrow(F, G, a) ==
    LET exp  == expUI(F, a)
        frac == shiftRightJam(Word(F), fracUI(F, a), F.f - G.f - Guard(G))
    IN  convert(F, G, a,
                IF exp = 0 /\ frac = 0 THEN Exact(packToUI(G, signUI(F, a), 0, 0))
                ELSE roundPack(G, signUI(F, a), exp - (Bias(F) - Bias(G)) - 1, frac + 2^(Word(G) - 2)))
=============================================================================
