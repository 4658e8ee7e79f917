------------------------------- MODULE ExtF80 -------------------------------
(* SoftFloat's extended double precision: 80 bits, of which the 64 of the significand     *)
(* show its leading bit, and a rounding precision of its own.  A significand about to be  *)
(* rounded is a word and a word of further bits, sigExtra, whose lowest one is sticky.    *)
EXTENDS SoftFloatOps, Sequences

(* F80.e bits of exponent, F80.s bits of significand; quotients and remainders from       *)
(* estimates of F80.h bits, roots of F80.r (all of them 32 in the code).                   *)
CONSTANT F80
VARIABLE extF80_roundingPrecision

S     == F80.s                          \* 64
Top   == 2^(S - 1)                      \* 0x8000000000000000
AllOnes   == 2^S - 1                        \* 0xFFFFFFFFFFFFFFFF
BiasX == 2^(F80.e - 1) - 1              \* 0x3FFF
MaxX  == 2^F80.e - 1                    \* 0x7FFF

(* The same number without the leading bit, and a format as wide as the whole pattern.    *)
FX == [e |-> F80.e, f |-> S - 1]
UX == [e |-> F80.e, f |-> S]

(* The significand is a 64-bit integer, and holds a 32-bit one with its rounding bits;    *)
(* quadruple precision has the same exponents and more bits.                              *)
ASSUME ExtAssumption ==
    /\ S = W64 /\ S % 2 = 0 /\ S - 2 - Part >= W32
    /\ F80.h \in Nat /\ F80.r \in Nat
    /\ 3 * (F80.h - 3) - S \in 2..(F80.h - 2) /\ 3 * F80.r - 6 - S \in 2..S /\ F80.r > 8
    /\ F80.e = F128.e /\ F64.e < F80.e /\ S - 1 < F128.f

Precisions == {80, 64, 32}

packToExtF80(sign, exp, signif) == (sign * 2^F80.e + exp) * 2^S + signif
signExtF80UI64(ui) == ui \div 2^(F80.e + S)
expExtF80UI64(ui)  == (ui \div 2^S) % 2^F80.e
signifX(ui)        == ui % 2^S
fracX(ui)          == ui % Top

infX(sign)        == packToExtF80(sign, MaxX, Top)
zeroX(sign)       == packToExtF80(sign, 0, 0)
invalidX          == Result(packToExtF80(1, MaxX, Top + Top \div 2), {"invalid"})
isNaNExtF80UI(ui) == expExtF80UI64(ui) = MaxX /\ fracX(ui) # 0
softfloat_isSigNaNExtF80UI(ui) == isNaNExtF80UI(ui) /\ fracX(ui) < Top \div 2
quietX(ui) == ui + (IF fracX(ui) < Top \div 2 THEN Top \div 2 ELSE 0)

(* Of two NaNs of one kind the one with the larger significand, the positive one if these *)
(* are equal; of a signalling and a quiet one the quiet one.                              *)
softfloat_propagateNaNExtF80UI(a, b) ==
    LET sigA == softfloat_isSigNaNExtF80UI(a)
        sigB == softfloat_isSigNaNExtF80UI(b)
        mag(ui) == ui % 2^(F80.e + S)
        larger == IF mag(a) # mag(b) THEN mag(a) > mag(b) ELSE a < b
        takeA == CASE sigA = sigB -> larger
                   [] sigA /\ ~sigB -> ~isNaNExtF80UI(b)
                   [] ~sigA /\ sigB -> isNaNExtF80UI(a)
    IN  Result(quietX(IF takeA THEN a ELSE b), IF sigA \/ sigB THEN {"invalid"} ELSE {})

(* A word shifted right: the bits shifted out lead the next word, which is sticky.        *)
shiftExtra(sig, extra, dist) ==
    CASE dist = 0 -> [v |-> sig, extra |-> extra]
      [] dist \in 1..(S - 1) ->
             [v |-> sig \div 2^dist, extra |-> jam((sig % 2^dist) * 2^(S - dist), extra # 0)]
      [] dist = S -> [v |-> 0, extra |-> jam(sig, extra # 0)]
      [] dist > S -> [v |-> 0, extra |-> IF sig # 0 \/ extra # 0 THEN 1 ELSE 0]

shiftedX(sig, shiftDist) == [exp |-> -shiftDist, sig |-> (sig * 2^shiftDist) % 2^S]
softfloat_normSubnormalExtF80Sig(sig) == shiftedX(sig, countLeadingZeros(S, sig))

(* Exponent and significand, with its leading bit, of a number that is not 0.             *)
unpackX(ui) ==
    LET exp == IF expExtF80UI64(ui) = 0 THEN 1 ELSE expExtF80UI64(ui)
        normal(n) == [exp |-> exp + n.exp, sig |-> n.sig]
    IN  normal(IF signifX(ui) >= Top THEN [exp |-> 0, sig |-> signifX(ui)]
               ELSE softfloat_normSubnormalExtF80Sig(signifX(ui)))

-----------------------------------------------------------------------------
(* Rounding                                                                               *)

toNearest == softfloat_roundingMode \in {"near_even", "near_maxMag"}

overflowX(sign, mask) ==
    Result(IF toNearest \/ softfloat_roundingMode = away(sign) THEN infX(sign)
           ELSE packToExtF80(sign, MaxX - 1, AllOnes - mask),
           {"overflow", "inexact"})

roundedX(sign, exp, sig, inexact, isTiny) ==
    Result(packToExtF80(sign, exp, sig),
           IF ~inexact THEN {} ELSE {"inexact"} \cup (IF isTiny THEN {"underflow"} ELSE {}))

(* The significand keeps as many bits as single or double precision has.                  *)
reducedBy(sign, exp, sig, drop, inc, isTiny) ==
    LET bits  == sig % 2^drop
        keep  == IF softfloat_roundingMode = "near_even" /\ 2 * bits = 2^drop THEN 2^(drop + 1) ELSE 2^drop
        up    == ((sig + inc) \div keep) * keep
        carry == sig + inc > AllOnes
    IN  CASE exp <= 0 -> roundedX(sign, IF sig + inc >= Top THEN 1 ELSE 0, up, bits # 0, isTiny)
          [] exp > 0 /\ (exp > MaxX - 1 \/ (exp = MaxX - 1 /\ carry)) -> overflowX(sign, 2^drop - 1)
          [] exp > 0 /\ ~(exp > MaxX - 1 \/ (exp = MaxX - 1 /\ carry)) ->
                 roundedX(sign, IF carry THEN exp + 1 ELSE exp, IF carry THEN Top ELSE up, bits # 0, FALSE)
roundReduced(sign, exp, sig, drop) ==
    LET inc   == IF toNearest THEN 2^(drop - 1)
                 ELSE IF softfloat_roundingMode = away(sign) THEN 2^drop - 1 ELSE 0
    IN  reducedBy(sign, exp, IF exp <= 0 THEN shiftRightJam(S, sig, 1 - exp) ELSE sig, drop, inc,
                  exp < 0 \/ sig + inc <= AllOnes)                     \* detected after rounding

(* Whether the word of further bits rounds up, and the significand then.                   *)
doIncrement(sign, extra) ==
    IF toNearest THEN extra >= Top ELSE softfloat_roundingMode = away(sign) /\ extra # 0
incremented(sig, extra) ==
    IF extra = Top /\ softfloat_roundingMode = "near_even" THEN ((sig + 1) \div 2) * 2 ELSE sig + 1

roundSubnormal(sign, d, isTiny) ==
    LET up  == doIncrement(sign, d.extra)
        sig == IF up THEN incremented(d.v, d.extra) ELSE d.v
    IN  roundedX(sign, IF up /\ sig >= Top THEN 1 ELSE 0, sig, d.extra # 0, isTiny)
roundFull(sign, exp, sig, extra) ==
    LET up     == doIncrement(sign, extra)
        isTiny == exp < 0 \/ ~up \/ sig < AllOnes
        over   == exp > MaxX - 1 \/ (exp = MaxX - 1 /\ sig = AllOnes /\ up)
    IN  CASE exp <= 0 -> roundSubnormal(sign, shiftExtra(sig, extra, 1 - exp), isTiny)
          [] exp > 0 /\ over -> overflowX(sign, 0)
          [] exp > 0 /\ ~over ->
                 IF ~up THEN roundedX(sign, exp, sig, extra # 0, FALSE)
                 ELSE IF sig = AllOnes THEN roundedX(sign, exp + 1, Top, TRUE, FALSE)
                 ELSE roundedX(sign, exp, incremented(sig, extra), TRUE, FALSE)

softfloat_roundPackToExtF80(sign, exp, sig, sigExtra, roundingPrecision) ==
    CASE roundingPrecision \in {64, 32} ->
             roundReduced(sign, exp, jam(sig, sigExtra # 0),
                          S - 1 - (IF roundingPrecision = 64 THEN F64.f ELSE F32.f))
      [] roundingPrecision = 80 -> roundFull(sign, exp, sig, sigExtra)

(* sig is two words here.                                                                 *)
softfloat_normRoundPackToExtF80(sign, exp, sig, roundingPrecision) ==
    LET short == sig < 2^S
        wide  == IF short THEN sig * 2^S ELSE sig
        round(shiftDist, z) ==
            softfloat_roundPackToExtF80(sign, exp - (IF short THEN S ELSE 0) - shiftDist,
                                        z \div 2^S, z % 2^S, roundingPrecision)
        shiftDist0 == IF sig = 0 THEN S ELSE countLeadingZeros(2 * S, wide)
    IN  round(shiftDist0, wide * 2^shiftDist0)

-----------------------------------------------------------------------------
(* Arithmetic                                                                             *)

precision == extF80_roundingPrecision

(* A number with exponent 0 has the scale of exponent 1.                                  *)
scaleX(ui) == IF expExtF80UI64(ui) = 0 THEN 1 ELSE expExtF80UI64(ui)

finiteX(ui) == expExtF80UI64(ui) # MaxX
anyNaN(a, b) == isNaNExtF80UI(a) \/ isNaNExtF80UI(b)

(* A sum of significands, of which carry says whether it lost its leading bit.             *)
placedX(sign, exp, d) == softfloat_roundPackToExtF80(sign, exp, (d.v % Top) + Top, d.extra, precision)
shiftRight1(sign, exp, sig, extra, carry) ==
    placedX(sign, IF carry THEN exp + 1 ELSE exp,
            IF carry THEN shiftExtra(sig, extra, 1) ELSE [v |-> sig, extra |-> extra])
alignedX(sign, exp, z, extra) == shiftRight1(sign, exp, z, extra, z < Top)
addAlignedX(sign, exp, big, d) == alignedX(sign, exp, (big + d.v) % 2^S, d.extra)
addSubnormalX(sign, n) == softfloat_roundPackToExtF80(sign, n.exp + 1, n.sig, 0, precision)

softfloat_addMagsExtF80(a, b, signZ) ==
    LET expA == expExtF80UI64(a)  expB == expExtF80UI64(b)
        sigA == signifX(a)        sigB == signifX(b)
        align(exp, big, small, dist) == addAlignedX(signZ, exp, big, shiftExtra(small, 0, dist))
    IN  CASE expA = expB ->
                 (CASE expA = MaxX ->
                           IF anyNaN(a, b) THEN softfloat_propagateNaNExtF80UI(a, b) ELSE Exact(a)
                    [] expA = 0 -> addSubnormalX(signZ, softfloat_normSubnormalExtF80Sig((sigA + sigB) % 2^S))
                    [] expA \in 1..(MaxX - 1) -> shiftRight1(signZ, expA, (sigA + sigB) % 2^S, 0, TRUE))
          [] expA < expB ->
                 IF expB = MaxX
                 THEN IF isNaNExtF80UI(b) THEN softfloat_propagateNaNExtF80UI(a, b)
                      ELSE Exact(packToExtF80(signZ, MaxX, sigB))
                 ELSE align(expB, sigB, sigA, expB - scaleX(a))
          [] expA > expB ->
                 IF expA = MaxX
                 THEN IF isNaNExtF80UI(a) THEN softfloat_propagateNaNExtF80UI(a, b) ELSE Exact(a)
                 ELSE align(expA, sigA, sigB, expA - scaleX(b))

softfloat_subMagsExtF80(a, b, signZ) ==
    LET expA == expExtF80UI64(a)  expB == expExtF80UI64(b)
        sigA == signifX(a)        sigB == signifX(b)
        round(sign, exp, big, small, dist) ==
            softfloat_normRoundPackToExtF80(
                sign, exp, big * 2^S - shiftRightJam(2 * S, small * 2^S, dist), precision)
    IN  CASE expA = expB ->
                 (CASE expA = MaxX ->
                           IF anyNaN(a, b) THEN softfloat_propagateNaNExtF80UI(a, b) ELSE invalidX
                    [] expA # MaxX /\ sigA # sigB ->
                           round(IF sigA > sigB THEN signZ ELSE 1 - signZ, scaleX(a),
                                 IF sigA > sigB THEN sigA ELSE sigB, IF sigA > sigB THEN sigB ELSE sigA, 0)
                    [] expA # MaxX /\ sigA = sigB -> Exact(zeroX(IF softfloat_roundingMode = "min" THEN 1 ELSE 0)))
          [] expA < expB ->
                 IF expB = MaxX
                 THEN IF isNaNExtF80UI(b) THEN softfloat_propagateNaNExtF80UI(a, b) ELSE Exact(infX(1 - signZ))
                 ELSE round(1 - signZ, expB, sigB, sigA, expB - scaleX(a))
          [] expA > expB ->
                 IF expA = MaxX
                 THEN IF isNaNExtF80UI(a) THEN softfloat_propagateNaNExtF80UI(a, b) ELSE Exact(a)
                 ELSE round(signZ, expA, sigA, sigB, expA - scaleX(b))

extF80_add(a, b) ==
    IF signExtF80UI64(a) = signExtF80UI64(b) THEN softfloat_addMagsExtF80(a, b, signExtF80UI64(a))
    ELSE softfloat_subMagsExtF80(a, b, signExtF80UI64(a))
extF80_sub(a, b) ==
    IF signExtF80UI64(a) = signExtF80UI64(b) THEN softfloat_subMagsExtF80(a, b, signExtF80UI64(a))
    ELSE softfloat_addMagsExtF80(a, b, signExtF80UI64(a))

extF80_mul(a, b) ==
    LET signZ == (signExtF80UI64(a) + signExtF80UI64(b)) % 2
        round(exp, sig) == softfloat_roundPackToExtF80(signZ, exp, sig \div 2^S, sig % 2^S, precision)
        place(exp, prod, low) == round(exp - (IF low THEN 1 ELSE 0), IF low THEN 2 * prod ELSE prod)
        product(A, B) == place(A.exp + B.exp - (BiasX - 1), A.sig * B.sig, A.sig * B.sig < 2^(2 * S - 1))
    IN  CASE anyNaN(a, b) -> softfloat_propagateNaNExtF80UI(a, b)
          [] ~anyNaN(a, b) /\ (~finiteX(a) \/ ~finiteX(b)) ->
                 IF isZero(UX, a) \/ isZero(UX, b) THEN invalidX ELSE Exact(infX(signZ))
          [] finiteX(a) /\ finiteX(b) ->
                 IF signifX(a) = 0 \/ signifX(b) = 0 THEN Exact(zeroX(signZ))
                 ELSE product(unpackX(a), unpackX(b))

(* A significand with bits below its last one, which lead sigExtra.                       *)
roundExtra(sign, exp, sig, bits) ==
    softfloat_roundPackToExtF80(sign, exp, sig \div 2^bits, (sig % 2^bits) * 2^(S - bits), precision)

(* The 87 bits of three digits are one bit short of a quotient by twice sigB.              *)
extF80_div(a, b) ==
    LET signZ == (signExtF80UI64(a) + signExtF80UI64(b)) % 2
        e     == 3 * (F80.h - 3) - S                               \* 23
        divided(A, B, less) ==
            roundExtra(signZ, A.exp - B.exp + BiasX - (IF less THEN 1 ELSE 0),
                       longQuotient(F80.h, S + 1 - F80.h, 3, e, IF less THEN 2 * A.sig ELSE A.sig, 2 * B.sig), e)
        divide(A, B) == divided(A, B, A.sig < B.sig)
    IN  CASE anyNaN(a, b) -> softfloat_propagateNaNExtF80UI(a, b)
          [] ~anyNaN(a, b) /\ ~finiteX(a) -> IF ~finiteX(b) THEN invalidX ELSE Exact(infX(signZ))
          [] finiteX(a) /\ ~isNaNExtF80UI(b) /\ ~finiteX(b) -> Exact(zeroX(signZ))
          [] finiteX(a) /\ finiteX(b) ->
                 CASE signifX(b) = 0 -> IF signifX(a) = 0 THEN invalidX ELSE Result(infX(signZ), {"infinite"})
                   [] signifX(b) # 0 /\ signifX(a) = 0 -> Exact(zeroX(signZ))
                   [] signifX(b) # 0 /\ signifX(a) # 0 -> divide(unpackX(a), unpackX(b))

(* The bits below the last one that say whether what is left has to be looked at: all but  *)
(* one, here of a significand that fills two words of F80.r bits as it does in the code.   *)
extF80_sqrt(a) ==
    LET close   == F80.r - 8                                       \* 0xFFFFFF
        root(A) == roundExtra(0, ((A.exp - BiasX) \div 2) + BiasX,
                              longRoot(F80.r, S - 1, 1, A.exp % 2, A.sig, close, close), 3 * F80.r - 6 - S)
    IN  CASE isNaNExtF80UI(a) -> softfloat_propagateNaNExtF80UI(a, 0)
          [] a = infX(0) -> Exact(a)
          [] finiteX(a) /\ signifX(a) = 0 -> Exact(zeroX(signExtF80UI64(a)))
          [] ~isNaNExtF80UI(a) /\ ~isZero(UX, a) /\ signExtF80UI64(a) = 1 -> invalidX
          [] finiteX(a) /\ ~isZero(UX, a) /\ signExtF80UI64(a) = 0 -> root(unpackX(a))

(* A dividend that is the remainder, without the exponent a subnormal number was given.    *)
canonicalA(sign, A) ==
    packToExtF80(sign, IF A.exp < 1 THEN 0 ELSE A.exp, IF A.exp < 1 THEN A.sig \div 2^(1 - A.exp) ELSE A.sig)

(* Always exact, so always at full precision.                                             *)
signedX(sign, exp, left) ==
    LET half == 2^(S \div 2)                                       \* the words have 32 bits to spare
    IN  softfloat_normRoundPackToExtF80(
            IF left < 0 THEN 1 - sign ELSE sign, IF left = 0 THEN 0 ELSE exp + S \div 2, (IF left < 0 THEN -left ELSE left) * half, 80)
remX(sign, A, B, infB) ==
    LET expDiff == A.exp - B.exp
    IN  CASE infB \/ expDiff < -1 -> Exact(canonicalA(sign, A))
          [] ~infB /\ expDiff \in {-1, 0} -> signedX(sign, B.exp + expDiff, closeRem(A.sig, B.sig, expDiff))
          [] ~infB /\ expDiff > 0 ->
                 signedX(sign, B.exp, longRem(S + F80.h, F80.h, S - F80.h, A.sig, B.sig, expDiff))
extF80_rem(a, b) ==
    LET sign == signExtF80UI64(a)
    IN  CASE anyNaN(a, b) -> softfloat_propagateNaNExtF80UI(a, b)
          [] ~anyNaN(a, b) /\ (~finiteX(a) \/ isZero(UX, b)) -> invalidX
          [] finiteX(a) /\ ~isNaNExtF80UI(b) /\ ~isZero(UX, b) ->
                 IF signifX(a) = 0 THEN Exact(zeroX(sign))
                 ELSE remX(sign, unpackX(a), unpackX(b), ~finiteX(b))

integralX(sign, A, roundingMode, exact) ==
    LET flag(inexact) == IF exact /\ inexact THEN {"inexact"} ELSE {}
        mag1 == CASE roundingMode = "near_even" -> A.exp = BiasX - 1 /\ A.sig # Top
                  [] roundingMode = "near_maxMag" -> A.exp = BiasX - 1
                  [] roundingMode \in {"min", "max"} -> roundingMode = away(sign)
                  [] roundingMode = "minMag" -> FALSE
        lastBit == 2^(BiasX + S - 1 - A.exp)
        half == A.sig + lastBit \div 2
        up == CASE roundingMode = "near_maxMag" -> half
                [] roundingMode = "near_even" ->
                       IF half % lastBit = 0 /\ (half \div lastBit) % 2 = 1 THEN half - lastBit ELSE half
                [] roundingMode \in {"min", "max"} -> IF roundingMode = away(sign) THEN A.sig + lastBit - 1 ELSE A.sig
                [] roundingMode = "minMag" -> A.sig
        masked(sigZ) == Result(IF sigZ = 0 THEN packToExtF80(sign, A.exp + 1, Top)
                               ELSE packToExtF80(sign, A.exp, sigZ), flag(sigZ # A.sig))
    IN  CASE A.exp >= BiasX + S - 1 -> Exact(packToExtF80(sign, A.exp, A.sig))
          [] A.exp < BiasX ->
                 Result(IF mag1 THEN packToExtF80(sign, BiasX, Top) ELSE zeroX(sign), flag(TRUE))
          [] A.exp \in BiasX..(BiasX + S - 2) -> masked(((up \div lastBit) * lastBit) % 2^S)

extF80_roundToInt(a, roundingMode, exact) ==
    LET sign == signExtF80UI64(a)
    IN  CASE isNaNExtF80UI(a) -> softfloat_propagateNaNExtF80UI(a, 0)
          [] ~isNaNExtF80UI(a) /\ ~finiteX(a) -> Exact(infX(sign))
          [] finiteX(a) /\ signifX(a) = 0 -> Exact(zeroX(sign))
          [] finiteX(a) /\ signifX(a) # 0 -> integralX(sign, unpackX(a), roundingMode, exact)

-----------------------------------------------------------------------------
(* Comparisons: the words of the pattern are those of a number                            *)

compareX(a, b, answer, signaling) ==
    IF anyNaN(a, b)
    THEN Result(FALSE, IF signaling \/ softfloat_isSigNaNExtF80UI(a) \/ softfloat_isSigNaNExtF80UI(b)
                       THEN {"invalid"} ELSE {})
    ELSE Exact(answer)

extF80_eq(a, b)           == compareX(a, b, eqUI(UX, a, b), FALSE)
extF80_eq_signaling(a, b) == compareX(a, b, eqUI(UX, a, b), TRUE)
extF80_le(a, b)           == compareX(a, b, leUI(UX, a, b), TRUE)
extF80_le_quiet(a, b)     == compareX(a, b, leUI(UX, a, b), FALSE)
extF80_lt(a, b)           == compareX(a, b, ltUI(UX, a, b), TRUE)
extF80_lt_quiet(a, b)     == compareX(a, b, ltUI(UX, a, b), FALSE)
extF80_isSignalingNaN(a)  == softfloat_isSigNaNExtF80UI(a)

-----------------------------------------------------------------------------
(* Conversions                                                                            *)

(* To 32 bits all rounding bits stay in one word; to 64 they are a word of their own.      *)
extToInt32(a, roundingMode, exact, signed) ==
    LET shiftDist == BiasX + S - 1 - Part - expExtF80UI64(a)
    IN  roundToInteger(signExtF80UI64(a), shiftRightJam(S, signifX(a), IF shiftDist <= 0 THEN 1 ELSE shiftDist),
                       roundingMode, exact, W32, signed)

extToInt64(a, roundingMode, exact, signed) ==
    LET shiftDist == BiasX + S - 1 - expExtF80UI64(a)
        d == shiftExtra(signifX(a), 0, shiftDist)
    IN  IF shiftDist < 0 THEN invalidInt(W64, signed)
        ELSE roundToInteger(signExtF80UI64(a), d.v * 2^Part + shiftRightJam(S, d.extra, S - Part),
                            roundingMode, exact, W64, signed)

extToInt_r_minMag(a, exact, w, signed) ==
    LET exp == expExtF80UI64(a)
        sig == signifX(a)
        sign == signExtF80UI64(a)
        shiftDist == BiasX + S - 1 - exp
        flag(inexact) == IF exact /\ inexact THEN {"inexact"} ELSE {}
        least == sign = 1 /\ exp = BiasX + w - 1 /\ sig < Top + 2^(S - w)
        absZ == sig \div 2^shiftDist
    IN  CASE shiftDist >= S -> Result(0, flag(exp # 0 \/ sig # 0))
          [] shiftDist < S /\ signed /\ shiftDist < S - w + 1 ->
                 IF least THEN Result(-(2^(w - 1)), flag(sig % 2^(S - w) # 0)) ELSE invalidInt(w, signed)
          [] shiftDist < S /\ ~signed /\ (sign = 1 \/ shiftDist < S - w) -> invalidInt(w, signed)
          [] OTHER -> Result(IF sign = 1 THEN -absZ ELSE absZ, flag(sig % 2^shiftDist # 0))

extF80_to_i32(a, roundingMode, exact)  == extToInt32(a, roundingMode, exact, TRUE)
extF80_to_ui32(a, roundingMode, exact) == extToInt32(a, roundingMode, exact, FALSE)
extF80_to_i64(a, roundingMode, exact)  == extToInt64(a, roundingMode, exact, TRUE)
extF80_to_ui64(a, roundingMode, exact) == extToInt64(a, roundingMode, exact, FALSE)
extF80_to_i32_r_minMag(a, exact)  == extToInt_r_minMag(a, exact, W32, TRUE)
extF80_to_ui32_r_minMag(a, exact) == extToInt_r_minMag(a, exact, W32, FALSE)
extF80_to_i64_r_minMag(a, exact)  == extToInt_r_minMag(a, exact, W64, TRUE)
extF80_to_ui64_r_minMag(a, exact) == extToInt_r_minMag(a, exact, W64, FALSE)

(* A NaN in passing between formats has its fraction at the left end of a word: the        *)
(* leading bit of the significand is dropped, or put back.                                 *)
hideLeading(ui) == (ui \div 2^S) * Top + fracX(ui)
showLeading(r)  == [r EXCEPT !.ui = (@ \div Top) * 2^S + Top + (@ % Top)]
softfloat_extF80UIToCommonNaN(a)   == toCommonNaN(FX, hideLeading(a))
softfloat_commonNaNToExtF80UI(nan) == showLeading(fromCommonNaN(FX, nan))

extToNarrower(G, a) ==
    LET exp  == expExtF80UI64(a)
        sign == signExtF80UI64(a)
        sig  == shiftRightJam(S, signifX(a), S - Word(G) + 1)
    IN  IF exp = MaxX
        THEN IF isNaNExtF80UI(a) THEN fromCommonNaN(G, softfloat_extF80UIToCommonNaN(a)) ELSE Exact(packToUI(G, sign, ExpMax(G), 0))
        ELSE IF exp = 0 /\ sig = 0 THEN Exact(packToUI(G, sign, 0, 0))
        ELSE roundPack(G, sign, exp - (BiasX - Bias(G)) - 1, sig)

extF80_to_f16(a)  == extToNarrower(F16, a)
extF80_to_f32(a)  == extToNarrower(F32, a)
extF80_to_f64(a)  == extToNarrower(F64, a)
extF80_to_f128(a) ==
    IF isNaNExtF80UI(a) THEN softfloat_commonNaNToF128UI(softfloat_extF80UIToCommonNaN(a))
    ELSE Exact(packToUI(F128, signExtF80UI64(a), expExtF80UI64(a), fracX(a) * 2^(F128.f - S + 1)))

toExt(F, a, finite) ==
    CASE expUI(F, a) = ExpMax(F) ->
             IF isNaNUI(F, a) THEN softfloat_commonNaNToExtF80UI(toCommonNaN(F, a)) ELSE Exact(infX(signUI(F, a)))
      [] isZero(F, a) -> Exact(zeroX(signUI(F, a)))
      [] expUI(F, a) # ExpMax(F) /\ ~isZero(F, a) -> finite

widenToExt(F, a) ==
    LET A == unpack(F, a)
    IN  toExt(F, a, Exact(packToExtF80(signUI(F, a), A.exp + BiasX - Bias(F), A.sig * 2^(S - 1 - F.f))))

f16_to_extF80(a) == widenToExt(F16, a)
f32_to_extF80(a) == widenToExt(F32, a)
f64_to_extF80(a) == widenToExt(F64, a)
f128_to_extF80(a) ==
    LET A == unpack(F128, a)
        below == F128.f - (S - 1)
    IN  toExt(F128, a, softfloat_roundPackToExtF80(signUI(F128, a), A.exp, A.sig \div 2^below,
                                                   (A.sig % 2^below) * 2^(S - below), 80))

intToExt(i, w) ==
    LET a == magnitude(i)
        shiftDist == countLeadingZeros(w, a)
    IN  Exact(IF a = 0 THEN zeroX(0)
              ELSE packToExtF80(signOf(i), BiasX + w - 1 - shiftDist, a * 2^(shiftDist + S - w)))

i32_to_extF80(i)  == intToExt(i, W32)
ui32_to_extF80(i) == intToExt(i, W32)
i64_to_extF80(i)  == intToExt(i, W64)
ui64_to_extF80(i) == intToExt(i, W64)

-----------------------------------------------------------------------------
(* The second interface of softfloat: floats of extended and quadruple precision are       *)
(* passed by address.  mem holds a pattern at every address; a function that stores its     *)
(* result returns the memory after the call and the exceptions raised.  Each reads all of   *)
(* its operands before its single store, so that the address of the result may be that of   *)
(* an operand; results in other formats are returned as by the functions on values.         *)

store(mem, z, r) == [mem |-> [mem EXCEPT ![z] = r.ui], flags |-> r.flags]

(* Extended precision                                                                     *)
ui32_to_extF80M(mem, i, z) == store(mem, z, ui32_to_extF80(i))
ui64_to_extF80M(mem, i, z) == store(mem, z, ui64_to_extF80(i))
i32_to_extF80M(mem, i, z) == store(mem, z, i32_to_extF80(i))
i64_to_extF80M(mem, i, z) == store(mem, z, i64_to_extF80(i))
f16_to_extF80M(mem, a, z) == store(mem, z, f16_to_extF80(a))
f32_to_extF80M(mem, a, z) == store(mem, z, f32_to_extF80(a))
f64_to_extF80M(mem, a, z) == store(mem, z, f64_to_extF80(a))
extF80M_to_ui32(mem, a, roundingMode, exact) == extF80_to_ui32(mem[a], roundingMode, exact)
extF80M_to_ui64(mem, a, roundingMode, exact) == extF80_to_ui64(mem[a], roundingMode, exact)
extF80M_to_i32(mem, a, roundingMode, exact) == extF80_to_i32(mem[a], roundingMode, exact)
extF80M_to_i64(mem, a, roundingMode, exact) == extF80_to_i64(mem[a], roundingMode, exact)
extF80M_to_ui32_r_minMag(mem, a, exact) == extF80_to_ui32_r_minMag(mem[a], exact)
extF80M_to_ui64_r_minMag(mem, a, exact) == extF80_to_ui64_r_minMag(mem[a], exact)
extF80M_to_i32_r_minMag(mem, a, exact) == extF80_to_i32_r_minMag(mem[a], exact)
extF80M_to_i64_r_minMag(mem, a, exact) == extF80_to_i64_r_minMag(mem[a], exact)
extF80M_to_f16(mem, a) == extF80_to_f16(mem[a])
extF80M_to_f32(mem, a) == extF80_to_f32(mem[a])
extF80M_to_f64(mem, a) == extF80_to_f64(mem[a])
extF80M_to_f128M(mem, a, z) == store(mem, z, extF80_to_f128(mem[a]))
extF80M_roundToInt(mem, a, roundingMode, exact, z) == store(mem, z, extF80_roundToInt(mem[a], roundingMode, exact))
extF80M_add(mem, a, b, z) ==
    store(mem, z, IF signExtF80UI64(mem[a]) = signExtF80UI64(mem[b])
                  THEN softfloat_addMagsExtF80(mem[a], mem[b], signExtF80UI64(mem[a]))
                  ELSE softfloat_subMagsExtF80(mem[a], mem[b], signExtF80UI64(mem[a])))
extF80M_sub(mem, a, b, z) ==
    store(mem, z, IF signExtF80UI64(mem[a]) = signExtF80UI64(mem[b])
                  THEN softfloat_subMagsExtF80(mem[a], mem[b], signExtF80UI64(mem[a]))
                  ELSE softfloat_addMagsExtF80(mem[a], mem[b], signExtF80UI64(mem[a])))
extF80M_mul(mem, a, b, z) == store(mem, z, extF80_mul(mem[a], mem[b]))
extF80M_div(mem, a, b, z) == store(mem, z, extF80_div(mem[a], mem[b]))
extF80M_rem(mem, a, b, z) == store(mem, z, extF80_rem(mem[a], mem[b]))
extF80M_sqrt(mem, a, z) == store(mem, z, extF80_sqrt(mem[a]))
extF80M_eq(mem, a, b) == extF80_eq(mem[a], mem[b])
extF80M_eq_signaling(mem, a, b) == extF80_eq_signaling(mem[a], mem[b])
extF80M_le(mem, a, b) == extF80_le(mem[a], mem[b])
extF80M_le_quiet(mem, a, b) == extF80_le_quiet(mem[a], mem[b])
extF80M_lt(mem, a, b) == extF80_lt(mem[a], mem[b])
extF80M_lt_quiet(mem, a, b) == extF80_lt_quiet(mem[a], mem[b])
extF80M_isSignalingNaN(mem, a) == extF80_isSignalingNaN(mem[a])

(* Quadruple precision                                                                    *)
ui32_to_f128M(mem, i, z) == store(mem, z, ui32_to_f128(i))
ui64_to_f128M(mem, i, z) == store(mem, z, ui64_to_f128(i))
i32_to_f128M(mem, i, z) == store(mem, z, i32_to_f128(i))
i64_to_f128M(mem, i, z) == store(mem, z, i64_to_f128(i))
f16_to_f128M(mem, a, z) == store(mem, z, f16_to_f128(a))
f32_to_f128M(mem, a, z) == store(mem, z, f32_to_f128(a))
f64_to_f128M(mem, a, z) == store(mem, z, f64_to_f128(a))
f128M_to_ui32(mem, a, roundingMode, exact) == f128_to_ui32(mem[a], roundingMode, exact)
f128M_to_ui64(mem, a, roundingMode, exact) == f128_to_ui64(mem[a], roundingMode, exact)
f128M_to_i32(mem, a, roundingMode, exact) == f128_to_i32(mem[a], roundingMode, exact)
f128M_to_i64(mem, a, roundingMode, exact) == f128_to_i64(mem[a], roundingMode, exact)
f128M_to_ui32_r_minMag(mem, a, exact) == f128_to_ui32_r_minMag(mem[a], exact)
f128M_to_ui64_r_minMag(mem, a, exact) == f128_to_ui64_r_minMag(mem[a], exact)
f128M_to_i32_r_minMag(mem, a, exact) == f128_to_i32_r_minMag(mem[a], exact)
f128M_to_i64_r_minMag(mem, a, exact) == f128_to_i64_r_minMag(mem[a], exact)
f128M_to_f16(mem, a) == f128_to_f16(mem[a])
f128M_to_f32(mem, a) == f128_to_f32(mem[a])
f128M_to_f64(mem, a) == f128_to_f64(mem[a])
f128M_to_extF80M(mem, a, z) == store(mem, z, f128_to_extF80(mem[a]))
f128M_roundToInt(mem, a, roundingMode, exact, z) == store(mem, z, f128_roundToInt(mem[a], roundingMode, exact))
f128M_add(mem, a, b, z) ==
    store(mem, z, IF signUI(F128, mem[a]) = signUI(F128, mem[b])
                  THEN softfloat_addMagsF128(mem[a], mem[b])
                  ELSE softfloat_subMagsF128(mem[a], mem[b]))
f128M_sub(mem, a, b, z) ==
    store(mem, z, IF signUI(F128, mem[a]) = signUI(F128, mem[b])
                  THEN softfloat_subMagsF128(mem[a], mem[b])
                  ELSE softfloat_addMagsF128(mem[a], mem[b]))
f128M_mul(mem, a, b, z) == store(mem, z, f128_mul(mem[a], mem[b]))
f128M_div(mem, a, b, z) == store(mem, z, f128_div(mem[a], mem[b]))
f128M_rem(mem, a, b, z) == store(mem, z, f128_rem(mem[a], mem[b]))
f128M_mulAdd(mem, a, b, c, z) == store(mem, z, softfloat_mulAddF128(mem[a], mem[b], mem[c], "add"))
f128M_sqrt(mem, a, z) == store(mem, z, f128_sqrt(mem[a]))
f128M_eq(mem, a, b) == f128_eq(mem[a], mem[b])
f128M_eq_signaling(mem, a, b) == f128_eq_signaling(mem[a], mem[b])
f128M_le(mem, a, b) == f128_le(mem[a], mem[b])
f128M_le_quiet(mem, a, b) == f128_le_quiet(mem[a], mem[b])
f128M_lt(mem, a, b) == f128_lt(mem[a], mem[b])
f128M_lt_quiet(mem, a, b) == f128_lt_quiet(mem[a], mem[b])
f128M_isSignalingNaN(mem, a) == f128_isSignalingNaN(mem[a])

-----------------------------------------------------------------------------
(* The arithmetic of softfloat on numbers of two and four machine words, which is how the  *)
(* significands of quadruple precision are stored: carries, borrows and the bits that cross *)
(* a word boundary are found with comparisons and shifts.  SoftFloat computes with numbers  *)
(* instead, and this section is the reason why it may.                                       *)
(*                                                                                         *)
(* A number of two words is [v64, v0]; four words are <<lowest, ..., highest>>.             *)

CONSTANT HalfBits                    \* bits of half a word: 32
ASSUME HalfBitsAssumption == HalfBits \in Nat \ {0}

WordBits == 2 * HalfBits
Half     == 2^HalfBits
WORD     == 2^WordBits

uint128(v64, v0) == [v64 |-> v64, v0 |-> v0]
bit(b)           == IF b THEN 1 ELSE 0
orBit(v, b)      == IF b /\ v % 2 = 0 THEN v + 1 ELSE v
shl(a, dist)     == (a * 2^dist) % WORD
shr(a, dist)     == a \div 2^dist
negDist(dist)    == (-dist) % WordBits                            \* -dist & 63

softfloat_eq128(a, b) == a.v64 = b.v64 /\ a.v0 = b.v0
softfloat_le128(a, b) == a.v64 < b.v64 \/ (a.v64 = b.v64 /\ a.v0 <= b.v0)
softfloat_lt128(a, b) == a.v64 < b.v64 \/ (a.v64 = b.v64 /\ a.v0 < b.v0)

(* Fault: a carry out of the low word is taken from the wrong operand's comparison.        *)
add128Fault(a, b) ==
    LET v0 == (a.v0 + b.v0) % WORD IN uint128((a.v64 + b.v64 + bit(v0 <= a.v0)) % WORD, v0)

softfloat_add128(a, b) ==
    LET v0 == (a.v0 + b.v0) % WORD IN uint128((a.v64 + b.v64 + bit(v0 < a.v0)) % WORD, v0)
softfloat_sub128(a, b) ==
    uint128((a.v64 - b.v64 - bit(a.v0 < b.v0)) % WORD, (a.v0 - b.v0) % WORD)

-----------------------------------------------------------------------------
(* Shifts by less than a word, 1 <= dist < 64                                              *)

softfloat_shortShiftLeft128(a, dist) ==
    uint128(shl(a.v64, dist) + shr(a.v0, negDist(dist)), shl(a.v0, dist))
softfloat_shortShiftRight128(a, dist) ==
    uint128(shr(a.v64, dist), shl(a.v64, negDist(dist)) + shr(a.v0, dist))
softfloat_shortShiftRightJam64(a, dist) == orBit(shr(a, dist), a % 2^dist # 0)
softfloat_shortShiftRightJam128(a, dist) ==
    uint128(shr(a.v64, dist),
            orBit(shl(a.v64, negDist(dist)) + shr(a.v0, dist), shl(a.v0, negDist(dist)) # 0))
softfloat_shortShiftRightJam64Extra(a, extra, dist) ==
    [v |-> shr(a, dist), extra |-> orBit(shl(a, negDist(dist)), extra # 0)]
softfloat_shortShiftRightJam128Extra(a, extra, dist) ==
    [v |-> softfloat_shortShiftRight128(a, dist), extra |-> orBit(shl(a.v0, negDist(dist)), extra # 0)]

(* Shifts by any distance                                                                  *)

softfloat_shiftRightJam32(a, dist) ==
    IF dist < HalfBits - 1 THEN orBit(shr(a, dist), (a * 2^((-dist) % HalfBits)) % Half # 0) ELSE bit(a # 0)
softfloat_shiftRightJam64(a, dist) ==
    IF dist < WordBits - 1 THEN orBit(shr(a, dist), shl(a, negDist(dist)) # 0) ELSE bit(a # 0)

softfloat_shiftRightJam64Extra(a, extra, dist) ==
    LET z == IF dist < WordBits THEN [v |-> shr(a, dist), extra |-> shl(a, negDist(dist))]
             ELSE [v |-> 0, extra |-> IF dist = WordBits THEN a ELSE bit(a # 0)]
    IN  [z EXCEPT !.extra = orBit(@, extra # 0)]

softfloat_shiftRightJam128(a, dist) ==
    LET far == dist % WordBits
    IN  CASE dist < WordBits -> softfloat_shortShiftRightJam128(a, dist)
          [] dist \in WordBits..(2 * WordBits - 2) ->
                 uint128(0, orBit(shr(a.v64, far), a.v64 % 2^far # 0 \/ a.v0 # 0))
          [] dist > 2 * WordBits - 2 -> uint128(0, bit(a.v64 # 0 \/ a.v0 # 0))

softfloat_shiftRightJam128Extra(a, extra, dist) ==
    LET z == CASE dist < WordBits ->
                      [v |-> softfloat_shortShiftRight128(a, dist), extra |-> shl(a.v0, negDist(dist)), rest |-> extra]
               [] dist = WordBits -> [v |-> uint128(0, a.v64), extra |-> a.v0, rest |-> extra]
               [] dist \in (WordBits + 1)..(2 * WordBits - 1) ->
                      [v |-> uint128(0, shr(a.v64, dist % WordBits)), extra |-> shl(a.v64, negDist(dist)),
                       rest |-> extra + a.v0]
               [] dist >= 2 * WordBits ->
                      [v |-> uint128(0, 0), extra |-> IF dist = 2 * WordBits THEN a.v64 ELSE bit(a.v64 # 0),
                       rest |-> extra + a.v0]
    IN  [v |-> z.v, extra |-> orBit(z.extra, z.rest # 0)]

(* The words of a number, lowest first, shifted by less than a word.                       *)
softfloat_shortShiftRightJamM(words, dist) ==
    [i \in 1..Len(words) |->
        LET part == IF i = 1 THEN orBit(shr(words[1], dist), words[1] % 2^dist # 0) ELSE shr(words[i], dist)
        IN  IF i < Len(words) THEN shl(words[i + 1], negDist(dist)) + (part % 2^(WordBits - dist)) ELSE part]

softfloat_shiftRightJam256M(words, dist) ==
    LET wordDist  == IF dist \div WordBits > 4 THEN 4 ELSE dist \div WordBits
        wordJam   == \E i \in 1..wordDist : words[i] # 0
        innerDist == dist % WordBits
        rest      == SubSeq(words, wordDist + 1, 4)
        moved     == IF innerDist = 0 \/ rest = <<>> THEN rest ELSE softfloat_shortShiftRightJamM(rest, innerDist)
        z         == [i \in 1..4 |-> IF i <= Len(moved) THEN moved[i] ELSE 0]
    IN  [z EXCEPT ![1] = orBit(@, wordJam)]

-----------------------------------------------------------------------------
(* Sums and products of several words                                                     *)

softfloat_add256M(a, b) ==
    LET step[i \in 0..4] ==           \* <<carry, word>>
            IF i = 0 THEN <<0, 0>>
            ELSE LET carry == step[i - 1][1]
                     z == (a[i] + b[i] + carry) % WORD
                 IN  <<IF z # a[i] THEN bit(z < a[i]) ELSE carry, z>>
    IN  [i \in 1..4 |-> step[i][2]]

softfloat_sub256M(a, b) ==
    LET step[i \in 0..4] ==           \* <<borrow, word>>
            IF i = 0 THEN <<0, 0>>
            ELSE LET borrow == step[i - 1][1]
                 IN  <<bit(IF borrow = 1 THEN a[i] <= b[i] ELSE a[i] < b[i]), (a[i] - b[i] - borrow) % WORD>>
    IN  [i \in 1..4 |-> step[i][2]]

softfloat_mul64ByShifted32To128(a, b) ==
    LET mid == (a % Half) * b IN uint128((a \div Half) * b + mid \div Half, shl(mid, HalfBits))

softfloat_mul64To128(a, b) ==
    LET mid1 == (a \div Half) * (b % Half)
        mid  == (mid1 + (a % Half) * (b \div Half)) % WORD
        low  == shl(mid, HalfBits)
        v0   == ((a % Half) * (b % Half) + low) % WORD
    IN  uint128(((a \div Half) * (b \div Half) + bit(mid < mid1) * Half + mid \div Half + bit(v0 < low)) % WORD, v0)

softfloat_mul128By32(a, b) ==
    LET v0    == (a.v0 * b) % WORD
        mid   == (a.v0 \div Half) * b
        carry == (v0 \div Half - mid) % Half
    IN  uint128((a.v64 * b + (mid + carry) \div Half) % WORD, v0)

softfloat_mul128To256M(a, b) ==
    LET p0   == softfloat_mul64To128(a.v0, b.v0)
        p64  == softfloat_mul64To128(a.v64, b.v0)
        z64  == (p64.v0 + p0.v64) % WORD
        z128 == p64.v64 + bit(z64 < p64.v0)
        p128 == softfloat_mul64To128(a.v64, b.v64)
        y128 == (z128 + p128.v0) % WORD
        z192 == p128.v64 + bit(y128 < p128.v0)
        q64  == softfloat_mul64To128(a.v0, b.v64)
        y64  == (z64 + q64.v0) % WORD
        up   == q64.v64 + bit(y64 < q64.v0)
        x128 == (y128 + up) % WORD
    IN  <<p0.v0, y64, x128, (z192 + bit(x128 < up)) % WORD>>

-----------------------------------------------------------------------------
(* Leading zeros: half the word at a time, then from the table of 8-bit counts.             *)

countOf(w, a) == CHOOSE n \in 0..w : a < 2^(w - n) /\ (n = w \/ a >= 2^(w - n - 1))

softfloat_countLeadingZeros64(a) ==
    LET high == a \div Half
    IN  IF high = 0 THEN HalfBits + countOf(HalfBits, a) ELSE countOf(HalfBits, high)
=============================================================================
