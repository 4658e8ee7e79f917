------------------------------- MODULE FloatApi -------------------------------
(* What contracts call instead of floating-point instructions: the intrinsics of           *)
(* softfloat_api that the injection pass (ImportInjection) puts in the place of every float *)
(* operator, the compiler_builtins for 128-bit integers and floats, and the intrinsics of   *)
(* the runtime itself that the JIT calls for an operator that was not replaced.             *)
(*                                                                                         *)
(* A float is its pattern.  An intrinsic that throws returns trap; the exceptions that      *)
(* softfloat raises are dropped, as in the code.  The gas that the compiler_builtins charge *)
(* before they compute is use_gas in Execution.                                             *)
EXTENDS SoftFloatOps

CONSTANTS W128,      \* bits of __int128: 128
          trap       \* an exception instead of a value

(* The largest exponent of F32 is the last one an integer of W128 bits has room for, and    *)
(* the bounds of the integers of W64 bits are numbers of F32.                               *)
ASSUME WideAssumption ==
    W128 = Bias(F32) + 1 /\ W64 <= Bias(F32) /\ W128 % 2 = 0 /\ W128 > F64.f + 3

negate(F, a)   == a + (IF signUI(F, a) = 1 THEN -1 ELSE 1) * 2^(Width(F) - 1)
absolute(F, a) == a % 2^(Width(F) - 1)
power(F, k)    == packToUI(F, 0, Bias(F) + k, 0)                     \* 2^k: 2147483648.0f

-----------------------------------------------------------------------------
(* Operators on two floats                                                               *)

minOf(F, a, b) ==
    CASE isNaNUI(F, a) -> a
      [] ~isNaNUI(F, a) /\ isNaNUI(F, b) -> b
      [] ~isNaNUI(F, a) /\ ~isNaNUI(F, b) ->
             IF mixed(F, a, b) THEN (IF signUI(F, a) = 1 THEN a ELSE b)
             ELSE IF lt(F, a, b).ui THEN a ELSE b

maxOf(F, a, b) ==
    CASE isNaNUI(F, a) -> a
      [] ~isNaNUI(F, a) /\ isNaNUI(F, b) -> b
      [] ~isNaNUI(F, a) /\ ~isNaNUI(F, b) ->
             IF mixed(F, a, b) THEN (IF signUI(F, a) = 1 THEN b ELSE a)
             ELSE IF lt(F, a, b).ui THEN b ELSE a

(* Fault: a NaN is not looked for, and is greater than everything.                        *)
geFault(F, a, b) == ~lt(F, a, b).ui

gt(F, a, b) == ~isNaNUI(F, a) /\ ~isNaNUI(F, b) /\ ~le(F, a, b).ui
ge(F, a, b) == ~isNaNUI(F, a) /\ ~isNaNUI(F, b) /\ ~lt(F, a, b).ui

copysign(F, a, b) == absolute(F, a) + signUI(F, b) * 2^(Width(F) - 1)

_eosio_f32_add(a, b)      == f32_add(a, b).ui
_eosio_f32_sub(a, b)      == f32_sub(a, b).ui
_eosio_f32_div(a, b)      == f32_div(a, b).ui
_eosio_f32_mul(a, b)      == f32_mul(a, b).ui
_eosio_f32_min(a, b)      == minOf(F32, a, b)
_eosio_f32_max(a, b)      == maxOf(F32, a, b)
_eosio_f32_copysign(a, b) == copysign(F32, a, b)
_eosio_f32_abs(a)         == absolute(F32, a)
_eosio_f32_neg(a)         == negate(F32, a)
_eosio_f32_sqrt(a)        == f32_sqrt(a).ui
_eosio_f32_eq(a, b)       == f32_eq(a, b).ui
_eosio_f32_ne(a, b)       == ~f32_eq(a, b).ui
_eosio_f32_lt(a, b)       == f32_lt(a, b).ui
_eosio_f32_le(a, b)       == f32_le(a, b).ui
_eosio_f32_gt(a, b)       == gt(F32, a, b)
_eosio_f32_ge(a, b)       == ge(F32, a, b)

_eosio_f64_add(a, b)      == f64_add(a, b).ui
_eosio_f64_sub(a, b)      == f64_sub(a, b).ui
_eosio_f64_div(a, b)      == f64_div(a, b).ui
_eosio_f64_mul(a, b)      == f64_mul(a, b).ui
_eosio_f64_min(a, b)      == minOf(F64, a, b)
_eosio_f64_max(a, b)      == maxOf(F64, a, b)
_eosio_f64_copysign(a, b) == copysign(F64, a, b)
_eosio_f64_abs(a)         == absolute(F64, a)
_eosio_f64_neg(a)         == negate(F64, a)
_eosio_f64_sqrt(a)        == f64_sqrt(a).ui
_eosio_f64_eq(a, b)       == f64_eq(a, b).ui
_eosio_f64_ne(a, b)       == ~f64_eq(a, b).ui
_eosio_f64_lt(a, b)       == f64_lt(a, b).ui
_eosio_f64_le(a, b)       == f64_le(a, b).ui
_eosio_f64_gt(a, b)       == gt(F64, a, b)
_eosio_f64_ge(a, b)       == ge(F64, a, b)

-----------------------------------------------------------------------------
(* To an integer of the same format.  The single ones, and the truncations, mask the       *)
(* fraction bits below the point; the double ones, and nearest, add 2^52 (2^23) and take    *)
(* it away again, and correct the result if it lies on the wrong side.                     *)

exponentOf(F, a) == expUI(F, a) - Bias(F)
belowPoint(F, a) == 2^(F.f - exponentOf(F, a))                        \* m + 1
masked(v, m)     == (v \div m) * m                                    \* v & ~m
inv_eps(F)       == power(F, F.f)                                     \* inv_float_eps

(* up: a sign whose magnitudes are rounded up.                                            *)
maskTo(F, a, up, small) ==
    LET e == exponentOf(F, a)
        m == belowPoint(F, a)
    IN  CASE e >= F.f -> a
          [] e \in 0..(F.f - 1) ->
                 IF a % m = 0 THEN a ELSE masked(IF signUI(F, a) = up THEN a + m - 1 ELSE a, m)
          [] e < 0 -> IF isZero(F, a) \/ signUI(F, a) # up THEN packToUI(F, signUI(F, a), 0, 0) ELSE small

_eosio_f32_ceil(a)  == maskTo(F32, a, 0, power(F32, 0))
_eosio_f32_floor(a) == maskTo(F32, a, 1, negate(F32, power(F32, 0)))

truncate(F, a) ==
    LET e == exponentOf(F, a)
    IN  IF e >= F.f THEN a
        ELSE IF e < 0 THEN packToUI(F, signUI(F, a), 0, 0) ELSE masked(a, belowPoint(F, a))

_eosio_f32_trunc(a) == truncate(F32, a)
_eosio_f64_trunc(a) == truncate(F64, a)

(* Out to where the numbers are integers and back.                                        *)
thereAndBack(F, a, add(_, _), sub(_, _)) ==
    IF signUI(F, a) = 1 THEN add(sub(a, inv_eps(F)).ui, inv_eps(F)).ui
    ELSE sub(add(a, inv_eps(F)).ui, inv_eps(F)).ui

nearest(F, a, add(_, _), sub(_, _)) ==
    LET signed(y) == IF eq(F, y, 0).ui THEN packToUI(F, signUI(F, a), 0, 0) ELSE y
    IN  IF exponentOf(F, a) >= F.f THEN a ELSE signed(thereAndBack(F, a, add, sub))

_eosio_f32_nearest(a) == nearest(F32, a, f32_add, f32_sub)
_eosio_f64_nearest(a) == nearest(F64, a, f64_add, f64_sub)

(* int(a) - a, and a moved by it.                                                         *)
moveTo(a, y) == [y |-> y, ret |-> f64_add(a, y).ui]
moveToIntegral(a) == moveTo(a, f64_sub(thereAndBack(F64, a, f64_add, f64_sub), a).ui)

_eosio_f64_ceil(a) ==
    LET correct(m) == IF f64_lt(m.y, 0).ui THEN f64_add(m.ret, power(F64, 0)).ui ELSE m.ret
    IN  CASE exponentOf(F64, a) >= F64.f \/ f64_eq(a, 0).ui -> a
          [] exponentOf(F64, a) < 0 /\ ~f64_eq(a, 0).ui ->
                 IF signUI(F64, a) = 1 THEN negate(F64, 0) ELSE power(F64, 0)
          [] exponentOf(F64, a) \in 0..(F64.f - 1) -> correct(moveToIntegral(a))

_eosio_f64_floor(a) ==
    LET correct(m) == IF ~f64_le(m.y, 0).ui THEN f64_sub(m.ret, power(F64, 0)).ui ELSE m.ret
    IN  CASE exponentOf(F64, a) >= F64.f \/ isZero(F64, a) -> a
          [] exponentOf(F64, a) < 0 /\ ~isZero(F64, a) ->
                 IF signUI(F64, a) = 1 THEN negate(F64, power(F64, 0)) ELSE 0
          [] exponentOf(F64, a) \in 0..(F64.f - 1) -> correct(moveToIntegral(a))

-----------------------------------------------------------------------------
(* To and from integers, and between the formats                                         *)

_eosio_f32_promote(a)  == f32_to_f64(a).ui
_eosio_f64_demote(a)   == f64_to_f32(a).ui
_eosio_i32_to_f32(i)   == i32_to_f32(i).ui
_eosio_i64_to_f32(i)   == i64_to_f32(i).ui
_eosio_ui32_to_f32(i)  == ui32_to_f32(i).ui
_eosio_ui64_to_f32(i)  == ui64_to_f32(i).ui
_eosio_i32_to_f64(i)   == i32_to_f64(i).ui
_eosio_i64_to_f64(i)   == i64_to_f64(i).ui
_eosio_ui32_to_f64(i)  == ui32_to_f64(i).ui
_eosio_ui64_to_f64(i)  == ui64_to_f64(i).ui

minusOne(F) == negate(F, power(F, 0))
outOfSigned(F, a, w)   == ge(F, a, power(F, w - 1)) \/ lt(F, a, negate(F, power(F, w - 1))).ui
outOfUnsigned(F, a, w) == ge(F, a, power(F, w)) \/ le(F, a, minusOne(F)).ui

checkedTrunc(F, a, tooLarge, value) == IF tooLarge \/ isNaNUI(F, a) THEN trap ELSE value

_eosio_f32_trunc_i32s(a) ==
    checkedTrunc(F32, a, outOfSigned(F32, a, W32), f32_to_i32(_eosio_f32_trunc(a), "near_even", FALSE).ui)
_eosio_f64_trunc_i32s(a) ==
    checkedTrunc(F64, a, outOfSigned(F64, a, W32), f64_to_i32(_eosio_f64_trunc(a), "near_even", FALSE).ui)
_eosio_f32_trunc_i32u(a) ==
    checkedTrunc(F32, a, outOfUnsigned(F32, a, W32), f32_to_ui32(_eosio_f32_trunc(a), "near_even", FALSE).ui)
_eosio_f64_trunc_i32u(a) ==
    checkedTrunc(F64, a, outOfUnsigned(F64, a, W32), f64_to_ui32(_eosio_f64_trunc(a), "near_even", FALSE).ui)
_eosio_f32_trunc_i64s(a) ==
    checkedTrunc(F32, a, outOfSigned(F32, a, W64), f32_to_i64(_eosio_f32_trunc(a), "near_even", FALSE).ui)
_eosio_f64_trunc_i64s(a) ==
    checkedTrunc(F64, a, outOfSigned(F64, a, W64), f64_to_i64(_eosio_f64_trunc(a), "near_even", FALSE).ui)
_eosio_f32_trunc_i64u(a) ==
    checkedTrunc(F32, a, outOfUnsigned(F32, a, W64), f32_to_ui64(_eosio_f32_trunc(a), "near_even", FALSE).ui)
_eosio_f64_trunc_i64u(a) ==
    checkedTrunc(F64, a, outOfUnsigned(F64, a, W64), f64_to_ui64(_eosio_f64_trunc(a), "near_even", FALSE).ui)

-----------------------------------------------------------------------------
(* 128-bit integers, passed as two words.  A signed one is an integer.                    *)

H128 == W128 \div 2                                                  \* 64
wrap(i)  == ((i + 2^(W128 - 1)) % 2^W128) - 2^(W128 - 1)              \* as __int128

int128(low, high)  == wrap(high * 2^H128 + low)
unsigned128(low, high) == high * 2^H128 + low
widened(low, high) == (high \div 2^H128) + low                       \* (high >> 64) | low

ashrti3(low, high, shift) == int128(low, high) \div 2^shift
ashlti3(low, high, shift) == wrap(widened(low, high) * 2^shift)
lshlti3(low, high, shift) == wrap(widened(low, high) * 2^shift)
lshrti3(low, high, shift) == widened(low, high) \div 2^shift

(* C divides toward zero.  The quotient of the smallest integer by -1 is itself.          *)
toZero(i, j) == LET q == magnitude(i) \div magnitude(j) IN IF (i < 0) = (j < 0) THEN q ELSE -q

divti3(la, ha, lb, hb) ==
    IF int128(lb, hb) = 0 THEN trap ELSE wrap(toZero(int128(la, ha), int128(lb, hb)))
modti3(la, ha, lb, hb) ==
    IF int128(lb, hb) = 0 THEN trap
    ELSE int128(la, ha) - toZero(int128(la, ha), int128(lb, hb)) * int128(lb, hb)
udivti3(la, ha, lb, hb) == IF unsigned128(lb, hb) = 0 THEN trap ELSE unsigned128(la, ha) \div unsigned128(lb, hb)
umodti3(la, ha, lb, hb) == IF unsigned128(lb, hb) = 0 THEN trap ELSE unsigned128(la, ha) % unsigned128(lb, hb)
multi3(la, ha, lb, hb)  == wrap(int128(la, ha) * int128(lb, hb))

(* A float to a 128-bit integer: toward zero, NaNs like infinities.                       *)
fixti(F, a) ==
    LET sign == IF signUI(F, a) = 1 THEN -1 ELSE 1
        exponent == exponentOf(F, a)
        significand == fracUI(F, a) + Hidden(F)
        shift == exponent - F.f
    IN  CASE exponent < 0 -> 0
          [] exponent >= W128 -> IF sign = 1 THEN 2^(W128 - 1) - 1 ELSE -(2^(W128 - 1))
          [] exponent \in 0..(W128 - 1) ->
                 wrap(sign * (IF shift < 0 THEN significand \div 2^(-shift) ELSE significand * 2^shift))

fixunsti(F, a) ==
    LET exponent == exponentOf(F, a)
        significand == fracUI(F, a) + Hidden(F)
        shift == exponent - F.f
    IN  CASE exponent < 0 \/ signUI(F, a) = 1 -> 0
          [] exponent >= W128 /\ signUI(F, a) = 0 -> 2^W128 - 1
          [] exponent \in 0..(W128 - 1) /\ signUI(F, a) = 0 ->
                 IF shift < 0 THEN significand \div 2^(-shift) ELSE significand * 2^shift

___fixsfti(a)    == fixti(F32, a)
___fixdfti(a)    == fixti(F64, a)
___fixtfti(a)    == fixti(F128, a)
___fixunssfti(a) == fixunsti(F32, a)
___fixunsdfti(a) == fixunsti(F64, a)
___fixunstfti(a) == fixunsti(F128, a)

clzti2(a) == countLeadingZeros(W128, a)

(* A 128-bit integer to a double, to the nearest, ties to even: the leading bits, then a   *)
(* bit for what is half a unit and one for all the rest.                                  *)
roundBits(s, a, tieBit(_)) ==
    LET digits == F64.f + 1                                          \* DBL_MANT_DIG
        sd  == W128 - clzti2(a)
        PQR == IF sd = digits + 1 THEN 2 * a
               ELSE LET d == sd - (digits + 2) IN jam(a \div 2^d, a % 2^d # 0)
        r   == (tieBit(PQR) + 1) \div 4
        carry == r >= 2^digits
    IN  CASE a = 0 -> 0
          [] a # 0 /\ sd <= digits -> packToUI(F64, s, Bias(F64) + sd - 2, a * 2^(digits - sd))
          [] a # 0 /\ sd > digits ->
                 packToUI(F64, s, Bias(F64) + sd - 2 + (IF carry THEN 1 ELSE 0),
                          IF carry THEN r \div 2 ELSE r)

orPintoR(PQR) == jam(PQR, (PQR \div 4) % 2 = 1)

___floattidf(a) == roundBits(signOf(a), magnitude(a), orPintoR)
___floatuntidf(a) == roundBits(0, a, orPintoR)

(* Called by a contract with the words of the integer.                                     *)
floattidf(low, high)   == ___floattidf(wrap(widened(low, high)))
floatuntidf(low, high) == ___floatuntidf(widened(low, high))

-----------------------------------------------------------------------------
(* Quadruple precision                                                                   *)

unordtf2(a, b) == IF isNaNUI(F128, a) \/ isNaNUI(F128, b) THEN 1 ELSE 0

___cmptf2(a, b, return_value_if_nan) ==
    CASE unordtf2(a, b) = 1 -> return_value_if_nan
      [] unordtf2(a, b) = 0 ->
             IF f128_lt(a, b).ui THEN -1 ELSE IF f128_eq(a, b).ui THEN 0 ELSE 1

eqtf2(a, b) == ___cmptf2(a, b, 1)
netf2(a, b) == ___cmptf2(a, b, 1)
getf2(a, b) == ___cmptf2(a, b, -1)
gttf2(a, b) == ___cmptf2(a, b, 0)
letf2(a, b) == ___cmptf2(a, b, 1)
lttf2(a, b) == ___cmptf2(a, b, 0)
cmptf2(a, b) == ___cmptf2(a, b, 1)

addtf3(a, b) == f128_add(a, b).ui
subtf3(a, b) == f128_sub(a, b).ui
multf3(a, b) == f128_mul(a, b).ui
divtf3(a, b) == f128_div(a, b).ui
negtf2(a)    == negate(F128, a)
extendsftf2(a) == f32_to_f128(a).ui
extenddftf2(a) == f64_to_f128(a).ui
trunctfdf2(a)  == f128_to_f64(a).ui
trunctfsf2(a)  == f128_to_f32(a).ui
fixtfsi(a)     == f128_to_i32(a, "near_even", FALSE).ui
fixtfdi(a)     == f128_to_i64(a, "near_even", FALSE).ui
fixunstfsi(a)  == f128_to_ui32(a, "near_even", FALSE).ui
fixunstfdi(a)  == f128_to_ui64(a, "near_even", FALSE).ui
floatsidf(i)   == i32_to_f64(i).ui
floatsitf(i)   == i32_to_f128(i).ui
floatditf(i)   == i64_to_f128(i).ui
floatunsitf(i) == ui32_to_f128(i).ui
floatunditf(i) == ui64_to_f128(i).ui

-----------------------------------------------------------------------------
(* The intrinsics of the runtime (WAVMIntrinsics), on floats of the host: its comparisons  *)
(* and its ceil, floor, trunc and nearbyint are those of IEEE 754.                         *)

quietNaN(F, a) == quiet(F, a)

floatMin(F, left, right) ==
    CASE isNaNUI(F, left) -> quietNaN(F, left)
      [] ~isNaNUI(F, left) /\ isNaNUI(F, right) -> quietNaN(F, right)
      [] ~isNaNUI(F, left) /\ ~isNaNUI(F, right) ->
             IF ltUI(F, left, right) THEN left ELSE IF ltUI(F, right, left) THEN right
             ELSE IF left < right THEN right ELSE left

floatMax(F, left, right) ==
    CASE isNaNUI(F, left) -> quietNaN(F, left)
      [] ~isNaNUI(F, left) /\ isNaNUI(F, right) -> quietNaN(F, right)
      [] ~isNaNUI(F, left) /\ ~isNaNUI(F, right) ->
             IF ltUI(F, right, left) THEN left ELSE IF ltUI(F, left, right) THEN right
             ELSE IF left > right THEN right ELSE left

roundHost(F, value, mode) ==
    IF isNaNUI(F, value) THEN quietNaN(F, value) ELSE roundToInt(F, value, mode, FALSE).ui

floatCeil(F, value)    == roundHost(F, value, "max")
floatFloor(F, value)   == roundHost(F, value, "min")
floatTrunc(F, value)   == roundHost(F, value, "minMag")
floatNearest(F, value) == roundHost(F, value, "near_even")

floatToInt(F, value, minValue, isMinInclusive, maxValue) ==
    IF \/ isNaNUI(F, value)
       \/ leUI(F, maxValue, value)
       \/ IF isMinInclusive THEN leUI(F, value, minValue) ELSE ltUI(F, value, minValue)
    THEN trap
    ELSE toInt(F, value, "minMag", FALSE, W128, TRUE).ui

floatToSignedInt(F, value, w) ==
    floatToInt(F, value, negate(F, power(F, w - 1)), FALSE, power(F, w - 1))
floatToUnsignedInt(F, value, w) == floatToInt(F, value, minusOne(F), TRUE, power(F, w))
=============================================================================
