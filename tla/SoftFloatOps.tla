---------------------------- MODULE SoftFloatOps ----------------------------
(* The functions of softfloat.h and internals.h, under their own names: each one is the    *)
(* operation of SoftFloat at its format.  Signed integers are integers; an unsigned one is *)
(* a natural number; I32 and I64 are as wide as the words of F32 and F64.                  *)
EXTENDS SoftFloat

W32 == Word(F32)
W64 == Word(F64)

-----------------------------------------------------------------------------
(* The steps that the operations share                                                   *)

softfloat_propagateNaNF16UI(a, b) == propagateNaNUI(F16, a, b)
softfloat_f16UIToCommonNaN(a) == toCommonNaN(F16, a)
softfloat_commonNaNToF16UI(nan) == fromCommonNaN(F16, nan)
softfloat_normSubnormalF16Sig(sig) == normSubnormalSig(F16, sig)
softfloat_roundPackToF16(sign, exp, sig) == roundPack(F16, sign, exp, sig)
softfloat_normRoundPackToF16(sign, exp, sig) == normRoundPack(F16, sign, exp, sig)
softfloat_addMagsF16(a, b) == addMagsF16(F16, a, b)
softfloat_subMagsF16(a, b) == subMagsF16(F16, a, b)
softfloat_mulAddF16(a, b, c, op) == mulAdd(F16, a, b, c, op)

softfloat_propagateNaNF32UI(a, b) == propagateNaNUI(F32, a, b)
softfloat_f32UIToCommonNaN(a) == toCommonNaN(F32, a)
softfloat_commonNaNToF32UI(nan) == fromCommonNaN(F32, nan)
softfloat_normSubnormalF32Sig(sig) == normSubnormalSig(F32, sig)
softfloat_roundPackToF32(sign, exp, sig) == roundPack(F32, sign, exp, sig)
softfloat_normRoundPackToF32(sign, exp, sig) == normRoundPack(F32, sign, exp, sig)
softfloat_addMagsF32(a, b) == addMags(F32, a, b)
softfloat_subMagsF32(a, b) == subMags(F32, a, b)
softfloat_mulAddF32(a, b, c, op) == mulAdd(F32, a, b, c, op)

softfloat_propagateNaNF64UI(a, b) == propagateNaNUI(F64, a, b)
softfloat_f64UIToCommonNaN(a) == toCommonNaN(F64, a)
softfloat_commonNaNToF64UI(nan) == fromCommonNaN(F64, nan)
softfloat_normSubnormalF64Sig(sig) == normSubnormalSig(F64, sig)
softfloat_roundPackToF64(sign, exp, sig) == roundPack(F64, sign, exp, sig)
softfloat_normRoundPackToF64(sign, exp, sig) == normRoundPack(F64, sign, exp, sig)
softfloat_addMagsF64(a, b) == addMags(F64, a, b)
softfloat_subMagsF64(a, b) == subMags(F64, a, b)
softfloat_mulAddF64(a, b, c, op) == mulAdd(F64, a, b, c, op)

softfloat_propagateNaNF128UI(a, b) == propagateNaNUI(F128, a, b)
softfloat_f128UIToCommonNaN(a) == toCommonNaN(F128, a)
softfloat_commonNaNToF128UI(nan) == fromCommonNaN(F128, nan)
softfloat_normSubnormalF128Sig(sig) == normSubnormalSig(F128, sig)
softfloat_roundPackToF128(sign, exp, sig) == roundPack(F128, sign, exp, sig)
softfloat_normRoundPackToF128(sign, exp, sig) == normRoundPack(F128, sign, exp, sig)
softfloat_addMagsF128(a, b) == addMags(F128, a, b)
softfloat_subMagsF128(a, b) == subMags(F128, a, b)
softfloat_mulAddF128(a, b, c, op) == mulAddQuad(F128, a, b, c, op)

softfloat_roundToI32(sign, sig, roundingMode, exact) == roundToInteger(sign, sig, roundingMode, exact, W32, TRUE)
softfloat_roundToUI32(sign, sig, roundingMode, exact) == roundToInteger(sign, sig, roundingMode, exact, W32, FALSE)
softfloat_roundToI64(sign, sig, roundingMode, exact) == roundToInteger(sign, sig, roundingMode, exact, W64, TRUE)
softfloat_roundToUI64(sign, sig, roundingMode, exact) == roundToInteger(sign, sig, roundingMode, exact, W64, FALSE)

-----------------------------------------------------------------------------
(* Arithmetic                                                                            *)

f16_add(a, b) == IF signUI(F16, a) = signUI(F16, b) THEN softfloat_addMagsF16(a, b) ELSE softfloat_subMagsF16(a, b)
f16_sub(a, b) == IF signUI(F16, a) = signUI(F16, b) THEN softfloat_subMagsF16(a, b) ELSE softfloat_addMagsF16(a, b)
f16_mul(a, b) == mul(F16, a, b)
f16_div(a, b) == div("half", F16, a, b)
f16_rem(a, b) == rem("half", F16, a, b)
f16_sqrt(a) == sqrt("half", F16, a)
f16_mulAdd(a, b, c) == softfloat_mulAddF16(a, b, c, "add")
f16_roundToInt(a, roundingMode, exact) == roundToInt(F16, a, roundingMode, exact)

f32_add(a, b) == IF signUI(F32, a) = signUI(F32, b) THEN softfloat_addMagsF32(a, b) ELSE softfloat_subMagsF32(a, b)
f32_sub(a, b) == IF signUI(F32, a) = signUI(F32, b) THEN softfloat_subMagsF32(a, b) ELSE softfloat_addMagsF32(a, b)
f32_mul(a, b) == mul(F32, a, b)
f32_div(a, b) == div("single", F32, a, b)
f32_rem(a, b) == rem("single", F32, a, b)
f32_sqrt(a) == sqrt("single", F32, a)
f32_mulAdd(a, b, c) == softfloat_mulAddF32(a, b, c, "add")
f32_roundToInt(a, roundingMode, exact) == roundToInt(F32, a, roundingMode, exact)

f64_add(a, b) == IF signUI(F64, a) = signUI(F64, b) THEN softfloat_addMagsF64(a, b) ELSE softfloat_subMagsF64(a, b)
f64_sub(a, b) == IF signUI(F64, a) = signUI(F64, b) THEN softfloat_subMagsF64(a, b) ELSE softfloat_addMagsF64(a, b)
f64_mul(a, b) == mul(F64, a, b)
f64_div(a, b) == div("double", F64, a, b)
f64_rem(a, b) == rem("double", F64, a, b)
f64_sqrt(a) == sqrt("double", F64, a)
f64_mulAdd(a, b, c) == softfloat_mulAddF64(a, b, c, "add")
f64_roundToInt(a, roundingMode, exact) == roundToInt(F64, a, roundingMode, exact)

f128_add(a, b) == IF signUI(F128, a) = signUI(F128, b) THEN softfloat_addMagsF128(a, b) ELSE softfloat_subMagsF128(a, b)
f128_sub(a, b) == IF signUI(F128, a) = signUI(F128, b) THEN softfloat_subMagsF128(a, b) ELSE softfloat_addMagsF128(a, b)
f128_mul(a, b) == mul(F128, a, b)
f128_div(a, b) == div("quad", F128, a, b)
f128_rem(a, b) == rem("quad", F128, a, b)
f128_sqrt(a) == sqrt("quad", F128, a)
f128_mulAdd(a, b, c) == softfloat_mulAddF128(a, b, c, "add")
f128_roundToInt(a, roundingMode, exact) == roundToInt(F128, a, roundingMode, exact)

-----------------------------------------------------------------------------
(* Comparisons                                                                           *)

f16_eq(a, b) == eq(F16, a, b)
f16_eq_signaling(a, b) == eq_signaling(F16, a, b)
f16_le(a, b) == le(F16, a, b)
f16_le_quiet(a, b) == le_quiet(F16, a, b)
f16_lt(a, b) == lt(F16, a, b)
f16_lt_quiet(a, b) == lt_quiet(F16, a, b)
f16_isSignalingNaN(a) == isSigNaNUI(F16, a)

f32_eq(a, b) == eq(F32, a, b)
f32_eq_signaling(a, b) == eq_signaling(F32, a, b)
f32_le(a, b) == le(F32, a, b)
f32_le_quiet(a, b) == le_quiet(F32, a, b)
f32_lt(a, b) == lt(F32, a, b)
f32_lt_quiet(a, b) == lt_quiet(F32, a, b)
f32_isSignalingNaN(a) == isSigNaNUI(F32, a)

f64_eq(a, b) == eq(F64, a, b)
f64_eq_signaling(a, b) == eq_signaling(F64, a, b)
f64_le(a, b) == le(F64, a, b)
f64_le_quiet(a, b) == le_quiet(F64, a, b)
f64_lt(a, b) == lt(F64, a, b)
f64_lt_quiet(a, b) == lt_quiet(F64, a, b)
f64_isSignalingNaN(a) == isSigNaNUI(F64, a)

f128_eq(a, b) == eq(F128, a, b)
f128_eq_signaling(a, b) == eq_signaling(F128, a, b)
f128_le(a, b) == le(F128, a, b)
f128_le_quiet(a, b) == le_quiet(F128, a, b)
f128_lt(a, b) == lt(F128, a, b)
f128_lt_quiet(a, b) == lt_quiet(F128, a, b)
f128_isSignalingNaN(a) == isSigNaNUI(F128, a)

-----------------------------------------------------------------------------
(* Between floats and integers, and between formats                                      *)

f16_to_i32(a, roundingMode, exact) == toInt(F16, a, roundingMode, exact, W32, TRUE)
f16_to_i32_r_minMag(a, exact) == toInt_r_minMag(F16, a, exact, W32, TRUE)
f16_to_ui32(a, roundingMode, exact) == toInt(F16, a, roundingMode, exact, W32, FALSE)
f16_to_ui32_r_minMag(a, exact) == toInt_r_minMag(F16, a, exact, W32, FALSE)
f16_to_i64(a, roundingMode, exact) == toInt(F16, a, roundingMode, exact, W64, TRUE)
f16_to_i64_r_minMag(a, exact) == toInt_r_minMag(F16, a, exact, W64, TRUE)
f16_to_ui64(a, roundingMode, exact) == toInt(F16, a, roundingMode, exact, W64, FALSE)
f16_to_ui64_r_minMag(a, exact) == toInt_r_minMag(F16, a, exact, W64, FALSE)
f16_to_f32(a) == widen(F16, F32, a)
f16_to_f64(a) == widen(F16, F64, a)
f16_to_f128(a) == widen(F16, F128, a)

f32_to_i32(a, roundingMode, exact) == toInt(F32, a, roundingMode, exact, W32, TRUE)
f32_to_i32_r_minMag(a, exact) == toInt_r_minMag(F32, a, exact, W32, TRUE)
f32_to_ui32(a, roundingMode, exact) == toInt(F32, a, roundingMode, exact, W32, FALSE)
f32_to_ui32_r_minMag(a, exact) == toInt_r_minMag(F32, a, exact, W32, FALSE)
f32_to_i64(a, roundingMode, exact) == toInt(F32, a, roundingMode, exact, W64, TRUE)
f32_to_i64_r_minMag(a, exact) == toInt_r_minMag(F32, a, exact, W64, TRUE)
f32_to_ui64(a, roundingMode, exact) == toInt(F32, a, roundingMode, exact, W64, FALSE)
f32_to_ui64_r_minMag(a, exact) == toInt_r_minMag(F32, a, exact, W64, FALSE)
f32_to_f16(a) == narrow(F32, F16, a)
f32_to_f64(a) == widen(F32, F64, a)
f32_to_f128(a) == widen(F32, F128, a)

f64_to_i32(a, roundingMode, exact) == toInt(F64, a, roundingMode, exact, W32, TRUE)
f64_to_i32_r_minMag(a, exact) == toInt_r_minMag(F64, a, exact, W32, TRUE)
f64_to_ui32(a, roundingMode, exact) == toInt(F64, a, roundingMode, exact, W32, FALSE)
f64_to_ui32_r_minMag(a, exact) == toInt_r_minMag(F64, a, exact, W32, FALSE)
f64_to_i64(a, roundingMode, exact) == toInt(F64, a, roundingMode, exact, W64, TRUE)
f64_to_i64_r_minMag(a, exact) == toInt_r_minMag(F64, a, exact, W64, TRUE)
f64_to_ui64(a, roundingMode, exact) == toInt(F64, a, roundingMode, exact, W64, FALSE)
f64_to_ui64_r_minMag(a, exact) == toInt_r_minMag(F64, a, exact, W64, FALSE)
f64_to_f16(a) == narrow(F64, F16, a)
f64_to_f32(a) == narrow(F64, F32, a)
f64_to_f128(a) == widen(F64, F128, a)

f128_to_i32(a, roundingMode, exact) == toInt(F128, a, roundingMode, exact, W32, TRUE)
f128_to_i32_r_minMag(a, exact) == toInt_r_minMag(F128, a, exact, W32, TRUE)
f128_to_ui32(a, roundingMode, exact) == toInt(F128, a, roundingMode, exact, W32, FALSE)
f128_to_ui32_r_minMag(a, exact) == toInt_r_minMag(F128, a, exact, W32, FALSE)
f128_to_i64(a, roundingMode, exact) == toInt(F128, a, roundingMode, exact, W64, TRUE)
f128_to_i64_r_minMag(a, exact) == toInt_r_minMag(F128, a, exact, W64, TRUE)
f128_to_ui64(a, roundingMode, exact) == toInt(F128, a, roundingMode, exact, W64, FALSE)
f128_to_ui64_r_minMag(a, exact) == toInt_r_minMag(F128, a, exact, W64, FALSE)
f128_to_f16(a) == narrow(F128, F16, a)
f128_to_f32(a) == narrow(F128, F32, a)
f128_to_f64(a) == narrow(F128, F64, a)

i32_to_f16(i) == intToNarrower(F16, i, W32)
i32_to_f32(i) == intToSameWidth(F32, i)
i32_to_f64(i) == intToWider(F64, i, W32)
i32_to_f128(i) == intToWider(F128, i, W32)

ui32_to_f16(i) == intToNarrower(F16, i, W32)
ui32_to_f32(i) == intToSameWidth(F32, i)
ui32_to_f64(i) == intToWider(F64, i, W32)
ui32_to_f128(i) == intToWider(F128, i, W32)

i64_to_f16(i) == intToNarrower(F16, i, W64)
i64_to_f32(i) == intToNarrower(F32, i, W64)
i64_to_f64(i) == intToSameWidth(F64, i)
i64_to_f128(i) == intToWider(F128, i, W64)

ui64_to_f16(i) == intToNarrower(F16, i, W64)
ui64_to_f32(i) == intToNarrower(F32, i, W64)
ui64_to_f64(i) == intToSameWidth(F64, i)
ui64_to_f128(i) == intToWider(F128, i, W64)

=============================================================================
