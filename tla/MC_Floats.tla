------------------------------ MODULE MC_Floats ------------------------------
(* Narrow formats with the proportions of the real ones.  All operands of half precision,  *)
(* all single ones one by one, and the edges of every format against each other: zeros,     *)
(* the smallest and largest subnormal and normal numbers, numbers around one, around the    *)
(* last odd integers and the bounds of the integers, infinities and both kinds of NaN.      *)
EXTENDS Floats

MCF16  == [e |-> 3, f |-> 2, g |-> 3, w |-> 7, h |-> 8]
MCF32  == [e |-> 5, f |-> 5, g |-> 3, w |-> 13, h |-> 13]
MCF64  == [e |-> 6, f |-> 9, g |-> 3, h |-> 11]
MCF128 == [e |-> 7, f |-> 14, g |-> 5, h |-> 8]
MCF80  == [e |-> 7, s |-> 14, h |-> 10, r |-> 11]

All(F) == 0..(2^Width(F) - 1)
Both(F, P) == P \cup {a + 2^(F.e + F.f) : a \in P}

(* exp, frac of the patterns at the edges.                                                 *)
Edges(F) ==
    {x[1] * 2^F.f + x[2] : x \in
        {0, ExpMax(F)} \X {0, 1, 2^(F.f - 1), 2^F.f - 1}
        \cup {1, ExpMax(F) - 1, Bias(F)} \X {0, 1, 2^F.f - 1}
        \cup {Bias(F) - 1, Bias(F) + F.f, Bias(F) + F.f - 1} \X {0, 1}
        \cup {Bias(F) + 1} \X {2^(F.f - 1), 2^(F.f - 1) + 1}}

MCTriples16 == All(F16) \X All(F16) \X {0, 45}
MCTriples32 == {<<a, a, a>> : a \in All(F32)} \cup (Both(F32, Edges(F32)) \X Edges(F32) \X {0})
(* Every binade up to the widest integers.                                                 *)
Scale(F) == {x[1] * 2^F.f + x[2] : x \in ((Bias(F) - 2)..(Bias(F) + W128 + 1)) \X
                                          {0, 1, 2, 2^(F.f - 1) - 1, 2^(F.f - 1), 2^(F.f - 1) + 1, 2^F.f - 1}}

(* Quotients of significands spread over the binade, and of neighbours.                     *)
Spread(F, n) == {(i * (2 * (2^F.f \div (2 * n)) + 1)) % 2^F.f : i \in 0..(n - 1)}
Ratios(F) == {<<Bias(F) * 2^F.f + x, Bias(F) * 2^F.f + y, 0>> : x \in Spread(F, 16), y \in Spread(F, 13)}

MCTriples64 == (Both(F64, Edges(F64)) \X Edges(F64) \X {0}) \cup {<<a, a, a>> : a \in Both(F64, Scale(F64))}
               \cup Ratios(F64)
MCTriples128 == (Both(F128, Edges(F128)) \X Edges(F128) \X {0}) \cup {<<a, a, a>> : a \in Both(F128, Scale(F128))}
                \cup Ratios(F128)
MCTriplesX == (Both(FX, Edges(FX)) \X Edges(FX) \X {0}) \cup {<<a, a, a>> : a \in Both(FX, Scale(FX))}
              \cup Ratios(FX)

(* Squares and their neighbours, where a root is close to deciding the rounding, and others, *)
(* with an even and an odd exponent.                                                        *)
Squares(F) == {k * k + d - 2^F.f : k \in 2^(F.f \div 2)..(2^((F.f + 1) \div 2 + 1)), d \in {-1, 0, 1}} \cap 0..(2^F.f - 1)
RootsOf(F, fracs) == Both(F, Edges(F)) \cup {(Bias(F) + e) * 2^F.f + x : e \in {0, 1}, x \in fracs}
MCRoots ==
    {"f16Root"} \X RootsOf(RealF16, 0..1023)
    \cup {"f32Root"} \X All(F32)
    \cup {"f64Root"} \X RootsOf(F64, 0..(2^F64.f - 1))
    \cup {"f128Root"} \X RootsOf(F128, Squares(F128) \cup Spread(F128, 200))
    \cup {"extRoot"} \X RootsOf(FX, Squares(FX) \cup Spread(FX, 200))
MCWords == {0, 1, 3, 255} \X {0, 1, 127, 128, 255} \X {0, 1, 2, 7, 255} \X {0, 1, 128, 255}
MCInts ==
    UNION {{2^k - 1, 2^k, 2^k + 1, -(2^k) - 1, -(2^k), 1 - 2^k, 3 * 2^k + 1} : k \in 0..(W128 - 1)} \cup -70..70
MCRaw == {0, 1} \X (-12..2 \cup {6, 7, 28, 29, 30, 31, 60, 61, 62}) \X {1, 2, 3, 4, 5, 8, 13, 2^7 - 1, 2^10 + 5}
MCPairs == (0..15) \X (0..15) \X {0, 1, 15} \X {0, 1, 8, 15}
=============================================================================
