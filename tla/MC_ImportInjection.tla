------------------------- MODULE MC_ImportInjection -------------------------
(* Small modules: at most two imports and two functions, three operators.  *)
EXTENDS ImportInjection

CONSTANTS a, b, f, g, useGas, fadd, fmul, t1, t2, MaxCode

MCSig == [n \in {useGas, fadd, fmul} |-> IF n = useGas THEN t1 ELSE t2]

Imports == {<<>>, <<[name |-> a, type |-> 0]>>,
            <<[name |-> a, type |-> 0], [name |-> b, type |-> 0]>>}
Defs == {<<f>>, <<f, g>>}
Ops(imps, ds) == {Call(i, At(imps, ds, i)) : i \in IndexSpace(imps, ds)}
                 \cup {Float(fadd), Float(fmul), Other}
Codes(imps, ds) == UNION {[1..n -> Ops(imps, ds)] : n \in 0..MaxCode}

MCModule ==
    UNION {{[types |-> ts, imports |-> imps, defs |-> ds, exports |-> <<e>>,
             table |-> <<Len(imps), 0>>, start |-> s, code |-> c] :
               ts \in {<<t1>>, <<t2>>, <<t1, t1>>},
               e \in {Len(imps) + Len(ds) - 1}, s \in {None, 0},
               c \in Codes(imps, ds)} :
           imps \in Imports, ds \in Defs}
=============================================================================
