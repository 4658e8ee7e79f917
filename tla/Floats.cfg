CONSTANTS
    F16 <- MCF16
    F32 <- MCF32
    F64 <- MCF64
    F128 <- MCF128
    F80 <- MCF80
    W128 = 16
    trap = trap
    Triples16 <- MCTriples16
    Triples32 <- MCTriples32
    Triples64 <- MCTriples64
    Triples128 <- MCTriples128
    TriplesX <- MCTriplesX
    Roots <- MCRoots
    Words <- MCWords
    Ints <- MCInts
    Raw <- MCRaw
    Pairs <- MCPairs
    HalfBits = 2
SPECIFICATION Spec
INVARIANTS
    CorrectlyRounded
    OrderedLikeReals
    ConversionsExact
    WideArithmetic
