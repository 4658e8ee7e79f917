CONSTANTS
    None = None
    Module = {m1, m2}
    Function = {f1, f2}
    Table = {t1}
    Memory = {x1}
    Global = {g1}
    Intrinsic = {g1}
    MaxRoots = 1
SPECIFICATION FairSpec
INVARIANTS
    NoDangling
    IntrinsicsLive
PROPERTIES
    Precise
    CollectionEnds
