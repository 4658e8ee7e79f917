CONSTANTS
    small = small  large = large  growing = growing  huge = huge  empty = empty
    f = f  g = g
    None = None
    Contract <- MCContract
    Min <- MCMin
    Max <- MCMax
    ImagePages <- MCImagePages
    MaxMemory = 3
    MaxPages = 4
    Word = 64
    Delta <- MCDelta
    TableMin <- MCTableMin
    Segments <- MCSegments
    Signature = {f, g}
    Index = {0, 1, 2, 3, 4, 5, 6, 9}
    maximum_table_elements = 5
    ElementBytes = 2
    PlatformPage = 4
SPECIFICATION Spec
INVARIANTS
    CommittedExactly
    NoLeftovers
    IndirectCallsDeclared
