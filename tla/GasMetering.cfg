CONSTANTS
    MaxLen = 5
    Alphabet = {"local", "unreachable", "block", "loop", "if", "else", "end", "br", "br_if", "br_table", "return", "call"}
    MaxLongLen = 7
    LongAlphabet = {"local", "loop", "if", "else", "end", "br_if"}
    Program <- MCProgram
    MaxCalls = 1
    GasLimit = 12
    GasCallBase = 4
SPECIFICATION FairSpec
INVARIANTS
    PaidExactly
PROPERTIES
    Terminates
    Transparent
