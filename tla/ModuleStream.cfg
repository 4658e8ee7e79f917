CONSTANTS
    Bits32 = 16
    Bits64 = 22
    Bytes32 = 2
    Bytes64 = 3
    wasm_page_size = 40
    maximum_func_local_bytes = 32
    maximum_section_elements = 4
    maximum_code_size = 120
    maximum_local_sets = 5
    maxTableSize = 65535
    maxMemoryPages = 100
    numBytesPerLine = 2
    SignificandBits32 = 10
    SignificandBits64 = 17
    numBytesPerPage = 4
    Modules <- MCModules
    Fragile <- MCFragile
    DamageBytes <- MCDamageBytes
    UserSection <- MCUserSection
    StreamBytes <- MCStreamBytes
    StreamLength = 4
    Texts <- MCTexts
    DamageTokens <- MCDamageTokens
SPECIFICATION Spec
INVARIANTS
    WrittenReadsBack
    NumbersExact
    TextReadsBack
CHECK_DEADLOCK FALSE
