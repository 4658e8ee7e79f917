CONSTANTS
    wasm_page_size = 6
    maximum_linear_memory = 12
    maximum_linear_memory_init = 6
    maximum_table_elements = 2
    maximum_mutable_globals = 12
    maximum_func_local_bytes = 32
    maximum_depth = 4
    Width = 64
    GasWidth = 1024
    Byte = {0, 1, 2}
    HashSize = 2
    AddressSize = 2
    WideSize = 3
    max_assert_message = 1
    ActionData <- MCActionData
    Addresses <- MCAddresses
    Prices <- MCPrices
    NameLength = 3
    Symbols = 4
    LastSymbols = 2
    Modules <- MCModules
    GasLimits = {7, 20, 1023}
    Pointers <- MCPointers
    Lengths <- MCLengths
    RefPointers <- MCRefPointers
    Amounts <- MCAmounts
    StoreAddresses = {5}
    MaxCalls = 1
SPECIFICATION Spec
INVARIANTS
    ValidatedHolds
    FailureLeavesNoTrace
    MemoryExact
    NoFreeCallbacks
    PrintedNamesReadBack
CHECK_DEADLOCK FALSE
