CONSTANTS
    Types <- MCTypes
    Functions <- MCFunctions
    Globals <- MCGlobals
    Table <- MCTable
    HasTable = TRUE
    HasMemory = TRUE
    ByteBits = 1
    MemorySize = 12
    Fuel = 24
    MaxHeight = 3
    MaxTrailing = 1
    Bodies <- MCBodies
SPECIFICATION Spec
INVARIANTS
    ValidCodeEmits
    CompiledFaithfully
CHECK_DEADLOCK FALSE
