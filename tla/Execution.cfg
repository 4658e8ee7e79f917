CONSTANTS
    token = token  plain = plain  starter = starter  broken = broken
    odd = odd  mute = mute  wide = wide
    o1 = o1  o2 = o2  o3 = o3  o4 = o4
    None = None
    Contract <- MCContract
    Entry <- MCEntry
    HasMemory <- MCHasMemory
    HasStart <- MCHasStart
    Obj <- MCObj
    MaxDepth = 3
    MaxHostCalls = 2
    GasLimit = 3
    GasCallBase = 1
    GasStep = {1}
SPECIFICATION FairSpec
INVARIANTS
    RunningContext
    MemoryIsolation
    NoDangling
    ExitTarget
PROPERTIES
    CallerUntouched
    EveryCallReturns
