CONSTANTS
    main = main
    Threads = {main, t1}
    Lists = {l1, l2, l3}
    nullptr = nullptr
    Values = {0, 1}
    Initial = {0}
    Calls = 4
SPECIFICATION Spec
CHECK_DEADLOCK FALSE
INVARIANT
    LastReferenceDeletes
