CONSTANTS
    t1 = t1
    t2 = t2
    c1 = c1
    c2 = c2
    NULL = NULL
    FreeList = FreeList
    BusyList = BusyList
    Threads <- MCThreads
    Conns <- MCConns
    MaxLoads = 2
    Options <- MCDefaultOptions
    Props <- MCDefaultProps
    CF_CREATE_BYPASS = 1
    CF_DYNAMIC_BYPASS = 2
    CF_SPLIT_METHODS = 4
    CF_CATCH_EXCEPTIONS = 8
    LoadsQuiesceBeforeDeath = FALSE
SPECIFICATION Spec
INVARIANT NoRequestOutlivesNetwork
CHECK_DEADLOCK FALSE
