CONSTANTS
    t1 = t1
    t2 = t2
    Threads <- MCThreads
    OrderIds <- MCOrderIds
    NBuffers = 3
    NUtility = 1
    AnalysisCount = 2
    MaxCalls = 1
    MaxMethods = 0
    DaemonActivity = FALSE
    NULL = NULL
    NoThread = NoThread
SPECIFICATION Spec
CHECK_DEADLOCK FALSE
PROPERTY ShutdownCompletes
