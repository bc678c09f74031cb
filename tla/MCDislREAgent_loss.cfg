CONSTANTS
    t1 = t1
    t2 = t2
    Threads <- MCThreads
    OrderIds <- MCOrderIds
    NBuffers = 4
    NUtility = 1
    AnalysisCount = 2
    MaxCalls = 1
    MaxMethods = 0
    DaemonActivity = TRUE
    NULL = NULL
    NoThread = NoThread
SPECIFICATION Spec
CHECK_DEADLOCK FALSE
INVARIANT LossReported
