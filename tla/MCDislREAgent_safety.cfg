CONSTANTS
    t1 = t1
    t2 = t2
    Threads <- MCThreads
    OrderIds <- MCOrderIds
    NBuffers = 3
    NUtility = 1
    AnalysisCount = 2
    MaxCalls = 2
    MaxMethods = 1
    DaemonActivity = TRUE
    NULL = NULL
    NoThread = NoThread
SPECIFICATION Spec
CHECK_DEADLOCK FALSE
INVARIANT TypeOK BufferPlacement StreamIntegrity CountsPatched ThreadEndAfterData DeliveredAtClose
SYMMETRY ThreadSymmetry
