CONSTANTS
    t1 = t1
    cObject = cObject
    cString = cString
    cLoader = cLoader
    cApp = cApp
    appLoader = appLoader
    str = str
    obj = obj
    NULL = NULL
    Threads <- MCThreads
    Objs <- MCObjs
    Kind <- MCKind
    ClassOf <- MCClassOf
    Super <- MCSuper
    Loader <- MCLoader
    Args <- MCArgs
    NBuffers = 2
    NUtility = 1
    AnalysisCount = 2
    MAX_OBJ_FREE_EVENTS = 2
    MaxSends = 3
    ObjectIdBits = 4
    ClassIdBits = 3
SPECIFICATION Spec
INVARIANT FreesFlushedAtDeath
CHECK_DEADLOCK FALSE
