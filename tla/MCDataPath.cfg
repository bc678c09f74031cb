CONSTANTS
    o1 = o1
    o2 = o2
    NULL = NULL
    INIT_BUFF_SIZE = 8
    NBufs = 2
    AnalysisCount = 2
    ThreadId = 128
    OrderId = 0
    NUtility = 1
    FirstAnalysisId = 32767
    MaxRegs = 2
    MethodDesc <- MCMethodDesc
    ArgLists <- MCArgLists
    MaxCalls = 3
    Objects <- MCObjects
    StringData <- MCStringData
    ObjClass <- MCObjClass
    SendChunk = 5
    ObjectIdBits = 1
    ClassIdBits = 1
SPECIFICATION Spec
CHECK_DEADLOCK FALSE
INVARIANTS
    TypeOK
    WireDecodes
    StringInfoBeforeUse
    AllDelivered
    RegisteredBeforeUse
    ThreadEndLast
    NoFillError
    EncodingMatchesFormat
    DecodeInvertsEncode
PROPERTY ImplementsBlockingQueue
