CONSTANTS
    MaxBuffers = 3
    MaxLen = 2
SPECIFICATION Spec
PROPERTY RecvReturns
CHECK_DEADLOCK FALSE
