CONSTANTS
    MaxBuffers = 3
    MaxLen = 2
SPECIFICATION Spec
INVARIANTS
    TypeOK
    TransfersInOrder
PROPERTY SendReturns
CHECK_DEADLOCK FALSE
