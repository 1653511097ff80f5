CHECK_DEADLOCK FALSE
SPECIFICATION MCSpec
CONSTANTS
    SpoolCap = 2
    BatchMax = 2
    SendCap = 2
    SeqMemory = 2
    BatchId = {1,2,3,4,5,6,7,8}
    MaxLines = 3
    MaxTroubles = 1
INVARIANTS LinesKept
PROPERTIES ImplementsRelay Delivered
