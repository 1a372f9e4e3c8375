SPECIFICATION BufFairSpec
CONSTANTS
    Hdr = 2
    Body = 1
    MaxPayload = 4
    Limit = 9
    MinCap = 2
    DataLens = {0, 3, 4}
    BufSizes = {3, 4}
    SockSize = 6
    MaxMessages = 3
INVARIANTS TxInBounds RoomToReceive ConformingKept FramesIntact
PROPERTY AllArrive
CHECK_DEADLOCK FALSE
