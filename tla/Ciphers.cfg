SPECIFICATION Spec
CONSTANTS
    Block = 3
    FirstBuf = 3
    IvLen <- IvLenSmall
    MaxLen = 4
    MaxMessages = 4
    MaxTaken = 3
INVARIANTS
    ChunkingInvisible
    RoundTrip
    OutOfPlaceGarbled
CHECK_DEADLOCK FALSE
