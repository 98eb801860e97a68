SPECIFICATION LoopSpec
CONSTANTS
    c1 = c1
    c2 = c2
    c3 = c3
    k1 = k1
    k2 = k2
    Nobody = Nobody
    Conn = {c1, c2}
    Key = {k1, k2}
    KeyOf <- TwoKeys
    Fd <- FourFds
    MaxFrames = 1
    MaxChunks = 1
INVARIANTS
    RegistrationExact
    OpenRemoteHasOpenLocal
    RecvNeverBlocks
PROPERTIES
    CloseReach
    EndedHandlersClose
CHECK_DEADLOCK FALSE
