SPECIFICATION LoopSpec
CONSTANTS
    c1 = c1
    c2 = c2
    c3 = c3
    k1 = k1
    k2 = k2
    Nobody = Nobody
    Conn = {c1}
    Key = {k1}
    KeyOf <- OneConn
    Fd <- FourFds
    MaxFrames = 1
    MaxChunks = 1
PROPERTIES
    IdleTunnelCloses
CHECK_DEADLOCK FALSE
