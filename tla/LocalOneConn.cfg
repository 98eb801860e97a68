SPECIFICATION LoopSpec
CONSTANTS
    b1 = b1
    b2 = b2
    k1 = k1
    k2 = k2
    Nobody = Nobody
    Conn = {b1}
    Key = {k1}
    KeyOf <- OneConn
    Fd <- TwoFds
    MaxData = 2
    MaxDown = 2
    MaxEnds = 2
INVARIANTS
    OpenLocalHasOpenRemote
    UplinkExact
PROPERTIES
    EndedHandlersClose
CHECK_DEADLOCK FALSE
