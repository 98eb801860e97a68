SPECIFICATION Spec
CONSTANTS
    c1 = c1
    c2 = c2
    c3 = c3
    k1 = k1
    k2 = k2
    Nobody = Nobody
    Conn = {c1, c2, c3}
    Key = {k1}
    KeyOf <- OneKey
    Fd <- FourFds
    MaxFrames = 2
    MaxChunks = 0
INVARIANTS
    FrameAccounting
    OutOfFdsOnlyWhenHeld
    StreamKept
CONSTRAINT FewFrames
SYMMETRY ConnSymmetry
CHECK_DEADLOCK FALSE
