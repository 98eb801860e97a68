SPECIFICATION Spec
CONSTANTS
    b1 = b1
    b2 = b2
    k1 = k1
    k2 = k2
    Nobody = Nobody
    Conn = {b1, b2}
    Key = {k1}
    KeyOf <- OneKey
    Fd <- FourFds
    MaxData = 1
    MaxDown = 2
    MaxEnds = 1
SYMMETRY ConnSymmetry
INVARIANTS
    RegistrationExact
    StreamKept
CHECK_DEADLOCK FALSE
