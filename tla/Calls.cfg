SPECIFICATION CallsSpec
CONSTANTS
    Conn = {c1, c2, c3}
    Remote = {r1, r2, r3}
    Key = {k1, k2}
    Value = {v1, v2}
    NoValue = NoValue
    Timeout = 1
    MaxTime = 4
    MaxVisits = 4
INVARIANTS
    CascadeExact
    QueueConsistent
PROPERTIES
    RemovedValuesClosedOnce
    ImplementsTimedMap
    CallsReturn
CHECK_DEADLOCK FALSE
