SPECIFICATION Spec
CONSTANTS
    Name = {v4, v6, unknown, bad}
    Callback = {cb1, cb2, cb3}
    NoName = NoName
    Local = {}
    Invalid = {bad}
    HasA = {v4}
    HasAAAA = {v6}
    Servers = 2
    MaxNet = 1
INVARIANTS
    CalledExactlyOnce
    LookupsAlive
    UnknownOnlyIfNone
SYMMETRY CallbackSymmetry
