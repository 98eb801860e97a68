SPECIFICATION Spec
CONSTANTS
    Browsers = {b1, b2}
    MaxSent = 2
    Conns = {c1, c2}
    MaxFd = 3
    NoConn = NoConn
    Listen = Listen
    MaxReceipts = 4
    MaxReplies = 3
    Failed = Failed
    None = None
    MaxAnswers = 2
INVARIANTS
    AnswersInOnePlace
    OpenBrowsersServed
    EventsReachOwners
    PassedOnPerReceipt
    PollFindsHandlers
PROPERTIES
    ThreadsEnd
    EndedTunnelsClosed
CHECK_DEADLOCK FALSE
