SPECIFICATION ReachableSpec
CONSTANTS
    Conns = {s1, s2}
    Msgs = {a}
    Null = Null
    Closed = Closed
    Known = {a}
    Nowhere = Nowhere
    NoServer = NoServer
    Quits = FALSE
    MaxQueue = 1
PROPERTY ClosedIsRetried
CHECK_DEADLOCK FALSE
