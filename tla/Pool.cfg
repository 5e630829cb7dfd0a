SPECIFICATION ReachableSpec
CONSTANTS
    Conns = {s1, s2}
    Msgs = {a, b}
    Null = Null
    Closed = Closed
    Known = {a}
    Nowhere = Nowhere
    NoServer = NoServer
    Quits = TRUE
    MaxQueue = 1
INVARIANT TypeOK
INVARIANT InOnePlace
INVARIANT ListedHasConnection
INVARIANT ClearedIsQuiet
PROPERTY Reconnects
PROPERTY LearnsServers
PROPERTY DisconnectFinishes
CHECK_DEADLOCK FALSE
