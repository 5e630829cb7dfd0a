SPECIFICATION FairSpec
CONSTANTS
    Conns = {c1, c2}
    Msgs = {"identity"}
    Null = Null
    Closed = Closed
    Main = Main
    Listener = Listener
    Nobody = Nobody
    CanFail = FALSE
    Stop = FALSE
    MaxQueue = 1
PROPERTY ClosedIsCleaned
CHECK_DEADLOCK FALSE
