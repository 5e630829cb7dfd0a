SPECIFICATION FairSpec
CONSTANTS
    Conns = {c1, c2}
    Msgs = {"identity", "mismatch"}
    Null = Null
    Closed = Closed
    Main = Main
    Listener = Listener
    Nobody = Nobody
    CanFail = FALSE
    Stop = FALSE
    MaxQueue = 1
PROPERTY MainLoopTurns
CHECK_DEADLOCK FALSE
