SPECIFICATION FairSpec
CONSTANTS
    Conns = {c1, c2}
    Msgs = {"identity", "report"}
    Null = Null
    Closed = Closed
    Main = Main
    Listener = Listener
    Nobody = Nobody
    CanFail = TRUE
    Stop = FALSE
    MaxQueue = 1
INVARIANT NoCallbackAfterDestroy
PROPERTY ClosedWhenListed
PROPERTY RegistryLive
PROPERTY MainLoopTurns
CHECK_DEADLOCK FALSE
