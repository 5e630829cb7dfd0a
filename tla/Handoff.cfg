SPECIFICATION FairSpec
CONSTANTS
    Conns = {c1}
    Msgs = {1, 2, 3}
    Null = Null
    Closed = Closed
    MaxSent = 3
    Undecodable = TRUE
    Handles = TRUE
INVARIANT TypeOK
INVARIANT PollFIFO
INVARIANT ExactlyOnce
INVARIANT ClosedOnce
PROPERTY ImplementsMailbox
PROPERTY PollSeesClosed
PROPERTY DisconnectFinishes
PROPERTY ArrivalsAreHandled
CHECK_DEADLOCK FALSE
