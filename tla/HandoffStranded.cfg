SPECIFICATION FairSpec
CONSTANTS
    Conns = {c1}
    Msgs = {1, 2, 3}
    Null = Null
    Closed = Closed
    MaxSent = 3
    Undecodable = FALSE
    Handles = TRUE
PROPERTY HandlerGetsAll
CHECK_DEADLOCK FALSE
