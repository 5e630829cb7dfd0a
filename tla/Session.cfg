SPECIFICATION FairSpec
CONSTANTS
    Main = Main
    Receiver = Receiver
    Timeout = 1
    MaxLag = 1
    MaxCommand = 2
    MaxRequests = 2
    MaxOut = 2
INVARIANT TypeOK
INVARIANT RememberedIsSent
INVARIANT TripsAccounted
PROPERTY LatestIsHeld
CHECK_DEADLOCK FALSE
