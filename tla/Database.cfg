SPECIFICATION FairSpec
CONSTANTS
    Threads = {main, receiver}
    Nobody = Nobody
    Names = {n}
    Servers = {v, w}
    Unreadable = {w}
    MaxCalls = 2
    MaxEdits = 2
INVARIANT TypeOK
INVARIANT ReturnedIsStored
INVARIANT ReadsAreCurrent
PROPERTY CallsReturn
CHECK_DEADLOCK FALSE
