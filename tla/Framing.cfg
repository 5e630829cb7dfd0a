SPECIFICATION FairSpec
CONSTANTS
    Messages <- AllMessages
    MaxSent = 2
    Frail <- SomeMessages
INVARIANT TypeOK
INVARIANT InSync
PROPERTY AllReceived
PROPERTY EndReported
CHECK_DEADLOCK FALSE
