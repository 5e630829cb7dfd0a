SPECIFICATION Spec
CONSTANTS
    Start = 2
    Cap = 5
    Period = 2
INVARIANT TypeOK
INVARIANT RetriedInTime
PROPERTY AttemptsSpaced
