SPECIFICATION Spec
CONSTANTS
    Conns = {c1, c2}
    Msgs = {"identity", "mismatch", "non_aircraft", "report"}
    Null = Null
    Closed = Closed
    Main = Main
    Listener = Listener
    Nobody = Nobody
    CanFail = TRUE
    Stop = TRUE
    MaxQueue = 1
INVARIANT TypeOK
INVARIANT Accounting
INVARIANT Ownership
 
INVARIANT MainWalkAlive
PROPERTY RegistrySpec
SYMMETRY Symmetry
CHECK_DEADLOCK FALSE
