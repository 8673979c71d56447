SPECIFICATION Spec
CONSTANTS
    Conns = {c1, c2}
    NoConn = NoConn
    Readers = {r1, r2}
    NoReader = NoReader
    Driver = driver
    Stops = {"Context"}
    MaxFaults = 1
    MaxJobMessages = 1
    MissedLimit = 1
    InboxBound = 1
SYMMETRY Symmetry
INVARIANT RecoveryPending
INVARIANT FlagBacked
INVARIANT TypeOK
CHECK_DEADLOCK FALSE
