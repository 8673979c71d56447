SPECIFICATION Spec
CONSTANTS
    Conns = {c1, c2}
    NoConn = NoConn
    Readers = {r1, r2}
    NoReader = NoReader
    Driver = driver
    Stops = {}
    MaxFaults = 1
    MaxJobMessages = 0
    MissedLimit = 1
    InboxBound = 1
PROPERTY PingedBeforeGivenUp
CHECK_DEADLOCK FALSE
