\* One goroutine appends, nothing fails, the subscriber's channel holds one
\* command: an acknowledged command was never handled.
SPECIFICATION Spec
CONSTANTS
    Keys = {k1, k2, k3}
    Appenders = {a1}
    ChanCap = 1
    WireCap = 1
    ParkThreshold = 2
    LastOffset = 3
    MaxFaults = 0
    NoEntry = NoEntry
INVARIANTS NothingAckedIsLost
CHECK_DEADLOCK FALSE
