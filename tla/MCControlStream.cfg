SPECIFICATION Spec
CONSTANTS
    Keys = {k1, k2}
    Appenders = {a1}
    ChanCap = 1
    WireCap = 1
    ParkThreshold = 2
    LastOffset = 2
    MaxFaults = 1
    NoEntry = NoEntry
INVARIANTS IInv OnlyMissedPushesAreLost HandledInOrder
PROPERTIES ParkedIsEarned NoRedoWithoutFault EveryCommandPasses
CHECK_DEADLOCK FALSE
