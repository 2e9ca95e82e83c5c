CONSTANTS
    Tasks = {t1}
    Cap = 2
    MaxCrashRecover = 1
    MaxStallRecover = 0
    MaxForks = 2
    MaxIncarnations = 3
    MaxRestarts = 1
    NoTask = NoTask

SPECIFICATION Spec

CHECK_DEADLOCK FALSE

INVARIANTS
    TypeOK
    OneProcessPerTask
    EveryProcessIsWatched
    SlotsAreOwned

PROPERTIES
    RevokedExecutorStops
    DeadExecutorSettles
