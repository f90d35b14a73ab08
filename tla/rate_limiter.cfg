SPECIFICATION Spec
CONSTANTS
    Keys = {k1, k2}
    Capacity = 3
    WindowMs = 4
    Grain = 1
    Rounding = 1
    NoKey = NoKey
    MaxClock = 12
INVARIANT WaitAsTold
PROPERTY KeepsPromise
CHECK_DEADLOCK FALSE
