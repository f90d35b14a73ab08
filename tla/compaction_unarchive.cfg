SPECIFICATION Spec

CONSTANTS
    Seeds = 2
    MaxRecords = 3
    MaxRuns = 2
    MaxClock = 2
    MaxCrashes = 0
    Contents = {x, y}
    Similar <- AllAlike
    Weights = {0}
    ListLimit = 5000
    MaxAttempts = 1
    SweepBatch = 1
    Compactors = {c1}
    Sweepers = {}
    Unarchivers = {u1}
    Editors = {e1}
    Requests <- Both
    Faults = {"embed", "restore", "vector"}

SYMMETRY Symmetry

INVARIANT UnarchivedHasSearchableCopy
INVARIANT KeptChainEnds
INVARIANT DeletedHasNoPoints
INVARIANT FailedRestoreLeavesNothing

CHECK_DEADLOCK FALSE
