SPECIFICATION FairSpec
CONSTANTS
    Seeds = 2
    MaxRecords = 2
    MaxRuns = 1
    MaxClock = 1
    MaxCrashes = 1
    Contents = {x}
    Similar <- AllAlike
    Weights = {0}
    ListLimit = 5000
    MaxAttempts = 2
    SweepBatch = 2
    Compactors = {c1}
    Sweepers = {s1}
    Unarchivers = {}
    Editors = {}
    Requests <- NoRequests
    Faults = {"vector", "lostAck", "db", "crash"}
INVARIANT DeletedHasNoPoints
INVARIANT GivesUpAfterMaxAttempts
INVARIANT CompletedRunCountsItsRows
PROPERTY OutboxDrains
CHECK_DEADLOCK FALSE
