SPECIFICATION FairSpec
CONSTANTS
    Records = {r1}
    NoRecord = NoRecord
    Clients = {c1}
    Sweepers = {s1, s2}
    Ops = {"write"}
    Faults = {"embed", "vector", "db", "crash"}
    MaxAttempts = 2
    SweepBatch = 1
    MaxVersion = 1
    MaxIds = 1
    MaxCrashes = 1
INVARIANT GiveUpBound
PROPERTY ScheduledJobSettles
CHECK_DEADLOCK FALSE
