SPECIFICATION SerialSpec
CONSTANTS
    Records = {r1}
    NoRecord = NoRecord
    Clients = {c1}
    Sweepers = {s1}
    Ops = {"write", "update", "delete"}
    Faults = {"embed", "vector", "lostAck", "db", "crash"}
    MaxAttempts = 2
    SweepBatch = 2
    MaxVersion = 3
    MaxIds = 3
    MaxCrashes = 2
INVARIANT AcknowledgedIndexed
CHECK_DEADLOCK FALSE
PROPERTY DeleteLeavesNoPoints
