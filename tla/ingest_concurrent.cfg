SPECIFICATION Spec
CONSTANTS
    Records = {r1}
    NoRecord = NoRecord
    Clients = {c1, c2}
    Sweepers = {s1}
    Ops = {"write", "update", "delete"}
    Faults = {"embed", "vector", "lostAck", "db", "crash"}
    MaxAttempts = 2
    SweepBatch = 1
    MaxVersion = 2
    MaxIds = 2
    MaxCrashes = 1
SYMMETRY Symmetry
INVARIANT OneChunkSetPerRecord
INVARIANT WriteAheadOrder
CHECK_DEADLOCK FALSE
