SPECIFICATION Spec
CONSTANTS
    Records = {r1}
    NoRecord = NoRecord
    Clients = {c1, c2}
    Sweepers = {s1}
    Ops = {"write", "update"}
    Faults = {}
    MaxAttempts = 5
    SweepBatch = 1
    MaxVersion = 3
    MaxIds = 3
    MaxCrashes = 0
INVARIANT NoSilentDrift
CHECK_DEADLOCK FALSE
