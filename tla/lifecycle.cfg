SPECIFICATION FairSpec
CONSTANTS
    Kinds = {"server", "worker"}
    Loops = {"compaction", "ingest"}
    Calls = {c1, c2}
    Streams = {s1}
    MaxPools = 3
    Faults = {"db", "vector", "config", "listen"}
INVARIANT ExitIsQuiet
INVARIANT PoolOutlivesUsers
PROPERTY StoppedStaysStopped
PROPERTY ShutdownCompletes
CHECK_DEADLOCK FALSE
