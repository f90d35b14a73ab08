SPECIFICATION Spec
CONSTANTS
    a = a
    b = b
    c = c
    NoRow = NoRow
    Keep = Keep
    Clients <- McClients
    Workloads <- McWorkloads
    Stored <- McStored
    StoredSources <- McSources
    EntitiesOf <- McEntities
    FoundBy <- McPatterns
    ValidDates = {"day", "may"}
    MaxMentions = 3
    MaxRelationships = 3
    Faults = {"db", "vector"}
    TokensOf <- McTokens
    targetTokens = 3
    overlapTokens = 1
    BatchSize = 2
INVARIANT GraphMatchesRecord
INVARIANT ReindexLosesNothing
INVARIANT GraphViewHangsTogether
PROPERTY UpdatesOnlyWhatItNames
PROPERTY EveryCallSettles
CHECK_DEADLOCK FALSE
