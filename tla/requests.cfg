CONSTANTS
    a = a
    b = b
    Clients = {a, b}
    Asks <- MCAsks
    Configurations <- MCConfigurations
    Claims <- MCClaims
    Metadata <- MCMetadata
    Trimmed <- MCTrimmed
    NoOrg = NoOrg
    Blank = Blank
    Twice = Twice
    NoTool = NoTool
    NoLimit = NoLimit
    MaxOutages = 1
SPECIFICATION Spec
CHECK_DEADLOCK FALSE
INVARIANT TypeOK
INVARIANT ActsForGrantedOrg
INVARIANT EffectsNeedScope
INVARIANT CountsResponsesOnce
PROPERTY RefusedOnlyForCause
PROPERTY EveryRequestSettles
