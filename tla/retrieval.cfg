SPECIFICATION Spec
CONSTANTS
    Scale = 156240
    NoOrg = NoOrg
    NoKey = NoKey
    NoUser = NoUser
    NoText = NoText
    Blank = Blank
    NoRow = NoRow
    Today = 30
    MaxEdits = 2
    Corpora <- TheCorpora
    Texts <- EditTexts
    Requests <- TheRequests
    Faults = {"filter", "db", "vector"}
INVARIANT ReturnsOnlyAsked
INVARIANT ReturnsCommittedRows
INVARIANT FindsIndexed
INVARIANT RankedByDominance
INVARIANT PackLosesOnlyOverflow
CHECK_DEADLOCK FALSE
