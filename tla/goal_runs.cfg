SPECIFICATION Spec
CONSTANTS
    Runs = {g1, g2}
    Records = {m1, m2}
    MemoryIds = {{}, {m1}, {m1, m2}, {m2}}
    Recorders = {w1, w2}
    Readers = {d1}
    NoRun = NoRun
    MaxIterations = 3
    Faults = {"db"}
SYMMETRY RunSymmetry
INVARIANT IterationsConsecutive
PROPERTY ClosedRunIsFinal
PROPERTY GetSeesItsCount
PROPERTY PinHolds
CHECK_DEADLOCK FALSE
