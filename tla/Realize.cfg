SPECIFICATION Spec
CONSTANTS
    p = p
    q = q
    r = r
    Obj <- MCObj
    Null = Null
    NAttr = 2
    Faults = {"write", "constraint"}
    Modes <- MCModes
    Graphs <- MCGraphs
    MaxEdits = 1
    MaxCalls = 2
INVARIANTS StoreComplete RefsStored VisitedOnce RemoveComplete
PROPERTY CallReturns
CHECK_DEADLOCK FALSE
