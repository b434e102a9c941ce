SPECIFICATION Spec
CONSTANTS
    p = p
    q = q
    r = r
    Obj <- MCObj
    Null = Null
    NAttr = 2
    Faults = {}
    Modes <- MCModes
    Graphs <- MCGraphs
    MaxEdits = 1
    MaxCalls = 2
INVARIANT StoreSynchronizes
CHECK_DEADLOCK FALSE
