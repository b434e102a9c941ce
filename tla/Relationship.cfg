SPECIFICATION Spec
CONSTANTS
    A = {p, q}
    B = {x, y}
    Null = Null
    Rels = {"1_1", "1_N", "N_N"}
    Faults = {"write", "trigger", "constraint", "commit"}
    Careless = {}
    MaxHeld = 2
INVARIANTS TypeOK RelIntegrity CacheFresh RemovedShrunk
PROPERTIES StoreKeepsLinks RelationSpec
SYMMETRY Symmetry
VIEW View
CONSTRAINT LeakBound
