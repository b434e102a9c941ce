SPECIFICATION Spec
CONSTANTS
    A = {p, q}
    B = {x, y}
    Null = Null
    Rels = {"N_N"}
    Faults = {}
    Careless = {"shared"}
    MaxHeld = 2
INVARIANT RelIntegrity
SYMMETRY Symmetry
