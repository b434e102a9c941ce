SPECIFICATION Spec
CONSTANTS
    Items = {a, b}
    Kinds = {"set", "bag", "array"}
    Inds = {0, 1}
    Cards <- FewCards
    LittleEndian = TRUE
    MaxIds = 2
    MaxElems = 2
    MaxUsed = 1
INVARIANTS
    ServerAgree NoAssert CountExact StoredExact ElementsExact LookupExact
PROPERTY
    CardOK
