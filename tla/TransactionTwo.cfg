SPECIFICATION Spec
CONSTANTS
  Handles = {h1, h2}
  Faults = {"begin", "commit", "store", "load", "open"}
  CommitOnClose = TRUE
  SchemaOps = FALSE
  MaxNest = 2
  MaxScopes = 1
  MaxOpens = 1
  MaxRef = 2
INVARIANTS ServerRefCount OpenOnServer HeldInTransaction
PROPERTIES QuitAborts
