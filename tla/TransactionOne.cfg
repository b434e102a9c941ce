SPECIFICATION Spec
CONSTANTS
  Handles = {h1}
  Faults = {"begin", "store", "load", "open"}
  CommitOnClose = FALSE
  SchemaOps = TRUE
  MaxNest = 2
  MaxScopes = 3
  MaxOpens = 2
  MaxRef = 2
INVARIANTS TypeOK ServerCoherent ServerCountsScopes AbortedForgotten CommittedDurable NoIncoherentCommit
PROPERTIES OnlyCommitStores
