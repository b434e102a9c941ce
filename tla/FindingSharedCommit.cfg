SPECIFICATION Spec
CONSTANTS
  Handles = {h1, h2}
  Faults = {}
  CommitOnClose = FALSE
  SchemaOps = FALSE
  MaxNest = 2
  MaxScopes = 3
  MaxOpens = 1
  MaxRef = 2
INVARIANT CommittedDurable
