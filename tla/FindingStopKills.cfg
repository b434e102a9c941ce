SPECIFICATION Spec
CONSTANTS
  Backends = {b1, b2}
  Tools = {t1}
  Commands = {"stop"}
  MaxCells = 2
CHECK_DEADLOCK FALSE
INVARIANT StopSparesClients
