SPECIFICATION Spec
CONSTANTS
  Backends = {b1, b2}
  Tools = {t1}
  Commands = {"status", "stop", "stop -f"}
  MaxCells = 2
CHECK_DEADLOCK FALSE
PROPERTIES BackendsEnd ToolEnds
