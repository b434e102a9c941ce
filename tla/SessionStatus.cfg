SPECIFICATION Spec
CONSTANTS
  Backends = {b1, b2, b3, b4}
  Tools = {t1}
  Commands = {"status"}
  MaxCells = 3
SYMMETRY BackendSymmetry
CHECK_DEADLOCK FALSE
INVARIANTS LogIsList ClientsListed StatusExact
