SPECIFICATION Spec
CONSTANTS
  Objs = {"o1", "o2"}
  Nums = {1, 2}
  Chars = {49, 50}
  Lens = {1, 2, 3, 4}
  VarsSz = 2
  Uniques = {{"num", "str"}}
  NotNulls = {{}, {"num"}, {"str"}}
  Careless = {}
  MaxData = 2
INVARIANTS IndexExact StoredExact DataOwned ConstraintsHold
PROPERTIES RefusedUnchanged RefusalExplained
