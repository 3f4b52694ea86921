CONSTANTS
  N = 3
  BASE = 3
  RDM_STEP = 1
  Elem = {"a", "b"}
  Creators <- MCCreators
  Null = Null
  Property = {"font"}
  Value = {1, 2}
  Unset = Unset
  MaxOps <- MCMaxOps
SPECIFICATION Spec
INVARIANTS
  
  OrderConverges
  LastWriteWins
  LenAgrees
CHECK_DEADLOCK FALSE
