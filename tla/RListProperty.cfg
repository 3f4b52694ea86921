CONSTANTS
  N = 2
  BASE = 3
  RDM_STEP = 1
  Elem = {"a"}
  Creators <- MCCreators
  Null = Null
  Value = {1, 2}
  MaxOps <- MCMaxOps2
SPECIFICATION Spec
INVARIANTS
  PropertyConverges
CHECK_DEADLOCK FALSE
