CONSTANTS
  N = 3
  BASE = 3
  RDM_STEP = 1
  Elem = {"a", "b"}
  Creators <- MCCreators
  Null = Null
  Value = {1}
  MaxOps <- MCMaxOps3
SPECIFICATION Spec
INVARIANTS
  Inv
  Convergence
  QueueDrains
  RemoveWins
CHECK_DEADLOCK FALSE
