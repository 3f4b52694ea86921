CONSTANTS
  N = 3
  NULL = NULL
  AddValue <- MCAddValue
  IncrValue = {4}
  MaxOps <- MCMaxOps
SPECIFICATION FairSpec
INVARIANTS
  Inv
  CausalDelivery
  Convergence
  RemoveWinsScore
PROPERTIES
  EventuallyApplied
CHECK_DEADLOCK FALSE
