CONSTANTS
  N = 3
  NULL = NULL
  MaxOps <- MCMaxOps
SPECIFICATION Spec
INVARIANTS
  Inv
  Convergence
  AddWins
CHECK_DEADLOCK FALSE
