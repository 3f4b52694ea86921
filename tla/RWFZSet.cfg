CONSTANTS
  N = 3
  NULL = NULL
  AddValue = {1, 2}
  IncrValue = {4}
  MaxOps <- MCMaxOps
SPECIFICATION Spec
INVARIANTS
  Inv
  Convergence
  ScoreIsSumOfCurrent
CHECK_DEADLOCK FALSE
