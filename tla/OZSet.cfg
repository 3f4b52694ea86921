CONSTANTS
  N = 3
  NULL = NULL
  AddValue = {1, 2}
  IncrValue = {4}
  Garbage = {9}
  MaxOps <- MCMaxOps
SPECIFICATION Spec
INVARIANTS
  Inv
  MembershipConverges
  ScoreConverges
CHECK_DEADLOCK FALSE
