CONSTANTS
  N = 3
  MaxOps <- MCMaxOps
SPECIFICATION FairSpec
INVARIANTS
  Inv
  Convergence
  RemoveWins
PROPERTIES
  EventuallyAgree
  
CHECK_DEADLOCK FALSE
