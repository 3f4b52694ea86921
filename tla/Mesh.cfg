CONSTANTS
  N = 3
  MaxOps <- MCMaxOps
  MaxFaults = 1
SPECIFICATION FairSpec
INVARIANTS
  ConfiguredBeforeUpdates
  PeerCommandsAreEffects
  
PROPERTIES
  
  StreamsDrain
CHECK_DEADLOCK FALSE
