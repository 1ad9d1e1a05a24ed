SPECIFICATION Spec
CONSTANTS
  Tokens <- MCGroup
  MaxLength = 8
  Grammar <- MCGrammar
  Accepts <- Accepted
  MaxParses = 1
  DistanceLimit = 1
INVARIANTS FarAnchorsCompile
CHECK_DEADLOCK FALSE
