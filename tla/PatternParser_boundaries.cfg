SPECIFICATION Spec
CONSTANTS
  Tokens <- MCArrows
  MaxLength = 7
  Grammar <- MCGrammar
  Accepts <- Accepted
  MaxParses = 1
  DistanceLimit = 8
INVARIANTS BoundariesCanHold
CHECK_DEADLOCK FALSE
