SPECIFICATION Spec
CONSTANTS
  Tokens <- MCArrows
  MaxLength = 5
  Grammar <- MCGrammar
  Accepts <- Accepted
  MaxParses = 1
  DistanceLimit = 8
INVARIANTS DocumentedGrammarIsRead
CHECK_DEADLOCK FALSE
