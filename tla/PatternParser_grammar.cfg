SPECIFICATION MCSpec
CONSTANTS
  Tokens <- MCTokens
  MaxLength = 6
  Grammar <- MCGrammar
  Accepts <- Accepted
  MaxParses = 2
  Words <- MCWords
  Repeats <- MCRepeats
  MaxDepth = 1
  MaxSize = 2
  LaterSize = 1
  MaxTokens = 6
  MaxPaths = 2
  DistanceLimit = 8
INVARIANTS ParseIsExact AcceptedCompile DrawnIsRead
PROPERTY Terminates
CHECK_DEADLOCK FALSE
