SPECIFICATION MCSpec
CONSTANTS
  Problems <- MCConflict
  Calls = {}
  DefaultLoops = 1
  DefaultNodes = 8
  Tokens <- MCTokens
  MaxLength = 1
  VisitLimit = 60
  DistanceLimit = 8
INVARIANT BoundaryIsKept
CHECK_DEADLOCK FALSE
