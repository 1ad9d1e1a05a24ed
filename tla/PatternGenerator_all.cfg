SPECIFICATION MCSpec
CONSTANTS
  Problems <- MCProblems
  Calls <- MCCalls
  DefaultLoops = 1
  DefaultNodes = 8
  Tokens <- MCTokens
  MaxLength = 7
  VisitLimit = 60
  DistanceLimit = 8
INVARIANTS InputsAreNumbered GeneratedMatches RefusalsAreExact OptionsMeetTheCall DestinationIsKept
CHECK_DEADLOCK FALSE
