SPECIFICATION RequestSpec
CONSTANTS
  Requests <- Tight
  Problems = {}
  DistanceLimit = 4
INVARIANT RefusedBeyondBudget
CHECK_DEADLOCK FALSE
