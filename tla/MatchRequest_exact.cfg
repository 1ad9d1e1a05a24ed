SPECIFICATION RequestSpec
CONSTANTS
  Requests <- MCRequests
  Problems = {}
  DistanceLimit = 4
INVARIANTS TuplesOnce WithinBudget AnswerAgrees AnswerIsExact
PROPERTY RequestEnds
CHECK_DEADLOCK FALSE
