SPECIFICATION CombinationSpec
CONSTANTS
  Problems <- MCProblems
  DistanceLimit = 4
INVARIANTS WalksConsistent SearchIsExact EachCombinationOnce MatchesAreExact
CHECK_DEADLOCK FALSE
