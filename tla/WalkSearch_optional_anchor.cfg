SPECIFICATION CombinationSpec
CONSTANTS
  Problems <- MCOptionalAnchor
  DistanceLimit = 4
INVARIANT IterationsAreFound
CHECK_DEADLOCK FALSE
