SPECIFICATION CombinationSpec
CONSTANTS
  Problems <- MCBoundary
  DistanceLimit = 4
INVARIANT BoundaryHasNoSuccessor
CHECK_DEADLOCK FALSE
