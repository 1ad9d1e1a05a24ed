SPECIFICATION Spec
CONSTANTS
  Counts = {0, 1, 2, 5}
  JobRequests = {0, 1, 2, 3, 4}
  MaxJobs = 3
  SlotsPerJob = 1
INVARIANTS BoundedBuffer FailureHoldsBack JoinedOnExit
PROPERTIES NoResultOverwritten DeliversInOrder CallEnds
