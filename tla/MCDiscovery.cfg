CONSTANTS
  Services = {"s1"}
  FirstValues = {"v1"}
  Values = {"v1", "v2", "bad"}
  BadValues = {"bad"}
  MaxUpdates = 1
  MaxFailures = 2
  MaxLate = 1
SPECIFICATION FairSpec
INVARIANTS RefreshedIsPublished
PROPERTIES UpdateArrives GoneIsForgotten
CHECK_DEADLOCK FALSE
