CONSTANTS
  Workers = {w1, w2}
  Joiner = joiner
  Size = 3
  MaxThrows = 1
SPECIFICATION FairSpec
INVARIANTS CompleteResult
PROPERTIES InOrder MapReduceReturns EarlierTasksJoin
CHECK_DEADLOCK FALSE
