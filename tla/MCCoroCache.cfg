CONSTANTS
  MaxGets = 3
  AllKeys = {a, b}
  MaxSize = 1
  Deadline = 10
  Times = {0, 9, 10}
  MaxSource = 1
  MaxPuts = 1
  MaxThrows = 1
SPECIFICATION FairSpec
INVARIANTS Fresh MonotonicReads
PROPERTIES GetsReturn
CHECK_DEADLOCK FALSE
