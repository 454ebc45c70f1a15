CONSTANTS
  Tasks = {1, 2}
  Strands = {s1}
  Workers = {w1, w2}
  MaxFaults = 2
SPECIFICATION FairSpec
INVARIANTS OncePerHour
PROPERTIES TasksFinish
CHECK_DEADLOCK FALSE
