CONSTANTS
  Tasks = {1, 2}
  Strands = {s1}
  Workers = {w1, w2}
  MaxFaults = 0
SPECIFICATION Spec
INVARIANTS StrandExclusive
CHECK_DEADLOCK FALSE
