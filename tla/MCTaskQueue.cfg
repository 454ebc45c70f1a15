CONSTANTS
  Tasks = {1, 2}
  Workers = {w1, w2, w3}
  MaxFaults = 1
SPECIFICATION FairSpec
INVARIANTS GrantedOnce
PROPERTIES FinishedStays TasksFinish
CHECK_DEADLOCK FALSE
