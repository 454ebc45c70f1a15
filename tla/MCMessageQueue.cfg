CONSTANTS
  Names = {a, b}
  Producers = {p1, p2}
  Consumers = {c1}
  Limit = 2
  MaxInserts = 2
  MaxFaults = 1
SPECIFICATION FairSpec
INVARIANTS PositionIsLast NoDuplicates ConsumedOnce
PROPERTIES InsertsEnd TasksArrive
CHECK_DEADLOCK FALSE
