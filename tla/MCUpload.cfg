CONSTANTS
  Names = {1, 2}
  Producers = {p1, p2}
  Consumers = {c1, c2}
  MaxFaults = 2
SPECIFICATION FairSpec
INVARIANTS AppliedOnce QueuedOrApplied AppliedInOrder
PROPERTIES Drained
CHECK_DEADLOCK FALSE
