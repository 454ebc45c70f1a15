CONSTANTS
  r1 = r1
  r2 = r2
  Requests = {r1, r2}
  ReqBody <- MCReqBody
  RespBodies = {5}
  WindowSize = 4
  MinFrame = 2
  MaxFrame = 3
  MaxExclusive = 9
  MaxMerge = 2
  Limits = {1, 2}
  MaxFaults = 1
SPECIFICATION FairSpec
INVARIANTS FlowControl ResponseMatches PrefaceFirst
PROPERTIES Answered
CHECK_DEADLOCK FALSE
