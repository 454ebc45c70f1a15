CONSTANTS
  Keys = {1, 2, 3}
  Lists <- MCLists
  Flaky = {2}
  Period = 1
SPECIFICATION FairSpec
PROPERTIES NotStarved BreakerReopens
CHECK_DEADLOCK FALSE
