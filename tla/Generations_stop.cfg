CONSTANTS
  MaxReloads = 1
SPECIFICATION FairSpec
PROPERTIES
  StopEnds
CHECK_DEADLOCK FALSE
