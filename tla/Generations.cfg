CONSTANTS
  MaxReloads = 2
SPECIFICATION FairSpec
INVARIANTS
  TornDownOnce
  OneAtATime
  OnlyEndedForCause
PROPERTIES
  ReloadTakesEffect
CHECK_DEADLOCK FALSE
