\* A generation and its replacement, or a crash and the restart after it; one hit
\* that a reset covers and one that it does not.
CONSTANTS
  MaxGenerations = 2
  MaxHits = 2
SPECIFICATION FairSpec
INVARIANTS
  ResetHolds
  DurableStays
PROPERTIES
  DrainedIsHandedOver
  ClosedStaysClosed
  ShutdownEnds
CHECK_DEADLOCK FALSE
