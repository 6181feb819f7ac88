SPECIFICATION FairSpec
CONSTANTS
  Rules <- ChildRules
  Matches <- ChildMatches
  Requests = {}
  Children = {c1}
  NoChild = none
  Tokens = {1}
  Batch = 1
  MaxDelay = 1
  StartTime = 3
  MaxTime = 9
  MaxCount = 1
INVARIANTS
  ChildrenTracked
  NoLostWakeup
PROPERTIES
  PrunesTheForgotten
  ChildrenForgotten
