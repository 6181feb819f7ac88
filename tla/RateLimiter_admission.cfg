SPECIFICATION Spec
CONSTANTS
  Rules <- AdmissionRules
  Matches <- AdmissionMatches
  Requests = {r1, r2, r3}
  Children = {}
  NoChild = none
  Tokens = {1, 3}
  Batch = 1
  MaxDelay = 0
  StartTime = 6
  MaxTime = 10
  MaxCount = 3
SYMMETRY RequestSymmetry
INVARIANTS
  GaugesExact
  ConcurrencyBound
  WindowBound
  RetryIsHonest
PROPERTIES
  RejectsCostNothing
