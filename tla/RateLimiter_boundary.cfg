SPECIFICATION Spec
CONSTANTS
  Rules <- AdmissionRules
  Matches <- AdmissionMatches
  Requests = {r1, r2, r3}
  Children = {}
  NoChild = none
  Tokens = {}
  Batch = 1
  MaxDelay = 1
  StartTime = 6
  MaxTime = 10
  MaxCount = 1
SYMMETRY RequestSymmetry
INVARIANTS
  NoDoubledBurst
