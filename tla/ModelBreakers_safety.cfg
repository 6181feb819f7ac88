\* Two slots for three models; a fresh identity is always left for two requests.
CONSTANTS
  Requests = {r1, r2}
  Models = {m1, m2, m3}
  Breakers = {b1, b2, b3, b4}
  NoBreaker = NoBreaker
  MaxModelBreakers = 2
  IdleTTL = 2
  FailureThreshold = 1
  SuccessThreshold = 2
SYMMETRY Symmetry
SPECIFICATION Spec
INVARIANTS
  PinnedStays
  PinsExact
  Bounded
PROPERTIES
  ProtectsOpen
