\* Three goroutines: a stale request of the closed era, a probe, a third one.
CONSTANTS
  Requests = {r1, r2, r3}
  MaxAttempts = 2
  FailureThreshold = 2
  SuccessThreshold = 2
SPECIFICATION FairSpec
INVARIANTS
  SlotHeldByProbe
  ProbeSendsOnce
  GaugeExact
PROPERTIES
  OpenEndsWithProbe
  CancelIsNoVerdict
  SlotReturns
  Recovers
