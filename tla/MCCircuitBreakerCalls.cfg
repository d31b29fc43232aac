\* Three callers, two probes: late results and cancelled calls in every state.
CONSTANTS
  Callers = {c1, c2, c3}
  FailureThreshold = 3
  RecoveryTimeout = 2
  HalfOpenMaxCalls = 2
  Cancels = TRUE
SPECIFICATION FairSpec
INVARIANTS
  ClosedBelowThreshold
  ProbesInFlight
PROPERTIES
  OpenIsProbed
  HalfOpenIsDecided
