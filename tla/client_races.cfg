SPECIFICATION FairSpec
CONSTANTS
  Callers = {c1, c2}
  Threshold = 2
  MaxRetries = 1
  Sandbox = FALSE
  UseOAuth = TRUE
  CallBudget = 4
INVARIANTS
  BreakerCounts
  SendsBounded
  MetricsAddUp
  GaveUpAfterAllAttempts
  Consistent
PROPERTIES
  OpenBreakerDrains
  CallsShrink
  EveryCallEnds
