SPECIFICATION FairSpec
CONSTANTS
  Callers = {c1}
  Threshold = 2
  MaxRetries = 1
  Sandbox = FALSE
  UseOAuth = FALSE
  CallBudget = 2
PROPERTIES
  RecoveryRespected
