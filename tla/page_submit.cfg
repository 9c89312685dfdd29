SPECIFICATION Spec
CONSTANTS
  Readers = {me, other}
  Me = me
  me = me
  other = other
  TTL <- MCTTL
  MaxFetch = 1
  Scenarios <- MCScenarios
  Answers <- MCAnswers
  Tcodes = {"MIGO"}
INVARIANTS
  SubmittedAsShown
CHECK_DEADLOCK FALSE
