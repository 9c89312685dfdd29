SPECIFICATION FairSpec
CONSTANTS
  Calls = {q1, q2, q3}
  MaxPairs = 2
INVARIANTS
  GateMatchesRefresh
  NobodyForgotten
  ResentWithNewer
  Consistent
PROPERTIES
  EveryRequestSettled
