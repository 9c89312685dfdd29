SPECIFICATION FairSpec
CONSTANTS
  Calls = {q1, q2}
  MaxPairs = 2
PROPERTIES
  RefreshOnlyRenews
