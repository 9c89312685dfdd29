SPECIFICATION Spec
CONSTANTS
  People = {ann, bob}
  Docs = {d1, d2, d3}
  Requests = {r1, r2, r3}
  Workers = {w1, w2}
  None = None
  ExecutionEnabled = TRUE
SYMMETRY Interchangeable
INVARIANTS
  AtMostOneExecution
  JournalMatchesStore
  Consistent
PROPERTIES
  LifecycleFollowed
  ExpiredNeverPosted
