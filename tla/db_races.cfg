SPECIFICATION Spec
CONSTANTS
  h2 = h2
  w1 = w1
  w2 = w2
  Requests = {r1}
  Handlers = {h1, h2, h3}
  Workers = {w1, w2}
  WorkerOf <- SplitOverWorkers
  Docs = {d1, d2}
  None = None
  ExecutionEnabled = TRUE
SYMMETRY Documents
INVARIANTS
  AuditTellsTheStory
  RowBackedByAudit
  PostedOnlyAfterApproval
  ExecutionsWerePosted
  JournalNamesADecider
  Consistent
PROPERTIES
  OverlapFollowed
