SPECIFICATION Spec
CONSTANTS
  h2 = h2
  w1 = w1
  w2 = w2
  Requests = {r1, r2}
  Handlers = {h1}
  Workers = {w1, w2}
  WorkerOf <- SplitOverWorkers
  Docs = {d1, d2, d3}
  None = None
  ExecutionEnabled = TRUE
SYMMETRY RequestsAndDocuments
PROPERTIES
  LifecycleFollowed
  PostedWhileApproved
