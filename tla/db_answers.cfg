SPECIFICATION FairSpec
CONSTANTS
  h2 = h2
  w1 = w1
  w2 = w2
  Requests = {r1}
  Handlers = {h1, h2, h3}
  Workers = {w1, w2}
  WorkerOf <- SplitOverWorkers
  Docs = {d1}
  None = None
  ExecutionEnabled = TRUE
PROPERTIES
  EveryCallAnswered
