SPECIFICATION Spec
CONSTANTS
  Images = {i1}
  InferenceWorker = w0
  AgentThreads = {t1, t2}
  Requests = {r1, r2}
  MaxRetries = 3
  MaxCrashes = 0
  Environments <- OnlyError
  NoImage = NoImage

CHECK_DEADLOCK FALSE
INVARIANT RowConsistent
