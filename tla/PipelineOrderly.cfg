SPECIFICATION Spec
CONSTANTS
  Images = {i1, i2}
  InferenceWorker = w0
  AgentThreads = {t1, t2}
  Requests = {r1}
  MaxRetries = 3
  MaxCrashes = 2
  Environments <- Orderly
  NoImage = NoImage
SYMMETRY Symmetry
CHECK_DEADLOCK FALSE
INVARIANT TypeOK
INVARIANT RowConsistent
PROPERTY ImplementsLifecycle
