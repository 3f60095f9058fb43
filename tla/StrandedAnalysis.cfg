SPECIFICATION Spec
CONSTANTS
  Images = {i1}
  InferenceWorker = w0
  AgentThreads = {t1}
  Requests = {}
  MaxRetries = 3
  MaxCrashes = 1
  Environments <- OnlyInferenceCrash
  NoImage = NoImage

CHECK_DEADLOCK FALSE
INVARIANT AnalysisOutstanding
