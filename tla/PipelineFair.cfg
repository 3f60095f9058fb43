SPECIFICATION FairSpec
CONSTANTS
  Images = {i1, i2}
  InferenceWorker = w0
  AgentThreads = {t1}
  Requests = {r1}
  MaxRetries = 2
  MaxCrashes = 1
  Environments <- Fair
  NoImage = NoImage

CHECK_DEADLOCK FALSE
PROPERTY InferenceSettles
PROPERTY EveryImageSettles
