SPECIFICATION Spec
CONSTANTS
  Images = {i1}
  InferenceWorker = w0
  AgentThreads = {t1, t2}
  Requests = {r1, r2}
  MaxRetries = 3
  MaxCrashes = 1
  Environments <- Chaotic
  NoImage = NoImage
SYMMETRY Symmetry
CHECK_DEADLOCK FALSE
INVARIANT DetectionsOnce
INVARIANT BaselineFirst
INVARIANT InferenceNeverLost
INVARIANT AnalysisNeverLost
PROPERTY AgentsResultKept
