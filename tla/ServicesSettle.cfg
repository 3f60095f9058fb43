SPECIFICATION FairSpec
CONSTANTS
  Parts = {"alerts", "chat", "housekeeping", "dashboard", "registry"}
  \* Alerts
  Batches = {"b1"}
  Window = "global"
  Threshold = 50
  MaxImages = 2
  Acknowledgers = {"k1"}
  MaxMonitorCrashes = 1
  \* Accounts
  Users = {"u1", "u2"}
  Emails = {"e1", "e2"}
  Calls = {"c1", "c2"}
  MaxFailedAttempts = 1
  MaxLockout = 2
  MaxAttempts = 2
  \* AgentChain
  Found = {"d1"}
  Drawn = {"d3"}
  Unknown = "d0"
  Classes = {"short", "spur"}
  ClassOf <- Kinds
  KnowledgeBase <- Ranks
  Severities = {1, 2}
  MaxFindings = 2
  MaxReviewAttempts = 2
  ChainTasks = {x1, x2}
  \* Chat
  Turns = {"t1", "t2"}
  MaxToolIterations = 2
  MaxCalls = 1
  ChatFaults <- Faults
  \* Feedback
  Analyses = {"a1"}
  Reviewed = {}
  Dispositions = {"p1"}
  Feedbacks = {"f1", "f2"}
  MaxEntries = 3
  \* Housekeeping
  Documents = {"d1"}
  UnderWatchRoot = {}
  Purge = "purge_expired"
  Cleared = NoValue
  RetentionValues = {1, NoValue}
  MaxAge = 2
  MaxWorkerCrashes = 1
  \* Dashboard
  Images = {"i1"}
  Weight <- Weights
  MaxDrawn = 1
  Queries = {"q1", "q2"}
  Keys = {"summary", "recent_batches"}
  Ttl = 2
  \* GoldenSet
  NumBoxes = 2
  MaxIoU = 3
  Thresholds = {2, 3}
  MaxPredictions = 4
  Scale = 12
  \* EventStream
  Requests = {"q1", "q2"}
  MaxDrops = 1
  \* Launcher
  HealthTimeout = 4
  PollInterval = 3
  ClientTimeout = 2
  \* ModelRegistry
  Versions = {"v0", "v1"}
  Seed = "v0"
  NoVersion = NoValue
  Activations = {"a1"}
  MaxCrashes = 2
  Environments <- Evaluating
CHECK_DEADLOCK FALSE
PROPERTY ExcessIsAlerted
PROPERTY EveryTurnAnswered
PROPERTY GenerationEnds
PROPERTY StaleAnswersEnd
PROPERTY EvaluationSettles
