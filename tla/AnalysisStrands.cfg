SPECIFICATION AnalysisSpec
CONSTANTS
  a1 = a1
  n1 = n1
  server = server
  Article = {a1}
  Job = {n1}
  Owner = {server}
  None = None
  Type = {"analysis"}
  Entity = {a1}
  JobType <- AnalysisType
  OwnerId <- ArticleOfJob
  Normal <- NormalJob
  MaxAttempts <- OneAttempt
  Priority <- SamePriority
  Serves <- ServesAnalysis
  CapabilityOwner = {}
  Revocable = {}
  Edges = {}
  MaxRequeues = 0
  Blocks = 1
  Suspends = FALSE
  Malformed = {}
  MaxCrashes = 0
INVARIANT QueuedArticlesHaveWork
