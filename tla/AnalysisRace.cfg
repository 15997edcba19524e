SPECIFICATION FairAnalysisSpec
CONSTANTS
  a1 = a1
  n1 = n1
  server = server
  Article = {a1}
  Job = {n1, f1}
  Owner = {server}
  None = None
  Type = {"analysis"}
  Entity = {a1}
  JobType <- AnalysisType
  OwnerId <- ArticleOfJob
  Normal <- NormalJob
  MaxAttempts <- TwoThenOne
  Priority <- SamePriority
  Serves <- ServesAnalysis
  CapabilityOwner = {}
  Revocable = {}
  Edges = {}
  MaxRequeues = 0
  Blocks = 2
  Suspends = TRUE
  Malformed = {n1, f1}
  MaxCrashes = 1
INVARIANTS ReadyArticlesAreComplete OpenRunsAreWorkedOn QueuedRowsHaveAttemptsLeft
PROPERTIES SuccessMeansPublished EveryJobSettles
