SPECIFICATION Spec
CONSTANTS
  j1 = j1
  j2 = j2
  w1 = w1
  w2 = w2
  Job = {j1, j2}
  Owner = {w1, w2}
  None = None
  Type = {"tts"}
  Entity = {"render"}
  JobType <- RaceType
  OwnerId <- RaceOwnerId
  MaxAttempts <- RaceAttempts
  Priority <- SamePriority
  Serves <- RaceServes
  CapabilityOwner = {w1}
  Revocable = {w1}
  Edges <- CycleEdges
  MaxRequeues = 1
INVARIANTS AttemptIdentifiesLease ExactlyOnceCompletion OneActiveLeasePerLane DependenciesAcyclic
PROPERTIES TerminalRowsAreFrozen LiveLeaseIsProtected ImplementsLedger
CHECK_DEADLOCK FALSE
