SPECIFICATION FairSpec
CONSTANTS
  j1 = j1
  j2 = j2
  w1 = w1
  w2 = w2
  Job = {j1}
  Owner = {w1, w2}
  None = None
  Type = {"tts"}
  Entity = {"render"}
  JobType <- RaceType
  OwnerId <- RaceOwnerId
  MaxAttempts <- TwoAttempts
  Priority <- SamePriority
  Serves <- RaceServes
  CapabilityOwner = {}
  Revocable = {w1}
  Edges = {}
  MaxRequeues = 0

PROPERTIES EveryJobSettles
CHECK_DEADLOCK FALSE
