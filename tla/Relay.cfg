SPECIFICATION RelaySpec
CONSTANTS
  c1=c1
  w1=w1
  w2=w2
  x1=x1
  x2=x2
  y1=y1
  x=x
  y=y
  None = None
  Job = {c1}
  Owner = {w1, w2}
  Type = {"relay"}
  Entity = {"call"}
  JobType <- RelayType
  OwnerId <- RelayOwner
  MaxAttempts <- TwoAttempts
  Priority <- SamePriority
  Serves <- ServesRelay
  CapabilityOwner = {w2}
  Revocable = {w1}
  Edges = {}
  MaxRequeues = 0
  RelayJob = {c1}
  Worker = {w1, w2}
  Operation <- ChatCalls
  Body = {x1, x2, y1}
  Answer = {x, y}
  Canonical <- Spellings
  Foreign = FALSE
  FailureCode = {"relay_unreachable", "relay_auth"}
  PresenceState = {"ready", "paused"}
CHECK_DEADLOCK FALSE
INVARIANTS AnswersAgree ReturnedCallsLeaveNoWork
