SPECIFICATION SpeechSpec
CONSTANTS
  r1 = r1
  r2 = r2
  r3 = r3
  a1 = a1
  a2 = a2
  w1 = w1
  w2 = w2
  d1 = d1
  d2 = d2
  h1 = h1
  h2 = h2
  Job = {r1}
  Article = {a1}
  Owner = {w1}
  Digest = {d1}
  Handler = {h1}
  Sentences <- OneSentence
  Words <- NoWords
  MaxAttempts <- TwoAttempts
  Revocable = {}
  MaxRequeues = 0
  Regenerates = {}
  Protocols = {"older"}
  RetryReports = {FALSE}
  ForeignSweeps = TRUE
  DiskFaults = FALSE
  Disconnects = FALSE
  None = None
  NoBlob = NoBlob
  Type = {"chatterbox", "avspeech"}
  Entity = {"audio_render"}
  JobType <- SynthesisType
  OwnerId <- RenderOwner
  Priority <- SamePriority
  Position <- RenderPosition
  Serves <- ServesNarration
  CapabilityOwner = {}
  Edges = {}
CHECK_DEADLOCK FALSE
INVARIANTS FailedJobsFailTheirRenders
