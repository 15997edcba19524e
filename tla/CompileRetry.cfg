SPECIFICATION ServicesSpec
CONSTANTS
  g1=g1
  g2=g2
  s1=s1
  l1=l1
  ida=ida
  gen=gen
  lemma=lemma
  text=text
  None = None
  Nothing = Nothing
  Parts = {"compile"}
  MaxText = 0
  Abbreviations <- TwoLetters
  Articles <- Stories
  Normal <- Forms
  Unsafe = {"<"}
  Scalars <- Lengths
  EveryRef = 120
  LocalRef = 96
  Drafts <- AnyDraft
  Renderings <- AnyRendering
  Versions = {"v1"}
  MaxRuns = 2
  MaxCorrections = 2
  Job = {g1, g2}
  Owner = {gen}
  Type = {"generation"}
  Entity = {s1}
  JobType <- GenType
  OwnerId <- GenOwner
  MaxAttempts <- OneAttempt
  Priority <- SamePriority
  Serves <- ServesAll
  CapabilityOwner = {}
  Revocable = {}
  Edges = {}
  MaxRequeues = 0
  Kind = {gen}
  GenJob = {g1, g2}
  Subject = {s1}
  MaxDeaths = 1
  Mode <- Modes
  Reference <- References
  Lexical = {lemma, text}
  Normalized <- SameForm
  Regenerate = {g2}
  PluginLoad = {l1, l2}
  Packages <- Artifacts
  Host <- ThisHost
  Registrations <- Offers
  Dispatch = {d1, d2}
  Event <- OneEvent
  MaxAdds <- FewAdds
  Provider = {p1}
  Selection = {sel}
  Reader = {rd1, rd2}
  MaxRefreshes = 2
  Profile = {ida, idb}
  Request = {rq1, rq2}
  Listings <- Lists
  Inputs <- Bodies
  NewNames = {"y"}
  Bootstrap <- ShortProfile
  Legacy <- OldProfiles
  Edited = {"correction"}
  MaxVersion = 2
  MaxRestarts = 1
  Record <- AnyRecord
  Level <- Shelf
  Timings <- AnyTimings
  TotalParagraphs = 2
  Corrections = 1
  BypassCache = FALSE
  Unrecorded = Unrecorded
  MaxFaults = 1
  MaxExits = 1
  Transports = {"codex_app_server", "history"}
  MaxTurns = 2
  MaxNoise = 1
  MaxLines = 8
CHECK_DEADLOCK FALSE
INVARIANT RetriesReuseParagraphs
