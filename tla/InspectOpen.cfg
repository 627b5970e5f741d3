SPECIFICATION Spec
CONSTANTS
  Requests = {r1, r2}
  Segments = {s1, s2}
  Videos = {v1, v2, v3}
  NoVideo = NoVideo
  Responses <- Web
  SettingsChoices <- AllOn
  FailClosed = FALSE
  TextMode = "strip"
  TextWorkers = 2
  MaxMarked = 2
INVARIANTS FlaggedIsBlocked OutageNeverBlocks MarkedWasFlagged MemoryBounded
SYMMETRY Symmetric
