SPECIFICATION FairSpec
CONSTANTS
  Requests = {r1}
  Segments = {s1, s2, s3}
  Videos = {v1}
  NoVideo = NoVideo
  Responses <- Bodies
  SettingsChoices <- SomeOff
  FailClosed = TRUE
  TextMode = "block"
  TextWorkers = 2
  MaxMarked = 2
INVARIANTS FailClosedHolds FlaggedIsBlocked AuditNeverContradicts
PROPERTY EveryRequestEnds
