SPECIFICATION FairSpec
CONSTANTS
  porn = porn
  sexy = sexy
  Calls = {v1, v2}
  Sizes = {1, 3, 6}
  ChunkSize = 2
  MaxVideoBytes = 3
  MaxConcurrent = 1
  DefaultFrames = 2
  Looks <- MCLooks
  Threshold <- MCThreshold
  FailClosed = TRUE
INVARIANTS SlotsAdd FileIsPrefix WorstFrameDecides AllowedWasScanned
PROPERTY SlotsComeBack
