SPECIFICATION PartsSpec
CONSTANTS
  Redetect = 2
  MaxFrames = 8
  Size <- MCSize
  Radius = 4
  GapOn = 2
  GapOff = 3
  MinArea = 2
  AmbientMin = 10
  LumaRef = 8
  ShadowMin = 48
  Tips <- MCTips
  Blobs <- MCBlobs
  Lumas = {0, 3, 9, 20}
  MaxMeasured = 3
  Window = 3
  ReportInterval = 2
  Width = 4
  Times = {1, 3, 4}
  MaxRecords = 4
  BlockSize = 8
  LengthSize = 2
  ChunkSize = 9
  MaxLength = 20
  MaxFd = 3
  Lengths = {0, 10, 36, 372, 400}
  PayloadLens = {8, 344, 345}
  MaxSent = 3
  WireCap = 2
  Values <- MCValues
  Units = 2
  Ratios = {0, 1, 20, 24}
  Step = 40
  MaxSamples = 5
  Initial = 1
  MaxBackoff = 6
  ResetAfter = 7
  MaxWaits = 5
INVARIANTS PartsTypeOK  LatchTellsTruth ReportsOnTime StatsAreReal AcceptsOwnHash
INVARIANTS HoldsItsOwn NeverStranded FramesArriveWhole ScaleFree UsableThresholds WaitIsEarned
CHECK_DEADLOCK FALSE
