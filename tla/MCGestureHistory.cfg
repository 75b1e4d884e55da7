SPECIFICATION HSpec
CONSTANTS
  Pos <- MCPos
  Dist <- MCDist
  Origin = 0
  TDwell = 2
  TLong = 2
  TapMax = 1
  TapMove = 1
  DragEps = 1
  DwellMove = 1
  MinStep = 1
  MaxStep = 1
  MaxTime = 8
INVARIANT AnchorsTellTruth
PROPERTIES DwellEarned LongEarned TimedEventsSpaced
CHECK_DEADLOCK FALSE
