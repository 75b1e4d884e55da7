SPECIFICATION NSpec
CONSTANTS
  Pos <- MCPos
  Dist <- MCDist
  Surface <- MCSurface
  Coord <- MCCoord
  Samples <- MCSamples
  Shadows <- MCShadows
  Ratios = {0, 1, 2}
  Fingers = {0, 4}
  PinchOn = 1
  PinchOff = 1
  ShadowMin = 1
  SwipeSpeed = 3
  THome = 1
  TBack = 0
  Origin = 0
  TDwell = 1
  TLong = 1
  TapMax = 1
  TapMove = 1
  DragEps = 2
  DwellMove = 1
  MinStep = 0
  MaxStep = 1
  MaxTime = 3
INVARIANTS CoreTypeOK NothingInherited
PROPERTIES DrivesRecogniser StreamGrammarKept ShapesEarned DragEndsWhereShown
CHECK_DEADLOCK FALSE
