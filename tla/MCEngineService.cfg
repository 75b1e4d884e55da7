SPECIFICATION ServiceSpec
CONSTANTS
  Pos = {0}
  Dist <- MCPoint
  Surface <- MCPoint
  Coord = {0}
  Samples <- MCSamples
  Shadows <- MCShadows
  Ratios = {1}
  Fingers = {2}
  PinchOn = 1
  PinchOff = 1
  ShadowMin = 1
  SwipeSpeed = 1
  THome = 2
  TBack = 1
  Origin = 0
  TDwell = 1
  TLong = 1
  TapMax = 1
  TapMove = 0
  DragEps = 0
  DwellMove = 0
  MinStep = 0
  MaxStep = 4
  MaxTime = 4
  InCap = 2
PROPERTIES ServiceDrivesCore EndsWithPerception
CHECK_DEADLOCK FALSE
