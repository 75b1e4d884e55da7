SPECIFICATION ShellSpec
CONSTANTS
  Spots <- MCSpots
  Layout <- MCLayout
  RingTol = 1
  FillTicks = 3
  Capacity = 3
  MaxFrames = 3
INVARIANTS ShellTypeOK RingEarned
PROPERTIES TypedWhereSeen HomeArrives
CHECK_DEADLOCK FALSE
