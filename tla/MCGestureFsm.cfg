SPECIFICATION Spec
CONSTANTS
  Pos <- MCPos
  Dist <- MCDist
  Origin = 0
  TDwell = 3
  TLong = 2
  TapMax = 1
  TapMove = 1
  DragEps = 2
  DwellMove = 0
  MinStep = 0
  MaxStep = 2
  MaxTime = 5
INVARIANTS TypeOK NeverOverdue
PROPERTY GrammarKept
