SPECIFICATION BusSpec
CONSTANTS
  Capacity = 2
  MaxSeq = 5
PROPERTY LatestWins
CHECK_DEADLOCK FALSE
