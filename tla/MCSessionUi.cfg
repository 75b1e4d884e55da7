SPECIFICATION SessionSpec
CONSTANTS
  Backlog = 1
  MaxCrashes <- MCUiCrashes
  MaxEngineCrashes = 2
PROPERTY ConnectedIsServed
CHECK_DEADLOCK FALSE
