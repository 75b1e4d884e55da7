SPECIFICATION SessionSpec
CONSTANTS
  Backlog = 1
  MaxCrashes <- MCManyCrashes
  MaxEngineCrashes = 2
INVARIANTS SessionTypeOK HarmedByCrashesOnly
PROPERTIES SettlesServing EngineRestartHeals UnitsSettle
CHECK_DEADLOCK FALSE
