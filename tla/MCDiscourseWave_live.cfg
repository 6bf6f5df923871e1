SPECIFICATION FairSpec
CONSTANTS
  Agents = 1
  MaxCrashes = 1
  MaxFaults = 0
  MaxStops = 1
PROPERTIES
  RunningTurnCloses
  QueuedIsLeased
CHECK_DEADLOCK FALSE
