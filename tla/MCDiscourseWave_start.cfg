SPECIFICATION FairSpec
CONSTANTS
  Agents = 1
  MaxCrashes = 1
  MaxFaults = 0
  MaxStops = 0
PROPERTY EveryStartEnds
CHECK_DEADLOCK FALSE
