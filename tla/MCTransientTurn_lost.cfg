SPECIFICATION Spec
CONSTANTS
  r1 = r1
  Runs <- OneRun
  MaxServers = 2
  MaxRestarts = 2
  MaxEdits = 1
INVARIANT LostServersHaveNoRunningTurn
CHECK_DEADLOCK FALSE
