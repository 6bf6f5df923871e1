SPECIFICATION FairSpec
CONSTANTS
  r1 = r1
  Runs <- OneRun
  MaxServers = 1
  MaxRestarts = 1
  MaxEdits = 0
PROPERTIES
  CallsEnd
  StopIsSettled
CHECK_DEADLOCK FALSE
