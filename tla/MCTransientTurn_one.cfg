SPECIFICATION Spec
CONSTANTS
  r1 = r1
  Runs <- OneRun
  MaxServers = 2
  MaxRestarts = 2
  MaxEdits = 1
INVARIANTS
  TypeOK
  SentAtMostOnce
  EndedMeansStopped
  OutputIsVerified
  TurnInv
PROPERTIES
  UpdatesAccepted
  KeepsPromise
CHECK_DEADLOCK FALSE
