SPECIFICATION Spec
CONSTANTS
  Agents = 2
  MaxCrashes = 1
  MaxFaults = 1
  MaxStops = 2
INVARIANTS
  TypeOK
  SettledIsOver
  CanceledNeverSent
  PublishedIsVerified
CONSTRAINT FewTroubles
CHECK_DEADLOCK FALSE
