SPECIFICATION Spec
CONSTANTS
  p1 = p1
  p2 = p2
  p3 = p3
  p4 = p4
  Process <- ThreeProcesses
  None = None
  Attempts = 3
INVARIANTS
  TypeOK
  OwnsUntilRaced
  StaleIsReclaimable
  LoneStartSucceeds
PROPERTY KeepsLease
\* Every process may have ended.
CHECK_DEADLOCK FALSE
