SPECIFICATION Spec
CONSTANTS
  p1 = p1
  p2 = p2
  p3 = p3
  p4 = p4
  Process <- FourProcesses
  None = None
  Attempts = 2
CONSTRAINT DeadOwner
INVARIANT AtMostOneOwner
CHECK_DEADLOCK FALSE
