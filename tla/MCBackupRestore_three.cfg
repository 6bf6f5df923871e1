SPECIFICATION Spec
CONSTANTS
  Process = {p1, p2, p3}
  None = None
  First = First
  MaxFailures = 2
SYMMETRY Symmetry
INVARIANTS
  TypeOK
  NothingIsLost
  OutcomeIsDurable
  Resumable
PROPERTY OpensWholeRoots
\* Every process may have ended.
CHECK_DEADLOCK FALSE
