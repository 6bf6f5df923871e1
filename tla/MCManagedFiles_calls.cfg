SPECIFICATION MCSpec
CONSTANTS
  append = append
  retry = retry
  rewrite = rewrite
  update = update
  purge = purge
  read = read
  backup = backup
  None = None
  Calls <- MCCalls
  Kind <- MCKind
  Op <- MCOp
  Text <- MCText
  MaxRevision = 3
  MaxCrashes = 1
  MaxFaults = 1
INVARIANTS
  TypeOK
  RowHasFile
  ChosenIsFound
  OrphansComeFromTrouble
PROPERTY CallsSettle
CHECK_DEADLOCK FALSE
