SPECIFICATION FairSpec
CONSTANTS
  delivery = delivery
  observation = observation
  message = message
  question = question
  cancel = cancel
  dispatch = dispatch
  t1 = t1
  t2 = t2
  NoCall = NoCall
  Ops = {observation, question, cancel}
  Tasks <- MCTasks
  TaskOf <- MCTaskOf
  Kind <- MCKind
  MaxChanges = 2
INVARIANTS
  OneActionPerTask
  NothingEscapesShutdown
  QuietAfterShutdown
  Exclusion
  NothingAfterDrain
PROPERTIES
  NoStartAfterClose
  EverythingEnds
\* Every call may have returned and the service stopped.
CHECK_DEADLOCK FALSE
