SPECIFICATION FairSpec
CONSTANTS
  delivery = delivery
  observation = observation
  message = message
  question = question
  cancel = cancel
  dispatch = dispatch
  t1 = t1
  t2 = t2
  NoCall = NoCall
  Ops = {message, dispatch}
  Tasks <- MCTasks
  TaskOf <- MCTaskOf
  Kind <- MCKind
  MaxChanges = 2
\* Every call may have returned and the service stopped.
PROPERTY DispatchEnds
CHECK_DEADLOCK FALSE
