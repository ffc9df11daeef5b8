SPECIFICATION Spec
CONSTANTS
  Funs = {f1}
  Conns = {c1, c2}
  Queries = {q1, q2}
  MaxObjects = 2
  MaxTasks = 2
  None = None
INVARIANTS
  MainSeesOwnObjects
  CallbacksOnTheCallersThread
  ThrownIsNotDelivered
PROPERTIES
  RunAllTasksEnds
CHECK_DEADLOCK FALSE
