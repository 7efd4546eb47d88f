\* A worker takes a task that is being deleted.
SPECIFICATION Spec
CONSTANTS
  u1 = u1
  Tasks = {t1}
  Users = {u1}
  Owner <- OneOwner
  Workers = {w1}
  Handlers = {h1}
  NoTask = NoTask
  Limit = 1
  Faults = {}
  MaxFaults = 0
CHECK_DEADLOCK FALSE
PROPERTY DeletesOnlyIdleTasks
