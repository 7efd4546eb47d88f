\* Every kind of fault.
SPECIFICATION Spec
CONSTANTS
  u1 = u1
  Tasks = {t1, t2}
  Users = {u1}
  Owner <- OneOwner
  Workers = {w1, w2}
  Handlers = {h1}
  NoTask = NoTask
  Limit = 1
  Faults = {"apiCrash", "sendUnsure", "workerCrash", "childLost", "timeout", "dbDown"}
  MaxFaults = 2
SYMMETRY Symmetry
CHECK_DEADLOCK FALSE
INVARIANT TypeOK
INVARIANT RowsAreBacked
INVARIANT StatusIsTruthful
INVARIANT RepeatsNeedFaults
