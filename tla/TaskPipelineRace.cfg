\* No faults: two worker processes, four snapshots of one account.
SPECIFICATION Spec
CONSTANTS
  u1 = u1
  Tasks = {t1, t2, t3, t4}
  Users = {u1}
  Owner <- OneOwner
  Workers = {w1, w2}
  Handlers = {h1}
  NoTask = NoTask
  Limit = 2
  Faults = {}
  MaxFaults = 0
SYMMETRY Symmetry
CHECK_DEADLOCK FALSE
INVARIANT SavedWithinLimit
PROPERTY LimitKeepsNewest
PROPERTY SettledIsFinal
