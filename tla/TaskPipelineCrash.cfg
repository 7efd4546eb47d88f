\* Workers die; everything that is submitted is settled nevertheless.
SPECIFICATION FairSpec
CONSTANTS
  u1 = u1
  Tasks = {t1, t2}
  Users = {u1}
  Owner <- OneOwner
  Workers = {w1, w2}
  Handlers = {h1}
  NoTask = NoTask
  Limit = 1
  Faults = {"workerCrash"}
  MaxFaults = 2
CHECK_DEADLOCK FALSE
INVARIANT OneExecution
INVARIANT NothingStranded
PROPERTY EverythingSettles
