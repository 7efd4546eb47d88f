\* Every kind of edit, one agent at a time.
SPECIFICATION Spec
CONSTANTS
  g1 = g1
  g2 = g2
  Geoms <- MCGeoms
  Kinds <- MCAllKinds
  MaxId = 9
  MaxEvents = 3
  MaxStack = 2
  Overlap = FALSE
INVARIANT TypeOK
INVARIANT HistoryIsExact
INVARIANT StoreIsCurrent
INVARIANT NothingIsMissing
INVARIANT FailedUndoLosesNothing
CHECK_DEADLOCK FALSE
