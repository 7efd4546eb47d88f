\* Two objects that an undo left behind are merged.
SPECIFICATION Spec
CONSTANTS
  g1 = g1
  g2 = g2
  Geoms <- MCGeoms
  Kinds <- MCAllKinds
  MaxId = 8
  MaxEvents = 3
  MaxStack = 2
  Overlap = FALSE
INVARIANT MergeKeepsTheFirst
CHECK_DEADLOCK FALSE
