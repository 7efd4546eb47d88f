\* A deletion overlaps an undo.
SPECIFICATION Spec
CONSTANTS
  g1 = g1
  g2 = g2
  Geoms <- MCGeoms
  Kinds <- MCFewKinds
  MaxId = 8
  MaxEvents = 3
  MaxStack = 2
  Overlap = TRUE
INVARIANT DeletionsCanBeUndone
CHECK_DEADLOCK FALSE
