\* Pixels of 0.04, 0.1 and 0.3 m; YOLO in batches of three; at most 40 pixels a side.
SPECIFICATION Spec
CONSTANTS
  Sides <- MCSides
  Grounds = {4000, 10000, 30000}
  Tile <- MCTile
  Stride <- MCStride
  Target <- MCTarget
  MaxWindows <- MCMaxWindows
  Batch = 3
  MaxSide = 40
CHECK_DEADLOCK FALSE
INVARIANT WithinBudget
