SPECIFICATION SpecMC
CONSTANTS
  Layers = {1, 2}
  Home <- MCHome
  Points = {3}
  MaxId = 4
  MaxTasks = 2
  MaxMarks = 1
  MaxElsewhere = 1
  MaxLayers = 3
  MaxFolders = 2
  MaxCommands = 2
  MaxLoads = 2
  Classes = {1, 2}
  MaxRuns = 2
  MaxDrawn = 1
  MaxClicks = 2
  Results <- Found
  Picks <- Chosen
CHECK_DEADLOCK FALSE
INVARIANT ToolsAgree
INVARIANT StrokesStay
INVARIANT ModelAgrees
INVARIANT SnapshotsAgree
