\* One to three executor threads, four jobs, two requests with wait=true.
SPECIFICATION SpecMC
CONSTANTS
  MaxJobs = 4
  MaxLimit = 3
  MaxWaits = 2
  Children = {p1, p2}
  Codes = {m1}
  MaxTurns = 4
  Sides = {1, 9, 14, 15, 16, 30, 41, 46}
  Grounds = {4000, 10000, 30000}
  Batch = 3
  MaxSide = 40
INVARIANT SlotsRespected
INVARIANT PositionsAreHonest
INVARIANT OrderDrains
PROPERTY PositionNeverGrows
PROPERTY ServesInOrder
PROPERTY JobsEnd
INVARIANT WindowsCover
INVARIANT KeyIsTrue
PROPERTY HealthIsTold
CHECK_DEADLOCK FALSE
