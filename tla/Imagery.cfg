SPECIFICATION SpecMC
CONSTANTS
  Tiles = {t1}
  Attempts = 2
  MaxSids = 2
  MaxCommands = 2
  MaxTurns = 2
  Urls = {u1, u2}
  Loads = {c1, c2, c3, c4}
  MaxInflight = 2
  CacheMax = 1
  PrefetchSlots = 1
  PoolLimit = 2
CHECK_DEADLOCK FALSE
INVARIANT FailureIsWatched
INVARIANT SlotsAreUsed
PROPERTY PanelAgrees
