SPECIFICATION Spec
CONSTANTS
  Dirs = {0, 1}
  Files = {2, 3}
  Root = 0
  Parent <- MCParent
  Path <- MCPath
  ExtMaps <- MCAnyMap
  MaxQueue = 8
  MaxChanges = 2
  IdxMax = 100
  BeyondMapped = FALSE
  CommitMayFail = FALSE
  WatchMode = "extent"
  Initial = {0, 1, 2, 3}
  PoolMax = 20
  Junk = Junk
  Blank = Blank
  OtherErrors = FALSE
  MaxRead = 2
  WithReader = TRUE
  MaxIndex = 3
  IndexWhenStale = TRUE
INVARIANT
  WalksSeeOneTree
CHECK_DEADLOCK FALSE
