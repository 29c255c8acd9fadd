SPECIFICATION Spec
CONSTANTS
  Dirs = {0, 1}
  Files = {2, 3}
  Root = 0
  Parent <- MCParent
  Path <- MCPath
  ExtMaps <- MCNonEmpty
  MaxQueue = 8
  MaxChanges = 3
  IdxMax = 100
  BeyondMapped = FALSE
  CommitMayFail = TRUE
  WatchMode = "extent"
  Initial = {0, 1, 2, 3}
  PoolMax = 6
  Junk = Junk
  Blank = Blank
  OtherErrors = TRUE
  MaxRead = 2
  WithReader = FALSE
  MaxIndex = 3
  IndexWhenStale = TRUE
INVARIANTS
  NoMissedChange
  Exclusive
CHECK_DEADLOCK FALSE
