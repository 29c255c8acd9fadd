SPECIFICATION FairSpec
CONSTANTS
  Dirs = {0, 1}
  Files = {2, 3}
  Root = 0
  Parent <- MCParent
  Path <- MCPath
  ExtMaps <- MCAnyMap
  MaxQueue = 1
  MaxChanges = 2
  IdxMax = 100
  BeyondMapped = FALSE
  CommitMayFail = FALSE
  WatchMode = "dirty"
  Initial = {0, 1, 2, 3}
  PoolMax = 20
  Junk = Junk
  Blank = Blank
  OtherErrors = FALSE
  MaxRead = 2
  WithReader = TRUE
  MaxIndex = 7
  IndexWhenStale = TRUE
INVARIANTS
  TypeOK
  NoMissedChange
  OddWhileModified
  WalksSeeOneTree
PROPERTY
  CatchesUp
CHECK_DEADLOCK FALSE
