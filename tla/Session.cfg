SPECIFICATION FairSpec
CONSTANTS
  Options <- MCOptions
  Rules = {"unshared", "unviewed", "started", "ended"}
  MaxThreads = 2
  CancelEnded = "OK"
INVARIANTS TypeOK NothingOutlivesHandle ViewsSeeBuiltTree WatchMeansWatched
PROPERTY StopEnds
