SPECIFICATION Spec
CONSTANTS
  Options <- MCOptions
  Rules = {"unshared", "unviewed", "started", "stopped"}
  MaxThreads = 2
  CancelEnded = "OK"
INVARIANT ClosedMeansUnused
