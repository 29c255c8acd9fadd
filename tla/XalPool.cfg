SPECIFICATION Spec
CONSTANTS
  IdxMax = 4
  BeyondMapped = FALSE
  CommitMayFail = TRUE
  Reserved = 6
  MaxClaim = 3
INVARIANTS
  TypeOK
  ClaimedIsWritable
  ClaimedWithinReserve
PROPERTIES
  HandsOutZeroed
  GrowKeepsClaimed
  ImplementsBumpAllocator
CHECK_DEADLOCK FALSE
