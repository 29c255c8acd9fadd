SPECIFICATION Spec
CONSTANTS
  AgCount = 2
  AgBlocks = 11
  AgBlkLog = 4
  InoPBLog = 1
  ChunkNino = 4
  DirBlocks = 2
  BlockSize = 4
  LbaSize = 2
  OffBits = 3
  HiBits = 2
  LoBits = 3
  CntBits = 3
  IdxMax = 100
  BeyondMapped = FALSE
  CommitMayFail = FALSE
  ReadMayFail = FALSE
  PoolMax = 12
  GarbageIno = 63
  MaxCalls = 3
  Images <- MCRemoved
INVARIANT IndexMatchesDisk
CHECK_DEADLOCK FALSE
