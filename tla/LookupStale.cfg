SPECIFICATION Spec
CONSTANTS
  Trees <- MCTrees
  Hashes <- MCHashes
  Asked <- MCAsked
  Roles = {"owner"}
  Cells = {0, 1, 2, 3, 4, 5}
  MaxIndex = 3
  MaxExtents = 4
  MaxRoom = 2
INVARIANT
  LookupReturnsAsked
CHECK_DEADLOCK FALSE
