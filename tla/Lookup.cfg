SPECIFICATION Spec
CONSTANTS
  Trees <- MCTrees
  Hashes <- MCHashes
  Asked <- MCAsked
  Roles = {"owner", "view"}
  Cells = {0, 1, 2, 3, 4, 5}
  MaxIndex = 2
  MaxExtents = 4
  MaxRoom = 2
INVARIANTS
  TypeOK
  LookupAnswers
  MapFindsTree
  ViewMapNeverWrong
  SearchesEnd
CHECK_DEADLOCK FALSE
