SPECIFICATION Spec
CONSTANTS
  FileTypes = {"c"}
  Cancellable = FALSE
  Budget = 3
  FetchBudget = 2
  RecoveryCap = 1
  EofFloor = 1
  Fetches <- FetchesOf
  OwnTrees <- TreesOf
  CppTrees <- CppOrNot
  MaxPolls = 4
CHECK_DEADLOCK FALSE
INVARIANTS OutcomeFromBytes
