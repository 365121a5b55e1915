SPECIFICATION Spec
CONSTANTS
  FileTypes = {"c", "objc", "other"}
  Cancellable = TRUE
  Budget = 4
  FetchBudget = 2
  RecoveryCap = 1
  EofFloor = 1
  Fetches <- FetchesOf
  OwnTrees <- TreesOf
  CppTrees <- CppOrNot
  MaxPolls = 5
CHECK_DEADLOCK FALSE
INVARIANTS OneGrammarFromBytes UndisturbedFromBytes
