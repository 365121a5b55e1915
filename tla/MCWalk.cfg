SPECIFICATION Spec
CONSTANTS
  Args <- TwoArgs
  Tree <- SmallTree
  Kinds = {"file", "link", "dirlink", "fifo"}
  MaxBytes = 1
  MaxSize = 2
  MaxChanges = 1
CHECK_DEADLOCK FALSE
INVARIANTS ExitStatusTrue NothingSkipped OutputInOrder
PROPERTIES ReadsWholeOrRefuses Terminates
