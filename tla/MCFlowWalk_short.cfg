SPECIFICATION FlowSpec
CONSTANTS
  Graphs <- ShortCall
  Questions <- OneQuestion
  Transfers <- SmallTransfers
  NoField = NoField
  StepLimit = 50
  DepthLimit = 6
  FrameBindingLimit = 3
  FrameEntryLimit = 9
CHECK_DEADLOCK FALSE
INVARIANTS ContextsKeptApart
