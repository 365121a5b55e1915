SPECIFICATION Spec
CONSTANTS
  Graphs <- SmallGraphs
  Questions <- SmallQuestions
  Transfers <- SmallTransfers
  NoField = NoField
  StepLimit = 50
  DepthLimit = 6
  FrameBindingLimit = 3
  FrameEntryLimit = 9
  Text <- Texts
  Size <- Sizes
  Ident <- Identifiers
  Decoded <- Unescaped
  Pickles <- SmallOpcodes
  NameMapping <- RenamedGlobals
  ImportMapping <- RenamedModules
  MemoIndex = {0, 1}
  OperandCap = 3
  Streams = {2}
  MaxOpcodes = 5
  MaxStack = 4
  Artifacts <- SmallArtifacts
  NoPath = NoPath
  VisitLimits = {2, 5, 8, 40}
  Scripts <- SmallScripts
  MaxFacts = 2
  MaxBodyBytes = 2
  NotCreated = NotCreated
  MaxNestedParses = 2
  MaxNestedBytes = 3
  Name = {"g", "h", "s", "t"}
  Target = {"launcher", "tempfile", "other"}
  Statements <- SmallStatements
  Absent = Absent
  StatementLimits = {2, 5}
  MaxModule = 5
  MaxCalls = 2
  MaxTemporaries = 2
  MaxEvents = 2
  MaxWritten = 2
CHECK_DEADLOCK FALSE
INVARIANTS ContextsKeptApartIfRegular CompleteMeansAll CompleteValuesProven GlobalsAsImported CratesWholeOrTruncated RelationsWholeOrLimited CallsAsBoundIfPlain FilesUntilUnseen
