SPECIFICATION FairSpec
CONSTANTS
  Thread = {t1, t2}
  NoThread = NoThread
  Empty = Empty
  Kinds = {"tree", "cfml", "other"}
  CacheUses = {TRUE, FALSE}
  InnerParses = FALSE
INVARIANTS PipelineRunsOnce StoredIsReproducible CompleteMeansWhole OneTree PaidOnlyIfRead WaitsDownward
PROPERTIES CallsReturn
