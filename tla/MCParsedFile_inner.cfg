SPECIFICATION Spec
CONSTANTS
  Thread = {t1}
  NoThread = NoThread
  Empty = Empty
  Kinds = {"tree"}
  CacheUses = {TRUE}
  InnerParses = TRUE
INVARIANTS StoredDespiteStop
