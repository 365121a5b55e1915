SPECIFICATION Spec
CONSTANTS
  k1 = k1
  k2 = k2
  o1 = o1
  o2 = o2
  p1 = p1
  p2 = p2
  n1 = n1
  n2 = n2
  Key = {k1, k2}
  Proc = {p1}
  Opener = {o1}
  Name = {n1}
  ProcOf <- AloneProcOf
  Bytes <- TwoSizes
  MaxAge = 2
  MaxBytes = 2
  MaxEntries = 2
  ShareNum = 1
  ShareDen = 2
  ShardTrigger = 1
  TouchInterval = 1
  SweepInterval = 2
  RetryInterval = 1
  OrphanAge = 0
  MaxTime = 3
  Fails = {"touch", "list"}
  Prompt = TRUE
  Damage = FALSE
  Shard <- OneShard
  NoKey = NoKey
  Absent = Absent
  Torn = Torn
  Bad = Bad
  Degraded = Degraded
CHECK_DEADLOCK FALSE
SYMMETRY Names
INVARIANTS LiveTempsKept DeadSweepNotBooked SweptWithinBudget
PROPERTIES AgeDropsOnlyUnused EvictsLeastRecentlyUsed EvictionStopsAtTarget
