SPECIFICATION Spec
CONSTANTS
  k1 = k1
  k2 = k2
  o1 = o1
  o2 = o2
  p1 = p1
  p2 = p2
  n1 = n1
  n2 = n2
  Key = {k1}
  Proc = {p1, p2}
  Opener = {o1, o2}
  Name = {n1, n2}
  ProcOf <- ApartProcOf
  Bytes <- UnitBytes
  MaxAge = 5
  MaxBytes = 1
  MaxEntries = 1
  ShareNum = 1
  ShareDen = 2
  ShardTrigger = 0
  TouchInterval = 1
  SweepInterval = 1
  RetryInterval = 1
  OrphanAge = 0
  MaxTime = 0
  Fails = {"store", "replace", "list", "delete", "spawn", "root"}
  Prompt = FALSE
  Damage = FALSE
  Shard <- OneShard
  NoKey = NoKey
  Absent = Absent
  Torn = Torn
  Bad = Bad
  Degraded = Degraded
CHECK_DEADLOCK FALSE
PROPERTIES RefinesUncached
