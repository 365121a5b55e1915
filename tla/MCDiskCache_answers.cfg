SPECIFICATION Spec
CONSTANTS
  k1 = k1
  k2 = k2
  o1 = o1
  o2 = o2
  p1 = p1
  p2 = p2
  n1 = n1
  n2 = n2
  Key = {k1, k2}
  Proc = {p1}
  Opener = {o1, o2}
  Name = {n1, n2}
  ProcOf <- TogetherProcOf
  Bytes <- UnitBytes
  MaxAge = 5
  MaxBytes = 1
  MaxEntries = 1
  ShareNum = 1
  ShareDen = 2
  ShardTrigger = 1
  TouchInterval = 1
  SweepInterval = 0
  RetryInterval = 0
  OrphanAge = 0
  MaxTime = 1
  Fails = {}
  Prompt = FALSE
  Damage = TRUE
  Shard <- OneShard
  NoKey = NoKey
  Absent = Absent
  Torn = Torn
  Bad = Bad
  Degraded = Degraded
CHECK_DEADLOCK FALSE
SYMMETRY Interchangeable
VIEW Steering
INVARIANTS EntriesSound AnswersSound
