SPECIFICATION Spec
CONSTANTS
  Thread = {t1, t2}
  NoThread = NoThread
  Uncounted = Uncounted
  MaxInner = 2
CHECK_DEADLOCK FALSE
SYMMETRY Threads
INVARIANTS GuardedPanicsAreSilent HostPanicsAreHeard ErrorCountAgrees AbsenceIsSaid CountsCoverSource
