CONSTANTS
  main = main
  idle_t = idle_t
  t1 = t1
  t2 = t2
  l1 = l1
  c1 = c1
  NULL = NULL
  Main = main
  Idle = idle_t
  Others <- mcOthers
  Locks <- mcLocks
  Conds <- mcConds
  LockOf <- mcLockOf
  Durations = {0, 1, 2}
  TimeSlice = 2
  Programs <- mcPrograms
SPECIFICATION FairSpec
INVARIANTS ListsSound LockExclusion NoLostWakeup
PROPERTIES WakeupsOnTime EveryThreadRuns
CHECK_DEADLOCK FALSE
