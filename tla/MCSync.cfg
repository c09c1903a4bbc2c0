CONSTANTS
  main = main
  idle = idle
  a = a
  b = b
  sem = sem
  lk = lk
  NULL = NULL
  Thread <- MCThread
  priority <- MCPriority
  BlockedAs = {"BLOCKED"}
  Lock <- MCLock
  Sema <- MCSema
  SemaInit <- MCSemaInit
SPECIFICATION SyncFairSpec
INVARIANTS SemaExcludes WaitersAreBlocked HolderRuns
PROPERTIES ImplementsScheduler SemaProgress
