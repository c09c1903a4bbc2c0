CONSTANTS
  main = main
  idle = idle
  a = a
  chan = chan
  disk_done = disk_done
  NULL = NULL
  Blank = 0
  Data <- MCData
  Thread <- MCThread
  priority <- MCPriority
  BlockedAs = {"BLOCKED"}
  Lock <- MCLock
  Sema <- MCSema
  SemaInit <- MCSemaInit
  MaxChunks = 2
  MaxSectors = 2
  PollLimit = 3
  DeviceErrors = TRUE
  User <- MCOneUser
SPECIFICATION IdeFairSpec
CHECK_DEADLOCK FALSE
INVARIANTS DriverNoPanic
PROPERTIES TransferOnDrq CommandWhenIdle ImplementsDisk IoCompletes
