CONSTANTS
  main = main
  idle = idle
  a = a
  qlock = qlock
  NULL = NULL
  BUF_SIZE = 3
  Char <- MCChar
  Thread <- MCThread
  priority <- MCPriority
  BlockedAs = {"BLOCKED"}
  Lock <- MCLock
  Sema <- MCSema
  SemaInit <- MCSemaInit
  Producer <- MCProducer
  Consumer <- MCConsumer
SPECIFICATION IoqSpec
CHECK_DEADLOCK FALSE
INVARIANTS SleepersAreNamed
PROPERTY RingIsFifo
