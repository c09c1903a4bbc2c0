CONSTANTS
  main = main
  idle = idle
  a = a
  Thread <- MCThread
  priority <- MCPriority
  BlockedAs = {"BLOCKED"}
  Timer = 0
  Keyboard = 1
  Disk = 14
SPECIFICATION IntrSpec
INVARIANTS NoPanic
PROPERTIES RequestsServed ImplementsFairScheduler
