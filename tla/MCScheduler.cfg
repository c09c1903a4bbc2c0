CONSTANTS
  main = main
  idle = idle
  a = a
  b = b
  Thread <- MCThread
  priority <- MCPriority
  BlockedAs = {"BLOCKED", "WAITING"}
SPECIFICATION FairSpec
INVARIANTS TypeOK OneRunning ReadyListSound NoPanic
PROPERTIES IdleIsLastResort NoStarvation
