CONSTANTS
  main = main
  idle = idle
  a = a
  console_lock = console_lock
  NULL = NULL
  CRT_ROWS = 2
  CRT_COLS = 2
  MaxLine = 2
  Char = {"x", "nl", "cr"}
  Locked <- MCMainAndA
  Plain <- MCMain
  Thread <- MCThread
  priority <- MCPriority
  BlockedAs = {"BLOCKED"}
  Lock <- MCLock
  Sema <- MCNoSema
  SemaInit <- MCSemaInit
SPECIFICATION ConsoleSpec
CHECK_DEADLOCK FALSE
INVARIANTS StoresNearScreen ScreenIsAtomic LinesIntact
