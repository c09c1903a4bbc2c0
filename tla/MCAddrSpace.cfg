CONSTANTS
  main = main
  idle = idle
  a = a
  p = p
  q = q
  NULL = NULL
  Wild = Wild
  BootDir = BootDir
  MAX_FILES_OPEN_PER_PROC = 8
  MAX_FILE_OPEN_PER_PROC = 32
  Thread <- MCThread
  priority <- MCPriority
  Process <- MCProcess
  BlockedAs = {"BLOCKED"}
SPECIFICATION AddrSpec
CHECK_DEADLOCK FALSE
INVARIANTS RunsInOwnSpace StackIsOwn
