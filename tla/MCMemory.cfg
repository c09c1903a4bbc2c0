SPECIFICATION MCSpec
CONSTANTS
  ByteBits = 4
  KLen = 2
  ULen = 1
  PageSize = 5
  ArenaSize = 1
  MinBlock = 2
  DESC_CNT = 2
  Counts = {2}
  Sizes <- MCSizes
  Proc = {p1, p2}
  BitmapPages = 1
  MaxRun = 2
  NULL = NULL
CONSTRAINT Competing
SYMMETRY ProcSymmetry
CHECK_DEADLOCK FALSE
INVARIANTS PagesBacked FramesExclusive HeapSound
