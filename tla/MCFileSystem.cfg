SPECIFICATION FsSpec
CONSTANTS
  NULL = NULL
  header = header
  tailer = tailer
  MaxPrim = 4
  MaxLogic = 2
  Disks <- MCDisks
  PartSize = 10
  inode_bitmap_sects = 1
  inode_table_sects = 5
  ByteBits = 8
  SECTOR_SIZE = 2
  CrashDisks <- MCCrashDisks
  MaxCrash = 1
CHECK_DEADLOCK FALSE
INVARIANTS ScanInBounds ScanFindsAll BuffersGivenBack MountedAsWritten
PROPERTIES FormatStaysInside DefaultIsMounted
