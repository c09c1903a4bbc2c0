SPECIFICATION Spec
CONSTANTS
  ByteBits = 4
  MapLen = 3
  MaxCnt = 4
  NULL = NULL
  h1 = h1
  t1 = t1
  h2 = h2
  t2 = t2
  Elem = {a, b, c}
  Word = 2
  AreaLen = 5
  Bytes = {0, 1, 200}
  Ints = 32
  TextChar = {"q"}
  WidthDigit = {"2"}
  IntArg = {0, 16, 29}
  LongLongArg = {512, 1000}
  StrArg <- MCStrArg
  ErrArg <- MCErrArg
  StarArg <- MCStarArg
  BufSize = {0, 2}
  MaxFmt = 5
  MaxEscape = 1
  NUL = NUL
  NONE = NONE
CHECK_DEADLOCK FALSE
INVARIANTS ScanFindsRuns ListsAreSequences StringsAgree NumbersReadBack KeepsToItsBuffers
