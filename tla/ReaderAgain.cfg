SPECIFICATION Spec
CONSTANTS
  Files <- IntactFiles
  Handle = {h1, h2}
  Faults = {}
  TrailerLen = 2
  CheckLen = 2
  GzipHeader = 3
  BufLen = 4
  W32 = 64
  W64 = 4096
  MaxRegister = 2
INVARIANTS
  ContentExact
CHECK_DEADLOCK FALSE
