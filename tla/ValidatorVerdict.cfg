SPECIFICATION VSpec
CONSTANTS
  Files <- EndingFiles
  Handle = {r}
  Faults = {}
  TrailerLen = 2
  CheckLen = 2
  GzipHeader = 3
  BufLen = 4
  W32 = 64
  W64 = 4096
  MaxRegister = 1
INVARIANTS
  ValidatorSound
CHECK_DEADLOCK FALSE
