SPECIFICATION Spec
CONSTANTS
  Files <- SomeFiles
  Handle = {h1, h2}
  Faults = {"nomem"}
  TrailerLen = 2
  CheckLen = 2
  GzipHeader = 3
  BufLen = 4
  W32 = 64
  W64 = 4096
  MaxRegister = 2
INVARIANTS
  TypeOK
  AtRecord
  ContentOnce
PROPERTIES
  StreamSpec
CHECK_DEADLOCK FALSE
