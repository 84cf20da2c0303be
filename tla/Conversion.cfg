SPECIFICATION Spec
CONSTANTS
  h1 = h1
  h2 = h2
  Handle = {h1, h2}
  Arcs <- SomeArcs
  Disk = {"room", "full"}
  Flush = 2
  W32 = 64
  Program = {"arc2warc", "other"}
  Limit = 10
  HeaderSizes = {1}
  MaxCalls = 6
INVARIANTS
  TypeOK
  OwnContent
  ConvertedExactly
  ZeroIsAll
  RegularIsConverted
PROPERTIES
  StreamSpec
  Ends
CHECK_DEADLOCK FALSE
