SPECIFICATION Spec
CONSTANTS
  Written <- MCWritten
  Foreign <- MCForeign
  Numeral <- MCNumeral
  Units = {2, 3, 8}
  Allocs = {2, 3}
  MaxCopies = 2
INVARIANTS
  TypeOK
  Counted
  WrittenIsRead
  PayloadExact
  ChunksTile
  CopyCompletes
PROPERTY BlocEnds
CHECK_DEADLOCK FALSE
