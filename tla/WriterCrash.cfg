SPECIFICATION Spec
CONSTANTS
  Record <- SmallRecords
  MaxSizes = {0, 7, 14}
  Comps = {"plain", "gzip", "detect"}
  Faults = {"nomem", "crash"}
  TrailerLen = 2
  ExtraLen = 2
  StaticLen = 1
  W32 = 8
  W64 = 64
  MaxMembers = 3
INVARIANTS
  TypeOK
PROPERTIES
  ArchiveSpec
  GzipRecordsSurvive
  RefusedOnlyWhenFull
