SPECIFICATION Spec
CONSTANTS
  Record <- FewRecords
  MaxSizes = {0, 7, 9, 14}
  Comps = {"plain", "gzip"}
  Faults = {"io"}
  TrailerLen = 2
  ExtraLen = 2
  StaticLen = 1
  W32 = 8
  W64 = 64
  MaxMembers = 3
INVARIANTS
  AckedIsWhole
