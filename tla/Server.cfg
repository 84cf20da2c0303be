SPECIFICATION Spec
CONSTANTS
  c1 = c1
  c2 = c2
  Client = {c1, c2}
  Question <- Asked
  FirstFile <- Files
  Mode = {"plain", "gzip"}
  Coming <- Appended
  MaxBorn = 3
  Chunk = 3
  HeaderLen = 1
  I31 = 8
  WriteSize = 4
  ListText <- Text
  W32 = 64
INVARIANTS
  TypeOK
  ReplyHoldsStored
  LengthHonest
  WellFormed
  StopAnswered
  OkIsWhole
PROPERTIES
  CallsReturn
  StopEnds
CHECK_DEADLOCK FALSE
