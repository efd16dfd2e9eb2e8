CONSTANTS
  Byte = {a, b}
  Junk = Junk
  InitSizes = {0, 1, 3}
  MaxChunk = 3
  Chunks <- ShortChunks
  Requests = {0, 1, 2, 3, 6}
  MaxFill = 5
SPECIFICATION FairSpec
INVARIANTS
  CursorsAgree
PROPERTIES
  ImplementsByteQueue
  GrowthIsTight
  PutReturns
