CONSTANTS
  Byte <- Bytes
  Newline = 10
  ReadSize = 3
  Requests = {0, 1, 2, 4}
  LineSizes = {1, 2, 4}
  MaxStream = 5
SPECIFICATION FairSpec
INVARIANTS
  LineFits
PROPERTIES
  ImplementsByteStream
  Drained
