CONSTANTS
  Elem = {a, b}
  None = None
  Junk = Junk
  InitSizes = {0, 2, 3}
  Factors = {1, 2}
  MallocFails = TRUE
  MaxCount = 3
  MaxBias = 3
  MaxSize = 8
  Pointer = {p, q}
  NULL = NULL
  Unwritten = Unwritten
  FirstSizes = {0, 1, 3}
  Index <- Indices
  CountFactors = {1, 2}
  Rank = {1, 2, 3}
  Nothing = Nothing
  Rubbish = Rubbish
  HeapSize = 2
  MaxHeap = 6
SPECIFICATION ArraysFairSpec
INVARIANTS
  TypeOK
  UnwrittenIsNull
  HeapOrder
PROPERTIES
  ImplementsSides
  PushReturns
  OthersStay
  ImplementsPriorityQueue
