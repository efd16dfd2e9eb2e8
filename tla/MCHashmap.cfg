CONSTANTS
  Key <- MCKey
  Value = {x, y}
  None = None
  Buckets = 3
  Hash <- MCHash
  MaxList = 4
  MallocFails = FALSE
SPECIFICATION Spec
SYMMETRY Renamings
INVARIANTS
  IterationVisitsUntouched
PROPERTIES
  ImplementsMap
  IterationPairs
