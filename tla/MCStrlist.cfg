CONSTANTS
  Elem = {b1, b2, b3, b4}
  Str = {s, t}
  Freed = Freed
  None = None
  Nodes = 3
  Index <- Positions
SYMMETRY Renamings
SPECIFICATION SSpec
INVARIANTS
  OwnsStrings
PROPERTIES
  FreedWithPlace
  ImplementsList
