CONSTANTS
  Node = {a, b, c}
  Edges = 3
  Tags = 2
  FreshTags = TRUE
SPECIFICATION FairSpec
INVARIANTS
  ListsAgree
  VisitsAll
PROPERTIES
  TraversalEnds
