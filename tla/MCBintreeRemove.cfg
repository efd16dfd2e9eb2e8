CONSTANTS
  Key = {1, 2, 3, 4}
  Nodes = 4
SPECIFICATION TreeSpec
PROPERTIES
  RemovesOnlyThat
