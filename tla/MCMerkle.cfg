CONSTANTS
  Leaves = {1, 2, 3, 4, 5}
  Column = {a, b}
  Nonce = {x, y}
  DisputedLeaves = 3
  DisputedQueries = 2
  Foreign = {f}
  MaxQueries = 3
  MaxPath = 2
SPECIFICATION Spec
INVARIANTS TypeOK Binding CanonicalPath Complete
CHECK_DEADLOCK FALSE
