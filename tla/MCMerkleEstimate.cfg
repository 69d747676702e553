CONSTANTS
  Leaves = {1, 2, 3, 4, 5}
  Column = {a, b}
  Nonce = {x}
  DisputedLeaves = 0
  DisputedQueries = 0
  Foreign = {}
  MaxQueries = 3
  MaxPath = 0
SPECIFICATION Spec
INVARIANT EstimateByLevel
CHECK_DEADLOCK FALSE
