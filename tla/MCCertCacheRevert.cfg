CONSTANTS
  Base = {b}
  Leaf = {l1}
  Top = {}
  jobs = 1
  MaxVersion = 2
  Reuse = {}
  Racing = {}
SPECIFICATION Spec
INVARIANT LeafIsCurrent
