CONSTANTS
  Base = {b}
  Leaf = {l1, l2}
  Top = {}
  jobs = 2
  MaxVersion = 2
  Reuse = {l1}
  Racing = {b}
SPECIFICATION FairSpec
INVARIANTS TypeOK AcceptedIsCurrent PoolReports OrderlyLeafIsCurrent
PROPERTIES ReuseUntouched Terminates
