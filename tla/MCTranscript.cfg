CONSTANTS
  Replica = {p, v}
  Byte = {0, 1, 2}
  EltSizes = {1, 2}
  PrfBlock = 2
  MAX_PRF_BLOCKS = 2
  MaxAbsorbed = 7
  MaxLen = 2
  MaxPrefix = 1
  MaxDraw = 5
  MaxKeyed = 4
SPECIFICATION Spec
INVARIANTS TypeOK ChallengeBound Agreement Canonical
PROPERTY ImplementsOracle
CHECK_DEADLOCK FALSE
