CONSTANTS
  ByteBits = 2
  MaxN = 5
SPECIFICATION Spec
INVARIANTS TypeOK ChosenDistinct Unbiased
CHECK_DEADLOCK FALSE
