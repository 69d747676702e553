CONSTANTS
  q = 7
  MAX_LOGW = 2
  Circuits <- MCCircuits
  Challenges = {2, 5}
  Points <- MCPoints
  Changed = {1, 8}
  Inputs <- MCInputs
  PadTapes <- MCPadTapes
SPECIFICATION Spec
INVARIANTS
  Complete
  RolesAgree
  CompiledFaithfully
  TensorIsBound
  WrongClaimSurvives
CHECK_DEADLOCK FALSE
