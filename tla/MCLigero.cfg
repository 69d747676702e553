CONSTANTS
  q = 11
  nw = 3
  nq = 3
  nl = 2
  block_enc = 11
  rateinv = 1
  nreq = 2
  Lossy <- MCLossy
  Known = {0, 1, 10}
  Coefficients = {0, 3}
  llterm <- MCllterm
  lqc <- MClqc
  Witnesses <- MCWitnesses
  Evals <- MCEvals
  Coins <- MCCoins
  Tapes <- MCTapes
SPECIFICATION Spec
INVARIANTS Complete AcceptedCombination ChangesCaught
CHECK_DEADLOCK FALSE
