CONSTANTS
  q = 3
  Scenarios <- MCScenarios
  Damages = {"none", "truncated", "extended", "mac", "hash", "sig", "proof"}
SPECIFICATION Spec
INVARIANTS
  Complete
  AcceptedMeansAsked
  MacTies
  
CHECK_DEADLOCK FALSE
