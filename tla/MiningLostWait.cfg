CONSTANTS
  Miners <- MCMiners
  MinerPow <- MCMinerPow
  Seeds = {s1}
  Epochs = {e1, e2}
  InvalidId = InvalidId
  Torn = Torn
  Free = Free
  Overlap = TRUE
  MaxJobs = 3
SPECIFICATION Spec
INVARIANT UnreadyIsInCalculation
CHECK_DEADLOCK FALSE
