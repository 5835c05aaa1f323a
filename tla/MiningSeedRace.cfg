CONSTANTS
  Miners <- MCMiners
  MinerPow <- MCMinerPow
  Seeds = {s1, s2}
  Epochs = {e1}
  InvalidId = InvalidId
  Torn = Torn
  Free = Free
  Overlap = TRUE
  MaxJobs = 3
SPECIFICATION Spec
INVARIANT SeedReadyNamesContent
CHECK_DEADLOCK FALSE
