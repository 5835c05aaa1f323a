CONSTANTS
  Miners <- MCMiners
  MinerPow <- MCMinerPow
  Seeds = {s1, s2}
  Epochs = {e1, e2}
  InvalidId = InvalidId
  Torn = Torn
  Free = Free
  Overlap = TRUE
  MaxJobs = 3
SPECIFICATION Spec
INVARIANT EpochReadyNamesContent
PROPERTY DatasetStable
CHECK_DEADLOCK FALSE
SYMMETRY MCSymmetry
