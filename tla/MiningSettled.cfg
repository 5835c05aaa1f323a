CONSTANTS
  Miners <- MCMiners
  MinerPow <- MCMinerPow
  Seeds = {s1, s2}
  Epochs = {e1, e2}
  InvalidId = InvalidId
  Torn = Torn
  Free = Free
  Overlap = FALSE
  MaxJobs = 3
SPECIFICATION FairSpec
INVARIANT TypeOK
INVARIANT WorksOnRightDataset
INVARIANT ReadyNamesContent
INVARIANT UnreadyIsInCalculation
PROPERTY MiningStarts
PROPERTY OutdatedJobAbandoned
CHECK_DEADLOCK FALSE
