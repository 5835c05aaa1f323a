CONSTANTS
  Miners = {rx, pp}
  NoMiner = NoMiner
  Targets = {2}
  MaxDiff = 4
  NonceMod = 2
  Chunk = 2
  MaxJobs = 2
  MaxDraws = 1
  MaxShares = 3
SPECIFICATION FairSpec
PROPERTY DeliversAll
CHECK_DEADLOCK FALSE
