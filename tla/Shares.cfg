CONSTANTS
  Miners = {rx, pp}
  NoMiner = NoMiner
  Targets = {2}
  MaxDiff = 4
  NonceMod = 4
  Chunk = 2
  MaxJobs = 2
  MaxDraws = 3
  MaxShares = 2
SPECIFICATION Spec
INVARIANT TypeOK
INVARIANT SubmittedOnce
INVARIANT NoneLeftBehind
INVARIANT OnlyChunkStarts
PROPERTY CreditedUntilReplaced
PROPERTY IsSession
CHECK_DEADLOCK FALSE
