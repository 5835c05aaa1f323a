CONSTANTS
  NBufs = 3
  NSlots = 3
  MaxCalls = 4
  PoolMiners = {m0, m1}
  NoMiner = NoMiner
  Faults = {"resolv_refused", "connect_sync", "slow_dns"}
SPECIFICATION FairSpec
INVARIANT TypeOK
INVARIANT NoAssertFails
INVARIANT RepliesFindTheirCall
PROPERTY NoLimbo
PROPERTY LossIdlesMiners
CHECK_DEADLOCK FALSE
