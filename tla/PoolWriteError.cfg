CONSTANTS
  NBufs = 2
  NSlots = 2
  MaxCalls = 2
  PoolMiners = {m0}
  NoMiner = NoMiner
  Faults = {"write_error"}
SPECIFICATION Spec
INVARIANT SendRequestIsFree
CHECK_DEADLOCK FALSE
