CONSTANTS
  NBufs = 2
  NSlots = 2
  MaxCalls = 2
  PoolMiners = {m0}
  NoMiner = NoMiner
  Faults = {"slow_close"}
SPECIFICATION Spec
INVARIANT SocketIsFree
CHECK_DEADLOCK FALSE
