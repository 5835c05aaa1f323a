CONSTANTS
  NBufs = 2
  NSlots = 2
  MaxCalls = 2
  PoolMiners = {m0}
  NoMiner = NoMiner
  Faults = {"resolv_refused", "dns_error", "slow_dns", "connect_sync", "slow_close", "shutdown_refused", "write_error", "late_result", "burst", "unanswered"}
SPECIFICATION Spec
INVARIANT LiveStateHasSocket
INVARIANT ConnectingHasRequest
INVARIANT OneShutdown
PROPERTY IsSession
CHECK_DEADLOCK FALSE
