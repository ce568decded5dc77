\* A degraded connection is disconnected: its entry stays degraded.
SPECIFICATION Spec
CONSTANTS
  Handles = {h1, h2}
  NoHandle = NoHandle
  Calls = {c1, c2}
  Capacity = 2
  GrantedModes = {"hard", "legacy"}
  TTL = 2
  HEARTBEAT_MAX_MISSES = 2
  MaxScans = 2
  LastCall = 2
  LastLoss = 5
  MaxTime = 12
INVARIANT ShownIsConnected
\* The clock stops at MaxTime.
CHECK_DEADLOCK FALSE
