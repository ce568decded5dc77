\* Two calls and two discoveries overlap with the heartbeats of two connections in turn; the clock outlasts every lease.
SPECIFICATION FairSpec
CONSTANTS
  Handles = {h1, h2}
  NoHandle = NoHandle
  Calls = {c1, c2}
  Capacity = 2
  GrantedModes = {"hard", "legacy"}
  TTL = 2
  HEARTBEAT_MAX_MISSES = 2
  MaxScans = 2
  LastCall = 2
  LastLoss = 5
  MaxTime = 12
INVARIANTS TypeOK OneTimerPerConnection ConnectionIsHeld LastWordWins
PROPERTIES UsesContract OrphansEnd
\* The clock stops at MaxTime.
CHECK_DEADLOCK FALSE
