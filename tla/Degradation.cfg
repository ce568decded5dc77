\* The reader of stdout goes away before a disconnect.
SPECIFICATION ServerSpec
CONSTANTS
  Handles = {h1}
  Consumers = {alice}
  Capabilities = {}
  Offers = {}
  TTLs = {1}
  NoLease = NoLease
  NoHandle = NoHandle
  MIN_TTL = 1
  MAX_TTL = 1
  MAX_ACTIVE_HANDLES = 1
  MAX_ATTESTATIONS = 1
  MaxPause = 0
  LastRequest = 1
  MaxTime = 1
  Exchanges = {e1, e2, e3}
  Listeners = {v4, v6}
  MAX_HTTP_CONNECTIONS = 1
  Faults = {"stdout"}
INVARIANTS DegradesGracefully
CHECK_DEADLOCK FALSE
