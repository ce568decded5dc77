\* Two exchanges share one permit; peers may do nothing at all, and the clock outlasts every lease.
SPECIFICATION FairServerSpec
CONSTANTS
  Handles = {h1}
  Consumers = {alice}
  Capabilities = {}
  Offers = {}
  TTLs = {1}
  NoLease = NoLease
  NoHandle = NoHandle
  MIN_TTL = 1
  MAX_TTL = 1
  MAX_ACTIVE_HANDLES = 1
  MAX_ATTESTATIONS = 1
  MaxPause = 0
  LastRequest = 1
  MaxTime = 4
  Exchanges = {e1, e2}
  Listeners = {v4, v6}
  MAX_HTTP_CONNECTIONS = 1
  Faults = {"accept", "stdout"}
PROPERTIES ExchangesEnd LeasesEnd
CHECK_DEADLOCK FALSE
