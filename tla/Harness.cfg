\* Heartbeats every time unit, up to one late, a timeout of two; one stop, so that two calls of start and two discoveries overlap.
SPECIFICATION FairSpec
CONSTANTS
  p1 = p1
  p2 = p2
  Partners = {p1, p2}
  Inbound <- Shared
  Outbound = {}
  HeartbeatInterval = 1
  HeartbeatTimeout = 2
  Late = 1
  MaxScans = 2
  MaxStops = 1
INVARIANTS TypeOK ActiveProviderConnected OneHeartbeatPerPartner DeadIsDropped
PROPERTIES LivePartnerStays PartnerIsFound
