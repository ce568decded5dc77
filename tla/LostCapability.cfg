\* Two partners provide "voice".  One is lost, and the other is still connected.
SPECIFICATION Spec
CONSTANTS
  p1 = p1
  p2 = p2
  Partners = {p1, p2}
  Inbound <- Shared
  Outbound = {}
  HeartbeatInterval = 1
  HeartbeatTimeout = 2
  Late = 0
  MaxScans = 2
  MaxStops = 1
INVARIANT CapabilityAvailable
