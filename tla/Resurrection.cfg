\* The clock may pass a hard lease's end between the sweep and the refresh.
SPECIFICATION Spec
CONSTANTS
  Handles = {h1, h2}
  Consumers = {alice}
  Capabilities = {attestation, voice}
  Offers = {attestation}
  TTLs = {1}
  NoLease = NoLease
  NoHandle = NoHandle
  MIN_TTL = 1
  MAX_TTL = 2
  MAX_ACTIVE_HANDLES = 2
  MAX_ATTESTATIONS = 2
  MaxPause = 1
  LastRequest = 3
  MaxTime = 5
PROPERTIES NoResurrection
